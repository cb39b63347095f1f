------------------------------ MODULE XBeeBroker ------------------------------
(***************************************************************************)
(* The XBee broker (ServerCoapBroker) and the Arduino behind its radio     *)
(* (Arduino Server): CoAP exchanges that share one serial port.            *)
(*                                                                         *)
(* A PUT writes a command byte. A GET writes a request byte and starts a   *)
(* thread that takes the next byte the port delivers, whoever it is for:   *)
(* the protocol has no addresses and no numbers. Californium runs handlers *)
(* on a pool of threads, so every step of an exchange is an action.        *)
(***************************************************************************)
EXTENDS Naturals, FiniteSets, SequencesExt

CONSTANTS
    Exchanges,  \* the exchanges of a behaviour; a notification is one, too
    Modes,      \* the broker modes (servers 1, 2, 3) that are looked at
    Leds,       \* the light emitting diodes of server 1 that are looked at
    BUFFER_SIZE \* bytes that the Arduino's software serial port keeps

ASSUME ExchangesAssumption == IsFiniteSet(Exchanges)
ASSUME ModesAssumption == Modes \subseteq {1, 2, 3}
ASSUME LedsAssumption == Leds \subseteq 1 .. 9
ASSUME BufferAssumption == BUFFER_SIZE \in Nat

-------------------------------------------------------------------------------
(* The broker's resources: ControlableResourceFactory and                  *)
(* ReadonlyResourceFactory, as DirectoryResourceFactory puts them in rooms.*)
LedOn == <<"1", "2", "3", "4", "5", "6", "7", "8", "9">>
(* Mutant: Led5 got the off byte of Led4.                                  *)
LedOffTypo == <<"Q", "W", "E", "A", "A", "Z", "X", "I", "O">>
LedOff == <<"Q", "W", "E", "A", "S", "Z", "X", "I", "O">>
LedReq == <<"q", "w", "e", "a", "s", "z", "x", "i", "o">>
LedRoom == <<"Bedroom", "Bedroom", "Bedroom", "Bathroom", "Bathroom",
             "Living", "Living", "Kitchen", "Yard">>

Led(i) == [room |-> LedRoom[i], unit |-> i, on |-> LedOn[i], off |-> LedOff[i],
           req |-> LedReq[i]]
Window(room) == [room |-> room, unit |-> 1, on |-> "H", off |-> "L",
                 req |-> "l"]

Controlables(mode) ==
    CASE mode = 1 -> {Led(i) : i \in Leds}
      [] mode = 2 -> {Window("Bedroom")}
      [] mode = 3 -> {Window("Yard")}

(* The request bytes of read-only resources.                               *)
Readonlys(mode) == IF mode = 2 THEN {"P"} ELSE {}

(* What the sketch of each server does with a byte: it drives an output,   *)
(* whose name in the sketch says the room, or it answers (PPM), or nothing.*)
Server1 ==
    {<<"1", "Bedroom", 1, TRUE>>, <<"Q", "Bedroom", 1, FALSE>>,
     <<"2", "Bedroom", 2, TRUE>>, <<"W", "Bedroom", 2, FALSE>>,
     <<"3", "Bedroom", 3, TRUE>>, <<"E", "Bedroom", 3, FALSE>>,
     <<"4", "Bathroom", 4, TRUE>>, <<"A", "Bathroom", 4, FALSE>>,
     <<"5", "Bathroom", 5, TRUE>>, <<"S", "Bathroom", 5, FALSE>>,
     <<"6", "Living", 6, TRUE>>, <<"Z", "Living", 6, FALSE>>,
     <<"7", "Living", 7, TRUE>>, <<"X", "Living", 7, FALSE>>,
     <<"8", "Kitchen", 8, TRUE>>, <<"I", "Kitchen", 8, FALSE>>,
     <<"9", "Yard", 9, TRUE>>, <<"O", "Yard", 9, FALSE>>}
Server2 == {<<"H", "Bedroom", 1, TRUE>>, <<"L", "Bedroom", 1, FALSE>>}
(* The motor's direction; the motion alarm drives other pins.              *)
Server3 == {<<"R", "Yard", 1, TRUE>>, <<"T", "Yard", 1, FALSE>>}
NodeCommands(mode) == <<Server1, Server2, Server3>>[mode]
NodeAnswers(mode, byte) == mode = 2 /\ byte = "P"

(* A reading is any byte; the two that a status means are told apart.      *)
ReadingBytes == {"1", "Q", "other"}

-------------------------------------------------------------------------------
VARIABLES
    mode,         \* the server's mode
    step,         \* of each exchange: idle, written, waiting, answered, silent
    kind,         \* of each exchange: none, put, status, reading
    answer,       \* of each exchange: what the client is told
    wire,         \* bytes on their way to the Arduino
    inbox,        \* bytes the serial port has received
    outputs,      \* the Arduino's outputs that are on
    commanded,    \* history: the outputs that PUTs last switched on
    unanswerable, \* history: requests the Arduino ignored or never got
    skipped,      \* history: threads that gave up without a byte
    lost          \* history: the outputs that a lost byte was for

vars == <<mode, step, kind, answer, wire, inbox, outputs, commanded,
          unanswerable, skipped, lost>>

Steps == {"idle", "written", "waiting", "answered", "silent"}
Kinds == {"none", "put", "status", "reading"}
Answers == {"none", "CHANGED", "BAD_REQUEST", "ioexception", "ON", "OFF",
            "ERROR1", "ERROR2", "value", "NOT_FOUND"}

(* The bytes and the outputs of the broker's resources.                    *)
Bytes == Readonlys(mode) \cup UNION {{r.on, r.off, r.req} : r \in Controlables(mode)}
Units == {<<r.room, r.unit>> : r \in Controlables(mode)}

TypeOK ==
    /\ mode \in Modes
    /\ step \in [Exchanges -> Steps]
    /\ kind \in [Exchanges -> Kinds]
    /\ answer \in [Exchanges -> Answers]
    /\ wire \in Seq(Bytes)
    /\ inbox \in Seq(ReadingBytes)
    /\ outputs \cup commanded \subseteq Units
    /\ lost \subseteq {<<c[2], c[3]>> : c \in NodeCommands(mode)}
    /\ unanswerable \in Nat
    /\ skipped \in Nat

Init ==
    /\ mode \in Modes
    /\ step = [e \in Exchanges |-> "idle"]
    /\ kind = [e \in Exchanges |-> "none"]
    /\ answer = [e \in Exchanges |-> "none"]
    /\ wire = <<>>
    /\ inbox = <<>>
    /\ outputs = {}
    /\ commanded = {}
    /\ unanswerable = 0
    /\ skipped = 0
    /\ lost = {}

Answer(e, a) ==
    /\ step' = [step EXCEPT ![e] = "answered"]
    /\ answer' = [answer EXCEPT ![e] = a]

(* Output o of room and unit is switched on or off.                        *)
Switched(set, o, on) == IF on THEN set \cup {o} ELSE set \ {o}

IsRequest(byte) ==
    byte \in Readonlys(mode) \/ \E r \in Controlables(mode) : byte = r.req

(* A byte that gets lost is a command or a request.                        *)
Lose(byte) ==
    /\ lost' = lost \cup {<<c[2], c[3]>> : c \in {k \in NodeCommands(mode) : k[1] = byte}}
    /\ unanswerable' = IF IsRequest(byte) THEN unanswerable + 1 ELSE unanswerable

(* serial.getOutputStream().write: the byte is on its way; if the sketch is*)
(* busy with earlier ones, its buffer may have no room for it.             *)
Write(byte) ==
    \/ wire' = Append(wire, byte) /\ UNCHANGED <<unanswerable, lost>>
    \/ Len(wire) >= BUFFER_SIZE /\ Lose(byte) /\ UNCHANGED wire

(* handlePUT of resource r with ON or OFF: the byte is written, or an      *)
(* IOException answers.                                                    *)
PutTo(e, r, on) ==
    /\ step[e] = "idle"
    /\ kind' = [kind EXCEPT ![e] = "put"]
    /\ \/ /\ Write(IF on THEN r.on ELSE r.off)
          /\ commanded' = Switched(commanded, <<r.room, r.unit>>, on)
          /\ step' = [step EXCEPT ![e] = "written"]
          /\ UNCHANGED answer
       \/ /\ Answer(e, "ioexception")
          /\ UNCHANGED <<wire, commanded, unanswerable, lost>>
    /\ UNCHANGED <<mode, inbox, outputs, skipped>>

(* handlePUT with another payload: it is refused.                          *)
PutWrong(e) ==
    /\ step[e] = "idle"
    /\ kind' = [kind EXCEPT ![e] = "put"]
    /\ Answer(e, "BAD_REQUEST")
    /\ UNCHANGED <<mode, wire, inbox, outputs, commanded, unanswerable, skipped,
                   lost>>

Put(e) == PutWrong(e) \/ \E r \in Controlables(mode), on \in BOOLEAN : PutTo(e, r, on)

(* The rest of handlePUT: nothing is read back.                            *)
PutAnswers(e) ==
    /\ step[e] = "written"
    /\ Answer(e, "CHANGED")
    /\ UNCHANGED <<mode, kind, wire, inbox, outputs, commanded, unanswerable,
                   skipped, lost>>

(* handleGET: write the request byte and start the thread that reads. If   *)
(* the write fails the exchange is never answered.                         *)
Get(e) ==
    /\ step[e] = "idle"
    /\ \E q \in {r.req : r \in Controlables(mode)} \cup Readonlys(mode) :
          /\ kind' = [kind EXCEPT ![e] = IF q \in Readonlys(mode)
                                         THEN "reading" ELSE "status"]
          /\ \/ /\ Write(q)
                /\ step' = [step EXCEPT ![e] = "waiting"]
             \/ /\ step' = [step EXCEPT ![e] = "silent"]
                /\ UNCHANGED <<wire, unanswerable, lost>>
    /\ UNCHANGED <<mode, answer, inbox, outputs, commanded, skipped>>

(* What a thread makes of a byte depends on its resource alone.            *)
AnswerTo(k, byte) ==
    CASE k = "reading" -> "value"
      [] k = "status" /\ byte = "1" -> "ON"
      [] k = "status" /\ byte = "Q" -> "OFF"
      [] OTHER -> "ERROR1"

(* Mutant: the thread takes all that the port has, and uses the first byte.*)
ReadByteDrain(e) ==
    /\ step[e] = "waiting"
    /\ inbox # <<>>
    /\ inbox' = <<>>
    /\ Answer(e, AnswerTo(kind[e], Head(inbox)))
    /\ UNCHANGED <<mode, kind, wire, outputs, commanded, unanswerable, skipped,
                   lost>>

(* A blocked thread gets the first byte the port has.                      *)
ReadByte(e) ==
    /\ step[e] = "waiting"
    /\ inbox # <<>>
    /\ inbox' = Tail(inbox)
    /\ Answer(e, AnswerTo(kind[e], Head(inbox)))
    /\ UNCHANGED <<mode, kind, wire, outputs, commanded, unanswerable, skipped,
                   lost>>

(* read() throws, or reports the end of the stream.                        *)
ReadFails(e) ==
    /\ step[e] = "waiting"
    /\ \/ Answer(e, "ERROR2")
       \/ Answer(e, IF kind[e] = "reading" THEN "NOT_FOUND" ELSE "ERROR1")
    /\ skipped' = skipped + 1
    /\ UNCHANGED <<mode, kind, wire, inbox, outputs, commanded, unanswerable,
                   lost>>

(* The Arduino's loop() takes one byte.                                    *)
ArduinoLoop ==
    LET byte == Head(wire)
        commands == {c \in NodeCommands(mode) : c[1] = byte}
    IN  /\ wire # <<>>
        /\ wire' = Tail(wire)
        /\ \/ /\ \E c \in commands :
                    outputs' = Switched(outputs, <<c[2], c[3]>>, c[4])
              /\ UNCHANGED <<inbox, unanswerable>>
           \/ /\ NodeAnswers(mode, byte)
              /\ \E b \in ReadingBytes : inbox' = Append(inbox, b)
              /\ UNCHANGED <<outputs, unanswerable>>
           \/ /\ commands = {} /\ ~NodeAnswers(mode, byte)
              /\ unanswerable' =
                   IF IsRequest(byte) THEN unanswerable + 1 ELSE unanswerable
              /\ UNCHANGED <<outputs, inbox>>
        /\ UNCHANGED <<mode, step, kind, answer, commanded, skipped, lost>>

(* The radio loses a byte, or the answer to one.                           *)
RadioLoses ==
    /\ \/ /\ wire # <<>>
          /\ wire' = Tail(wire)
          /\ Lose(Head(wire))
          /\ UNCHANGED inbox
       \/ /\ inbox # <<>>
          /\ inbox' = Front(inbox)
          /\ unanswerable' = unanswerable + 1
          /\ UNCHANGED <<wire, lost>>
    /\ UNCHANGED <<mode, step, kind, answer, outputs, commanded, skipped>>

Next ==
    \/ \E e \in Exchanges :
          Put(e) \/ PutAnswers(e) \/ Get(e) \/ ReadByte(e) \/ ReadFails(e)
    \/ ArduinoLoop
    \/ RadioLoses

Spec == Init /\ [][Next]_vars

(* Threads run, and so does the Arduino.                                   *)
FairSpec ==
    /\ Spec
    /\ \A e \in Exchanges : WF_vars(PutAnswers(e)) /\ WF_vars(ReadByte(e))
    /\ WF_vars(ArduinoLoop)
-------------------------------------------------------------------------------
Waiting == {e \in Exchanges : step[e] = "waiting"}
Asked == {i \in 1 .. Len(wire) : IsRequest(wire[i])}

(* Every request that will bring no byte costs the broker exactly one      *)
(* blocked thread, and every thread that gave up leaves one byte too many: *)
(* nothing in the broker ever brings the two back into step.               *)
ThreadsAccounted ==
    Cardinality(Waiting) + skipped =
        Cardinality(Asked) + Len(inbox) + unanswerable

(* The outputs whose resources write bytes that the sketch knows. (The     *)
(* yard's resource of mode 3 is not one: it writes the window's bytes.)    *)
Reachable ==
    {<<r.room, r.unit>> : r \in {c \in Controlables(mode) :
                                  \E k \in NodeCommands(mode) : k[1] = c.on}}

(* Once the radio is quiet, every output is where the last PUT to its      *)
(* resource, in the order of the writes, put it, but for those that lost a *)
(* command of their own: no PUT or GET for one resource moves the output of*)
(* another, whatever is lost between them.                                 *)
LastCommandWins ==
    wire = <<>> => outputs \ lost = (commanded \cap Reachable) \ lost

(* A GET can only starve because of a request that brought no byte.        *)
StarvesOnlyByTheft ==
    \A e \in Exchanges :
       step[e] = "waiting" ~> step[e] = "answered" \/ unanswerable > 0
-------------------------------------------------------------------------------
(* What comments and messages say, and the code does not do.               *)

(* ControlableResource.java:16: the request byte asks the Arduino, so a    *)
(* GET is answered.                                                        *)
GetIsAnswered ==
    \A e \in Exchanges : step[e] = "waiting" ~> step[e] = "answered"

(* ControlableResource.java:41: an answer that is neither on nor off means *)
(* that the node is not connected, not that it measured something.         *)
Error1MeansNoNode ==
    \A e \in Exchanges : answer[e] = "ERROR1" => skipped > 0
===============================================================================
