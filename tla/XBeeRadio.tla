------------------------------ MODULE XBeeRadio ------------------------------
(***************************************************************************)
(* The sketches' radio library (XbeeRadio.cpp): how it configures the XBee *)
(* modem at the end of a serial line. initialize_xbee_module brings a modem*)
(* of unknown baud rate into API mode, in text commands; init sets the     *)
(* parameters in API frames. A sketch calls one or the other.              *)
(*                                                                         *)
(* The modem, the line and the radio are external: a command or its answer *)
(* may be lost, a command may be refused, an answer may come after its time*)
(* is out, and packets from other nodes come between the answers.          *)
(***************************************************************************)
EXTENDS Integers, SequencesExt

CONSTANTS
    Bauds,      \* the rates that setup_baudrate tries, in its order
    Tries,      \* attempts of setup_command
    MaxFaults,  \* bound: lost or refused commands, lost or late answers
    MaxForeign  \* bound: packets from other nodes

ASSUME BaudsAssumption == Bauds \in Seq(Nat) /\ Bauds # <<>>
ASSUME TriesAssumption == Tries \in Nat \ {0}
ASSUME BoundsAssumption == MaxFaults \in Nat /\ MaxForeign \in Nat

(* What a sketch runs, in order. VR and the channel are tried only once.   *)
Setup == <<"VR", "search", "ATAP2", "ATBD5", "ATAC", "set up">>
Script == <<"SL", "MY", "CH", "ID", "AP", "MM", "AC", "channel", "ready">>
Frames == {"VR", "SL", "MY", "CH", "ID", "AP", "MM", "AC", "channel"}
Texts == {"ATAP2", "ATBD5", "ATAC"}
Steps == Range(Setup) \cup Range(Script)

(* The step after s, once it has succeeded.                                *)
After(s) ==
    LET list == IF s \in Range(Setup) THEN Setup ELSE Script
        i == CHOOSE j \in DOMAIN list : list[j] = s
    IN  list[i + 1]

NEW_BAUD == 38400 \* of ATBD5

VARIABLES
    at,      \* the step the sketch is in
    sent,    \* a frame has been sent and readPacket is waiting
    k,       \* setup_baudrate's k: the rate of Serial
    tries,   \* setup_command's i
    in,      \* frames that have reached the sketch: answers and packets
    late,    \* successful answers that the modem has not sent in time
    baud,    \* of the modem
    api,     \* the modem is in API mode
    pending, \* text commands that ATAC will bring into effect
    applied, \* frames the modem has carried out
    faults,  \* history: faults so far
    foreign, \* history: packets so far
    doubtful,\* history: commands that failed with another's answer to come
    failed   \* history: the faults of each text command

sketch == <<at, sent, k, tries>>
modem == <<baud, api, pending, applied>>
history == <<foreign, doubtful, failed>>
vars == <<sketch, in, late, modem, faults, history>>

(* What readPacket returns: the API ID, and of an AT response its status   *)
(* (getApiId, isOk).                                                       *)
ApiIds == {"AT_COMMAND_RESPONSE", "RX_16_RESPONSE"}
Answer(isOk) == [id |-> "AT_COMMAND_RESPONSE", ok |-> isOk]
PACKET == [id |-> "RX_16_RESPONSE", ok |-> FALSE]

TypeOK ==
    /\ at \in Steps
    /\ sent \in BOOLEAN
    /\ k \in DOMAIN Bauds
    /\ tries \in 0 .. Tries - 1
    /\ in \in Seq([id : ApiIds, ok : BOOLEAN])
    /\ baud \in Nat
    /\ api \in BOOLEAN
    /\ pending \subseteq Texts
    /\ applied \subseteq Frames
    /\ faults \in 0 .. MaxFaults
    /\ foreign \in 0 .. MaxForeign
    /\ late \in Nat
    /\ doubtful \subseteq Frames
    /\ failed \in [Texts -> Nat]

(* A sketch that calls init has a modem in API mode at Serial's rate.      *)
Init ==
    /\ at \in {"VR", "SL"}
    /\ sent = FALSE
    /\ k = 1
    /\ tries = 0
    /\ in = <<>>
    /\ baud \in Range(Bauds)
    /\ api \in BOOLEAN
    /\ at = "SL" => api /\ baud = Bauds[1]
    /\ pending = {}
    /\ applied = {}
    /\ faults = 0
    /\ foreign = 0
    /\ late = 0
    /\ doubtful = {}
    /\ failed = [c \in Texts |-> 0]

Fault == faults < MaxFaults /\ faults' = faults + 1
Heard == baud = Bauds[k]
-----------------------------------------------------------------------------
(* API frames.                                                             *)

(* An answer that reports success is still to be read.                     *)
AnswerToCome == late > 0 \/ \E i \in DOMAIN in : in[i].ok

(* The frame is not carried out.                                           *)
FrameFails ==
    /\ doubtful' = IF AnswerToCome THEN doubtful \cup {at} ELSE doubtful
    /\ UNCHANGED applied

(* trySendingCommand, up to readPacket. A modem that understands the frame *)
(* carries it out and answers at once, unless something fails; one that    *)
(* does not stays silent. Answers come in the order of the frames.         *)
SendFrame ==
    /\ at \in Frames
    /\ ~sent
    /\ sent' = TRUE
    /\ \/ /\ api /\ Heard
          /\ applied' = applied \cup {at}
          /\ in' = Append(in, Answer(TRUE))
          /\ UNCHANGED <<late, faults, doubtful>>
       \/ /\ api /\ Heard /\ Fault \* the answer is lost, or late
          /\ applied' = applied \cup {at}
          /\ late' \in {late, late + 1}
          /\ UNCHANGED <<in, doubtful>>
       \/ /\ api /\ Heard /\ late = 0 /\ Fault \* the frame is refused
          /\ FrameFails
          /\ in' = Append(in, Answer(FALSE))
          /\ UNCHANGED late
       \/ /\ api /\ Heard => Fault \* the frame is lost
          /\ ~(api /\ Heard) => UNCHANGED faults
          /\ FrameFails
          /\ UNCHANGED <<in, late>>
    /\ UNCHANGED <<at, k, tries, baud, api, pending, foreign, failed>>

(* What follows an error: VR's failure starts the search, the channel's is *)
(* not looked at, and sendAtCommand sends every other command again.       *)
AfterError(s) ==
    CASE s = "VR" -> "search"
      [] s = "channel" -> After(s)
      [] OTHER -> s

(* After success; a modem that answered VR needs no set-up.                *)
AfterSuccess(s) == IF s = "VR" THEN "set up" ELSE After(s)

Passes(success) ==
    /\ at' = IF success THEN AfterSuccess(at) ELSE AfterError(at)
    /\ sent' = FALSE

(* readPacket returns a frame. Any OK status of an AT response will do:    *)
(* which command it answers is only printed.                               *)
ReadPacket ==
    /\ sent
    /\ in # <<>>
    /\ Passes(Head(in).id = "AT_COMMAND_RESPONSE" /\ Head(in).ok)
    /\ in' = Tail(in)
    /\ UNCHANGED <<k, tries, late, modem, faults, history>>

(* Mutants: after a timeout the command is taken for done; it is never     *)
(* given up.                                                               *)
TimesOutContent ==
    /\ sent
    /\ in = <<>>
    /\ Passes(TRUE)
    /\ UNCHANGED <<k, tries, in, late, modem, faults, history>>
TimesOutWaits ==
    /\ sent
    /\ in = <<>>
    /\ UNCHANGED vars

(* Ten seconds without a frame.                                            *)
TimesOut ==
    /\ sent
    /\ in = <<>>
    /\ Passes(FALSE)
    /\ UNCHANGED <<k, tries, in, late, modem, faults, history>>

(* Another node's packet arrives.                                          *)
PacketArrives ==
    /\ at \in Frames
    /\ api /\ Heard
    /\ foreign < MaxForeign
    /\ foreign' = foreign + 1
    /\ in' = Append(in, PACKET)
    /\ UNCHANGED <<sketch, late, modem, faults, doubtful, failed>>

(* A late answer arrives: readPacket's time may be out, and the next       *)
(* command under way.                                                      *)
LateAnswer ==
    /\ late > 0
    /\ late' = late - 1
    /\ in' = Append(in, Answer(TRUE))
    /\ UNCHANGED <<sketch, modem, faults, history>>
-----------------------------------------------------------------------------
(* Text commands.                                                          *)

(* Mutant: the last rate is never tried.                                   *)
NextBaudShort(i) == IF i >= Len(Bauds) - 1 THEN 1 ELSE i + 1

NextBaud(i) == IF i = Len(Bauds) THEN 1 ELSE i + 1

(* setup_xbee: +++ at one rate. A modem that is not in API mode says OK at *)
(* its own rate, unless it is lost or a packet's bytes come before it. When*)
(* the search comes back here the modem has left command mode again. The   *)
(* check of the answer also eats frames that were left.                    *)
SetupXbee ==
    /\ at = "search"
    /\ in' = <<>>
    /\ \/ /\ ~api /\ Heard /\ in = <<>>
          /\ at' = After("search")
          /\ UNCHANGED <<k, faults, foreign>>
       \/ /\ k' = NextBaud(k)
          /\ \/ (api \/ ~Heard \/ in # <<>>) /\ UNCHANGED <<faults, foreign>>
             \/ ~api /\ Heard /\ Fault /\ UNCHANGED foreign
             \/ /\ ~api /\ Heard /\ foreign < MaxForeign
                /\ foreign' = foreign + 1
                /\ UNCHANGED faults
          /\ UNCHANGED at
    /\ UNCHANGED <<sent, tries, late, modem, doubtful, failed>>

(* The modem carries out a text command; ATAC applies what is pending.     *)
Executes(c) ==
    IF c = "ATAC"
    THEN /\ baud' = IF "ATBD5" \in pending THEN NEW_BAUD ELSE baud
         /\ api' = ("ATAP2" \in pending)
         /\ UNCHANGED pending
    ELSE pending' = pending \cup {c} /\ UNCHANGED <<baud, api>>

(* Mutant: the attempts of one command count for the next.                 *)
FailsAtOnce ==
    /\ at' = After(at)
    /\ UNCHANGED tries

(* One attempt failed; after the last one the set-up goes on all the same. *)
Fails ==
    IF tries = Tries - 1 THEN at' = After(at) /\ tries' = 0
    ELSE tries' = tries + 1 /\ UNCHANGED at

(* setup_command: one attempt.                                             *)
SetupCommand ==
    /\ at \in Texts
    /\ \/ /\ Heard \* OK
          /\ Executes(at)
          /\ at' = After(at)
          /\ tries' = 0
          /\ UNCHANGED <<faults, failed>>
       \/ /\ Heard /\ Fault \* the answer is lost
          /\ failed' = [failed EXCEPT ![at] = @ + 1]
          /\ Executes(at)
          /\ Fails
       \/ /\ Heard /\ Fault \* the command is lost
          /\ failed' = [failed EXCEPT ![at] = @ + 1]
          /\ Fails
          /\ UNCHANGED <<baud, api, pending>>
       \/ /\ ~Heard
          /\ Fails
          /\ UNCHANGED <<baud, api, pending, faults, failed>>
    /\ UNCHANGED <<sent, k, in, late, applied, foreign, doubtful>>

Next ==
    \/ SendFrame
    \/ ReadPacket
    \/ TimesOut
    \/ PacketArrives
    \/ LateAnswer
    \/ SetupXbee
    \/ SetupCommand

Spec == Init /\ [][Next]_vars

(* The sketch runs on.                                                     *)
FairSpec ==
    Spec /\ WF_vars(SendFrame \/ ReadPacket \/ TimesOut \/ SetupXbee
                    \/ SetupCommand)
-----------------------------------------------------------------------------
(* The commands of init before the sketch's present step.                  *)
Done ==
    LET n == CHOOSE j \in DOMAIN Script : Script[j] = at
    IN  {Script[j] : j \in 1 .. n - 1}

(* A command that init takes for successful has been carried out by the    *)
(* modem, whatever is lost, refused or late and whatever packets come      *)
(* between, with one exception: a frame of it failed while the success of  *)
(* an earlier frame was still to be read, which sendAtCommand takes for    *)
(* this command's. The channel's answer is not looked at.                  *)
Configured ==
    at \in Range(Script) => Done \ {"channel"} \subseteq applied \cup doubtful

(* initialize_xbee_module leaves a modem it found in text mode in API mode *)
(* at 38400 baud, unless as much failed of one of its commands as the      *)
(* command has attempts: setup_command's result is not looked at.          *)
SetUp ==
    at = "set up" /\ (\A c \in Texts : failed[c] < Tries) =>
       api /\ (baud = NEW_BAUD \/ "VR" \in applied)

(* The search ends for every modem in text mode, whatever its rate is, and *)
(* init ends for every modem in API mode.                                  *)
SearchEnds == (at = "VR" /\ ~api) ~> (at = "set up")
InitEnds == (at = "SL") ~> (at = "ready")
=============================================================================
