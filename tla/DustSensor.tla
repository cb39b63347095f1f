------------------------------ MODULE DustSensor ------------------------------
(***************************************************************************)
(* The dust sensor's sketch (DustSensor.ino): it asks the sensor for a     *)
(* frame of sixteen bytes, waits until it has read that many, prints the   *)
(* reading if the checksum is right, and asks again. Nothing on the line   *)
(* says where a frame begins, and there is no time-out: bytes that are lost*)
(* or added decide what the next reads are made of.                        *)
(***************************************************************************)
EXTENDS Naturals, SequencesExt

CONSTANTS
    FRAME,     \* the bytes of a frame: 16
    MaxNoise,  \* bound: bytes that are added
    MaxLost    \* bound: bytes that are lost

ASSUME FrameAssumption == FRAME \in Nat \ {0}
ASSUME NoiseAssumption == MaxNoise \in Nat /\ MaxLost \in Nat

(* A byte is noise, or has its place in the answer to the latest command or*)
(* to an older one.                                                        *)
Noise == <<"noise", 0>>
Bytes == {Noise} \cup ({"new", "old"} \X (1 .. FRAME))
Answer(age) == [i \in 1 .. FRAME |-> <<age, i>>]

VARIABLES
    waiting,       \* the sketch is in its loop that reads
    Receive_Buff,  \* the bytes it has read, recv_cnt of them
    line,          \* the bytes on their way to it
    asked,         \* commands the sensor has not answered
    added,         \* history: how many bytes were added,
    missing,       \*   and how many lost
    fresh          \* history: the answer to the latest command was printed

dustVars == <<waiting, Receive_Buff, line, asked, added, missing, fresh>>

DustTypeOK ==
    /\ waiting \in BOOLEAN
    /\ Receive_Buff \in Seq(Bytes) /\ Len(Receive_Buff) < FRAME
    /\ line \in Seq(Bytes)
    /\ asked \in Nat
    /\ added \in 0 .. MaxNoise
    /\ missing \in 0 .. MaxLost
    /\ fresh \in BOOLEAN

DustInit ==
    /\ waiting = FALSE
    /\ Receive_Buff = <<>>
    /\ line = <<>>
    /\ asked = 0
    /\ added = 0
    /\ missing = 0
    /\ fresh = FALSE

(* Send_CMD. A command that is lost, or comes garbled, costs an answer.    *)
SendCMD ==
    /\ ~waiting
    /\ waiting' = TRUE
    /\ line' = [n \in DOMAIN line |->
                  IF line[n] = Noise THEN Noise ELSE <<"old", line[n][2]>>]
    /\ fresh' = FALSE
    /\ \/ asked' = asked + 1 /\ UNCHANGED missing
       \/ missing + FRAME <= MaxLost /\ missing' = missing + FRAME
          /\ UNCHANGED asked
    /\ UNCHANGED <<Receive_Buff, added>>

(* The sensor answers the oldest command.                                  *)
SensorAnswers ==
    /\ asked > 0
    /\ asked' = asked - 1
    /\ line' = line \o Answer(IF asked = 1 THEN "new" ELSE "old")
    /\ UNCHANGED <<waiting, Receive_Buff, added, missing, fresh>>

(* The line loses a byte, or adds one.                                     *)
LosesByte ==
    /\ missing < MaxLost
    /\ missing' = missing + 1
    /\ \E n \in DOMAIN line : line' = RemoveAt(line, n)
    /\ UNCHANGED <<waiting, Receive_Buff, asked, added, fresh>>
AddsByte ==
    /\ added < MaxNoise
    /\ added' = added + 1
    /\ \E n \in 1 .. Len(line) + 1 : line' = InsertAt(line, n, Noise)
    /\ UNCHANGED <<waiting, Receive_Buff, asked, missing, fresh>>

(* Mutant: the sketch reads one byte more than a frame has.                *)
ReadByteOneMore ==
    /\ waiting /\ line # <<>>
    /\ LET got == Append(Receive_Buff, Head(line))
           full == Len(got) = FRAME + 1
       IN  /\ Receive_Buff' = IF full THEN <<>> ELSE got
           /\ waiting' = ~full
           /\ fresh' = (full /\ Tail(got) = Answer("new"))
    /\ line' = Tail(line)
    /\ UNCHANGED <<asked, added, missing>>

(* A byte is read. With the last one the checksum decides whether the      *)
(* reading or an error is printed; the sum of another run of bytes than a  *)
(* whole frame is taken to be wrong.                                       *)
ReadByte ==
    /\ waiting /\ line # <<>>
    /\ LET got == Append(Receive_Buff, Head(line))
           full == Len(got) = FRAME
       IN  /\ Receive_Buff' = IF full THEN <<>> ELSE got
           /\ waiting' = ~full
           /\ fresh' = (full /\ got = Answer("new"))
    /\ line' = Tail(line)
    /\ UNCHANGED <<asked, added, missing>>

DustNext == SendCMD \/ SensorAnswers \/ LosesByte \/ AddsByte \/ ReadByte

DustSpec == DustInit /\ [][DustNext]_dustVars

(* The sketch runs on, and the sensor answers what it is asked.            *)
DustFairness ==
    /\ WF_dustVars(SendCMD)
    /\ WF_dustVars(SensorAnswers)
    /\ WF_dustVars(ReadByte)
-------------------------------------------------------------------------------
(* The sketch prints the sensor's latest reading again and again, whatever *)
(* the line did before, exactly as long as the bytes that were added and   *)
(* those that were lost make up for one another. One lost byte too many,   *)
(* and it waits for ever; one added, and no checksum is right any more; a  *)
(* frame's length of them, and it prints old readings.                     *)
PrintsOn ==
    /\ <>[](added = missing) => []<>fresh
    /\ []<>fresh => <>[](added = missing)
===============================================================================
