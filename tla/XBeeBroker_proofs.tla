--------------------------- MODULE XBeeBroker_proofs ---------------------------
(***************************************************************************)
(* Theorems about the broker and the Arduino behind it (XBeeBroker), for   *)
(* any number of exchanges and of light emitting diodes, each of the modes *)
(* and every size of the Arduino's buffer.                                 *)
(***************************************************************************)
EXTENDS XBeeBroker, FiniteSetTheorems, SequenceTheorems, TLAPS

(* The alphabet of the line. The bytes of the nine light emitting diodes   *)
(* are all different.                                                      *)
LEMMA LedBytes ==
    /\ LedOn[1] = "1" /\ LedOn[2] = "2" /\ LedOn[3] = "3" /\ LedOn[4] = "4"
    /\ LedOn[5] = "5" /\ LedOn[6] = "6" /\ LedOn[7] = "7" /\ LedOn[8] = "8"
    /\ LedOn[9] = "9"
    /\ LedOff[1] = "Q" /\ LedOff[2] = "W" /\ LedOff[3] = "E" /\ LedOff[4] = "A"
    /\ LedOff[5] = "S" /\ LedOff[6] = "Z" /\ LedOff[7] = "X" /\ LedOff[8] = "I"
    /\ LedOff[9] = "O"
    /\ LedReq[1] = "q" /\ LedReq[2] = "w" /\ LedReq[3] = "e" /\ LedReq[4] = "a"
    /\ LedReq[5] = "s" /\ LedReq[6] = "z" /\ LedReq[7] = "x" /\ LedReq[8] = "i"
    /\ LedReq[9] = "o"
BY DEF LedOn, LedOff, LedReq

LEMMA LedRooms ==
    /\ LedRoom[1] = "Bedroom" /\ LedRoom[2] = "Bedroom" /\ LedRoom[3] = "Bedroom"
    /\ LedRoom[4] = "Bathroom" /\ LedRoom[5] = "Bathroom" /\ LedRoom[6] = "Living"
    /\ LedRoom[7] = "Living" /\ LedRoom[8] = "Kitchen" /\ LedRoom[9] = "Yard"
BY DEF LedRoom

LEMMA OneToNine ==
    ASSUME NEW i \in 1 .. 9
    PROVE  i = 1 \/ i = 2 \/ i = 3 \/ i = 4 \/ i = 5 \/ i = 6 \/ i = 7 \/ i = 8 \/ i = 9
OBVIOUS

LEMMA LedBytesDiffer ==
    \A i, j \in 1 .. 9 :
       /\ LedOn[i] = LedOn[j] => i = j
       /\ LedOff[i] = LedOff[j] => i = j
       /\ LedOn[i] # LedOff[j]
       /\ LedReq[i] # LedOn[j] /\ LedReq[i] # LedOff[j]
BY LedBytes, OneToNine

(* Server 1's sketch has two commands for each of them.                    *)
Command(i, on) == <<IF on THEN LedOn[i] ELSE LedOff[i], LedRoom[i], i, on>>

LEMMA Server1Commands ==
    \A c : c \in Server1 <=> \E i \in 1 .. 9 : c = Command(i, TRUE) \/ c = Command(i, FALSE)
<1>1. /\ Command(1, TRUE) = <<"1", "Bedroom", 1, TRUE>>
      /\ Command(1, FALSE) = <<"Q", "Bedroom", 1, FALSE>>
      /\ Command(2, TRUE) = <<"2", "Bedroom", 2, TRUE>>
      /\ Command(2, FALSE) = <<"W", "Bedroom", 2, FALSE>>
      /\ Command(3, TRUE) = <<"3", "Bedroom", 3, TRUE>>
      /\ Command(3, FALSE) = <<"E", "Bedroom", 3, FALSE>>
      /\ Command(4, TRUE) = <<"4", "Bathroom", 4, TRUE>>
      /\ Command(4, FALSE) = <<"A", "Bathroom", 4, FALSE>>
      /\ Command(5, TRUE) = <<"5", "Bathroom", 5, TRUE>>
      /\ Command(5, FALSE) = <<"S", "Bathroom", 5, FALSE>>
      /\ Command(6, TRUE) = <<"6", "Living", 6, TRUE>>
      /\ Command(6, FALSE) = <<"Z", "Living", 6, FALSE>>
      /\ Command(7, TRUE) = <<"7", "Living", 7, TRUE>>
      /\ Command(7, FALSE) = <<"X", "Living", 7, FALSE>>
      /\ Command(8, TRUE) = <<"8", "Kitchen", 8, TRUE>>
      /\ Command(8, FALSE) = <<"I", "Kitchen", 8, FALSE>>
      /\ Command(9, TRUE) = <<"9", "Yard", 9, TRUE>>
      /\ Command(9, FALSE) = <<"O", "Yard", 9, FALSE>>
  BY LedBytes, LedRooms DEF Command
<1>2. Server1 = {Command(1, TRUE), Command(1, FALSE), Command(2, TRUE), Command(2, FALSE),
                Command(3, TRUE), Command(3, FALSE), Command(4, TRUE), Command(4, FALSE),
                Command(5, TRUE), Command(5, FALSE), Command(6, TRUE), Command(6, FALSE),
                Command(7, TRUE), Command(7, FALSE), Command(8, TRUE), Command(8, FALSE),
                Command(9, TRUE), Command(9, FALSE)}
  BY <1>1, Zenon DEF Server1
<1>3. ASSUME NEW c \in Server1
      PROVE  \E i \in 1 .. 9 : c = Command(i, TRUE) \/ c = Command(i, FALSE)
  <2>1. 1 \in 1 .. 9 /\ 2 \in 1 .. 9 /\ 3 \in 1 .. 9 /\ 4 \in 1 .. 9 /\ 5 \in 1 .. 9
        /\ 6 \in 1 .. 9 /\ 7 \in 1 .. 9 /\ 8 \in 1 .. 9 /\ 9 \in 1 .. 9
    OBVIOUS
  <2>2. QED BY <1>2, <1>3, <2>1, Zenon
<1>4. ASSUME NEW i \in 1 .. 9
      PROVE  Command(i, TRUE) \in Server1 /\ Command(i, FALSE) \in Server1
  BY <1>2, <1>4, OneToNine, Zenon
<1>5. QED BY <1>3, <1>4

LEMMA TupleParts ==
    ASSUME NEW a, NEW b, NEW c, NEW d
    PROVE  /\ <<a, b, c, d>>[1] = a /\ <<a, b, c, d>>[2] = b
           /\ <<a, b, c, d>>[3] = c /\ <<a, b, c, d>>[4] = d
OBVIOUS

LEMMA CommandParts ==
    \A i \in 1 .. 9 :
       /\ Command(i, TRUE)[1] = LedOn[i] /\ Command(i, FALSE)[1] = LedOff[i]
       /\ Command(i, TRUE)[2] = LedRoom[i] /\ Command(i, FALSE)[2] = LedRoom[i]
       /\ Command(i, TRUE)[3] = i /\ Command(i, FALSE)[3] = i
       /\ Command(i, TRUE)[4] = TRUE /\ Command(i, FALSE)[4] = FALSE
BY TupleParts, Zenon DEF Command

(* The command bytes of each output.                                       *)
For(byte, o) == \E c \in NodeCommands(mode) : c[1] = byte /\ <<c[2], c[3]>> = o
On(byte, o) ==
    \E c \in NodeCommands(mode) : c[1] = byte /\ <<c[2], c[3]>> = o /\ c[4] = TRUE

Resource(r) == <<r.room, r.unit>>

(* A resource's two bytes are commands for its own output or unknown to the*)
(* sketch, both; no byte is two commands, and none both a command and a    *)
(* request.                                                                *)
Alphabet ==
    /\ \A r \in Controlables(mode) :
          /\ ~IsRequest(r.on) /\ ~IsRequest(r.off)
          /\ \A o : For(r.on, o) \/ For(r.off, o) => o = Resource(r)
          /\ For(r.on, Resource(r)) <=> For(r.off, Resource(r))
          /\ For(r.on, Resource(r)) => On(r.on, Resource(r))
          /\ ~On(r.off, Resource(r))
          /\ \A q \in Controlables(mode) : Resource(q) = Resource(r) => q = r
    /\ \A c, d \in NodeCommands(mode) : c[1] = d[1] => c = d
    /\ \A c \in NodeCommands(mode) : ~IsRequest(c[1]) /\ c[4] \in BOOLEAN
    /\ \A byte : NodeAnswers(mode, byte) => IsRequest(byte)

LEMMA ModeParts ==
    /\ NodeCommands(1) = Server1 /\ NodeCommands(2) = Server2 /\ NodeCommands(3) = Server3
    /\ Controlables(1) = {Led(i) : i \in Leds}
    /\ Controlables(2) = {Window("Bedroom")} /\ Controlables(3) = {Window("Yard")}
    /\ Readonlys(1) = {} /\ Readonlys(2) = {"P"} /\ Readonlys(3) = {}
BY DEF NodeCommands, Controlables, Readonlys

LEMMA Alphabet1 == mode = 1 => Alphabet
<1> SUFFICES ASSUME mode = 1 PROVE Alphabet
  OBVIOUS
<1>1. ASSUME NEW byte
      PROVE  IsRequest(byte) => \E i \in 1 .. 9 : byte = LedReq[i]
  BY ModeParts, LedsAssumption DEF IsRequest, Led
<1>2. ASSUME NEW c \in NodeCommands(mode)
      PROVE  \E i \in 1 .. 9 :
                /\ c[2] = LedRoom[i] /\ c[3] = i
                /\ (c[1] = LedOn[i] /\ c[4] = TRUE) \/ (c[1] = LedOff[i] /\ c[4] = FALSE)
  <2>1. PICK i \in 1 .. 9 : c = Command(i, TRUE) \/ c = Command(i, FALSE)
    BY <1>2, ModeParts, Server1Commands
  <2>2. CASE c = Command(i, TRUE)
    <3>1. c[1] = LedOn[i] /\ c[2] = LedRoom[i] /\ c[3] = i /\ c[4] = TRUE
      BY <2>2, CommandParts
    <3>2. QED BY <3>1
  <2>3. CASE c = Command(i, FALSE)
    <3>1. c[1] = LedOff[i] /\ c[2] = LedRoom[i] /\ c[3] = i /\ c[4] = FALSE
      BY <2>3, CommandParts
    <3>2. QED BY <3>1
  <2>4. QED BY <2>1, <2>2, <2>3
<1>3. ASSUME NEW i \in 1 .. 9
      PROVE  /\ For(LedOn[i], <<LedRoom[i], i>>) /\ For(LedOff[i], <<LedRoom[i], i>>)
             /\ On(LedOn[i], <<LedRoom[i], i>>)
  <2>1. Command(i, TRUE) \in NodeCommands(mode) /\ Command(i, FALSE) \in NodeCommands(mode)
    BY ModeParts, Server1Commands
  <2>2. QED BY <2>1, CommandParts DEF For, On
<1>4. ASSUME NEW i \in 1 .. 9
      PROVE  /\ \A o : For(LedOn[i], o) \/ For(LedOff[i], o) => o = <<LedRoom[i], i>>
             /\ \A o : ~On(LedOff[i], o)
  <2>1. ASSUME NEW o, NEW c \in NodeCommands(mode), <<c[2], c[3]>> = o,
               c[1] = LedOn[i] \/ c[1] = LedOff[i]
        PROVE  o = <<LedRoom[i], i>> /\ (c[4] = TRUE => c[1] = LedOn[i])
    <3>1. PICK j \in 1 .. 9 :
             /\ c[2] = LedRoom[j] /\ c[3] = j
             /\ (c[1] = LedOn[j] /\ c[4] = TRUE) \/ (c[1] = LedOff[j] /\ c[4] = FALSE)
      BY <1>2
    <3>2. i = j /\ (c[4] = TRUE => c[1] = LedOn[i])
      BY <2>1, <3>1, LedBytesDiffer
    <3>3. QED BY <2>1, <3>1, <3>2
  <2>2. LedOn[i] # LedOff[i]
    BY LedBytesDiffer
  <2>3. QED BY <2>1, <2>2, Zenon DEF For, On
<1>5. ASSUME NEW r \in Controlables(mode)
      PROVE  \E i \in 1 .. 9 :
                /\ r.on = LedOn[i] /\ r.off = LedOff[i] /\ Resource(r) = <<LedRoom[i], i>>
  BY ModeParts, LedsAssumption DEF Led, Resource
<1>6. ASSUME NEW i \in 1 .. 9 PROVE ~IsRequest(LedOn[i]) /\ ~IsRequest(LedOff[i])
  BY <1>1, LedBytesDiffer
<1>7. ASSUME NEW c \in NodeCommands(mode), NEW d \in NodeCommands(mode), c[1] = d[1]
      PROVE  c = d
  <2>1. PICK i \in 1 .. 9 : c = Command(i, TRUE) \/ c = Command(i, FALSE)
    BY ModeParts, Server1Commands
  <2>2. PICK j \in 1 .. 9 : d = Command(j, TRUE) \/ d = Command(j, FALSE)
    BY ModeParts, Server1Commands
  <2>3. \/ c[1] = LedOn[i] /\ c = Command(i, TRUE)
        \/ c[1] = LedOff[i] /\ c = Command(i, FALSE)
    <3>1. Command(i, TRUE)[1] = LedOn[i] /\ Command(i, FALSE)[1] = LedOff[i]
      BY CommandParts
    <3>2. QED BY <2>1, <3>1, Zenon
  <2>4. \/ d[1] = LedOn[j] /\ d = Command(j, TRUE)
        \/ d[1] = LedOff[j] /\ d = Command(j, FALSE)
    <3>1. Command(j, TRUE)[1] = LedOn[j] /\ Command(j, FALSE)[1] = LedOff[j]
      BY CommandParts
    <3>2. QED BY <2>2, <3>1, Zenon
  <2>5. QED BY <1>7, <2>3, <2>4, LedBytesDiffer
<1>8. \A c \in NodeCommands(mode) : ~IsRequest(c[1]) /\ c[4] \in BOOLEAN
  BY <1>2, <1>6
<1>9. \A byte : ~NodeAnswers(mode, byte)
  BY DEF NodeAnswers
<1>10. ASSUME NEW r \in Controlables(mode), NEW q \in Controlables(mode),
              Resource(q) = Resource(r)
       PROVE  q = r
  <2>1. PICK i \in Leds : r = Led(i)
    BY ModeParts
  <2>2. PICK j \in Leds : q = Led(j)
    BY ModeParts
  <2>3. r.unit = i /\ q.unit = j
    BY <2>1, <2>2 DEF Led
  <2>4. i = j
    BY <1>10, <2>3 DEF Resource
  <2>5. QED BY <2>1, <2>2, <2>4
<1>11. QED BY <1>3, <1>4, <1>5, <1>6, <1>7, <1>8, <1>9, <1>10 DEF Alphabet

LEMMA Alphabet23 == mode \in {2, 3} => Alphabet
<1> SUFFICES ASSUME mode \in {2, 3} PROVE Alphabet
  OBVIOUS
<1>1. ASSUME NEW r \in Controlables(mode)
      PROVE  /\ r.on = "H" /\ r.off = "L" /\ r.unit = 1
             /\ mode = 2 => r.room = "Bedroom"
  BY ModeParts DEF Window
<1>2. ASSUME NEW byte PROVE IsRequest(byte) => byte = "l" \/ (mode = 2 /\ byte = "P")
  BY ModeParts DEF IsRequest, Window
<1>3. NodeCommands(mode) = IF mode = 2 THEN Server2 ELSE Server3
  BY ModeParts
<1>4. ASSUME NEW c \in NodeCommands(mode)
      PROVE  /\ mode = 2 => c = <<"H", "Bedroom", 1, TRUE>> \/ c = <<"L", "Bedroom", 1, FALSE>>
             /\ mode = 3 => c = <<"R", "Yard", 1, TRUE>> \/ c = <<"T", "Yard", 1, FALSE>>
  <2>1. mode = 2 => NodeCommands(mode) = Server2
    BY <1>3
  <2>2. mode = 3 => NodeCommands(mode) = Server3
    BY <1>3
  <2>3. QED BY <1>4, <2>1, <2>2, Zenon DEF Server2, Server3
<1>5. ASSUME NEW c \in NodeCommands(mode)
      PROVE  /\ mode = 2 => /\ c[2] = "Bedroom" /\ c[3] = 1
                            /\ \/ /\ c[1] = "H" /\ c[4] = TRUE
                                  /\ c = <<"H", "Bedroom", 1, TRUE>>
                               \/ /\ c[1] = "L" /\ c[4] = FALSE
                                  /\ c = <<"L", "Bedroom", 1, FALSE>>
             /\ mode = 3 => \/ /\ c[1] = "R" /\ c[4] = TRUE
                               /\ c = <<"R", "Yard", 1, TRUE>>
                            \/ /\ c[1] = "T" /\ c[4] = FALSE
                               /\ c = <<"T", "Yard", 1, FALSE>>
  <2>1. CASE c = <<"H", "Bedroom", 1, TRUE>>
    <3>1. c[1] = "H" /\ c[2] = "Bedroom" /\ c[3] = 1 /\ c[4] = TRUE
      BY <2>1
    <3>2. mode # 3
      BY <1>4, <2>1, <3>1
    <3>3. QED BY <2>1, <3>1, <3>2, Zenon
  <2>2. CASE c = <<"L", "Bedroom", 1, FALSE>>
    <3>1. c[1] = "L" /\ c[2] = "Bedroom" /\ c[3] = 1 /\ c[4] = FALSE
      BY <2>2
    <3>2. mode # 3
      BY <1>4, <2>2, <3>1
    <3>3. QED BY <2>2, <3>1, <3>2, Zenon
  <2>3. CASE mode = 3 /\ c = <<"R", "Yard", 1, TRUE>>
    <3>1. c[1] = "R" /\ c[4] = TRUE
      BY <2>3
    <3>2. mode # 2
      BY <2>3
    <3>3. QED BY <2>3, <3>1, <3>2, Zenon
  <2>4. CASE mode = 3 /\ c = <<"T", "Yard", 1, FALSE>>
    <3>1. c[1] = "T" /\ c[4] = FALSE
      BY <2>4
    <3>2. mode # 2
      BY <2>4
    <3>3. QED BY <2>4, <3>1, <3>2, Zenon
  <2>5. QED BY <1>4, <2>1, <2>2, <2>3, <2>4, Zenon
<1>6. ASSUME NEW c \in NodeCommands(mode), NEW d \in NodeCommands(mode), c[1] = d[1]
      PROVE  c = d
  <2>1. "H" # "L" /\ "R" # "T"
    OBVIOUS
  <2>2. mode = 2 => c = d
    BY <1>5, <1>6, <2>1, Zenon
  <2>3. mode = 3 => c = d
    BY <1>5, <1>6, <2>1, Zenon
  <2>4. QED BY <2>2, <2>3
<1>7. \A c \in NodeCommands(mode) : ~IsRequest(c[1]) /\ c[4] \in BOOLEAN
  BY <1>2, <1>5
<1>8. \A byte : NodeAnswers(mode, byte) => IsRequest(byte)
  BY ModeParts DEF NodeAnswers, IsRequest
<1>9. ASSUME NEW r \in Controlables(mode)
      PROVE  /\ ~IsRequest(r.on) /\ ~IsRequest(r.off)
             /\ \A o : For(r.on, o) \/ For(r.off, o) => o = Resource(r)
             /\ For(r.on, Resource(r)) <=> For(r.off, Resource(r))
             /\ For(r.on, Resource(r)) => On(r.on, Resource(r))
             /\ ~On(r.off, Resource(r))
  <2>1. CASE mode = 2
    <3>1. /\ <<"H", "Bedroom", 1, TRUE>> \in NodeCommands(mode)
          /\ <<"L", "Bedroom", 1, FALSE>> \in NodeCommands(mode)
      BY <1>3, <2>1 DEF Server2
    <3>2. Resource(r) = <<"Bedroom", 1>>
      BY <1>1, <2>1 DEF Resource
    <3>3. For("H", Resource(r)) /\ For("L", Resource(r)) /\ On("H", Resource(r))
      BY <3>1, <3>2, TupleParts DEF For, On
    <3>4. /\ \A o : For("H", o) \/ For("L", o) => o = Resource(r)
          /\ ~On("L", Resource(r))
      BY <1>5, <2>1, <3>2 DEF For, On
    <3>5. QED BY <1>1, <1>2, <3>3, <3>4
  <2>2. CASE mode = 3
    <3>1. \A o : ~For("H", o) /\ ~For("L", o) /\ ~On("L", o)
      BY <1>5, <2>2 DEF For, On
    <3>2. QED BY <1>1, <1>2, <3>1
  <2>3. QED BY <2>1, <2>2
<1>10. \A q, r \in Controlables(mode) : q = r
  BY ModeParts
<1>11. QED BY <1>6, <1>7, <1>8, <1>9, <1>10 DEF Alphabet

LEMMA AlphabetHolds == mode \in Modes => Alphabet
BY ModesAssumption, Alphabet1, Alphabet23

--------------------------------------------------------------------------------
(* Sequences that are read at the front and written at the end.            *)

(* The last element of q that is in own says, by being in on or not,       *)
(* whether x is in after; without one, before and after agree about x.     *)
LastSays(q, own, on, x, before, after) ==
    /\ (\A n \in 1 .. Len(q) : q[n] \notin own) => (x \in before <=> x \in after)
    /\ \A n \in 1 .. Len(q) :
          q[n] \in own /\ (\A m \in n + 1 .. Len(q) : q[m] \notin own) =>
             (q[n] \in on <=> x \in after)

LEMMA AppendPlaces ==
    ASSUME NEW S, NEW q \in Seq(S), NEW b \in S
    PROVE  /\ Append(q, b) \in Seq(S) /\ Len(Append(q, b)) = Len(q) + 1
           /\ Append(q, b)[Len(q) + 1] = b
           /\ \A n \in 1 .. Len(q) : Append(q, b)[n] = q[n]
OBVIOUS

LEMMA TailPlaces ==
    ASSUME NEW S, NEW q \in Seq(S), q # <<>>
    PROVE  /\ Tail(q) \in Seq(S) /\ Len(Tail(q)) = Len(q) - 1 /\ Len(q) \in Nat \ {0}
           /\ Head(q) = q[1] /\ 1 \in 1 .. Len(q) /\ Head(q) \in S
           /\ \A n \in 1 .. Len(q) - 1 : Tail(q)[n] = q[n + 1]
OBVIOUS

LEMMA FrontLength ==
    ASSUME NEW S, NEW q \in Seq(S), q # <<>>
    PROVE  Front(q) \in Seq(S) /\ Len(Front(q)) = Len(q) - 1 /\ Len(Front(q)) \in Nat
<1>1. PICK n \in Nat : n = Len(q) - 1
  OBVIOUS
<1>2. 1 \in Int /\ n \in Int /\ \A i \in 1 .. n : q[i] \in S
  BY <1>1
<1>3. /\ SubSeq(q, 1, n) \in Seq(S)
      /\ Len(SubSeq(q, 1, n)) = IF 1 <= n THEN n - 1 + 1 ELSE 0
      /\ \A i \in 1 .. n - 1 + 1 : SubSeq(q, 1, n)[i] = q[1 + i - 1]
  BY <1>2, SubSeqProperties
<1>4. Len(SubSeq(q, 1, n)) = n
  BY <1>3
<1>5. QED BY <1>1, <1>3, <1>4 DEF Front

(* A new last element.                                                     *)
LEMMA LastSaysAppendOwn ==
    ASSUME NEW S, NEW q \in Seq(S), NEW b \in S, NEW own, NEW on, NEW x,
           NEW before, NEW after, b \in own, b \in on <=> x \in after
    PROVE  LastSays(Append(q, b), own, on, x, before, after)
<1> DEFINE p == Append(q, b)
<1>1. Len(p) = Len(q) + 1 /\ p[Len(q) + 1] = b /\ Len(q) \in Nat
  BY AppendPlaces
<1> HIDE DEF p
<1>2. ~ \A n \in 1 .. Len(p) : p[n] \notin own
  BY <1>1
<1>3. ASSUME NEW n \in 1 .. Len(p), p[n] \in own,
             \A m \in n + 1 .. Len(p) : p[m] \notin own
      PROVE  p[n] \in on <=> x \in after
  <2>1. n = Len(q) + 1
    BY <1>1, <1>3
  <2>2. QED BY <1>1, <2>1
<1>4. LastSays(p, own, on, x, before, after)
  BY <1>2, <1>3 DEF LastSays
<1>5. QED BY <1>4 DEF p

(* A new element that says nothing of x.                                   *)
LEMMA LastSaysAppendOther ==
    ASSUME NEW S, NEW q \in Seq(S), NEW b \in S, NEW own, NEW on, NEW x,
           NEW before, NEW after, NEW then, b \notin own,
           x \in then <=> x \in after, LastSays(q, own, on, x, before, after)
    PROVE  LastSays(Append(q, b), own, on, x, before, then)
<1> DEFINE p == Append(q, b)
<1>1. /\ Len(p) = Len(q) + 1 /\ p[Len(q) + 1] = b /\ Len(q) \in Nat
      /\ \A n \in 1 .. Len(q) : p[n] = q[n]
  BY AppendPlaces
<1> HIDE DEF p
<1>2. ASSUME \A n \in 1 .. Len(p) : p[n] \notin own
      PROVE  x \in before <=> x \in then
  <2>1. \A n \in 1 .. Len(q) : q[n] \notin own
    BY <1>1, <1>2
  <2>2. QED BY <2>1 DEF LastSays
<1>3. ASSUME NEW n \in 1 .. Len(p), p[n] \in own,
             \A m \in n + 1 .. Len(p) : p[m] \notin own
      PROVE  p[n] \in on <=> x \in then
  <2>1. n \in 1 .. Len(q) /\ p[n] = q[n]
    BY <1>1, <1>3
  <2>2. \A m \in n + 1 .. Len(q) : q[m] \notin own
    BY <1>1, <1>3, <2>1
  <2>3. QED BY <1>3, <2>1, <2>2 DEF LastSays
<1>4. LastSays(p, own, on, x, before, then)
  BY <1>2, <1>3 DEF LastSays
<1>5. QED BY <1>4 DEF p

(* The first element is taken, and what it says comes about.               *)
LEMMA LastSaysTail ==
    ASSUME NEW S, NEW q \in Seq(S), q # <<>>, NEW own, NEW on, NEW x,
           NEW before, NEW after, NEW then,
           Head(q) \in own => (x \in then <=> Head(q) \in on),
           Head(q) \notin own => (x \in then <=> x \in before),
           LastSays(q, own, on, x, before, after)
    PROVE  LastSays(Tail(q), own, on, x, then, after)
<1> DEFINE p == Tail(q)
<1>1. /\ Len(p) = Len(q) - 1 /\ Len(q) \in Nat \ {0}
      /\ Head(q) = q[1] /\ 1 \in 1 .. Len(q)
      /\ \A n \in 1 .. Len(q) - 1 : p[n] = q[n + 1]
  BY TailPlaces
<1> HIDE DEF p
<1>2. ASSUME \A n \in 1 .. Len(p) : p[n] \notin own
      PROVE  x \in then <=> x \in after
  <2>1. \A n \in 2 .. Len(q) : q[n] \notin own
    <3> TAKE n \in 2 .. Len(q)
    <3>1. n - 1 \in 1 .. Len(p) /\ p[n - 1] = q[n]
      BY <1>1
    <3>2. QED BY <1>2, <3>1
  <2>2. CASE Head(q) \in own
    <3>1. Head(q) \in on <=> x \in after
      BY <1>1, <2>1, <2>2 DEF LastSays
    <3>2. QED BY <2>2, <3>1
  <2>3. CASE Head(q) \notin own
    <3>1. \A n \in 1 .. Len(q) : q[n] \notin own
      BY <1>1, <2>1, <2>3
    <3>2. x \in before <=> x \in after
      BY <3>1 DEF LastSays
    <3>3. QED BY <2>3, <3>2
  <2>4. QED BY <2>2, <2>3
<1>3. ASSUME NEW n \in 1 .. Len(p), p[n] \in own,
             \A m \in n + 1 .. Len(p) : p[m] \notin own
      PROVE  p[n] \in on <=> x \in after
  <2>1. n + 1 \in 1 .. Len(q) /\ p[n] = q[n + 1]
    BY <1>1
  <2>2. \A m \in (n + 1) + 1 .. Len(q) : q[m] \notin own
    <3> TAKE m \in (n + 1) + 1 .. Len(q)
    <3>1. m - 1 \in n + 1 .. Len(p) /\ p[m - 1] = q[m]
      BY <1>1
    <3>2. QED BY <1>3, <3>1
  <2>3. QED BY <1>3, <2>1, <2>2 DEF LastSays
<1>4. LastSays(p, own, on, x, then, after)
  BY <1>2, <1>3 DEF LastSays
<1>5. QED BY <1>4 DEF p

(* The places of the elements that are in R.                               *)
Places(q, R) == {i \in 1 .. Len(q) : q[i] \in R}

LEMMA PlacesFinite ==
    ASSUME NEW S, NEW q \in Seq(S), NEW R
    PROVE  IsFiniteSet(Places(q, R)) /\ Cardinality(Places(q, R)) \in Nat
<1>1. IsFiniteSet(1 .. Len(q))
  BY FS_Interval
<1>2. Places(q, R) \subseteq 1 .. Len(q)
  BY DEF Places
<1>3. QED BY <1>1, <1>2, FS_Subset, FS_CardinalityType

LEMMA PlacesAppend ==
    ASSUME NEW S, NEW q \in Seq(S), NEW b \in S, NEW R
    PROVE  Cardinality(Places(Append(q, b), R)) =
              Cardinality(Places(q, R)) + (IF b \in R THEN 1 ELSE 0)
<1> DEFINE p == Append(q, b)
<1>1. /\ Len(p) = Len(q) + 1 /\ p[Len(q) + 1] = b /\ Len(q) \in Nat
      /\ \A n \in 1 .. Len(q) : p[n] = q[n]
  BY AppendPlaces
<1> HIDE DEF p
<1>2. Places(p, R) = IF b \in R THEN Places(q, R) \cup {Len(q) + 1} ELSE Places(q, R)
  BY <1>1 DEF Places
<1>3. Len(q) + 1 \notin Places(q, R)
  BY <1>1 DEF Places
<1>4. IsFiniteSet(Places(q, R)) /\ Cardinality(Places(q, R)) \in Nat
  BY PlacesFinite
<1>5. Cardinality(Places(q, R) \cup {Len(q) + 1}) = Cardinality(Places(q, R)) + 1
  BY <1>3, <1>4, FS_AddElement
<1>6. Cardinality(Places(p, R)) = Cardinality(Places(q, R)) + (IF b \in R THEN 1 ELSE 0)
  BY <1>2, <1>4, <1>5
<1>7. QED BY <1>6 DEF p

LEMMA PlacesTail ==
    ASSUME NEW S, NEW q \in Seq(S), q # <<>>, NEW R
    PROVE  Cardinality(Places(q, R)) =
              Cardinality(Places(Tail(q), R)) + (IF Head(q) \in R THEN 1 ELSE 0)
<1> DEFINE p == Tail(q)
           T == Places(q, R) \ {1}
           f == [i \in Places(p, R) |-> i + 1]
<1>1. /\ Len(p) = Len(q) - 1 /\ Len(q) \in Nat \ {0}
      /\ Head(q) = q[1] /\ 1 \in 1 .. Len(q)
      /\ \A n \in 1 .. Len(q) - 1 : p[n] = q[n + 1]
      /\ p \in Seq(S)
  BY TailPlaces
<1> HIDE DEF p
<1>2. ASSUME NEW i \in Places(p, R) PROVE i \in Nat /\ i + 1 \in T
  BY <1>1 DEF Places
<1>3. ASSUME NEW j \in T PROVE j - 1 \in Places(p, R) /\ (j - 1) + 1 = j
  <2>1. j \in 2 .. Len(q) /\ q[j] \in R
    BY <1>1 DEF Places
  <2>2. j - 1 \in 1 .. Len(p) /\ p[j - 1] = q[j]
    BY <1>1, <2>1
  <2>3. QED BY <2>1, <2>2 DEF Places
<1>4. f \in Bijection(Places(p, R), T)
  <2>1. f \in [Places(p, R) -> T]
    BY <1>2
  <2>2. \A a, b \in Places(p, R) : f[a] = f[b] => a = b
    BY <1>2
  <2>3. \A j \in T : \E i \in Places(p, R) : f[i] = j
    BY <1>3
  <2>4. f \in Injection(Places(p, R), T)
    BY <2>1, <2>2 DEF Injection, IsInjective
  <2>5. f \in Surjection(Places(p, R), T)
    BY <2>1, <2>3 DEF Surjection
  <2>6. QED BY <2>4, <2>5 DEF Bijection
<1>5. Cardinality(T) = Cardinality(Places(p, R))
  <2>1. ExistsBijection(Places(p, R), T)
    BY <1>4 DEF ExistsBijection
  <2>2. IsFiniteSet(Places(p, R))
    BY <1>1, PlacesFinite
  <2>3. QED BY <2>1, <2>2, FS_Bijection
<1>6. IsFiniteSet(Places(q, R)) /\ Cardinality(Places(q, R)) \in Nat
  BY PlacesFinite
<1>7. Cardinality(T) = IF 1 \in Places(q, R) THEN Cardinality(Places(q, R)) - 1
                       ELSE Cardinality(Places(q, R))
  BY <1>6, FS_RemoveElement
<1>8. 1 \in Places(q, R) <=> Head(q) \in R
  BY <1>1 DEF Places
<1>9. Cardinality(Places(q, R)) =
         Cardinality(Places(p, R)) + (IF Head(q) \in R THEN 1 ELSE 0)
  BY <1>5, <1>6, <1>7, <1>8
<1>10. QED BY <1>9 DEF p
--------------------------------------------------------------------------------
(* The bytes that are commands for output o, and those that switch it on.  *)
Own(m, o) == {c[1] : c \in {d \in NodeCommands(m) : <<d[2], d[3]>> = o}}
Ons(m, o) == {c[1] : c \in {d \in NodeCommands(m) : <<d[2], d[3]>> = o /\ d[4] = TRUE}}
RequestBytes(m) == Readonlys(m) \cup {r.req : r \in Controlables(m)}

(* The last command for an output on the wire, or else its present state,  *)
(* is what the last PUT wanted, but for outputs that lost a command.       *)
Follows ==
    \A o \in Reachable \ lost :
       LastSays(wire, Own(mode, o), Ons(mode, o), o, outputs, commanded)

BrokerInv == TypeOK /\ outputs \subseteq Reachable /\ Follows /\ ThreadsAccounted

LEMMA OwnIsFor ==
    \A b, o : (b \in Own(mode, o) <=> For(b, o)) /\ (b \in Ons(mode, o) <=> On(b, o))
BY DEF Own, Ons, For, On

LEMMA RequestsAre == \A b : IsRequest(b) <=> b \in RequestBytes(mode)
BY DEF IsRequest, RequestBytes

LEMMA AskedAre == Asked = Places(wire, RequestBytes(mode))
BY RequestsAre DEF Asked, Places

(* What does not change while the mode does not.                           *)
LEMMA ModeStays ==
    ASSUME mode' = mode
    PROVE  /\ Bytes' = Bytes /\ Units' = Units /\ Reachable' = Reachable
           /\ Asked' = Places(wire', RequestBytes(mode))
<1>1. Bytes' = Bytes /\ Units' = Units /\ Reachable' = Reachable
  BY DEF Bytes, Units, Reachable
<1>2. Asked' = Places(wire', RequestBytes(mode))
  BY DEF Asked, IsRequest, RequestBytes, Places
<1>3. QED BY <1>1, <1>2

LEMMA FollowsAgain ==
    ASSUME mode' = mode,
           \A o \in Reachable : o \notin lost' =>
              LastSays(wire', Own(mode, o), Ons(mode, o), o, outputs', commanded')
    PROVE  Follows'
BY ModeStays DEF Follows

LEMMA ReachableUnits == Reachable \subseteq Units
BY DEF Reachable, Units

(* Server 1's sketch knows the bytes of every light emitting diode.        *)
LEMMA LedsReachable ==
    ASSUME mode = 1, NEW i \in Leds
    PROVE  /\ Led(i) \in Controlables(mode)
           /\ Led(i).room = LedRoom[i] /\ Led(i).unit = i
           /\ <<LedRoom[i], i>> \in Reachable
<1>1. /\ Led(i) \in Controlables(mode) /\ Led(i).on = LedOn[i]
      /\ Led(i).room = LedRoom[i] /\ Led(i).unit = i
  BY ModeParts DEF Led
<1>2. i \in 1 .. 9
  BY LedsAssumption
<1>3. Command(i, TRUE) \in NodeCommands(mode) /\ Command(i, TRUE)[1] = LedOn[i]
  BY <1>2, ModeParts, Server1Commands, CommandParts
<1>4. <<Led(i).room, Led(i).unit>> \in Reachable
  BY <1>1, <1>3 DEF Reachable
<1>5. QED BY <1>1, <1>4

(* A request, or a byte that is unknown to the sketch, is for no output.   *)
LEMMA RequestForNone ==
    ASSUME mode \in Modes, NEW b, IsRequest(b), NEW o
    PROVE  b \notin Own(mode, o)
BY AlphabetHolds, OwnIsFor DEF Alphabet, For

(* A command is for the output of its resource, and for no other.          *)
LEMMA CommandFor ==
    ASSUME mode \in Modes, NEW r \in Controlables(mode), NEW on \in BOOLEAN, NEW b,
           b = IF on THEN r.on ELSE r.off
    PROVE  /\ b \in Bytes /\ Resource(r) \in Units /\ ~IsRequest(b)
           /\ \A o : b \in Own(mode, o) => o = Resource(r)
           /\ Resource(r) \in Reachable =>
                 /\ b \in Own(mode, Resource(r))
                 /\ b \in Ons(mode, Resource(r)) <=> on = TRUE
<1>1. b \in Bytes /\ Resource(r) \in Units
  BY DEF Bytes, Units, Resource
<1>2. ~IsRequest(b) /\ \A o : b \in Own(mode, o) => o = Resource(r)
  BY AlphabetHolds, OwnIsFor DEF Alphabet
<1>3. ASSUME Resource(r) \in Reachable
      PROVE  /\ b \in Own(mode, Resource(r))
             /\ b \in Ons(mode, Resource(r)) <=> on = TRUE
  <2>1. PICK q \in Controlables(mode) :
           Resource(q) = Resource(r) /\ \E c \in NodeCommands(mode) : c[1] = q.on
    BY <1>3 DEF Reachable, Resource
  <2>2. q = r
    BY <2>1, AlphabetHolds DEF Alphabet
  <2>3. For(r.on, Resource(r))
    <3>1. PICK c \in NodeCommands(mode) : c[1] = r.on
      BY <2>1, <2>2
    <3>2. For(r.on, <<c[2], c[3]>>)
      BY <3>1 DEF For
    <3>3. QED BY <3>2, AlphabetHolds DEF Alphabet
  <2>4. For(r.off, Resource(r)) /\ On(r.on, Resource(r)) /\ ~On(r.off, Resource(r))
    BY <2>3, AlphabetHolds DEF Alphabet
  <2>5. QED BY <2>3, <2>4, OwnIsFor
<1>4. QED BY <1>1, <1>2, <1>3

(* What the sketch does with a byte that is a command.                     *)
LEMMA CommandDone ==
    ASSUME mode \in Modes, NEW c \in NodeCommands(mode), c[1] \in Bytes
    PROVE  /\ ~IsRequest(c[1]) /\ c[4] \in BOOLEAN
           /\ <<c[2], c[3]>> \in Reachable
           /\ c[1] \in Own(mode, <<c[2], c[3]>>)
           /\ c[1] \in Ons(mode, <<c[2], c[3]>>) <=> c[4] = TRUE
           /\ \A o : o # <<c[2], c[3]>> => c[1] \notin Own(mode, o)
<1>1. ~IsRequest(c[1]) /\ c[4] \in BOOLEAN
  BY AlphabetHolds DEF Alphabet
<1>2. For(c[1], <<c[2], c[3]>>)
  BY DEF For
<1>3. \A d \in NodeCommands(mode) : d[1] = c[1] => d = c
  BY AlphabetHolds DEF Alphabet
<1>4. On(c[1], <<c[2], c[3]>>) <=> c[4] = TRUE
  BY <1>3 DEF On
<1>5. \A o : o # <<c[2], c[3]>> => ~For(c[1], o)
  BY <1>3 DEF For
<1>6. <<c[2], c[3]>> \in Reachable
  <2>1. PICK r \in Controlables(mode) : c[1] = r.on \/ c[1] = r.off
    BY <1>1 DEF Bytes, IsRequest
  <2>2. <<c[2], c[3]>> = Resource(r) /\ For(r.on, Resource(r))
    BY <1>2, <2>1, AlphabetHolds DEF Alphabet
  <2>3. \E k \in NodeCommands(mode) : k[1] = r.on
    BY <2>2 DEF For
  <2>4. QED BY <2>2, <2>3 DEF Reachable, Resource
<1>7. QED BY <1>1, <1>2, <1>4, <1>5, <1>6, OwnIsFor

(* An exchange begins or ends to wait.                                     *)
LEMMA WaitingFinite ==
    IsFiniteSet(Waiting) /\ Cardinality(Waiting) \in Nat
<1>1. Waiting \subseteq Exchanges
  BY DEF Waiting
<1>2. QED BY <1>1, ExchangesAssumption, FS_Subset, FS_CardinalityType

LEMMA WaitingSteps ==
    ASSUME TypeOK, NEW e \in Exchanges, NEW s \in Steps,
           step' = [step EXCEPT ![e] = s]
    PROVE  /\ step' \in [Exchanges -> Steps]
           /\ step[e] = "waiting" /\ s # "waiting" =>
                 Cardinality(Waiting') = Cardinality(Waiting) - 1
           /\ step[e] # "waiting" /\ s = "waiting" =>
                 Cardinality(Waiting') = Cardinality(Waiting) + 1
           /\ step[e] # "waiting" /\ s # "waiting" =>
                 Cardinality(Waiting') = Cardinality(Waiting)
<1>1. step \in [Exchanges -> Steps] /\ step' \in [Exchanges -> Steps]
  BY DEF TypeOK
<1>2. Waiting' = IF s = "waiting" THEN Waiting \cup {e} ELSE Waiting \ {e}
  BY <1>1 DEF Waiting
<1>3. e \in Waiting <=> step[e] = "waiting"
  BY DEF Waiting
<1>4. /\ Cardinality(Waiting \cup {e}) =
            IF e \in Waiting THEN Cardinality(Waiting) ELSE Cardinality(Waiting) + 1
      /\ Cardinality(Waiting \ {e}) =
            IF e \in Waiting THEN Cardinality(Waiting) - 1 ELSE Cardinality(Waiting)
  BY WaitingFinite, FS_AddElement, FS_RemoveElement
<1>5. QED BY <1>1, <1>2, <1>3, <1>4

(* A byte is written: a request is on the wire or unanswerable, and a      *)
(* command on the wire or its output among the lost.                       *)
LEMMA WriteCounts ==
    ASSUME BrokerInv, mode' = mode, NEW b \in Bytes, Write(b)
    PROVE  /\ wire' \in Seq(Bytes) /\ unanswerable' \in Nat
           /\ lost' \subseteq {<<c[2], c[3]>> : c \in NodeCommands(mode)}
           /\ Cardinality(Asked') + unanswerable' =
                 Cardinality(Asked) + unanswerable + (IF IsRequest(b) THEN 1 ELSE 0)
           /\ \/ wire' = Append(wire, b) /\ lost' = lost
              \/ /\ wire' = wire /\ lost \subseteq lost'
                 /\ \A o : b \in Own(mode, o) => o \in lost'
<1>1. /\ wire \in Seq(Bytes) /\ unanswerable \in Nat
      /\ lost \subseteq {<<c[2], c[3]>> : c \in NodeCommands(mode)}
  BY DEF BrokerInv, TypeOK
<1>2. /\ Asked = Places(wire, RequestBytes(mode))
      /\ Asked' = Places(wire', RequestBytes(mode))
      /\ Cardinality(Asked) \in Nat
  BY <1>1, AskedAre, ModeStays, PlacesFinite
<1>3. CASE wire' = Append(wire, b) /\ unanswerable' = unanswerable /\ lost' = lost
  <2>1. wire' \in Seq(Bytes)
    BY <1>1, <1>3
  <2>2. Cardinality(Asked') =
           Cardinality(Asked) + (IF b \in RequestBytes(mode) THEN 1 ELSE 0)
    BY <1>1, <1>2, <1>3, PlacesAppend
  <2>3. QED BY <1>1, <1>2, <1>3, <2>1, <2>2, RequestsAre
<1>4. CASE Lose(b) /\ wire' = wire
  <2>1. /\ lost' = lost \cup {<<c[2], c[3]>> : c \in {k \in NodeCommands(mode) : k[1] = b}}
        /\ unanswerable' = unanswerable + (IF IsRequest(b) THEN 1 ELSE 0)
    BY <1>1, <1>4 DEF Lose
  <2>2. \A o : b \in Own(mode, o) => o \in lost'
    BY <2>1 DEF Own
  <2>3. lost' \subseteq {<<c[2], c[3]>> : c \in NodeCommands(mode)}
    BY <1>1, <2>1
  <2>4. Asked' = Asked
    BY <1>2, <1>4
  <2>5. QED BY <1>1, <1>2, <1>4, <2>1, <2>2, <2>3, <2>4
<1>5. QED BY <1>3, <1>4 DEF Write

(* The balance of threads and bytes after a step.                          *)
LEMMA Balance ==
    ASSUME ThreadsAccounted, TypeOK, NEW c \in Int, NEW d \in Int,
           Cardinality(Asked') \in Nat, Cardinality(Waiting') \in Nat,
           skipped' \in Nat, Len(inbox') \in Nat, unanswerable' \in Nat,
           Cardinality(Waiting') + skipped' = Cardinality(Waiting) + skipped + d,
           Cardinality(Asked') + unanswerable' = Cardinality(Asked) + unanswerable + c,
           Len(inbox') = Len(inbox) + d - c
    PROVE  ThreadsAccounted'
<1>1. /\ skipped \in Nat /\ unanswerable \in Nat /\ Len(inbox) \in Nat
      /\ Cardinality(Waiting) \in Nat
  BY WaitingFinite DEF TypeOK
<1>2. Cardinality(Asked) \in Nat
  BY AskedAre, PlacesFinite DEF TypeOK
<1>3. Cardinality(Waiting) + skipped = Cardinality(Asked) + Len(inbox) + unanswerable
  BY DEF ThreadsAccounted
<1>4. Cardinality(Waiting') + skipped' = Cardinality(Asked') + Len(inbox') + unanswerable'
  <2>1. PICK w \in Nat, a \in Nat, n \in Nat :
           w = Cardinality(Waiting) /\ a = Cardinality(Asked) /\ n = Len(inbox)
    BY <1>1, <1>2
  <2>2. PICK v \in Nat, b \in Nat, m \in Nat, t \in Nat, u \in Nat :
           /\ v = Cardinality(Waiting') /\ b = Cardinality(Asked') /\ m = Len(inbox')
           /\ t = skipped' /\ u = unanswerable'
    OBVIOUS
  <2>3. w + skipped = a + n + unanswerable
    BY <1>3, <2>1, Zenon
  <2>4. v + t = w + skipped + d /\ b + u = a + unanswerable + c /\ m = n + d - c
    BY <2>1, <2>2, Zenon
  <2>5. v + t = b + m + u
    BY <1>1, <2>3, <2>4
  <2>6. QED BY <2>2, <2>5, Zenon
<1>5. QED BY <1>4 DEF ThreadsAccounted

LEMMA BrokerTypes ==
    ASSUME BrokerInv
    PROVE  /\ mode \in Modes /\ step \in [Exchanges -> Steps] /\ kind \in [Exchanges -> Kinds]
           /\ answer \in [Exchanges -> Answers] /\ wire \in Seq(Bytes)
           /\ outputs \subseteq Units /\ commanded \subseteq Units
           /\ unanswerable \in Nat /\ skipped \in Nat /\ inbox \in Seq(ReadingBytes)
           /\ Len(inbox) \in Nat
           /\ lost \subseteq {<<c[2], c[3]>> : c \in NodeCommands(mode)}
           /\ Cardinality(Waiting) \in Nat /\ Cardinality(Asked) \in Nat
           /\ Asked = Places(wire, RequestBytes(mode))
<1>1. /\ mode \in Modes /\ step \in [Exchanges -> Steps] /\ kind \in [Exchanges -> Kinds]
      /\ answer \in [Exchanges -> Answers] /\ wire \in Seq(Bytes)
      /\ outputs \subseteq Units /\ commanded \subseteq Units
      /\ unanswerable \in Nat /\ skipped \in Nat /\ inbox \in Seq(ReadingBytes)
      /\ lost \subseteq {<<c[2], c[3]>> : c \in NodeCommands(mode)}
  BY DEF BrokerInv, TypeOK
<1>2. QED BY <1>1, WaitingFinite, AskedAre, PlacesFinite

(* handlePUT.                                                              *)
LEMMA PutToInv ==
    ASSUME BrokerInv, NEW e \in Exchanges, NEW r \in Controlables(mode),
           NEW on \in BOOLEAN, PutTo(e, r, on)
    PROVE  BrokerInv'
<1> DEFINE b == IF on THEN r.on ELSE r.off
<1>1. /\ step[e] = "idle" /\ kind' = [kind EXCEPT ![e] = "put"]
      /\ mode' = mode /\ inbox' = inbox /\ outputs' = outputs /\ skipped' = skipped
  BY DEF PutTo
<1>2. \/ /\ Write(b) /\ commanded' = Switched(commanded, <<r.room, r.unit>>, on)
         /\ step' = [step EXCEPT ![e] = "written"] /\ answer' = answer
      \/ /\ Answer(e, "ioexception") /\ wire' = wire /\ commanded' = commanded
         /\ unanswerable' = unanswerable /\ lost' = lost
  BY DEF PutTo
<1>3. /\ b \in Bytes /\ Resource(r) \in Units /\ ~IsRequest(b)
      /\ \A o : b \in Own(mode, o) => o = Resource(r)
      /\ Resource(r) \in Reachable =>
            /\ b \in Own(mode, Resource(r))
            /\ b \in Ons(mode, Resource(r)) <=> on = TRUE
  BY CommandFor DEF BrokerInv, TypeOK
<1> HIDE DEF b
<1>4. /\ mode \in Modes /\ step \in [Exchanges -> Steps] /\ kind \in [Exchanges -> Kinds]
      /\ answer \in [Exchanges -> Answers] /\ wire \in Seq(Bytes)
      /\ outputs \subseteq Units /\ commanded \subseteq Units
      /\ unanswerable \in Nat /\ skipped \in Nat /\ inbox \in Seq(ReadingBytes)
      /\ lost \subseteq {<<c[2], c[3]>> : c \in NodeCommands(mode)}
  BY BrokerTypes
<1>5. /\ wire' \in Seq(Bytes) /\ unanswerable' \in Nat
      /\ lost' \subseteq {<<c[2], c[3]>> : c \in NodeCommands(mode)}
      /\ Cardinality(Asked') + unanswerable' = Cardinality(Asked) + unanswerable
      /\ Cardinality(Asked) \in Nat /\ Cardinality(Asked') \in Nat
  <2>1. CASE Write(b)
    BY <1>1, <1>3, <1>4, <2>1, WriteCounts, AskedAre, ModeStays, PlacesFinite
  <2>2. CASE wire' = wire /\ unanswerable' = unanswerable /\ lost' = lost
    BY <1>1, <1>4, <2>2, AskedAre, ModeStays, PlacesFinite
  <2>3. QED BY <1>2, <2>1, <2>2
<1>6. /\ \E s \in {"written", "answered"} : step' = [step EXCEPT ![e] = s]
      /\ answer' \in [Exchanges -> Answers]
  BY <1>2, <1>4 DEF Answer, Answers
<1>7. Cardinality(Waiting') = Cardinality(Waiting) /\ step' \in [Exchanges -> Steps]
  BY <1>1, <1>6, WaitingSteps DEF BrokerInv, Steps
<1>8. TypeOK'
  <2>1. kind' \in [Exchanges -> Kinds]
    BY <1>1, <1>4 DEF Kinds
  <2>2. commanded' \subseteq Units
    BY <1>2, <1>3, <1>4 DEF Switched, Resource
  <2>3. QED BY <1>1, <1>4, <1>5, <1>6, <1>7, <2>1, <2>2, ModeStays DEF TypeOK
<1>9. Follows'
  <2>1. CASE Write(b) /\ commanded' = Switched(commanded, <<r.room, r.unit>>, on)
    <3> SUFFICES ASSUME NEW o \in Reachable, o \notin lost'
                 PROVE  LastSays(wire', Own(mode, o), Ons(mode, o), o, outputs', commanded')
      BY <1>1, FollowsAgain
    <3>1. \/ wire' = Append(wire, b) /\ lost' = lost
          \/ /\ wire' = wire /\ lost \subseteq lost'
             /\ \A x : b \in Own(mode, x) => x \in lost'
      BY <1>1, <1>3, <2>1, WriteCounts
    <3>2. LastSays(wire, Own(mode, o), Ons(mode, o), o, outputs, commanded)
      BY <3>1 DEF BrokerInv, Follows
    <3>3. CASE o = Resource(r)
      <4>1. b \in Own(mode, o) /\ (b \in Ons(mode, o) <=> on = TRUE)
        BY <1>3, <3>3
      <4>2. wire' = Append(wire, b)
        BY <3>1, <4>1
      <4>3. o \in commanded' <=> on = TRUE
        BY <2>1, <3>3 DEF Switched, Resource
      <4>4. b \in Ons(mode, o) <=> o \in commanded'
        BY <4>1, <4>3
      <4>5. QED BY <1>3, <1>4, <4>1, <4>2, <4>4, LastSaysAppendOwn
    <3>4. CASE o # Resource(r)
      <4>1. b \notin Own(mode, o) /\ (o \in commanded' <=> o \in commanded)
        BY <1>3, <2>1, <3>4 DEF Switched, Resource
      <4>2. CASE wire' = Append(wire, b)
        BY <1>1, <1>3, <1>4, <3>2, <4>1, <4>2, LastSaysAppendOther
      <4>3. CASE wire' = wire
        BY <1>1, <3>2, <4>1, <4>3 DEF LastSays
      <4>4. QED BY <3>1, <4>2, <4>3
    <3>5. QED BY <3>3, <3>4
  <2>2. CASE wire' = wire /\ commanded' = commanded /\ lost' = lost
    BY <1>1, <2>2, FollowsAgain DEF BrokerInv, Follows
  <2>3. QED BY <1>2, <2>1, <2>2
<1>10. ThreadsAccounted'
  <2>1. /\ Cardinality(Waiting) \in Nat /\ Cardinality(Waiting') = Cardinality(Waiting)
        /\ Len(inbox) \in Nat /\ Len(inbox') = Len(inbox) /\ skipped' = skipped
    BY <1>1, <1>4, <1>7, WaitingFinite
  <2>2. /\ Cardinality(Waiting') + skipped' = Cardinality(Waiting) + skipped + 0
        /\ Len(inbox') = Len(inbox) + 0 - 0
    BY <1>4, <2>1
  <2>3. Cardinality(Asked') + unanswerable' = Cardinality(Asked) + unanswerable + 0
    BY <1>4, <1>5
  <2>4. QED BY <1>4, <1>5, <2>1, <2>2, <2>3, Balance DEF BrokerInv
<1>11. outputs' \subseteq Reachable'
  BY <1>1, ModeStays DEF BrokerInv
<1>12. QED BY <1>8, <1>9, <1>10, <1>11 DEF BrokerInv

(* An exchange goes on, and nothing else happens.                          *)
LEMMA ExchangeInv ==
    ASSUME BrokerInv, NEW e \in Exchanges, NEW s \in Steps \ {"waiting"}, NEW a \in Answers,
           step[e] # "waiting", step' = [step EXCEPT ![e] = s],
           answer' = [answer EXCEPT ![e] = a], kind' \in [Exchanges -> Kinds],
           UNCHANGED <<mode, wire, inbox, outputs, commanded, unanswerable, skipped, lost>>
    PROVE  BrokerInv'
<1>1. /\ mode' = mode /\ wire' = wire /\ inbox' = inbox /\ outputs' = outputs
      /\ commanded' = commanded /\ unanswerable' = unanswerable /\ skipped' = skipped
      /\ lost' = lost
  OBVIOUS
<1>2. Cardinality(Waiting') = Cardinality(Waiting) /\ step' \in [Exchanges -> Steps]
  BY WaitingSteps DEF BrokerInv
<1>3. TypeOK' /\ outputs' \subseteq Reachable'
  BY <1>1, <1>2, BrokerTypes, ModeStays DEF TypeOK, BrokerInv
<1>4. Follows'
  BY <1>1, FollowsAgain DEF BrokerInv, Follows
<1>5. ThreadsAccounted'
  <2>1. Asked' = Asked
    BY <1>1, BrokerTypes, ModeStays
  <2>2. QED BY <1>1, <1>2, <2>1 DEF BrokerInv, ThreadsAccounted
<1>6. QED BY <1>3, <1>4, <1>5 DEF BrokerInv

LEMMA PutWrongInv == ASSUME BrokerInv, NEW e \in Exchanges, PutWrong(e) PROVE BrokerInv'
<1>1. kind' \in [Exchanges -> Kinds]
  BY BrokerTypes DEF PutWrong, Kinds
<1>2. /\ step[e] # "waiting" /\ step' = [step EXCEPT ![e] = "answered"]
      /\ answer' = [answer EXCEPT ![e] = "BAD_REQUEST"]
      /\ UNCHANGED <<mode, wire, inbox, outputs, commanded, unanswerable, skipped, lost>>
  BY DEF PutWrong, Answer
<1>3. "answered" \in Steps \ {"waiting"} /\ "BAD_REQUEST" \in Answers
  BY DEF Steps, Answers
<1>4. QED BY <1>1, <1>2, <1>3, ExchangeInv

LEMMA PutAnswersInv == ASSUME BrokerInv, NEW e \in Exchanges, PutAnswers(e) PROVE BrokerInv'
<1>1. kind' \in [Exchanges -> Kinds]
  BY BrokerTypes DEF PutAnswers
<1>2. /\ step[e] # "waiting" /\ step' = [step EXCEPT ![e] = "answered"]
      /\ answer' = [answer EXCEPT ![e] = "CHANGED"]
      /\ UNCHANGED <<mode, wire, inbox, outputs, commanded, unanswerable, skipped, lost>>
  BY DEF PutAnswers, Answer
<1>3. "answered" \in Steps \ {"waiting"} /\ "CHANGED" \in Answers
  BY DEF Steps, Answers
<1>4. QED BY <1>1, <1>2, <1>3, ExchangeInv

(* handleGET: a request more, and a thread more that waits.                *)
LEMMA GetInv == ASSUME BrokerInv, NEW e \in Exchanges, Get(e) PROVE BrokerInv'
<1>1. /\ step[e] = "idle" /\ mode' = mode /\ answer' = answer /\ inbox' = inbox
      /\ outputs' = outputs /\ commanded' = commanded /\ skipped' = skipped
  BY DEF Get
<1>2. PICK q \in RequestBytes(mode) :
         /\ kind' = [kind EXCEPT ![e] = IF q \in Readonlys(mode) THEN "reading" ELSE "status"]
         /\ \/ Write(q) /\ step' = [step EXCEPT ![e] = "waiting"]
            \/ /\ step' = [step EXCEPT ![e] = "silent"]
               /\ wire' = wire /\ unanswerable' = unanswerable /\ lost' = lost
  BY DEF Get, RequestBytes
<1>3. kind' \in [Exchanges -> Kinds]
  BY <1>2, BrokerTypes DEF Kinds
<1>4. CASE step' = [step EXCEPT ![e] = "silent"] /\ wire' = wire
           /\ unanswerable' = unanswerable /\ lost' = lost
  <2>1. answer' = [answer EXCEPT ![e] = answer[e]] /\ answer[e] \in Answers
    BY <1>1, BrokerTypes
  <2>2. "silent" \in Steps \ {"waiting"}
    BY DEF Steps
  <2>3. QED BY <1>1, <1>3, <1>4, <2>1, <2>2, ExchangeInv
<1>5. CASE Write(q) /\ step' = [step EXCEPT ![e] = "waiting"]
  <2>1. q \in Bytes /\ IsRequest(q)
    BY RequestsAre DEF Bytes, RequestBytes
  <2>2. /\ wire' \in Seq(Bytes) /\ unanswerable' \in Nat
        /\ lost' \subseteq {<<c[2], c[3]>> : c \in NodeCommands(mode)}
        /\ Cardinality(Asked') + unanswerable' = Cardinality(Asked) + unanswerable + 1
        /\ (wire' = Append(wire, q) /\ lost' = lost) \/ (wire' = wire /\ lost \subseteq lost')
    BY <1>1, <1>5, <2>1, WriteCounts
  <2>3. Cardinality(Waiting') = Cardinality(Waiting) + 1 /\ step' \in [Exchanges -> Steps]
    BY <1>1, <1>5, WaitingSteps DEF BrokerInv, Steps
  <2>4. TypeOK' /\ outputs' \subseteq Reachable'
    BY <1>1, <1>3, <2>2, <2>3, BrokerTypes, ModeStays DEF TypeOK, BrokerInv
  <2>5. Follows'
    <3> SUFFICES ASSUME NEW o \in Reachable, o \notin lost'
                 PROVE  LastSays(wire', Own(mode, o), Ons(mode, o), o, outputs', commanded')
      BY <1>1, FollowsAgain
    <3>1. LastSays(wire, Own(mode, o), Ons(mode, o), o, outputs, commanded)
      BY <2>2 DEF BrokerInv, Follows
    <3>2. q \notin Own(mode, o)
      BY <2>1, BrokerTypes, RequestForNone
    <3>3. CASE wire' = Append(wire, q)
      BY <1>1, <2>1, <3>1, <3>2, <3>3, BrokerTypes, LastSaysAppendOther
    <3>4. CASE wire' = wire
      BY <1>1, <3>1, <3>4
    <3>5. QED BY <2>2, <3>3, <3>4
  <2>6. ThreadsAccounted'
    <3>1. /\ Cardinality(Waiting') \in Nat /\ Len(inbox') \in Nat /\ skipped' \in Nat
          /\ Cardinality(Waiting') + skipped' = Cardinality(Waiting) + skipped + 1
          /\ Len(inbox') = Len(inbox) + 1 - 1
      <4>1. /\ Cardinality(Waiting) \in Nat /\ Cardinality(Waiting') = Cardinality(Waiting) + 1
            /\ Len(inbox) \in Nat /\ inbox' = inbox /\ skipped \in Nat /\ skipped' = skipped
        BY <1>1, <2>3, BrokerTypes
      <4>2. QED BY <4>1
    <3>2. Cardinality(Asked') \in Nat
      BY <1>1, <2>2, ModeStays, PlacesFinite
    <3>3. QED BY <2>2, <3>1, <3>2, Balance DEF BrokerInv
  <2>7. QED BY <2>4, <2>5, <2>6 DEF BrokerInv
<1>6. QED BY <1>2, <1>4, <1>5

(* A thread ends: with a byte of the port, or without one.                 *)
LEMMA ThreadEndsInv ==
    ASSUME BrokerInv, NEW e \in Exchanges, NEW a \in Answers, step[e] = "waiting",
           Answer(e, a), inbox' \in Seq(ReadingBytes), skipped' \in Nat,
           skipped' + Len(inbox) = skipped + Len(inbox') + 1,
           UNCHANGED <<mode, kind, wire, outputs, commanded, unanswerable, lost>>
    PROVE  BrokerInv'
<1>1. /\ mode' = mode /\ kind' = kind /\ wire' = wire /\ outputs' = outputs
      /\ commanded' = commanded /\ unanswerable' = unanswerable /\ lost' = lost
      /\ step' = [step EXCEPT ![e] = "answered"] /\ answer' = [answer EXCEPT ![e] = a]
  BY DEF Answer
<1>2. Cardinality(Waiting') = Cardinality(Waiting) - 1 /\ step' \in [Exchanges -> Steps]
  BY <1>1, WaitingSteps DEF BrokerInv, Steps
<1>3. TypeOK' /\ outputs' \subseteq Reachable'
  BY <1>1, <1>2, BrokerTypes, ModeStays DEF TypeOK, BrokerInv
<1>4. Follows'
  BY <1>1, FollowsAgain DEF BrokerInv, Follows
<1>5. ThreadsAccounted'
  <2>1. Asked' = Asked
    BY <1>1, BrokerTypes, ModeStays
  <2>2. PICK d \in Int : d = skipped' - skipped - 1
    BY BrokerTypes
  <2>3. Cardinality(Waiting') \in Nat
    <3>1. e \in Waiting
      BY DEF Waiting
    <3>2. Cardinality(Waiting) # 0
      BY <3>1, WaitingFinite, FS_EmptySet
    <3>3. QED BY <1>2, <3>2, BrokerTypes
  <2>4. /\ Len(inbox') \in Nat /\ Len(inbox') = Len(inbox) + d - 0
        /\ Cardinality(Waiting') + skipped' = Cardinality(Waiting) + skipped + d
    <3>1. /\ Cardinality(Waiting) \in Nat /\ Cardinality(Waiting') = Cardinality(Waiting) - 1
          /\ Len(inbox) \in Nat /\ Len(inbox') \in Nat /\ skipped \in Nat
      BY <1>2, BrokerTypes
    <3>2. Len(inbox') = Len(inbox) + d - 0
      BY <2>2, <3>1
    <3>3. Cardinality(Waiting') + skipped' = Cardinality(Waiting) + skipped + d
      BY <2>2, <3>1
    <3>4. QED BY <3>1, <3>2, <3>3
  <2>5. /\ Cardinality(Asked') \in Nat /\ unanswerable' \in Nat
        /\ Cardinality(Asked') + unanswerable' = Cardinality(Asked) + unanswerable + 0
    BY <1>1, <2>1, BrokerTypes
  <2>6. QED BY <2>3, <2>4, <2>5, Balance DEF BrokerInv
<1>6. QED BY <1>3, <1>4, <1>5 DEF BrokerInv

LEMMA ReadByteInv == ASSUME BrokerInv, NEW e \in Exchanges, ReadByte(e) PROVE BrokerInv'
<1>1. AnswerTo(kind[e], Head(inbox)) \in Answers
  BY DEF AnswerTo, Answers
<1>2. inbox' \in Seq(ReadingBytes) /\ Len(inbox') = Len(inbox) - 1
  BY BrokerTypes, TailPlaces DEF ReadByte
<1>3. skipped' \in Nat /\ skipped' + Len(inbox) = skipped + Len(inbox') + 1
  BY <1>2, BrokerTypes DEF ReadByte
<1>4. /\ step[e] = "waiting" /\ Answer(e, AnswerTo(kind[e], Head(inbox)))
      /\ UNCHANGED <<mode, kind, wire, outputs, commanded, unanswerable, lost>>
  BY DEF ReadByte
<1>5. QED BY <1>1, <1>2, <1>3, <1>4, ThreadEndsInv

LEMMA ReadFailsInv == ASSUME BrokerInv, NEW e \in Exchanges, ReadFails(e) PROVE BrokerInv'
<1>1. \E a \in Answers : Answer(e, a)
  BY DEF ReadFails, Answers
<1>2. inbox' \in Seq(ReadingBytes)
      /\ skipped' \in Nat /\ skipped' + Len(inbox) = skipped + Len(inbox') + 1
  <2>1. /\ inbox' = inbox /\ skipped' = skipped + 1 /\ skipped \in Nat
        /\ Len(inbox) \in Nat /\ inbox \in Seq(ReadingBytes)
    BY BrokerTypes DEF ReadFails
  <2>2. QED BY <2>1
<1>3. /\ step[e] = "waiting"
      /\ UNCHANGED <<mode, kind, wire, outputs, commanded, unanswerable, lost>>
  BY DEF ReadFails
<1>4. QED BY <1>1, <1>2, <1>3, ThreadEndsInv

(* The first byte leaves the wire.                                         *)
LEMMA WireTail ==
    ASSUME BrokerInv, wire # <<>>, wire' = Tail(wire), mode' = mode
    PROVE  /\ wire' \in Seq(Bytes) /\ Head(wire) \in Bytes
           /\ Cardinality(Asked') \in Nat
           /\ Cardinality(Asked) =
                 Cardinality(Asked') + (IF IsRequest(Head(wire)) THEN 1 ELSE 0)
<1>1. wire \in Seq(Bytes) /\ Asked = Places(wire, RequestBytes(mode))
      /\ Asked' = Places(wire', RequestBytes(mode))
  BY BrokerTypes, ModeStays
<1>2. wire' \in Seq(Bytes) /\ Head(wire) \in Bytes
  BY <1>1, TailPlaces
<1>3. Cardinality(Asked') \in Nat
  BY <1>1, <1>2, PlacesFinite
<1>4. Cardinality(Asked) = Cardinality(Asked')
                           + (IF Head(wire) \in RequestBytes(mode) THEN 1 ELSE 0)
  BY <1>1, PlacesTail
<1>5. QED BY <1>2, <1>3, <1>4, RequestsAre

(* loop() takes the first byte: a command, a request that is answered, or a*)
(* byte that the sketch does not know.                                     *)
LEMMA ArduinoLoopInv == ASSUME BrokerInv, ArduinoLoop PROVE BrokerInv'
<1> DEFINE byte == Head(wire)
<1>1. /\ wire # <<>> /\ wire' = Tail(wire) /\ mode' = mode /\ step' = step /\ kind' = kind
      /\ answer' = answer /\ commanded' = commanded /\ skipped' = skipped /\ lost' = lost
  BY DEF ArduinoLoop
<1>2. \/ /\ \E c \in NodeCommands(mode) :
               c[1] = byte /\ outputs' = Switched(outputs, <<c[2], c[3]>>, c[4])
         /\ inbox' = inbox /\ unanswerable' = unanswerable
      \/ /\ NodeAnswers(mode, byte)
         /\ \E x \in ReadingBytes : inbox' = Append(inbox, x)
         /\ outputs' = outputs /\ unanswerable' = unanswerable
      \/ /\ \A c \in NodeCommands(mode) : c[1] # byte
         /\ unanswerable' = IF IsRequest(byte) THEN unanswerable + 1 ELSE unanswerable
         /\ outputs' = outputs /\ inbox' = inbox
  BY DEF ArduinoLoop
<1>3. /\ wire' \in Seq(Bytes) /\ byte \in Bytes /\ Cardinality(Asked') \in Nat
      /\ Cardinality(Asked) = Cardinality(Asked') + (IF IsRequest(byte) THEN 1 ELSE 0)
  BY <1>1, WireTail
<1> HIDE DEF byte
<1>4. Waiting' = Waiting
  BY <1>1 DEF Waiting
<1>5. ASSUME outputs' \subseteq Reachable, inbox' \in Seq(ReadingBytes), unanswerable' \in Nat
      PROVE  TypeOK' /\ outputs' \subseteq Reachable'
  BY <1>1, <1>3, <1>5, BrokerTypes, ModeStays, ReachableUnits DEF TypeOK
<1>6. ASSUME NEW c \in Int, Len(inbox') \in Nat, unanswerable' \in Nat,
             Cardinality(Asked') + unanswerable' = Cardinality(Asked) + unanswerable + c,
             Len(inbox') = Len(inbox) + 0 - c
      PROVE  ThreadsAccounted'
  <2>1. /\ Cardinality(Waiting') \in Nat /\ skipped' \in Nat
        /\ Cardinality(Waiting') + skipped' = Cardinality(Waiting) + skipped + 0
    BY <1>1, <1>4, BrokerTypes
  <2>2. QED BY <1>3, <1>6, <2>1, Balance DEF BrokerInv
<1>7. ASSUME \A o \in Reachable :
                /\ byte \in Own(mode, o) => (o \in outputs' <=> byte \in Ons(mode, o))
                /\ byte \notin Own(mode, o) => (o \in outputs' <=> o \in outputs)
      PROVE  Follows'
  <2> SUFFICES ASSUME NEW o \in Reachable, o \notin lost
               PROVE  LastSays(wire', Own(mode, o), Ons(mode, o), o, outputs', commanded)
    BY <1>1, FollowsAgain
  <2>1. LastSays(wire, Own(mode, o), Ons(mode, o), o, outputs, commanded)
    BY DEF BrokerInv, Follows
  <2>2. /\ Head(wire) \in Own(mode, o) => (o \in outputs' <=> Head(wire) \in Ons(mode, o))
        /\ Head(wire) \notin Own(mode, o) => (o \in outputs' <=> o \in outputs)
    BY <1>7 DEF byte
  <2>3. LastSays(Tail(wire), Own(mode, o), Ons(mode, o), o, outputs', commanded)
    BY <1>1, <2>1, <2>2, BrokerTypes, LastSaysTail
  <2>4. QED BY <1>1, <2>3
<1>8. ASSUME NEW c \in NodeCommands(mode), c[1] = byte,
             outputs' = Switched(outputs, <<c[2], c[3]>>, c[4]),
             inbox' = inbox, unanswerable' = unanswerable
      PROVE  BrokerInv'
  <2>1. /\ ~IsRequest(byte) /\ c[4] \in BOOLEAN /\ <<c[2], c[3]>> \in Reachable
        /\ byte \in Own(mode, <<c[2], c[3]>>)
        /\ byte \in Ons(mode, <<c[2], c[3]>>) <=> c[4] = TRUE
        /\ \A o : o # <<c[2], c[3]>> => byte \notin Own(mode, o)
    BY <1>3, <1>8, BrokerTypes, CommandDone
  <2>2. outputs' = IF c[4] = TRUE THEN outputs \cup {<<c[2], c[3]>>}
                   ELSE outputs \ {<<c[2], c[3]>>}
    BY <1>8, <2>1 DEF Switched
  <2>3. TypeOK' /\ outputs' \subseteq Reachable'
    BY <1>5, <1>8, <2>1, <2>2, BrokerTypes DEF BrokerInv
  <2>4. Follows'
    BY <1>7, <2>1, <2>2
  <2>5. ThreadsAccounted'
    <3>1. /\ Cardinality(Asked') = Cardinality(Asked) /\ Cardinality(Asked) \in Nat
          /\ Len(inbox) \in Nat /\ unanswerable \in Nat
      BY <1>3, <2>1, BrokerTypes
    <3>2. QED BY <1>6, <1>8, <3>1
  <2>6. QED BY <2>3, <2>4, <2>5 DEF BrokerInv
<1>9. ASSUME \A c \in NodeCommands(mode) : c[1] # byte
      PROVE  \A o : byte \notin Own(mode, o)
  BY <1>9 DEF Own
<1>10. ASSUME NodeAnswers(mode, byte), NEW x \in ReadingBytes, inbox' = Append(inbox, x),
              outputs' = outputs, unanswerable' = unanswerable
       PROVE  BrokerInv'
  <2>1. IsRequest(byte)
    BY <1>10, BrokerTypes, AlphabetHolds DEF Alphabet
  <2>2. \A o : byte \notin Own(mode, o)
    BY <2>1, BrokerTypes, RequestForNone
  <2>3. inbox' \in Seq(ReadingBytes) /\ Len(inbox') = Len(inbox) + 1
    BY <1>10, BrokerTypes, AppendPlaces
  <2>4. TypeOK' /\ outputs' \subseteq Reachable'
    BY <1>5, <1>10, <2>3, BrokerTypes DEF BrokerInv
  <2>5. Follows'
    BY <1>7, <1>10, <2>2
  <2>6. ThreadsAccounted'
    <3>1. /\ Cardinality(Asked) = Cardinality(Asked') + 1 /\ Len(inbox) \in Nat
          /\ unanswerable \in Nat
      BY <1>3, <2>1, BrokerTypes
    <3>2. /\ Len(inbox') \in Nat /\ Len(inbox') = Len(inbox) + 0 - (-1)
          /\ Cardinality(Asked') + unanswerable' = Cardinality(Asked) + unanswerable + (-1)
      BY <1>3, <1>10, <2>3, <3>1
    <3>3. -1 \in Int
      OBVIOUS
    <3>4. QED BY <1>6, <1>10, <3>1, <3>2, <3>3
  <2>7. QED BY <2>4, <2>5, <2>6 DEF BrokerInv
<1>11. ASSUME \A c \in NodeCommands(mode) : c[1] # byte,
              unanswerable' = IF IsRequest(byte) THEN unanswerable + 1 ELSE unanswerable,
              outputs' = outputs, inbox' = inbox
       PROVE  BrokerInv'
  <2>1. unanswerable' \in Nat
    BY <1>11, BrokerTypes
  <2>2. TypeOK' /\ outputs' \subseteq Reachable'
    BY <1>5, <1>11, <2>1, BrokerTypes DEF BrokerInv
  <2>3. Follows'
    BY <1>7, <1>9, <1>11
  <2>4. ThreadsAccounted'
    <3>1. /\ Cardinality(Asked) \in Nat /\ unanswerable \in Nat /\ Len(inbox) \in Nat
      BY BrokerTypes
    <3>2. Cardinality(Asked') + unanswerable' = Cardinality(Asked) + unanswerable + 0
      BY <1>3, <1>11, <3>1
    <3>3. Len(inbox') \in Nat /\ Len(inbox') = Len(inbox) + 0 - 0
      BY <1>11, <3>1
    <3>4. QED BY <1>6, <2>1, <3>2, <3>3
  <2>5. QED BY <2>2, <2>3, <2>4 DEF BrokerInv
<1>12. QED BY <1>2, <1>8, <1>10, <1>11

(* The radio loses the first byte of the wire, or the last of the answers. *)
LEMMA RadioLosesInv == ASSUME BrokerInv, RadioLoses PROVE BrokerInv'
<1>1. /\ mode' = mode /\ step' = step /\ kind' = kind /\ answer' = answer
      /\ outputs' = outputs /\ commanded' = commanded /\ skipped' = skipped
  BY DEF RadioLoses
<1>2. Waiting' = Waiting
  BY <1>1 DEF Waiting
<1>3. /\ Cardinality(Waiting') \in Nat /\ skipped' \in Nat
      /\ Cardinality(Waiting') + skipped' = Cardinality(Waiting) + skipped + 0
  BY <1>1, <1>2, BrokerTypes
<1>4. CASE wire # <<>> /\ wire' = Tail(wire) /\ Lose(Head(wire)) /\ inbox' = inbox
  <2>1. /\ wire' \in Seq(Bytes) /\ Cardinality(Asked') \in Nat
        /\ Cardinality(Asked) =
              Cardinality(Asked') + (IF IsRequest(Head(wire)) THEN 1 ELSE 0)
    BY <1>1, <1>4, WireTail
  <2>2. /\ lost' = lost \cup {<<c[2], c[3]>> :
                               c \in {k \in NodeCommands(mode) : k[1] = Head(wire)}}
        /\ unanswerable' = IF IsRequest(Head(wire)) THEN unanswerable + 1 ELSE unanswerable
    BY <1>4 DEF Lose
  <2>3. unanswerable' \in Nat
        /\ lost' \subseteq {<<c[2], c[3]>> : c \in NodeCommands(mode)}
    BY <2>2, BrokerTypes
  <2>4. TypeOK' /\ outputs' \subseteq Reachable'
    BY <1>1, <1>4, <2>1, <2>3, BrokerTypes, ModeStays DEF TypeOK, BrokerInv
  <2>5. Follows'
    <3> SUFFICES ASSUME NEW o \in Reachable, o \notin lost'
                 PROVE  LastSays(Tail(wire), Own(mode, o), Ons(mode, o), o, outputs, commanded)
      BY <1>1, <1>4, FollowsAgain
    <3>1. LastSays(wire, Own(mode, o), Ons(mode, o), o, outputs, commanded)
      BY <2>2 DEF BrokerInv, Follows
    <3>2. Head(wire) \notin Own(mode, o)
      BY <2>2 DEF Own
    <3>3. QED BY <1>4, <3>1, <3>2, BrokerTypes, LastSaysTail
  <2>6. ThreadsAccounted'
    <3>1. Cardinality(Asked) \in Nat /\ unanswerable \in Nat /\ Len(inbox) \in Nat
      BY BrokerTypes
    <3>2. Cardinality(Asked') + unanswerable' = Cardinality(Asked) + unanswerable + 0
      BY <2>1, <2>2, <3>1
    <3>3. Len(inbox') \in Nat /\ Len(inbox') = Len(inbox) + 0 - 0
      BY <1>4, <3>1
    <3>4. QED BY <1>3, <2>1, <2>3, <3>2, <3>3, Balance DEF BrokerInv
  <2>7. QED BY <2>4, <2>5, <2>6 DEF BrokerInv
<1>5. CASE /\ inbox # <<>> /\ inbox' = Front(inbox) /\ unanswerable' = unanswerable + 1
           /\ wire' = wire /\ lost' = lost
  <2>1. inbox' \in Seq(ReadingBytes) /\ Len(inbox') = Len(inbox) - 1 /\ Len(inbox') \in Nat
    <3>1. inbox \in Seq(ReadingBytes) /\ inbox # <<>>
      BY <1>5, BrokerTypes
    <3>2. /\ Front(inbox) \in Seq(ReadingBytes)
          /\ Len(Front(inbox)) = Len(inbox) - 1 /\ Len(Front(inbox)) \in Nat
      BY <3>1, FrontLength
    <3>3. QED BY <1>5, <3>2
  <2>2. unanswerable' \in Nat
    BY <1>5, BrokerTypes
  <2>3. TypeOK' /\ outputs' \subseteq Reachable'
    BY <1>1, <1>5, <2>1, <2>2, BrokerTypes, ModeStays DEF TypeOK, BrokerInv
  <2>4. Follows'
    BY <1>1, <1>5, FollowsAgain DEF BrokerInv, Follows
  <2>5. ThreadsAccounted'
    <3>1. Asked' = Asked
      BY <1>1, <1>5, BrokerTypes, ModeStays
    <3>2. Cardinality(Asked) \in Nat /\ unanswerable \in Nat /\ Len(inbox) \in Nat
      BY BrokerTypes
    <3>3. /\ Cardinality(Asked') + unanswerable' = Cardinality(Asked) + unanswerable + 1
          /\ Cardinality(Asked') \in Nat
      BY <1>5, <3>1, <3>2
    <3>4. Len(inbox') = Len(inbox) + 0 - 1
      BY <2>1, <3>2
    <3>5. QED BY <1>3, <2>1, <2>2, <3>3, <3>4, Balance DEF BrokerInv
  <2>6. QED BY <2>3, <2>4, <2>5 DEF BrokerInv
<1>6. QED BY <1>4, <1>5 DEF RadioLoses
--------------------------------------------------------------------------------
LEMMA BrokerInitInv == Init => BrokerInv
<1> SUFFICES ASSUME Init PROVE BrokerInv
  OBVIOUS
<1>1. /\ mode \in Modes /\ wire = <<>> /\ inbox = <<>> /\ outputs = {} /\ commanded = {}
      /\ unanswerable = 0 /\ skipped = 0 /\ lost = {} /\ Len(wire) = 0 /\ Len(inbox) = 0
      /\ step = [e \in Exchanges |-> "idle"] /\ kind = [e \in Exchanges |-> "none"]
      /\ answer = [e \in Exchanges |-> "none"]
  BY DEF Init
<1>2. TypeOK
  BY <1>1 DEF TypeOK, Steps, Kinds, Answers
<1>3. Follows
  BY <1>1 DEF Follows, LastSays
<1>4. ThreadsAccounted
  <2>1. Waiting = {} /\ Asked = {}
    BY <1>1 DEF Waiting, Asked
  <2>2. QED BY <1>1, <2>1, FS_EmptySet DEF ThreadsAccounted
<1>5. QED BY <1>1, <1>2, <1>3, <1>4 DEF BrokerInv

LEMMA BrokerStepInv == BrokerInv /\ [Next]_vars => BrokerInv'
<1> SUFFICES ASSUME BrokerInv, [Next]_vars PROVE BrokerInv'
  OBVIOUS
<1>1. CASE UNCHANGED vars
  <2>1. /\ mode' = mode /\ step' = step /\ kind' = kind /\ answer' = answer
        /\ wire' = wire /\ inbox' = inbox /\ outputs' = outputs /\ commanded' = commanded
        /\ unanswerable' = unanswerable /\ skipped' = skipped /\ lost' = lost
    BY <1>1 DEF vars
  <2>2. TypeOK' /\ outputs' \subseteq Reachable'
    BY <2>1, BrokerTypes, ModeStays DEF TypeOK, BrokerInv
  <2>3. Follows'
    BY <2>1, FollowsAgain DEF BrokerInv, Follows
  <2>4. Waiting' = Waiting /\ Asked' = Asked
    BY <2>1, BrokerTypes, ModeStays DEF Waiting
  <2>5. QED BY <2>1, <2>2, <2>3, <2>4 DEF BrokerInv, ThreadsAccounted
<1>2. ASSUME NEW e \in Exchanges, Put(e) PROVE BrokerInv'
  BY <1>2, PutWrongInv, PutToInv DEF Put
<1>3. QED
  BY <1>1, <1>2, PutAnswersInv, GetInv, ReadByteInv, ReadFailsInv, ArduinoLoopInv,
     RadioLosesInv DEF Next

(* The broker's inductive invariant: its types, and that for every output  *)
(* the last command on the wire is the last PUT's.                         *)
THEOREM BrokerInvAlways == Spec => []BrokerInv
BY BrokerInitInv, BrokerStepInv, PTL DEF Spec

(* Whatever the radio loses, whatever readings fail and however the threads*)
(* run: the threads that wait and those that gave up are as many as the    *)
(* bytes that are asked for, have come, or never will.                     *)
THEOREM AlwaysThreadsAccounted == Spec => []ThreadsAccounted
<1>1. BrokerInv => ThreadsAccounted
  BY DEF BrokerInv
<1>2. QED BY <1>1, BrokerInvAlways, PTL

LEMMA QuietFollows == BrokerInv => LastCommandWins
<1> SUFFICES ASSUME BrokerInv, wire = <<>>
             PROVE  outputs \ lost = (commanded \cap Reachable) \ lost
  BY DEF LastCommandWins
<1>1. Len(wire) = 0
  OBVIOUS
<1>2. ASSUME NEW o \in Reachable, o \notin lost PROVE o \in outputs <=> o \in commanded
  BY <1>1, <1>2 DEF BrokerInv, Follows, LastSays
<1>3. QED BY <1>2 DEF BrokerInv

(* However many PUTs and GETs share the line: once it is quiet, every      *)
(* output is where the last PUT for it put it, but for outputs that lost a *)
(* byte of their own.                                                      *)
THEOREM AlwaysLastCommandWins == Spec => []LastCommandWins
BY QuietFollows, BrokerInvAlways, PTL
===============================================================================
