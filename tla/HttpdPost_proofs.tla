--------------------------- MODULE HttpdPost_proofs ---------------------------
(***************************************************************************)
(* Theorems about HttpdPost for every number of connections, every set of  *)
(* bodies and every size of the buffers. The first two do not depend on    *)
(* what the parser computes; the third says that it computes the meaning of*)
(* a body, however the body is cut into chunks.                            *)
(***************************************************************************)
EXTENDS HttpdPost, FiniteSetTheorems, SequenceTheorems, WellFoundedInduction,
        TLAPS

(* The parser's owner. The lock is only taken when it is free or the       *)
(* record's own, so nobody takes it from a record that reads a body.       *)
OwnerInv ==
    /\ phase \in [Slots -> Phases]
    /\ lock \in Slots \cup {NULL}
    /\ ParserIsOwned

(* A request that ends gives up the lock only if it is its own.            *)
LEMMA EndRequestOwner ==
    ASSUME OwnerInv, NEW s \in Slots, NEW code, NEW p, NEW ok, NEW dirty,
           EndRequest(s, code, p, ok, dirty)
    PROVE  OwnerInv'
<1>1. phase' \in [Slots -> Phases] /\ lock' \in Slots \cup {NULL}
  BY DEF EndRequest, OwnerInv, Phases
<1>2. ASSUME NEW t \in Slots, phase'[t] = "body" PROVE lock' = t
  <2>1. t # s
    BY <1>2 DEF EndRequest, OwnerInv
  <2>2. phase[t] = "body"
    BY <1>2, <2>1 DEF EndRequest, OwnerInv
  <2>3. lock = t
    BY <2>2 DEF OwnerInv, ParserIsOwned
  <2>4. QED BY <2>1, <2>3 DEF EndRequest
<1>3. QED BY <1>1, <1>2 DEF OwnerInv, ParserIsOwned

LEMMA StepOwner == OwnerInv /\ [Next]_vars => OwnerInv'
<1> SUFFICES ASSUME OwnerInv, [Next]_vars PROVE OwnerInv'
  OBVIOUS
<1>1. CASE UNCHANGED vars
  BY <1>1 DEF vars, OwnerInv, ParserIsOwned
<1>2. CASE Next
  <2>1. PICK s \in Slots :
           \/ Connect(s) \/ Gone(s) \/ Get(s) \/ BadLength(s) \/ Refuse(s)
           \/ \E b \in Bodies : Accept(s, b)
           \/ \E n \in 1 .. Len(body[s]) : ReadChunk(s, n)
           \/ \E e \in Surplus : ReadBeyond(s, e)
    BY <1>2 DEF Next
  <2>2. CASE Connect(s) \/ Gone(s) \/ Get(s)
    BY <2>2 DEF Connect, Gone, Get, OwnerInv, ParserIsOwned, Phases
  <2>3. CASE BadLength(s) \/ Refuse(s)
    BY <2>3, EndRequestOwner DEF BadLength, Refuse
  <2>4. ASSUME NEW b \in Bodies, Accept(s, b) PROVE OwnerInv'
    <3>1. CASE b = <<>>
      BY <2>4, <3>1, EndRequestOwner DEF Accept
    <3>2. CASE b # <<>>
      <4>1. lock' = s /\ phase' = [phase EXCEPT ![s] = "body"]
        BY <2>4, <3>2 DEF Accept
      <4>2. \A t \in Slots : phase[t] = "body" => t = s
        BY <2>4 DEF Accept, OwnerInv, ParserIsOwned, Slots, NULL
      <4>3. QED BY <4>1, <4>2 DEF OwnerInv, ParserIsOwned, Phases
    <3>3. QED BY <3>1, <3>2
  <2>5. ASSUME NEW n \in 1 .. Len(body[s]), ReadChunk(s, n) PROVE OwnerInv'
    <3>1. CASE UNCHANGED <<phase, lock>>
      BY <3>1 DEF OwnerInv, ParserIsOwned
    <3>2. CASE ~UNCHANGED <<phase, lock>>
      <4>1. PICK code, p, ok, dirty : EndRequest(s, code, p, ok, dirty)
        BY <2>5, <3>2 DEF ReadChunk
      <4>2. QED BY <4>1, EndRequestOwner
    <3>3. QED BY <3>1, <3>2
  <2>6. ASSUME NEW e \in Surplus, ReadBeyond(s, e) PROVE OwnerInv'
    <3>1. PICK code, p, ok, dirty : EndRequest(s, code, p, ok, dirty)
      BY <2>6 DEF ReadBeyond
    <3>2. QED BY <3>1, EndRequestOwner
  <2>7. QED BY <2>1, <2>2, <2>3, <2>4, <2>5, <2>6
<1>3. QED BY <1>1, <1>2

(* Whoever reads a body has the lock, so no two bodies are ever parsed into*)
(* the same buffers, although locks outlive their connections.             *)
THEOREM ParserHasOneOwner == Spec => []ParserIsOwned
<1>1. Init => OwnerInv
  BY DEF Init, OwnerInv, ParserIsOwned, Phases
<1>2. OwnerInv => ParserIsOwned
  BY DEF OwnerInv
<1>3. QED BY <1>1, <1>2, StepOwner, PTL DEF Spec
-------------------------------------------------------------------------------
(* The flag remembers every accepted pair that no event has announced,     *)
(* but for the pairs whose event found the queue full.                     *)
FlagInv ==
    /\ phase \in [Slots -> Phases]
    /\ config_ok \in BOOLEAN /\ unsaved \in BOOLEAN /\ dropped \in BOOLEAN
    /\ unsaved => config_ok \/ dropped

LEMMA EndRequestFlag ==
    ASSUME FlagInv, NEW s \in Slots, NEW code, NEW p, NEW ok \in BOOLEAN,
           NEW dirty \in BOOLEAN, dirty => ok \/ dropped,
           EndRequest(s, code, p, ok, dirty)
    PROVE  FlagInv' /\ (~unsaved' \/ dropped')
<1>1. PICK posted \in {FALSE, ok} :
         /\ unsaved' = (dirty /\ ~posted)
         /\ dropped' = (~posted /\ (dropped \/ ok))
  BY DEF EndRequest, Announce
<1>2. phase' \in [Slots -> Phases] /\ config_ok' = FALSE
  BY DEF EndRequest, Announce, FlagInv, Phases
<1>3. unsaved' \in BOOLEAN /\ dropped' \in BOOLEAN
  BY <1>1, Zenon DEF FlagInv
<1>4. unsaved' => dropped'
  BY <1>1, Zenon DEF FlagInv
<1>5. QED BY <1>2, <1>3, <1>4 DEF FlagInv

LEMMA StepFlag ==
    ASSUME FlagInv, [Next]_vars
    PROVE  /\ FlagInv'
           /\ \A s \in Slots :
                phase[s] = "body" /\ phase'[s] = "output" =>
                   ~unsaved' \/ dropped'
<1> DEFINE Goal == /\ FlagInv'
                   /\ \A t \in Slots : phase[t] = "body" /\ phase'[t] = "output"
                                           => ~unsaved' \/ dropped'
<1>1. CASE UNCHANGED vars
  BY <1>1 DEF vars, FlagInv
<1>2. CASE Next
  <2>1. PICK s \in Slots :
           \/ Connect(s) \/ Gone(s) \/ Get(s) \/ BadLength(s) \/ Refuse(s)
           \/ \E b \in Bodies : Accept(s, b)
           \/ \E n \in 1 .. Len(body[s]) : ReadChunk(s, n)
           \/ \E e \in Surplus : ReadBeyond(s, e)
    BY <1>2 DEF Next
  <2>2. CASE Connect(s) \/ Gone(s) \/ Get(s)
    BY <2>2 DEF Connect, Gone, Get, FlagInv, Phases
  <2>3. CASE BadLength(s) \/ Refuse(s)
    <3>1. PICK code : EndRequest(s, code, parser, config_ok, unsaved)
      BY <2>3 DEF BadLength, Refuse
    <3>2. QED BY <3>1, EndRequestFlag DEF FlagInv
  <2>4. ASSUME NEW b \in Bodies, Accept(s, b) PROVE Goal
    <3>1. CASE b = <<>>
      <4>1. EndRequest(s, "OK", Fresh, config_ok, unsaved)
        BY <2>4, <3>1 DEF Accept
      <4>2. QED BY <4>1, EndRequestFlag DEF FlagInv
    <3>2. CASE b # <<>>
      BY <2>4, <3>2 DEF Accept, FlagInv, Phases
    <3>3. QED BY <3>1, <3>2
  <2>5. ASSUME NEW n \in 1 .. Len(body[s]), ReadChunk(s, n) PROVE Goal
    <3> DEFINE from == Len(body[s]) - left[s]
               p == ParseChunk(parser, SubSeq(body[s], from + 1, from + n),
                               n = left[s])
               some == p.accepted # parser.accepted
               code == IF p.state = "ERROR" THEN "BR" ELSE "OK"
               ends == p.state = "ERROR" \/ n = left[s]
    <3>1. IF ends
          THEN EndRequest(s, code, p, config_ok \/ some, unsaved \/ some)
          ELSE /\ config_ok' = (config_ok \/ some)
               /\ unsaved' = (unsaved \/ some)
               /\ UNCHANGED <<phase, return_code, lock, dropped>>
      BY <2>5 DEF ReadChunk
    <3>2. /\ (config_ok \/ some) \in BOOLEAN
          /\ (unsaved \/ some) \in BOOLEAN
          /\ (unsaved \/ some) => (config_ok \/ some) \/ dropped
      BY DEF FlagInv
    <3> HIDE DEF some, p, code, ends
    <3>3. CASE ends
      <4>1. EndRequest(s, code, p, config_ok \/ some, unsaved \/ some)
        BY <3>1, <3>3
      <4>2. FlagInv' /\ (~unsaved' \/ dropped')
        BY <3>2, <4>1, EndRequestFlag
      <4>3. QED BY <4>2
    <3>4. CASE ~ends
      BY <3>1, <3>2, <3>4 DEF FlagInv
    <3>5. QED BY <3>3, <3>4
  <2>6. ASSUME NEW e \in Surplus, ReadBeyond(s, e) PROVE Goal
    <3> DEFINE from == Len(body[s]) - left[s]
               p == ParseChunk(parser,
                               SubSeq(body[s], from + 1, Len(body[s])) \o e,
                               FALSE)
               some == p.accepted # parser.accepted
               code == IF p.state = "ERROR" THEN "BR" ELSE "OK"
    <3>1. EndRequest(s, code, p, config_ok \/ some, unsaved \/ some)
      BY <2>6 DEF ReadBeyond
    <3>2. /\ (config_ok \/ some) \in BOOLEAN
          /\ (unsaved \/ some) \in BOOLEAN
          /\ (unsaved \/ some) => (config_ok \/ some) \/ dropped
      BY DEF FlagInv
    <3> HIDE DEF some, p, code
    <3>3. FlagInv' /\ (~unsaved' \/ dropped')
      BY <3>1, <3>2, EndRequestFlag
    <3>4. QED BY <3>3
  <2>7. QED BY <2>1, <2>2, <2>3, <2>4, <2>5, <2>6
<1>3. QED BY <1>1, <1>2

(* Every pair a handler accepted is announced when its request ends, or its*)
(* event found the queue full; whoever had the flag meanwhile.             *)
THEOREM AcceptedPairsAnnounced == Spec => AnnouncedAtEnd
<1>1. Init => FlagInv
  BY DEF Init, FlagInv, Phases
<1>2. FlagInv /\ [Next]_vars => FlagInv'
  BY StepFlag
<1>3. FlagInv /\ [Next]_vars =>
        [\A s \in Slots : phase[s] = "body" /\ phase'[s] = "output"
                             => ~unsaved' \/ dropped']_vars
  BY StepFlag
<1>4. QED BY <1>1, <1>2, <1>3, PTL DEF Spec, AnnouncedAtEnd
-------------------------------------------------------------------------------
(* A set of naturals that is not empty has a least element.                *)
LEMMA Least ==
    ASSUME NEW T, T \subseteq Nat, T # {}
    PROVE  \E x \in T : \A y \in T : x <= y
<1> DEFINE Below == OpToRel(<, Nat)
<1>1. \A x, y \in Nat : x < y <=> <<x, y>> \in Below
  BY DEF OpToRel
<1>2. IsWellFoundedOn(Below, Nat)
  BY NatLessThanWellFounded
<1> HIDE DEF Below
<1>3. PICK x \in T : \A y \in T : ~(<<y, x>> \in Below)
  BY <1>2, WFMin
<1>4. x \in Nat /\ \A y \in T : y \in Nat /\ ~(y < x)
  BY <1>1, <1>3
<1>5. QED BY <1>3, <1>4

(* What holds at 0 and goes on from each n to n + 1 holds up to m.         *)
LEMMA EveryNat ==
    ASSUME NEW T, NEW m \in Nat, 0 \in T, \A n \in 0 .. m - 1 : n \in T => n + 1 \in T
    PROVE  0 .. m \subseteq T
<1> SUFFICES ASSUME (0 .. m) \ T # {} PROVE FALSE
  OBVIOUS
<1>1. (0 .. m) \ T \subseteq Nat
  OBVIOUS
<1>2. PICK x \in (0 .. m) \ T : \A y \in (0 .. m) \ T : x <= y
  BY <1>1, Least
<1>3. x # 0 /\ x - 1 \in 0 .. m - 1
  BY <1>2
<1>4. x - 1 \in T
  BY <1>2, <1>3
<1>5. (x - 1) + 1 \in T
  BY <1>3, <1>4
<1>6. QED BY <1>2, <1>5

(* Byte i is the last one of the last chunk.                               *)
LastByte(last_chunk, chunk, i) == last_chunk /\ i = Len(chunk)

(* What the machine is after each byte of a chunk.                         *)
ByteByByte(after, p, chunk, last_chunk) ==
    /\ after[0] = p
    /\ \A i \in 1 .. Len(chunk) :
          after[i] = ReadByte(after[i - 1], chunk[i], LastByte(last_chunk, chunk, i))

(* ParseChunk is ReadByte, byte after byte.                                *)
LEMMA ChunkByteByByte ==
    ASSUME NEW p, NEW chunk, Len(chunk) \in Nat, NEW last_chunk \in BOOLEAN
    PROVE  \E after :
              /\ ByteByByte(after, p, chunk, last_chunk)
              /\ ParseChunk(p, chunk, last_chunk) = after[Len(chunk)]
<1> DEFINE N == Len(chunk)
           Chain(g, m) ==
              g = [i \in 0 .. m |->
                     IF i = 0 THEN p
                     ELSE ReadByte(g[i - 1], chunk[i], LastByte(last_chunk, chunk, i))]
           T == {m \in 0 .. N : \E g : Chain(g, m)}
<1>1. 0 \in T
  <2> DEFINE g == [i \in 0 .. 0 |-> p]
  <2>1. \A i \in 0 .. 0 : i = 0 /\ g[i] = p
    OBVIOUS
  <2>2. DOMAIN g = 0 .. 0 /\ g = [i \in 0 .. 0 |-> g[i]]
    OBVIOUS
  <2> HIDE DEF g
  <2>3. Chain(g, 0)
    BY <2>1, <2>2
  <2>4. QED BY <2>3
<1>2. ASSUME NEW m \in 0 .. N - 1, m \in T PROVE m + 1 \in T
  <2>1. PICK g : Chain(g, m)
    BY <1>2
  <2> DEFINE h == [i \in 0 .. m + 1 |->
                     IF i = m + 1
                     THEN ReadByte(g[m], chunk[m + 1], LastByte(last_chunk, chunk, m + 1))
                     ELSE g[i]]
  <2>2. \A i \in 0 .. m + 1 :
           h[i] = IF i = 0 THEN p
                  ELSE ReadByte(h[i - 1], chunk[i], LastByte(last_chunk, chunk, i))
    <3> TAKE i \in 0 .. m + 1
    <3>1. CASE i = m + 1
      <4>1. h[i] = ReadByte(g[m], chunk[m + 1], LastByte(last_chunk, chunk, m + 1)) /\ h[m] = g[m]
        BY <3>1
      <4>2. QED BY <3>1, <4>1
    <3>2. CASE i # m + 1 /\ i # 0
      <4>1. i \in 0 .. m /\ i - 1 \in 0 .. m /\ h[i] = g[i] /\ h[i - 1] = g[i - 1]
        BY <3>2
      <4>2. g[i] = ReadByte(g[i - 1], chunk[i], LastByte(last_chunk, chunk, i))
        BY <2>1, <3>2, <4>1
      <4>3. QED BY <3>2, <4>1, <4>2
    <3>3. CASE i = 0
      BY <2>1, <3>3
    <3>4. QED BY <3>1, <3>2, <3>3
  <2>3. DOMAIN h = 0 .. m + 1 /\ h = [i \in 0 .. m + 1 |-> h[i]]
    OBVIOUS
  <2> HIDE DEF h
  <2>4. Chain(h, m + 1)
    BY <2>2, <2>3
  <2>5. QED BY <2>4
<1>3. \E g : Chain(g, N)
  <2> HIDE DEF T
  <2>1. 0 .. N \subseteq T
    BY <1>1, <1>2, EveryNat
  <2> USE DEF T
  <2>2. QED BY <2>1
<1> DEFINE after == CHOOSE g : Chain(g, N)
<1>4. ParseChunk(p, chunk, last_chunk) = after[N]
  BY DEF ParseChunk, LastByte
<1>5. Chain(after, N)
  <2> HIDE DEF Chain
  <2>1. QED BY <1>3
<1> HIDE DEF after
<1>6. after[0] = p
  BY <1>5
<1>7. \A i \in 1 .. N : after[i] = ReadByte(after[i - 1], chunk[i], LastByte(last_chunk, chunk, i))
  BY <1>5
<1>8. ByteByByte(after, p, chunk, last_chunk)
  BY <1>6, <1>7 DEF ByteByByte
<1>9. QED BY <1>4, <1>8

(* The field that starts at i ends with byte z.                            *)
EndsAt(b, i, z) ==
    /\ z \in i - 1 .. Len(b)
    /\ \A k \in i .. z : b[k] # "&"
    /\ z < Len(b) => b[z + 1] = "&"

(* What makes it good: k=value, with a value of ordinary bytes that is not *)
(* too long, nor empty if it is the last one.                              *)
Fine(b, i, z) ==
    /\ i + 1 <= z
    /\ b[i] = "k" /\ b[i + 1] = "="
    /\ \A k \in i + 2 .. z : b[k] \notin {"=", "x"}
    /\ z - i - 1 <= PARSE_POST_MAX_POS + 1
    /\ z = Len(b) => i + 2 <= z

(* The part of a sequence from i to z.                                     *)
LEMMA SubSeqIs ==
    ASSUME NEW S, NEW q \in Seq(S), NEW i \in Nat \ {0}, NEW z \in Nat,
           i - 1 <= z, z <= Len(q)
    PROVE  /\ SubSeq(q, i, z) \in Seq(S)
           /\ Len(SubSeq(q, i, z)) = z - i + 1
           /\ \A k \in 1 .. z - i + 1 : SubSeq(q, i, z)[k] = q[i + k - 1]
<1>1. \A k \in i .. z : q[k] \in S
  OBVIOUS
<1>2. /\ SubSeq(q, i, z) \in Seq(S)
      /\ Len(SubSeq(q, i, z)) = IF i <= z THEN z - i + 1 ELSE 0
      /\ \A k \in 1 .. z - i + 1 : SubSeq(q, i, z)[k] = q[i + k - 1]
  BY <1>1, SubSeqProperties
<1>3. QED BY <1>2

(* Every field ends.                                                       *)
LEMMA FieldEnd ==
    ASSUME NEW b \in Seq(Bytes), NEW i \in Starts(b)
    PROVE  \E z : EndsAt(b, i, z)
<1> DEFINE stops == {e \in i .. Len(b) : b[e] = "&"}
<1>1. i \in 1 .. Len(b) /\ Len(b) \in Nat
  BY DEF Starts
<1>2. CASE stops = {}
  <2>1. EndsAt(b, i, Len(b))
    BY <1>1, <1>2 DEF EndsAt
  <2>2. QED BY <2>1
<1>3. CASE stops # {}
  <2>1. stops \subseteq Nat
    BY <1>1
  <2>2. PICK e \in stops : \A d \in stops : e <= d
    BY <1>3, <2>1, Least
  <2>3. e \in i .. Len(b) /\ b[e] = "&" /\ \A k \in i .. e - 1 : b[k] # "&"
    BY <1>1, <2>2
  <2>4. EndsAt(b, i, e - 1)
    BY <1>1, <2>3 DEF EndsAt
  <2>5. QED BY <2>4
<1>4. QED BY <1>2, <1>3

(* The field that starts at i and ends with byte z.                        *)
LEMMA FieldIs ==
    ASSUME NEW b \in Seq(Bytes), NEW i \in Starts(b), NEW z, EndsAt(b, i, z)
    PROVE  FieldAt(b, i) = SubSeq(b, i, z)
<1> DEFINE stops == {e \in i .. Len(b) : b[e] = "&"}
<1>1. i \in 1 .. Len(b) /\ Len(b) \in Nat /\ z \in i - 1 .. Len(b)
  BY DEF Starts, EndsAt
<1>2. CASE z = Len(b)
  <2>1. stops = {}
    BY <1>2 DEF EndsAt
  <2>2. QED BY <1>2, <2>1 DEF FieldAt
<1>3. CASE z < Len(b)
  <2>1. z + 1 \in stops /\ \A e \in stops : z + 1 <= e
    BY <1>1, <1>3 DEF EndsAt
  <2>2. \A e, d \in stops : e <= d /\ d <= e => e = d
    BY <1>1
  <2> HIDE DEF stops
  <2>3. Min(stops) = z + 1
    <3>1. Min(stops) \in stops /\ \A d \in stops : Min(stops) <= d
      BY <2>1 DEF Min
    <3>2. QED BY <2>1, <2>2, <3>1
  <2>4. stops # {}
    BY <2>1
  <2>5. FieldAt(b, i) = SubSeq(b, i, Min(stops) - 1)
    BY <2>4 DEF FieldAt, stops
  <2>6. (z + 1) - 1 = z
    BY <1>1
  <2>7. QED BY <2>3, <2>5, <2>6
<1>4. QED BY <1>1, <1>2, <1>3

(* Good, byte by byte.                                                     *)
LEMMA GoodIs ==
    ASSUME NEW b \in Seq(Bytes), NEW i \in Starts(b), NEW z, EndsAt(b, i, z)
    PROVE  Good(b, i) <=> Fine(b, i, z)
<1> DEFINE f == SubSeq(b, i, z)
           M == PARSE_POST_MAX_POS
<1>1. i \in 1 .. Len(b) /\ Len(b) \in Nat /\ z \in i - 1 .. Len(b) /\ M \in Nat
  BY MaxPosAssumption DEF Starts, EndsAt
<1>2. FieldAt(b, i) = f
  BY FieldIs
<1>3. f \in Seq(Bytes) /\ Len(f) = z - i + 1
      /\ \A k \in 1 .. z - i + 1 : f[k] = b[i + k - 1]
  BY <1>1, SubSeqIs
<1>4. Good(b, i) <=> \E e \in 1 .. z - i + 1 : Splits(f, e, z + 1 > Len(b))
  <2>1. i + (z - i + 1) = z + 1
    BY <1>1
  <2>2. QED BY <1>2, <1>3, <2>1 DEF Good
<1> HIDE DEF f
<1>5. \A e \in 1 .. z - i + 1 :
         LET key == SubSeq(f, 1, e - 1)
             val == SubSeq(f, e + 1, Len(f))
         IN  /\ key \in Seq(Bytes) /\ Len(key) = e - 1
             /\ \A k \in 1 .. e - 1 : key[k] = f[k]
             /\ val \in Seq(Bytes) /\ Len(val) = z - i + 1 - e
             /\ \A k \in 1 .. z - i + 1 - e : val[k] = f[e + k]
  <2> TAKE e \in 1 .. z - i + 1
  <2>1. /\ SubSeq(f, 1, e - 1) \in Seq(Bytes)
        /\ Len(SubSeq(f, 1, e - 1)) = (e - 1) - 1 + 1
        /\ \A k \in 1 .. (e - 1) - 1 + 1 : SubSeq(f, 1, e - 1)[k] = f[1 + k - 1]
    BY <1>1, <1>3, SubSeqIs
  <2>2. /\ SubSeq(f, e + 1, Len(f)) \in Seq(Bytes)
        /\ Len(SubSeq(f, e + 1, Len(f))) = Len(f) - (e + 1) + 1
        /\ \A k \in 1 .. Len(f) - (e + 1) + 1 : SubSeq(f, e + 1, Len(f))[k] = f[(e + 1) + k - 1]
    BY <1>1, <1>3, SubSeqIs
  <2>3. QED BY <1>1, <1>3, <2>1, <2>2
<1>6. ASSUME Good(b, i) PROVE Fine(b, i, z)
  <2>1. PICK e \in 1 .. z - i + 1 : Splits(f, e, z + 1 > Len(b))
    BY <1>4, <1>6
  <2> DEFINE key == SubSeq(f, 1, e - 1)
             val == SubSeq(f, e + 1, Len(f))
  <2>2. /\ f[e] = "=" /\ ~Contains(val, "=") /\ Len(val) <= M + 1
        /\ HandlerResult(key, val) = "OK" /\ (z + 1 > Len(b) => val # <<>>)
    BY <2>1 DEF Splits
  <2>3. key = <<"k">> /\ ~Contains(val, "x")
    BY <2>2 DEF HandlerResult
  <2>4. /\ Len(key) = e - 1
        /\ \A k \in 1 .. e - 1 : key[k] = f[k]
        /\ val \in Seq(Bytes) /\ Len(val) = z - i + 1 - e
        /\ \A k \in 1 .. z - i + 1 - e : val[k] = f[e + k]
    BY <1>5
  <2>5. e = 2 /\ f[1] = "k" /\ f[2] = "="
    <3>1. Len(<<"k">>) = 1 /\ <<"k">>[1] = "k"
      OBVIOUS
    <3>2. Len(key) = 1 /\ key[1] = "k"
      BY <2>3, <3>1
    <3> HIDE DEF key
    <3>3. e = 2
      <4>1. Len(key) = e - 1
        BY <2>4
      <4>2. e - 1 = 1
        BY <3>2, <4>1
      <4>3. e \in Int
        BY <1>1, <2>1
      <4>4. QED BY <4>2, <4>3
    <3>4. QED BY <2>2, <2>4, <3>2, <3>3
  <2>6. b[i] = "k" /\ b[i + 1] = "=" /\ i + 1 <= z
    BY <1>1, <1>3, <2>5
  <2>7. \A k \in i + 2 .. z : b[k] \notin {"=", "x"}
    <3> TAKE k \in i + 2 .. z
    <3>1. k - i - 1 \in 1 .. z - i - 1 /\ k - i + 1 \in 1 .. z - i + 1
          /\ 2 + (k - i - 1) = k - i + 1 /\ i + (k - i + 1) - 1 = k
      BY <1>1
    <3>2. Len(val) = z - i - 1 /\ val[k - i - 1] = b[k]
      BY <1>1, <1>3, <2>4, <2>5, <3>1
    <3>3. QED BY <2>2, <2>3, <3>1, <3>2 DEF Contains
  <2>8. z - i - 1 <= M + 1
    BY <1>1, <2>2, <2>4, <2>5
  <2>9. z = Len(b) => i + 2 <= z
    <3>1. val # <<>> => Len(val) # 0
      BY <2>4, EmptySeq
    <3>2. QED BY <1>1, <2>2, <2>4, <2>5, <3>1
  <2>10. QED BY <2>6, <2>7, <2>8, <2>9 DEF Fine
<1>7. ASSUME Fine(b, i, z) PROVE Good(b, i)
  <2> DEFINE key == SubSeq(f, 1, 2 - 1)
             val == SubSeq(f, 2 + 1, Len(f))
  <2>1. 2 \in 1 .. z - i + 1 /\ b[i] = "k" /\ b[i + 1] = "="
        /\ (\A k \in i + 2 .. z : b[k] \notin {"=", "x"})
        /\ z - i - 1 <= M + 1 /\ (z = Len(b) => i + 2 <= z)
    BY <1>1, <1>7 DEF Fine
  <2>2. /\ key \in Seq(Bytes) /\ Len(key) = 2 - 1
        /\ \A k \in 1 .. 2 - 1 : key[k] = f[k]
        /\ val \in Seq(Bytes) /\ Len(val) = z - i + 1 - 2
        /\ \A k \in 1 .. z - i + 1 - 2 : val[k] = f[2 + k]
    BY <1>5, <2>1
  <2>3. f[1] = "k" /\ f[2] = "="
    BY <1>1, <1>3, <2>1
  <2>4. \A k \in 1 .. Len(val) : val[k] \notin {"=", "x"}
    <3> TAKE k \in 1 .. Len(val)
    <3>1. k \in 1 .. z - i - 1 /\ 2 + k \in 1 .. z - i + 1 /\ i + (2 + k) - 1 = i + 1 + k
          /\ i + 1 + k \in i + 2 .. z
      BY <1>1, <2>2
    <3>2. val[k] = b[i + 1 + k]
      BY <1>1, <1>3, <2>2, <3>1
    <3>3. QED BY <2>1, <3>1, <3>2
  <2>5. key = <<"k">>
    <3>1. <<"k">> \in Seq(Bytes) /\ Len(<<"k">>) = 1 /\ <<"k">>[1] = "k"
      BY DEF Bytes
    <3>2. Len(key) = Len(<<"k">>) /\ \A k \in 1 .. Len(key) : key[k] = <<"k">>[k]
      BY <2>2, <2>3, <3>1
    <3> HIDE DEF key
    <3>3. QED BY <2>2, <3>1, <3>2, SeqEqual
  <2>6. ~Contains(key, "=") /\ ~Contains(val, "=") /\ ~Contains(val, "x")
    BY <2>2, <2>3, <2>4 DEF Contains
  <2>7. HandlerResult(key, val) = "OK"
    BY <2>5, <2>6 DEF HandlerResult
  <2>8. z + 1 > Len(b) => val # <<>>
    <3>1. z + 1 > Len(b) => Len(val) >= 1
      BY <1>1, <2>1, <2>2
    <3>2. Len(<<>>) = 0
      OBVIOUS
    <3> HIDE DEF val
    <3>3. QED BY <3>1, <3>2
  <2>9. Len(key) <= M + 1 /\ Len(val) <= M + 1
    BY <1>1, <2>1, <2>2
  <2>10. Splits(f, 2, z + 1 > Len(b))
    BY <2>3, <2>6, <2>7, <2>8, <2>9 DEF Splits
  <2>11. QED BY <1>4, <2>1, <2>10
<1>8. QED BY <1>6, <1>7

(* The pair of a good field.                                               *)
LEMMA PairIs ==
    ASSUME NEW b \in Seq(Bytes), NEW i \in Starts(b), NEW z, EndsAt(b, i, z),
           Fine(b, i, z)
    PROVE  PairAt(b, i) = <<<<"k">>, SubSeq(b, i + 2, z)>>
<1> DEFINE f == SubSeq(b, i, z)
           e == CHOOSE e \in 1 .. Len(f) : f[e] = "="
<1>1. i \in 1 .. Len(b) /\ Len(b) \in Nat /\ z \in i + 1 .. Len(b)
      /\ b[i] = "k" /\ b[i + 1] = "="
      /\ (\A k \in i + 2 .. z : b[k] # "=")
  BY DEF Starts, EndsAt, Fine
<1>2. FieldAt(b, i) = f
  BY FieldIs
<1>3. f \in Seq(Bytes) /\ Len(f) = z - i + 1
      /\ \A k \in 1 .. z - i + 1 : f[k] = b[i + k - 1]
  BY <1>1, SubSeqIs
<1>4. PairAt(b, i) = <<SubSeq(f, 1, e - 1), SubSeq(f, e + 1, Len(f))>>
  BY <1>2 DEF PairAt
<1> HIDE DEF f
<1>5. \A d \in 1 .. Len(f) : f[d] = "=" <=> d = 2
  <2> TAKE d \in 1 .. Len(f)
  <2>1. d \in 1 .. z - i + 1 /\ f[d] = b[i + d - 1]
    BY <1>3
  <2>2. CASE d = 1
    BY <1>1, <2>1, <2>2
  <2>3. CASE d = 2
    BY <1>1, <2>1, <2>3
  <2>4. CASE d > 2
    <3>1. i + d - 1 \in i + 2 .. z
      BY <1>1, <2>1, <2>4
    <3>2. QED BY <1>1, <2>1, <2>4, <3>1
  <2>5. QED BY <1>1, <2>1, <2>2, <2>3, <2>4
<1>6. e = 2
  <2>1. 2 \in 1 .. Len(f)
    BY <1>1, <1>3
  <2>2. QED BY <1>5, <2>1
<1> HIDE DEF e
<1>7. SubSeq(f, 1, 1) = <<"k">>
  <2>1. /\ SubSeq(f, 1, 1) \in Seq(Bytes) /\ Len(SubSeq(f, 1, 1)) = 1 - 1 + 1
        /\ \A k \in 1 .. 1 - 1 + 1 : SubSeq(f, 1, 1)[k] = f[1 + k - 1]
    BY <1>1, <1>3, SubSeqIs
  <2>2. <<"k">> \in Seq(Bytes) /\ Len(<<"k">>) = 1 /\ <<"k">>[1] = "k"
    BY DEF Bytes
  <2>3. f[1] = "k"
    BY <1>1, <1>3
  <2> DEFINE key == SubSeq(f, 1, 1)
  <2>4. key \in Seq(Bytes) /\ Len(key) = 1 /\ key[1] = "k"
    BY <2>1, <2>3
  <2> HIDE DEF key
  <2>5. Len(key) = Len(<<"k">>) /\ \A k \in 1 .. Len(key) : key[k] = <<"k">>[k]
    BY <2>2, <2>4
  <2>6. key = <<"k">>
    BY <2>2, <2>4, <2>5, SeqEqual
  <2>7. QED BY <2>6 DEF key
<1>8. SubSeq(f, 3, Len(f)) = SubSeq(b, i + 2, z)
  <2>1. /\ SubSeq(f, 3, Len(f)) \in Seq(Bytes)
        /\ Len(SubSeq(f, 3, Len(f))) = Len(f) - 3 + 1
        /\ \A k \in 1 .. Len(f) - 3 + 1 : SubSeq(f, 3, Len(f))[k] = f[3 + k - 1]
    BY <1>1, <1>3, SubSeqIs
  <2>2. /\ SubSeq(b, i + 2, z) \in Seq(Bytes)
        /\ Len(SubSeq(b, i + 2, z)) = z - (i + 2) + 1
        /\ \A k \in 1 .. z - (i + 2) + 1 : SubSeq(b, i + 2, z)[k] = b[(i + 2) + k - 1]
    BY <1>1, SubSeqIs
  <2>3. Len(SubSeq(f, 3, Len(f))) = z - i - 1 /\ Len(SubSeq(b, i + 2, z)) = z - i - 1
    BY <1>1, <1>3, <2>1, <2>2
  <2>4. \A k \in 1 .. z - i - 1 : SubSeq(f, 3, Len(f))[k] = SubSeq(b, i + 2, z)[k]
    <3> TAKE k \in 1 .. z - i - 1
    <3>1. k + 2 \in 1 .. z - i + 1 /\ i + (k + 2) - 1 = i + 1 + k /\ (i + 2) + k - 1 = i + 1 + k
          /\ 3 + k - 1 = k + 2 /\ k \in 1 .. z - (i + 2) + 1 /\ k \in 1 .. Len(f) - 3 + 1
      BY <1>1, <1>3
    <3>2. QED BY <1>3, <2>1, <2>2, <3>1
  <2> DEFINE v == SubSeq(f, 3, Len(f))
             w == SubSeq(b, i + 2, z)
  <2>5. /\ v \in Seq(Bytes) /\ w \in Seq(Bytes) /\ Len(v) = Len(w)
        /\ \A k \in 1 .. Len(v) : v[k] = w[k]
    BY <2>1, <2>2, <2>3, <2>4
  <2> HIDE DEF v, w
  <2>6. v = w
    BY <2>5, SeqEqual
  <2>7. QED BY <2>6 DEF v, w
<1>9. e - 1 = 1 /\ e + 1 = 3
  BY <1>6
<1>10. QED BY <1>4, <1>7, <1>8, <1>9

(* acc holds, in order, the pairs of the fields that start before i, and   *)
(* all of these are good.                                                  *)
StartsBefore(b, i) == {j \in Starts(b) : j < i}
Count(b, i) == Cardinality(StartsBefore(b, i))
AcceptedBefore(acc, b, i) ==
    /\ acc \in Seq(Seq(Bytes) \X Seq(Bytes))
    /\ Len(acc) = Count(b, i)
    /\ \A j \in StartsBefore(b, i) : Good(b, j)
    /\ \A n \in 1 .. Len(acc) :
          \E j \in StartsBefore(b, i) :
             Count(b, j) + 1 = n /\ acc[n] = PairAt(b, j)

(* Finitely many fields start before i.                                    *)
LEMMA CountIs ==
    ASSUME NEW b \in Seq(Bytes), NEW i
    PROVE  IsFiniteSet(StartsBefore(b, i)) /\ Count(b, i) \in Nat
<1>1. IsFiniteSet(1 .. Len(b))
  BY FS_Interval
<1>2. StartsBefore(b, i) \in SUBSET (1 .. Len(b))
  BY DEF StartsBefore, Starts
<1>3. IsFiniteSet(StartsBefore(b, i))
  BY <1>1, <1>2, FS_Subset
<1>4. QED BY <1>3, FS_CardinalityType DEF Count

(* Passing the start of one field counts one more.                         *)
LEMMA CountOneMore ==
    ASSUME NEW b \in Seq(Bytes), NEW i \in Starts(b), NEW m,
           StartsBefore(b, m) = StartsBefore(b, i) \cup {i}
    PROVE  Count(b, m) = Count(b, i) + 1
<1>1. i \notin StartsBefore(b, i)
  BY DEF StartsBefore, Starts
<1>2. Cardinality(StartsBefore(b, i) \cup {i}) = Cardinality(StartsBefore(b, i)) + 1
  BY <1>1, CountIs, FS_AddElement
<1>3. QED BY <1>2 DEF Count

(* Fields are counted in their order.                                      *)
LEMMA CountGrows ==
    ASSUME NEW b \in Seq(Bytes), NEW i \in Starts(b), NEW j \in Starts(b), i < j
    PROVE  Count(b, i) < Count(b, j)
<1> DEFINE more == StartsBefore(b, i) \cup {i}
<1>1. more \in SUBSET StartsBefore(b, j)
  BY DEF StartsBefore, Starts
<1>2. IsFiniteSet(StartsBefore(b, j)) /\ IsFiniteSet(StartsBefore(b, i))
  BY CountIs
<1>3. Cardinality(more) <= Cardinality(StartsBefore(b, j))
  BY <1>1, <1>2, FS_Subset
<1>4. i \notin StartsBefore(b, i)
  BY DEF StartsBefore, Starts
<1>5. Cardinality(more) = Cardinality(StartsBefore(b, i)) + 1
  BY <1>2, <1>4, FS_AddElement
<1>6. Count(b, i) \in Nat /\ Count(b, j) \in Nat
  BY CountIs
<1> HIDE DEF more
<1>7. QED BY <1>3, <1>5, <1>6 DEF Count

(* One more good field: its pair is appended.                              *)
LEMMA AcceptedAppend ==
    ASSUME NEW b \in Seq(Bytes), NEW i \in Starts(b), NEW z,
           EndsAt(b, i, z), Fine(b, i, z),
           NEW acc, AcceptedBefore(acc, b, i),
           NEW m \in {z + 1, z + 2}
    PROVE  AcceptedBefore(Append(acc, <<<<"k">>, SubSeq(b, i + 2, z)>>), b, m)
<1> DEFINE pair == <<<<"k">>, SubSeq(b, i + 2, z)>>
           more == Append(acc, pair)
           P == Seq(Bytes) \X Seq(Bytes)
<1>1. /\ i \in 1 .. Len(b) /\ Len(b) \in Nat /\ z \in i + 1 .. Len(b)
      /\ \A k \in i .. z : b[k] # "&"
  BY DEF EndsAt, Starts, Fine
<1>2. StartsBefore(b, m) = StartsBefore(b, i) \cup {i}
  <2>1. ASSUME NEW j \in Starts(b), j < m, j > i PROVE FALSE
    <3>1. b[j - 1] = "&"
      BY <1>1, <2>1 DEF Starts
    <3>2. j - 1 \in i .. z
      BY <1>1, <2>1 DEF Starts
    <3>3. QED BY <1>1, <3>1, <3>2
  <2>2. i < m /\ m \in Nat
    BY <1>1
  <2>3. \A j \in Starts(b) : j \in Nat
    BY DEF Starts
  <2>4. \A j \in Starts(b) : j < m <=> j < i \/ j = i
    BY <1>1, <2>1, <2>2, <2>3
  <2>5. QED BY <2>4 DEF StartsBefore
<1>3. Count(b, m) = Count(b, i) + 1 /\ Count(b, i) \in Nat
  BY <1>2, CountOneMore, CountIs
<1>4. pair = PairAt(b, i)
  BY PairIs
<1>5. pair \in P
  <2>1. SubSeq(b, i + 2, z) \in Seq(Bytes)
    BY <1>1, SubSeqIs
  <2>2. <<"k">> \in Seq(Bytes)
    BY DEF Bytes
  <2>3. QED BY <2>1, <2>2
<1> HIDE DEF pair, P
<1>6. acc \in Seq(P) /\ Len(acc) = Count(b, i)
  BY DEF AcceptedBefore, P
<1>7. /\ more \in Seq(P) /\ Len(more) = Len(acc) + 1
      /\ more[Len(acc) + 1] = pair
      /\ \A n \in 1 .. Len(acc) : more[n] = acc[n]
  BY <1>5, <1>6
<1> HIDE DEF more
<1>8. \A j \in StartsBefore(b, m) : Good(b, j)
  <2>1. Good(b, i)
    BY GoodIs
  <2>2. \A j \in StartsBefore(b, i) : Good(b, j)
    BY DEF AcceptedBefore
  <2>3. QED BY <1>2, <2>1, <2>2
<1>9. \A n \in 1 .. Len(more) :
         \E j \in StartsBefore(b, m) : Count(b, j) + 1 = n /\ more[n] = PairAt(b, j)
  <2> TAKE n \in 1 .. Len(more)
  <2>1. CASE n = Len(acc) + 1
    BY <1>2, <1>4, <1>6, <1>7, <2>1
  <2>2. CASE n # Len(acc) + 1
    <3>1. n \in 1 .. Len(acc)
      BY <1>3, <1>6, <1>7, <2>2
    <3>2. PICK j \in StartsBefore(b, i) : Count(b, j) + 1 = n /\ acc[n] = PairAt(b, j)
      BY <3>1 DEF AcceptedBefore
    <3>3. QED BY <1>2, <1>7, <3>1, <3>2
  <2>3. QED BY <2>1, <2>2
<1>10. AcceptedBefore(more, b, m)
  BY <1>3, <1>6, <1>7, <1>8, <1>9 DEF AcceptedBefore, P
<1>11. QED BY <1>10 DEF more, pair

(* What is accepted is what the body means, once a field is known to be bad*)
(* or all fields have been read.                                           *)
LEMMA AcceptedMeans ==
    ASSUME NEW b \in Seq(Bytes), NEW i \in Nat, NEW acc, AcceptedBefore(acc, b, i),
           (i \in Starts(b) /\ ~Good(b, i)) \/ i = Len(b) + 1
    PROVE  acc = Meaning(b)
<1> DEFINE good == {j \in Starts(b) : \A k \in Starts(b) : k <= j => Good(b, k)}
           Rank(j) == Cardinality({k \in good : k <= j})
           mean == [n \in 1 .. Cardinality(good) |->
                      PairAt(b, CHOOSE j \in good : Rank(j) = n)]
<1>1. \A j \in Starts(b) : j \in 1 .. Len(b)
  BY DEF Starts
<1>2. Len(b) \in Nat
  OBVIOUS
<1>3. good = StartsBefore(b, i)
  <2>1. \A j \in StartsBefore(b, i) : Good(b, j)
    BY DEF AcceptedBefore
  <2>2. ASSUME NEW j \in StartsBefore(b, i) PROVE j \in good
    <3>1. j \in Starts(b) /\ j < i
      BY <2>2 DEF StartsBefore
    <3>2. ASSUME NEW k \in Starts(b), k <= j PROVE Good(b, k)
      <4>1. k < i
        BY <1>1, <3>1, <3>2
      <4>2. k \in StartsBefore(b, i)
        BY <4>1 DEF StartsBefore
      <4>3. QED BY <2>1, <4>2
    <3>3. QED BY <3>1, <3>2
  <2>3. ASSUME NEW j \in good PROVE j \in StartsBefore(b, i)
    <3>1. j < i
      BY <1>1, <1>2, <2>3
    <3>2. QED BY <2>3, <3>1 DEF StartsBefore
  <2>4. QED BY <2>2, <2>3
<1>4. \A j \in good : j \in Starts(b)
  OBVIOUS
<1>5. ASSUME NEW j \in good PROVE Rank(j) = Count(b, j) + 1
  <2>1. j \in Starts(b) /\ j < i
    BY <1>3, <1>5 DEF StartsBefore
  <2>2. {k \in good : k <= j} = StartsBefore(b, j) \cup {j}
    <3>1. \A k \in Starts(b) : k <= j <=> k < j \/ k = j
      BY <1>1, <2>1
    <3>2. \A k \in Starts(b) : k < j => k < i
      BY <1>1, <2>1
    <3> HIDE DEF good
    <3>3. QED BY <1>3, <2>1, <3>1, <3>2 DEF StartsBefore
  <2>3. j \notin StartsBefore(b, j)
    BY <1>1, <2>1 DEF StartsBefore
  <2>4. Cardinality(StartsBefore(b, j) \cup {j}) = Cardinality(StartsBefore(b, j)) + 1
    BY <2>3, CountIs, FS_AddElement
  <2> HIDE DEF good
  <2>5. QED BY <2>2, <2>4 DEF Count
<1>6. Meaning(b) = mean
  BY DEF Meaning
<1> HIDE DEF Rank, good
<1>7. ASSUME NEW j \in good, NEW k \in good, Rank(j) = Rank(k) PROVE j = k
  <2>1. Count(b, j) = Count(b, k) /\ Count(b, j) \in Nat /\ Count(b, k) \in Nat
    <3>1. Count(b, j) \in Nat /\ Count(b, k) \in Nat
      BY CountIs
    <3>2. QED BY <1>5, <1>7, <3>1
  <2>2. j \in Starts(b) /\ k \in Starts(b)
    BY <1>4
  <2>3. ~(j < k) /\ ~(k < j)
    BY <2>1, <2>2, CountGrows
  <2>4. QED BY <1>1, <2>2, <2>3
<1>8. acc \in Seq(Seq(Bytes) \X Seq(Bytes)) /\ Len(acc) = Cardinality(good)
  BY <1>3 DEF AcceptedBefore, Count
<1>9. ASSUME NEW n \in 1 .. Len(acc) PROVE acc[n] = mean[n]
  <2>1. PICK j \in StartsBefore(b, i) : Count(b, j) + 1 = n /\ acc[n] = PairAt(b, j)
    BY <1>9 DEF AcceptedBefore
  <2>2. j \in good /\ Rank(j) = n
    BY <1>3, <1>5, <2>1
  <2>3. (CHOOSE k \in good : Rank(k) = n) = j
    BY <1>7, <2>2
  <2>4. mean[n] = PairAt(b, CHOOSE k \in good : Rank(k) = n)
    BY <1>8, <1>9
  <2>5. QED BY <2>1, <2>3, <2>4
<1>10. DOMAIN mean = 1 .. Cardinality(good) /\ mean = [n \in 1 .. Cardinality(good) |-> mean[n]]
  OBVIOUS
<1> HIDE DEF mean
<1>11. acc = [n \in 1 .. Len(acc) |-> acc[n]]
  BY <1>8
<1>12. QED BY <1>6, <1>8, <1>9, <1>10, <1>11

(* What the static variables may hold.                                     *)
Parsers == [state : ParserStates, key : Seq(Bytes), val : Seq(Bytes),
            accepted : Seq(Seq(Bytes) \X Seq(Bytes))]

Plain(b, i, n) == \A k \in i .. n : b[k] \notin {"&", "="}

(* Where the machine is after n bytes of b: between two fields; in the key *)
(* or in the value of the field that starts at i; or past what makes this  *)
(* field bad.                                                              *)
Between(p, b, n) ==
    /\ IF n = 0 THEN p.state = "INIT" ELSE p.state = "MORE" /\ b[n] = "&"
    /\ AcceptedBefore(p.accepted, b, n + 1)
InKey(p, b, i, n) ==
    /\ p.state = "READING_KEY"
    /\ p.key = SubSeq(b, i, n) /\ p.val = <<>>
    /\ Plain(b, i, n)
InVal(p, b, i, n) ==
    /\ p.state = "READING_VAL"
    /\ p.key = <<"k">> /\ i + 1 <= n /\ b[i] = "k" /\ b[i + 1] = "="
    /\ p.val = SubSeq(b, i + 2, n)
    /\ Plain(b, i + 2, n)
    /\ n - i - 1 <= PARSE_POST_MAX_POS + 1
Lost(p, b, i) ==
    /\ p.state = "ERROR" \/ (p.state = "READING_VAL" /\ p.key # <<"k">>)
    /\ ~Good(b, i)
HasRead(p, b, n) ==
    /\ p \in Parsers
    /\ \/ Between(p, b, n)
       \/ \E i \in Starts(b) :
             /\ i <= n /\ AcceptedBefore(p.accepted, b, i)
             /\ InKey(p, b, i, n) \/ InVal(p, b, i, n) \/ Lost(p, b, i)

(* The verdict on b: all of it was good, or a field is bad.                *)
Judged(p, b) ==
    \/ p.state = "MORE" /\ AcceptedBefore(p.accepted, b, Len(b) + 1)
    \/ /\ p.state # "MORE"
       /\ \E i \in Starts(b) : AcceptedBefore(p.accepted, b, i) /\ ~Good(b, i)

(* A good field starts with k=.                                            *)
LEMMA GoodStart ==
    ASSUME NEW b \in Seq(Bytes), NEW i \in Starts(b), Good(b, i)
    PROVE  i + 1 <= Len(b) /\ b[i] = "k" /\ b[i + 1] = "="
<1>1. PICK z : EndsAt(b, i, z)
  BY FieldEnd
<1>2. Fine(b, i, z)
  BY <1>1, GoodIs
<1>3. i \in 1 .. Len(b) /\ Len(b) \in Nat /\ z \in i - 1 .. Len(b) /\ i + 1 <= z
  BY <1>1, <1>2 DEF Starts, EndsAt, Fine
<1>4. QED BY <1>2, <1>3 DEF Fine

(* The part up to n, and the next byte.                                    *)
LEMMA OneMoreByte ==
    ASSUME NEW b \in Seq(Bytes), NEW i \in 1 .. Len(b) + 1,
           NEW n \in i - 1 .. Len(b) - 1
    PROVE  /\ SubSeq(b, i, n) \in Seq(Bytes)
           /\ Len(SubSeq(b, i, n)) = n - i + 1
           /\ Append(SubSeq(b, i, n), b[n + 1]) = SubSeq(b, i, n + 1)
<1> DEFINE v == SubSeq(b, i, n)
           w == SubSeq(b, i, n + 1)
           a == Append(v, b[n + 1])
<1>1. Len(b) \in Nat /\ i \in Nat \ {0} /\ n \in Nat /\ n + 1 \in 1 .. Len(b)
  OBVIOUS
<1>2. /\ v \in Seq(Bytes) /\ Len(v) = n - i + 1
      /\ \A k \in 1 .. n - i + 1 : v[k] = b[i + k - 1]
  BY <1>1, SubSeqIs
<1>3. /\ w \in Seq(Bytes) /\ Len(w) = (n + 1) - i + 1
      /\ \A k \in 1 .. (n + 1) - i + 1 : w[k] = b[i + k - 1]
  BY <1>1, SubSeqIs
<1>4. b[n + 1] \in Bytes
  BY <1>1
<1> HIDE DEF v, w
<1>5. /\ a \in Seq(Bytes) /\ Len(a) = Len(v) + 1
      /\ a[Len(v) + 1] = b[n + 1]
      /\ \A k \in 1 .. Len(v) : a[k] = v[k]
  BY <1>2, <1>4
<1> HIDE DEF a
<1>6. Len(a) = Len(w)
  BY <1>2, <1>3, <1>5
<1>7. \A k \in 1 .. Len(a) : a[k] = w[k]
  <2> TAKE k \in 1 .. Len(a)
  <2>1. CASE k = Len(v) + 1
    <3>1. i + k - 1 = n + 1 /\ k \in 1 .. (n + 1) - i + 1
      BY <1>1, <1>2, <2>1
    <3>2. QED BY <1>3, <1>5, <2>1, <3>1
  <2>2. CASE k # Len(v) + 1
    <3>1. k \in 1 .. n - i + 1 /\ k \in 1 .. Len(v) /\ k \in 1 .. (n + 1) - i + 1
      <4>1. Len(v) = n - i + 1 /\ Len(a) = Len(v) + 1
        BY <1>2, <1>5
      <4>2. Len(v) \in Nat /\ k \in 1 .. Len(v) + 1
        BY <1>1, <4>1
      <4>3. k \in 1 .. Len(v)
        BY <2>2, <4>2
      <4>4. QED BY <1>1, <4>1, <4>3
    <3>2. QED BY <1>2, <1>3, <1>5, <3>1
  <2>3. QED BY <2>1, <2>2
<1>8. a = w
  BY <1>3, <1>5, <1>6, <1>7, SeqEqual
<1>9. QED BY <1>2, <1>8 DEF a, v, w

(* A byte of a key: more key, the value's begin, or a bad field.           *)
LEMMA KeyStep ==
    ASSUME NEW b \in Seq(Bytes), NEW i \in Starts(b),
           NEW n \in i - 1 .. Len(b) - 1,
           NEW p \in Parsers, InKey(p, b, i, n)
    PROVE  LET q == ReadKey(p, b[n + 1])
           IN  /\ q \in Parsers /\ q.accepted = p.accepted
               /\ \/ InKey(q, b, i, n + 1)
                  \/ InVal(q, b, i, n + 1) /\ n = i
                  \/ Lost(q, b, i)
<1> DEFINE c == b[n + 1]
           q == ReadKey(p, c)
           M == PARSE_POST_MAX_POS
<1> SUFFICES /\ q \in Parsers /\ q.accepted = p.accepted
             /\ \/ InKey(q, b, i, n + 1)
                \/ InVal(q, b, i, n + 1) /\ n = i
                \/ Lost(q, b, i)
  OBVIOUS
<1>1. /\ Len(b) \in Nat /\ i \in 1 .. Len(b) /\ n \in Nat /\ n + 1 \in 1 .. Len(b)
      /\ c \in Bytes /\ M \in Nat
  BY MaxPosAssumption DEF Starts
<1>2. /\ SubSeq(b, i, n) \in Seq(Bytes) /\ Len(SubSeq(b, i, n)) = n - i + 1
      /\ Append(SubSeq(b, i, n), c) = SubSeq(b, i, n + 1)
      /\ \A k \in 1 .. n - i + 1 : SubSeq(b, i, n)[k] = b[i + k - 1]
  <2>1. \A k \in 1 .. n - i + 1 : SubSeq(b, i, n)[k] = b[i + k - 1]
    BY <1>1, SubSeqIs
  <2>2. i \in 1 .. Len(b) + 1
    BY <1>1
  <2>3. QED BY <2>1, <2>2, OneMoreByte
<1>3. p.state = "READING_KEY" /\ p.key = SubSeq(b, i, n) /\ p.val = <<>>
      /\ \A k \in i .. n : b[k] \notin {"&", "="}
  BY DEF InKey, Plain
<1>q. q = ReadKey(p, c)
  OBVIOUS
<1> HIDE DEF c, q
<1>4. ASSUME b[i] = "k", b[i + 1] = "=" PROVE n = i - 1 \/ n = i
  BY <1>1, <1>3, <1>4
<1>5. CASE c = "="
  <2>1. q = [p EXCEPT !.state = "READING_VAL"]
    BY <1>5, <1>q DEF ReadKey, Separators
  <2>2. q \in Parsers /\ q.accepted = p.accepted /\ q.state = "READING_VAL"
        /\ q.key = p.key /\ q.val = p.val
    BY <2>1 DEF Parsers, ParserStates
  <2>3. CASE p.key = <<"k">>
    <3>1. Len(p.key) = 1 /\ p.key[1] = "k"
      BY <2>3
    <3>2. n = i
      BY <1>1, <1>2, <1>3, <3>1
    <3>3. b[i] = "k"
      BY <1>1, <1>2, <1>3, <3>1, <3>2
    <3>4. SubSeq(b, i + 2, i + 1) = <<>>
      BY <1>1, SubSeqEmpty
    <3>5. InVal(q, b, i, n + 1)
      <4>1. b[i + 1] = "=" /\ q.val = SubSeq(b, i + 2, n + 1) /\ n + 1 = i + 1
        BY <1>3, <1>5, <2>2, <3>2, <3>4 DEF c
      <4>2. (n + 1) - i - 1 <= M + 1 /\ i + 1 <= n + 1
        BY <1>1, <4>1
      <4>3. Plain(b, i + 2, n + 1)
        BY <1>1, <4>1 DEF Plain
      <4>4. QED BY <2>2, <2>3, <3>3, <4>1, <4>2, <4>3 DEF InVal
    <3>6. QED BY <2>2, <3>2, <3>5
  <2>4. CASE p.key # <<"k">>
    <3>1. ASSUME Good(b, i) PROVE FALSE
      <4>1. b[i] = "k" /\ b[i + 1] = "="
        BY <3>1, GoodStart
      <4>2. n = i
        BY <1>1, <1>4, <1>5, <4>1 DEF c
      <4>3. p.key \in Seq(Bytes) /\ Len(p.key) = 1 /\ p.key[1] = "k"
        BY <1>1, <1>2, <1>3, <4>1, <4>2
      <4>4. <<"k">> \in Seq(Bytes) /\ Len(<<"k">>) = 1 /\ <<"k">>[1] = "k"
        BY DEF Bytes
      <4>5. Len(p.key) = Len(<<"k">>) /\ \A k \in 1 .. Len(p.key) : p.key[k] = <<"k">>[k]
        BY <4>3, <4>4
      <4>6. p.key = <<"k">>
        BY <4>3, <4>4, <4>5, SeqEqual
      <4>7. QED BY <2>4, <4>6
    <3>2. QED BY <2>2, <2>4, <3>1 DEF Lost
  <2>5. QED BY <2>3, <2>4
<1>6. CASE c = "&"
  <2>1. q = [p EXCEPT !.state = "ERROR"]
    BY <1>6, <1>q DEF ReadKey, Separators
  <2>2. q \in Parsers /\ q.accepted = p.accepted /\ q.state = "ERROR"
    BY <2>1 DEF Parsers, ParserStates
  <2>3. ASSUME Good(b, i) PROVE FALSE
    <3>1. b[i] = "k" /\ b[i + 1] = "="
      BY <2>3, GoodStart
    <3>2. n = i - 1 \/ n = i
      BY <1>4, <3>1
    <3>3. QED BY <1>1, <1>6, <3>1, <3>2 DEF c
  <2>4. Lost(q, b, i)
    BY <2>2, <2>3 DEF Lost
  <2>5. QED BY <2>2, <2>4
<1>7. CASE c \notin {"=", "&"} /\ Len(p.key) <= M
  <2>1. q = [p EXCEPT !.key = Append(@, c)]
    BY <1>7, <1>q DEF ReadKey, Separators
  <2>2. Append(p.key, c) \in Seq(Bytes)
    BY <1>1, <1>2, <1>3
  <2>3. q \in Parsers /\ q.accepted = p.accepted /\ q.state = "READING_KEY"
        /\ q.key = SubSeq(b, i, n + 1) /\ q.val = <<>>
    BY <1>2, <1>3, <2>1, <2>2 DEF Parsers
  <2>4. Plain(b, i, n + 1)
    BY <1>1, <1>3, <1>7 DEF Plain, c
  <2>5. QED BY <2>3, <2>4 DEF InKey
<1>8. CASE c \notin {"=", "&"} /\ ~(Len(p.key) <= M)
  <2>1. q = [p EXCEPT !.state = "ERROR"]
    BY <1>8, <1>q DEF ReadKey, Separators
  <2>2. q \in Parsers /\ q.accepted = p.accepted /\ q.state = "ERROR"
    BY <2>1 DEF Parsers, ParserStates
  <2>3. ASSUME Good(b, i) PROVE FALSE
    <3>1. b[i] = "k" /\ b[i + 1] = "="
      BY <2>3, GoodStart
    <3>2. n = i
      BY <1>1, <1>2, <1>3, <1>4, <1>8, <3>1
    <3>3. QED BY <1>1, <1>8, <3>1, <3>2 DEF c
  <2>4. Lost(q, b, i)
    BY <2>2, <2>3 DEF Lost
  <2>5. QED BY <2>2, <2>4
<1>9. QED BY <1>5, <1>6, <1>7, <1>8

(* A field that is known to be bad stays bad.                              *)
LEMMA LostStep ==
    ASSUME NEW b \in Seq(Bytes), NEW i \in Starts(b), NEW c \in Bytes, NEW last,
           NEW p \in Parsers, Lost(p, b, i)
    PROVE  LET q == ReadByte(p, c, last)
           IN  q \in Parsers /\ q.accepted = p.accepted /\ Lost(q, b, i)
<1> DEFINE q == ReadByte(p, c, last)
<1> SUFFICES q \in Parsers /\ q.accepted = p.accepted /\ Lost(q, b, i)
  OBVIOUS
<1>1. CASE p.state = "ERROR"
  <2>1. q = p
    BY <1>1 DEF ReadByte
  <2> HIDE DEF q
  <2>2. QED BY <2>1
<1>2. CASE p.state = "READING_VAL" /\ p.key # <<"k">>
  <2>1. q = ReadVal(p, c, last)
    BY <1>2 DEF ReadByte
  <2> HIDE DEF q
  <2>2. ASSUME NEW r \in Parsers, r.key # <<"k">> PROVE Handle(r) = r
    BY <2>2 DEF Handle, HandlerResult
  <2>3. CASE c = "&"
    <3>1. q = p
      BY <1>2, <2>1, <2>2, <2>3 DEF ReadVal, Separators
    <3>2. QED BY <3>1
  <2>4. CASE c \notin Separators /\ Len(p.val) <= PARSE_POST_MAX_POS
    <3> DEFINE r == [p EXCEPT !.val = Append(@, c)]
    <3>1. q = IF last THEN Handle(r) ELSE r
      BY <2>1, <2>4 DEF ReadVal, Separators
    <3>2. Append(p.val, c) \in Seq(Bytes)
      BY DEF Parsers
    <3>3. r \in Parsers /\ r.key = p.key /\ r.state = p.state /\ r.accepted = p.accepted
      BY <3>2 DEF Parsers
    <3> HIDE DEF r
    <3>4. q = r
      BY <1>2, <2>2, <3>1, <3>3
    <3>5. QED BY <1>2, <3>3, <3>4 DEF Lost
  <2>5. CASE c # "&" /\ ~(c \notin Separators /\ Len(p.val) <= PARSE_POST_MAX_POS)
    <3>1. q = [p EXCEPT !.state = "ERROR"]
      BY <2>1, <2>5 DEF ReadVal
    <3>2. q \in Parsers /\ q.state = "ERROR" /\ q.accepted = p.accepted
      BY <3>1 DEF Parsers, ParserStates
    <3>3. QED BY <3>2 DEF Lost
  <2>6. c = "&" \/ c # "&"
    OBVIOUS
  <2>7. QED BY <2>3, <2>4, <2>5
<1>3. QED BY <1>1, <1>2 DEF Lost

(* A pair is complete: its field is good if no handler objects.            *)
LEMMA PairStep ==
    ASSUME NEW b \in Seq(Bytes), NEW i \in Starts(b), NEW z, EndsAt(b, i, z),
           NEW p \in Parsers, AcceptedBefore(p.accepted, b, i),
           InVal(p, b, i, z), z = Len(b) => i + 2 <= z,
           NEW m \in {z + 1, z + 2}
    PROVE  LET q == Handle(p)
           IN  /\ q \in Parsers
               /\ \/ q.state = "MORE" /\ AcceptedBefore(q.accepted, b, m)
                  \/ q.accepted = p.accepted /\ Lost(q, b, i)
<1> DEFINE q == Handle(p)
<1> SUFFICES /\ q \in Parsers
             /\ \/ q.state = "MORE" /\ AcceptedBefore(q.accepted, b, m)
                \/ q.accepted = p.accepted /\ Lost(q, b, i)
  OBVIOUS
<1>1. /\ i \in 1 .. Len(b) /\ Len(b) \in Nat /\ z \in i - 1 .. Len(b) /\ i + 1 <= z
      /\ b[i] = "k" /\ b[i + 1] = "=" /\ p.key = <<"k">> /\ p.val = SubSeq(b, i + 2, z)
      /\ \A k \in i + 2 .. z : b[k] \notin {"&", "="}
      /\ z - i - 1 <= PARSE_POST_MAX_POS + 1
  BY DEF Starts, EndsAt, InVal, Plain
<1>2. /\ p.val \in Seq(Bytes) /\ Len(p.val) = z - (i + 2) + 1
      /\ \A k \in 1 .. z - (i + 2) + 1 : p.val[k] = b[(i + 2) + k - 1]
  <2>1. i + 2 \in Nat \ {0} /\ z \in Nat /\ (i + 2) - 1 <= z /\ z <= Len(b)
    BY <1>1
  <2>2. /\ SubSeq(b, i + 2, z) \in Seq(Bytes)
        /\ Len(SubSeq(b, i + 2, z)) = z - (i + 2) + 1
        /\ \A k \in 1 .. z - (i + 2) + 1 : SubSeq(b, i + 2, z)[k] = b[(i + 2) + k - 1]
    BY <2>1, SubSeqIs
  <2>3. QED BY <1>1, <2>2
<1>3. Contains(p.val, "x") <=> \E k \in i + 2 .. z : b[k] = "x"
  <2>1. ASSUME NEW k \in 1 .. Len(p.val), p.val[k] = "x"
        PROVE  \E j \in i + 2 .. z : b[j] = "x"
    <3>1. i + 1 + k \in i + 2 .. z /\ (i + 2) + k - 1 = i + 1 + k /\ k \in 1 .. z - (i + 2) + 1
      BY <1>1, <1>2
    <3>2. QED BY <1>2, <2>1, <3>1
  <2>2. ASSUME NEW j \in i + 2 .. z, b[j] = "x"
        PROVE  \E k \in 1 .. Len(p.val) : p.val[k] = "x"
    <3>1. j - i - 1 \in 1 .. Len(p.val) /\ (i + 2) + (j - i - 1) - 1 = j
          /\ j - i - 1 \in 1 .. z - (i + 2) + 1
      BY <1>1, <1>2
    <3>2. QED BY <1>2, <2>2, <3>1
  <2>3. QED BY <2>1, <2>2 DEF Contains
<1>4. Good(b, i) <=> ~Contains(p.val, "x")
  <2>1. Good(b, i) <=> Fine(b, i, z)
    BY GoodIs
  <2>2. QED BY <1>1, <1>3, <2>1 DEF Fine
<1>q. q = Handle(p)
  OBVIOUS
<1> HIDE DEF q
<1>5. CASE Good(b, i)
  <2>1. q = [p EXCEPT !.state = "MORE", !.accepted = Append(@, <<p.key, p.val>>)]
    BY <1>1, <1>4, <1>5, <1>q DEF Handle, HandlerResult
  <2> DEFINE more == Append(p.accepted, <<p.key, p.val>>)
  <2>2. more \in Seq(Seq(Bytes) \X Seq(Bytes))
    BY DEF Parsers
  <2>3. more = Append(p.accepted, <<<<"k">>, SubSeq(b, i + 2, z)>>)
    BY <1>1
  <2>4. Fine(b, i, z)
    BY <1>5, GoodIs
  <2>5. AcceptedBefore(Append(p.accepted, <<<<"k">>, SubSeq(b, i + 2, z)>>), b, m)
    BY <2>4, AcceptedAppend
  <2>6. AcceptedBefore(more, b, m)
    BY <2>3, <2>5
  <2>7. q = [p EXCEPT !.state = "MORE", !.accepted = more]
    BY <2>1
  <2> HIDE DEF more
  <2>8. q \in Parsers /\ q.state = "MORE" /\ q.accepted = more
    BY <2>2, <2>7 DEF Parsers, ParserStates
  <2>9. QED BY <2>6, <2>8
<1>6. CASE ~Good(b, i)
  <2>1. q = [p EXCEPT !.state = "ERROR"]
    BY <1>1, <1>4, <1>6, <1>q DEF Handle, HandlerResult
  <2>2. q \in Parsers /\ q.state = "ERROR" /\ q.accepted = p.accepted
    BY <2>1 DEF Parsers, ParserStates
  <2>3. QED BY <1>6, <2>2 DEF Lost
<1>7. QED BY <1>5, <1>6

(* A byte of a value: the end of a good field, a bad field, or more value. *)
LEMMA ValStep ==
    ASSUME NEW b \in Seq(Bytes), NEW i \in Starts(b), NEW n \in i .. Len(b) - 1,
           NEW last \in BOOLEAN, last => n + 1 = Len(b),
           NEW p \in Parsers, AcceptedBefore(p.accepted, b, i), InVal(p, b, i, n)
    PROVE  LET q == ReadVal(p, b[n + 1], last)
           IN  /\ q \in Parsers
               /\ \/ /\ q.state = "MORE" /\ AcceptedBefore(q.accepted, b, n + 2)
                     /\ b[n + 1] = "&" \/ last
                  \/ q.accepted = p.accepted /\ Lost(q, b, i)
                  \/ q.accepted = p.accepted /\ InVal(q, b, i, n + 1) /\ ~last
<1> DEFINE c == b[n + 1]
           q == ReadVal(p, c, last)
           M == PARSE_POST_MAX_POS
<1> SUFFICES /\ q \in Parsers
             /\ \/ /\ q.state = "MORE" /\ AcceptedBefore(q.accepted, b, n + 2)
                   /\ c = "&" \/ last
                \/ q.accepted = p.accepted /\ Lost(q, b, i)
                \/ q.accepted = p.accepted /\ InVal(q, b, i, n + 1) /\ ~last
  OBVIOUS
<1>1. /\ Len(b) \in Nat /\ i \in 1 .. Len(b) /\ n \in Nat /\ n + 1 \in 1 .. Len(b)
      /\ c \in Bytes /\ M \in Nat /\ i + 1 <= n
  <2>1. Len(b) \in Nat /\ i \in 1 .. Len(b)
    BY DEF Starts
  <2>2. n \in Nat /\ n + 1 \in 1 .. Len(b)
    BY <2>1
  <2>3. QED BY <2>1, <2>2, MaxPosAssumption DEF InVal
<1>2. /\ p.state = "READING_VAL" /\ p.key = <<"k">> /\ b[i] = "k" /\ b[i + 1] = "="
      /\ p.val = SubSeq(b, i + 2, n)
      /\ \A k \in i + 2 .. n : b[k] \notin {"&", "="}
      /\ n - i - 1 <= M + 1
  BY DEF InVal, Plain
<1>3. \A k \in i .. n : b[k] # "&"
  <2> TAKE k \in i .. n
  <2>1. k = i \/ k = i + 1 \/ k \in i + 2 .. n
    BY <1>1
  <2>2. QED BY <1>2, <2>1
<1>q. q = ReadVal(p, c, last)
  OBVIOUS
<1>c. c = b[n + 1]
  OBVIOUS
<1> HIDE DEF c, q
<1>4. CASE c = "&"
  <2>1. EndsAt(b, i, n)
    BY <1>1, <1>3, <1>4, <1>c DEF EndsAt
  <2>2. q = Handle(p)
    BY <1>4, <1>q DEF ReadVal, Separators
  <2>3. n # Len(b) /\ n + 2 \in {n + 1, n + 2}
    BY <1>1
  <2>4. /\ Handle(p) \in Parsers
        /\ \/ Handle(p).state = "MORE" /\ AcceptedBefore(Handle(p).accepted, b, n + 2)
           \/ Handle(p).accepted = p.accepted /\ Lost(Handle(p), b, i)
    BY <2>1, <2>3, PairStep
  <2>5. QED BY <1>4, <2>2, <2>4
<1>5. \A z : EndsAt(b, i, z) /\ c # "&" => z \in n + 1 .. Len(b)
  <2> SUFFICES ASSUME NEW z, EndsAt(b, i, z), c # "&" PROVE z \in n + 1 .. Len(b)
    OBVIOUS
  <2>1. z \in i - 1 .. Len(b) /\ (z < Len(b) => b[z + 1] = "&")
    BY DEF EndsAt
  <2>2. z < n + 1 => z + 1 \in i .. n \/ z + 1 = n + 1
    BY <1>1, <2>1
  <2>3. ~(z < n + 1)
    BY <1>1, <1>3, <1>c, <2>1, <2>2
  <2>4. QED BY <1>1, <2>1, <2>3
<1>6. CASE c = "="
  <2>1. q = [p EXCEPT !.state = "ERROR"]
    BY <1>6, <1>q DEF ReadVal, Separators
  <2>2. q \in Parsers /\ q.state = "ERROR" /\ q.accepted = p.accepted
    BY <2>1 DEF Parsers, ParserStates
  <2>3. ASSUME Good(b, i) PROVE FALSE
    <3>1. PICK z : EndsAt(b, i, z)
      BY FieldEnd
    <3>2. \A k \in i + 2 .. z : b[k] # "="
      BY <2>3, <3>1, GoodIs DEF Fine
    <3>3. n + 1 \in i + 2 .. z
      <4>1. z \in n + 1 .. Len(b)
        BY <1>5, <1>6, <3>1
      <4>2. QED BY <1>1, <4>1
    <3>4. QED BY <1>6, <1>c, <3>2, <3>3
  <2>4. Lost(q, b, i)
    BY <2>2, <2>3 DEF Lost
  <2>5. QED BY <2>2, <2>4
<1>7. Len(p.val) = n - i - 1 /\ p.val \in Seq(Bytes)
      /\ Append(p.val, c) = SubSeq(b, i + 2, n + 1)
  <2>1. i + 2 \in 1 .. Len(b) + 1 /\ n \in (i + 2) - 1 .. Len(b) - 1
    BY <1>1
  <2>2. /\ SubSeq(b, i + 2, n) \in Seq(Bytes)
        /\ Len(SubSeq(b, i + 2, n)) = n - (i + 2) + 1
        /\ Append(SubSeq(b, i + 2, n), b[n + 1]) = SubSeq(b, i + 2, n + 1)
    BY <2>1, OneMoreByte
  <2>3. n - (i + 2) + 1 = n - i - 1
    BY <1>1
  <2>4. QED BY <1>2, <1>c, <2>2, <2>3
<1>8. CASE c \notin Separators /\ ~(Len(p.val) <= M)
  <2>1. q = [p EXCEPT !.state = "ERROR"]
    BY <1>8, <1>q DEF ReadVal, Separators
  <2>2. q \in Parsers /\ q.state = "ERROR" /\ q.accepted = p.accepted
    BY <2>1 DEF Parsers, ParserStates
  <2>3. ASSUME Good(b, i) PROVE FALSE
    <3>1. PICK z : EndsAt(b, i, z)
      BY FieldEnd
    <3>2. z - i - 1 <= M + 1
      BY <2>3, <3>1, GoodIs DEF Fine
    <3>3. z \in n + 1 .. Len(b)
      BY <1>5, <1>8, <3>1 DEF Separators
    <3>4. n - i - 1 > M
      BY <1>1, <1>7, <1>8
    <3>5. QED BY <1>1, <3>2, <3>3, <3>4
  <2>4. Lost(q, b, i)
    BY <2>2, <2>3 DEF Lost
  <2>5. QED BY <2>2, <2>4
<1>9. CASE c \notin Separators /\ Len(p.val) <= M
  <2> DEFINE r == [p EXCEPT !.val = Append(@, c)]
  <2>1. q = IF last THEN Handle(r) ELSE r
    BY <1>9, <1>q DEF ReadVal, Separators
  <2>2. Append(p.val, c) \in Seq(Bytes)
    BY <1>1, <1>7
  <2>3. r \in Parsers /\ r.key = p.key /\ r.state = p.state /\ r.accepted = p.accepted
        /\ r.val = SubSeq(b, i + 2, n + 1)
    BY <1>7, <2>2 DEF Parsers
  <2> HIDE DEF r
  <2>4. InVal(r, b, i, n + 1)
    <3>1. Plain(b, i + 2, n + 1)
      BY <1>1, <1>2, <1>9, <1>c DEF Plain, Separators
    <3>2. (n + 1) - i - 1 <= M + 1 /\ i + 1 <= n + 1
      BY <1>1, <1>7, <1>9
    <3>3. QED BY <1>2, <2>3, <3>1, <3>2 DEF InVal
  <2>5. CASE ~last
    BY <2>1, <2>3, <2>4, <2>5
  <2>6. CASE last
    <3>1. n + 1 = Len(b)
      BY <2>6
    <3>2. EndsAt(b, i, n + 1)
      <4>1. \A k \in i .. n + 1 : b[k] # "&"
        BY <1>1, <1>3, <1>9, <1>c DEF Separators
      <4>2. QED BY <1>1, <3>1, <4>1 DEF EndsAt
    <3>3. i + 2 <= n + 1 /\ n + 2 \in {(n + 1) + 1, (n + 1) + 2}
      BY <1>1
    <3>4. AcceptedBefore(r.accepted, b, i)
      BY <2>3
    <3>5. /\ Handle(r) \in Parsers
          /\ \/ Handle(r).state = "MORE" /\ AcceptedBefore(Handle(r).accepted, b, n + 2)
             \/ Handle(r).accepted = r.accepted /\ Lost(Handle(r), b, i)
      BY <2>3, <2>4, <3>2, <3>3, <3>4, PairStep
    <3>6. q = Handle(r)
      BY <2>1, <2>6
    <3>7. QED BY <2>3, <2>6, <3>5, <3>6
  <2>7. QED BY <2>5, <2>6
<1>10. c \in Separators => c = "=" \/ c = "&"
  BY DEF Separators
<1>11. QED BY <1>4, <1>6, <1>8, <1>9, <1>10

(* One byte more.                                                          *)
LEMMA ByteStep ==
    ASSUME NEW b \in Seq(Bytes), NEW n \in 0 .. Len(b) - 1,
           NEW last \in BOOLEAN, last => n + 1 = Len(b),
           NEW p, HasRead(p, b, n)
    PROVE  LET q == ReadByte(p, b[n + 1], last)
           IN  IF last THEN Judged(q, b) ELSE HasRead(q, b, n + 1)
<1> DEFINE c == b[n + 1]
           q == ReadByte(p, c, last)
<1> SUFFICES IF last THEN Judged(q, b) ELSE HasRead(q, b, n + 1)
  OBVIOUS
<1>1. Len(b) \in Nat /\ n \in Nat /\ n + 1 \in 1 .. Len(b) /\ c \in Bytes /\ p \in Parsers
  <2>1. Len(b) \in Nat /\ n + 1 \in 1 .. Len(b)
    OBVIOUS
  <2>2. QED BY <2>1 DEF HasRead
<1>q. q = ReadByte(p, c, last) /\ c = b[n + 1]
  OBVIOUS
<1> HIDE DEF q, c
<1>2. ASSUME NEW i \in Starts(b), i <= n + 1, AcceptedBefore(p.accepted, b, i),
             NEW r \in Parsers, r.accepted = p.accepted, InKey(r, b, i, n),
             q = ReadKey(r, c)
      PROVE  IF last THEN Judged(q, b) ELSE HasRead(q, b, n + 1)
  <2>1. n \in i - 1 .. Len(b) - 1
    BY <1>1, <1>2 DEF Starts
  <2>2. LET s == ReadKey(r, b[n + 1])
        IN  /\ s \in Parsers /\ s.accepted = r.accepted
            /\ \/ InKey(s, b, i, n + 1)
               \/ InVal(s, b, i, n + 1) /\ n = i
               \/ Lost(s, b, i)
    BY <1>2, <2>1, KeyStep
  <2>3. /\ q \in Parsers /\ q.accepted = p.accepted
        /\ \/ InKey(q, b, i, n + 1)
           \/ InVal(q, b, i, n + 1) /\ n = i
           \/ Lost(q, b, i)
    BY <1>2, <1>q, <2>2
  <2>4. CASE ~last
    <3>1. AcceptedBefore(q.accepted, b, i)
      BY <1>2, <2>3
    <3>2. QED BY <1>2, <2>3, <2>4, <3>1 DEF HasRead
  <2>5. CASE last
    <3>1. n + 1 = Len(b)
      BY <2>5
    <3>2. i \in 1 .. Len(b)
      BY DEF Starts
    <3>3. ASSUME Good(b, i), InKey(q, b, i, n + 1) PROVE FALSE
      <4>1. b[i + 1] = "=" /\ i + 1 <= n + 1
        BY <3>1, <3>3, GoodStart
      <4>2. i + 1 \in i .. n + 1
        BY <1>1, <3>2, <4>1
      <4>3. QED BY <3>3, <4>1, <4>2 DEF InKey, Plain
    <3>4. ASSUME Good(b, i), n = i PROVE FALSE
      <4>1. PICK z : EndsAt(b, i, z)
        BY FieldEnd
      <4>2. Fine(b, i, z)
        BY <3>4, <4>1, GoodIs
      <4>3. z = Len(b)
        BY <1>1, <3>1, <3>2, <3>4, <4>1, <4>2 DEF EndsAt, Fine
      <4>4. i + 2 <= Len(b)
        BY <4>2, <4>3 DEF Fine
      <4>5. QED BY <1>1, <3>1, <3>2, <3>4, <4>4
    <3>5. ~Good(b, i)
      BY <2>3, <3>3, <3>4 DEF Lost
    <3>6. q.state # "MORE"
      BY <2>3 DEF InKey, InVal, Lost
    <3>7. AcceptedBefore(q.accepted, b, i)
      BY <1>2, <2>3
    <3>8. Judged(q, b)
      BY <3>5, <3>6, <3>7 DEF Judged
    <3>9. QED BY <2>5, <3>8
  <2>6. QED BY <2>4, <2>5
<1>3. CASE Between(p, b, n)
  <2> DEFINE r == [p EXCEPT !.state = "READING_KEY", !.key = <<>>, !.val = <<>>]
  <2>1. q = ReadKey(r, c)
    BY <1>3, <1>q DEF ReadByte, Between
  <2>2. r \in Parsers /\ r.accepted = p.accepted /\ r.state = "READING_KEY"
        /\ r.key = <<>> /\ r.val = <<>>
    <3>1. <<>> \in Seq(Bytes)
      OBVIOUS
    <3>2. QED BY <1>1, <3>1 DEF Parsers, ParserStates
  <2> HIDE DEF r
  <2>3. n + 1 \in Starts(b)
    <3>1. n = 0 \/ (n \in Nat /\ (n + 1) - 1 = n /\ b[n] = "&")
      BY <1>1, <1>3 DEF Between
    <3>2. n = 0 => n + 1 = 1
      OBVIOUS
    <3>3. QED BY <1>1, <3>1, <3>2 DEF Starts
  <2>4. InKey(r, b, n + 1, n)
    <3>1. SubSeq(b, n + 1, n) = <<>>
      BY <1>1, SubSeqEmpty
    <3>2. QED BY <1>1, <2>2, <3>1 DEF InKey, Plain
  <2>5. AcceptedBefore(p.accepted, b, n + 1)
    BY <1>3 DEF Between
  <2>6. n + 1 <= n + 1
    BY <1>1
  <2>7. QED BY <1>2, <2>1, <2>2, <2>3, <2>4, <2>5, <2>6
<1>4. ASSUME NEW i \in Starts(b), i <= n, AcceptedBefore(p.accepted, b, i), InKey(p, b, i, n)
      PROVE  IF last THEN Judged(q, b) ELSE HasRead(q, b, n + 1)
  <2>1. q = ReadKey(p, c)
    BY <1>4, <1>q DEF ReadByte, InKey
  <2>2. i <= n + 1
    BY <1>1, <1>4 DEF Starts
  <2>3. QED BY <1>1, <1>2, <1>4, <2>1, <2>2
<1>5. ASSUME NEW i \in Starts(b), i <= n, AcceptedBefore(p.accepted, b, i), Lost(p, b, i)
      PROVE  IF last THEN Judged(q, b) ELSE HasRead(q, b, n + 1)
  <2>1. LET s == ReadByte(p, c, last)
        IN  s \in Parsers /\ s.accepted = p.accepted /\ Lost(s, b, i)
    BY <1>1, <1>5, LostStep
  <2>2. q \in Parsers /\ q.accepted = p.accepted /\ Lost(q, b, i)
    BY <1>q, <2>1
  <2>3. AcceptedBefore(q.accepted, b, i)
    BY <1>5, <2>2
  <2>4. i <= n + 1
    BY <1>1, <1>5 DEF Starts
  <2>5. HasRead(q, b, n + 1)
    BY <2>2, <2>3, <2>4 DEF HasRead
  <2>6. Judged(q, b)
    BY <2>2, <2>3 DEF Judged, Lost
  <2>7. QED BY <2>5, <2>6
<1>6. ASSUME NEW i \in Starts(b), i <= n, AcceptedBefore(p.accepted, b, i), InVal(p, b, i, n)
      PROVE  IF last THEN Judged(q, b) ELSE HasRead(q, b, n + 1)
  <2>1. q = ReadVal(p, c, last)
    BY <1>6, <1>q DEF ReadByte, InVal
  <2>2. n \in i .. Len(b) - 1
    BY <1>1, <1>6 DEF Starts
  <2>3. LET s == ReadVal(p, b[n + 1], last)
        IN  /\ s \in Parsers
            /\ \/ /\ s.state = "MORE" /\ AcceptedBefore(s.accepted, b, n + 2)
                  /\ b[n + 1] = "&" \/ last
               \/ s.accepted = p.accepted /\ Lost(s, b, i)
               \/ s.accepted = p.accepted /\ InVal(s, b, i, n + 1) /\ ~last
    BY <1>1, <1>6, <2>2, ValStep
  <2>4. /\ q \in Parsers
        /\ \/ /\ q.state = "MORE" /\ AcceptedBefore(q.accepted, b, n + 2)
              /\ b[n + 1] = "&" \/ last
           \/ q.accepted = p.accepted /\ Lost(q, b, i)
           \/ q.accepted = p.accepted /\ InVal(q, b, i, n + 1) /\ ~last
    BY <1>q, <2>1, <2>3
  <2>5. i <= n + 1
    BY <1>1, <1>6 DEF Starts
  <2>6. CASE /\ q.state = "MORE" /\ AcceptedBefore(q.accepted, b, n + 2)
             /\ b[n + 1] = "&" \/ last
    <3>1. n + 2 = (n + 1) + 1 /\ n + 1 # 0
      BY <1>1
    <3>2. AcceptedBefore(q.accepted, b, (n + 1) + 1)
      BY <2>6, <3>1
    <3>3. CASE last
      <4>1. AcceptedBefore(q.accepted, b, Len(b) + 1)
        BY <3>2, <3>3
      <4>2. Judged(q, b)
        BY <2>6, <4>1 DEF Judged
      <4>3. QED BY <3>3, <4>2
    <3>4. CASE ~last
      <4>1. Between(q, b, n + 1)
        BY <2>6, <3>1, <3>2, <3>4 DEF Between
      <4>2. QED BY <2>4, <3>4, <4>1 DEF HasRead
    <3>5. QED BY <3>3, <3>4
  <2>7. CASE q.accepted = p.accepted /\ Lost(q, b, i)
    <3>1. AcceptedBefore(q.accepted, b, i)
      BY <1>6, <2>7
    <3>2. HasRead(q, b, n + 1)
      BY <2>4, <2>5, <2>7, <3>1 DEF HasRead
    <3>3. Judged(q, b)
      BY <2>7, <3>1 DEF Judged, Lost
    <3>4. QED BY <3>2, <3>3
  <2>8. CASE q.accepted = p.accepted /\ InVal(q, b, i, n + 1) /\ ~last
    <3>1. AcceptedBefore(q.accepted, b, i)
      BY <1>6, <2>8
    <3>2. QED BY <2>4, <2>5, <2>8, <3>1 DEF HasRead
  <2>9. QED BY <2>4, <2>6, <2>7, <2>8
<1>7. QED BY <1>3, <1>4, <1>5, <1>6 DEF HasRead

(* One chunk more, byte by byte.                                           *)
LEMMA ChunkStep ==
    ASSUME NEW b \in Seq(Bytes), NEW m \in 0 .. Len(b), NEW n \in 1 .. Len(b) - m,
           NEW last \in BOOLEAN, last => m + n = Len(b),
           NEW p, HasRead(p, b, m)
    PROVE  LET q == ParseChunk(p, SubSeq(b, m + 1, m + n), last)
           IN  IF last THEN Judged(q, b) ELSE HasRead(q, b, m + n)
<1> DEFINE chunk == SubSeq(b, m + 1, m + n)
<1>1. Len(b) \in Nat /\ m \in Nat /\ n \in Nat \ {0} /\ m + n \in 1 .. Len(b)
  <2>1. Len(b) \in Nat
    OBVIOUS
  <2>2. QED BY <2>1
<1>2. Len(chunk) = n /\ \A k \in 1 .. n : chunk[k] = b[m + k]
  <2>1. m + 1 \in Nat \ {0} /\ m + n \in Nat /\ (m + 1) - 1 <= m + n /\ m + n <= Len(b)
    BY <1>1
  <2>2. /\ SubSeq(b, m + 1, m + n) \in Seq(Bytes)
        /\ Len(SubSeq(b, m + 1, m + n)) = (m + n) - (m + 1) + 1
        /\ \A k \in 1 .. (m + n) - (m + 1) + 1 :
              SubSeq(b, m + 1, m + n)[k] = b[(m + 1) + k - 1]
    BY <2>1, SubSeqIs
  <2>3. (m + n) - (m + 1) + 1 = n /\ \A k \in 1 .. n : (m + 1) + k - 1 = m + k
    BY <1>1
  <2>4. QED BY <2>2, <2>3
<1> HIDE DEF chunk
<1>3. PICK after : /\ ByteByByte(after, p, chunk, last)
                   /\ ParseChunk(p, chunk, last) = after[Len(chunk)]
  <2>1. Len(chunk) \in Nat
    BY <1>1, <1>2
  <2>2. QED BY <2>1, ChunkByteByByte
<1>4. \A k \in 0 .. n - 1 :
         after[k + 1] = ReadByte(after[k], b[(m + k) + 1], LastByte(last, chunk, k + 1))
  <2> TAKE k \in 0 .. n - 1
  <2>1. k + 1 \in 1 .. Len(chunk) /\ (k + 1) - 1 = k /\ m + (k + 1) = (m + k) + 1
    BY <1>1, <1>2
  <2>2. QED BY <1>2, <1>3, <2>1 DEF ByteByByte
<1> DEFINE T == {k \in 0 .. n - 1 : HasRead(after[k], b, m + k)}
<1>5. 0 \in T
  BY <1>1, <1>3 DEF ByteByByte
<1>6. ASSUME NEW k \in 0 .. (n - 1) - 1, k \in T PROVE k + 1 \in T
  <2>1. /\ k \in 0 .. n - 1 /\ k + 1 \in 0 .. n - 1 /\ k + 1 # n
        /\ m + k \in 0 .. Len(b) - 1 /\ (m + k) + 1 = m + (k + 1)
    BY <1>1, <1>6
  <2>2. after[k + 1] = ReadByte(after[k], b[(m + k) + 1], FALSE)
    <3>1. LastByte(last, chunk, k + 1) = FALSE
      BY <1>2, <2>1 DEF LastByte
    <3>2. QED BY <1>4, <2>1, <3>1
  <2>3. HasRead(after[k], b, m + k)
    BY <1>6
  <2>4. LET q == ReadByte(after[k], b[(m + k) + 1], FALSE)
        IN  IF FALSE THEN Judged(q, b) ELSE HasRead(q, b, (m + k) + 1)
    BY <2>1, <2>3, ByteStep
  <2>5. QED BY <2>1, <2>2, <2>4
<1> HIDE DEF T
<1>7. n - 1 \in T
  <2>1. n - 1 \in Nat
    BY <1>1
  <2>2. 0 .. n - 1 \subseteq T
    BY <1>5, <1>6, <2>1, EveryNat
  <2>3. QED BY <2>1, <2>2
<1>8. HasRead(after[n - 1], b, m + (n - 1))
  BY <1>7 DEF T
<1>9. /\ n - 1 \in 0 .. n - 1 /\ (n - 1) + 1 = n /\ m + (n - 1) \in 0 .. Len(b) - 1
      /\ (m + (n - 1)) + 1 = m + n
  BY <1>1
<1>10. after[n] = ReadByte(after[n - 1], b[(m + (n - 1)) + 1], last)
  <2>1. LastByte(last, chunk, n) = last
    BY <1>2 DEF LastByte
  <2>2. QED BY <1>4, <1>9, <2>1
<1>11. LET q == ReadByte(after[n - 1], b[(m + (n - 1)) + 1], last)
       IN  IF last THEN Judged(q, b) ELSE HasRead(q, b, (m + (n - 1)) + 1)
  BY <1>8, <1>9, ByteStep
<1>12. ParseChunk(p, chunk, last) = after[n]
  BY <1>2, <1>3
<1>13. QED BY <1>9, <1>10, <1>11, <1>12 DEF chunk

(* An error before the end of the body is a verdict.                       *)
LEMMA ErrorJudges ==
    ASSUME NEW b \in Seq(Bytes), NEW n \in Nat, NEW p, HasRead(p, b, n),
           p.state = "ERROR"
    PROVE  Judged(p, b)
<1>1. ~Between(p, b, n)
  BY DEF Between
<1>2. PICK i \in Starts(b) :
         /\ AcceptedBefore(p.accepted, b, i)
         /\ InKey(p, b, i, n) \/ InVal(p, b, i, n) \/ Lost(p, b, i)
  BY <1>1 DEF HasRead
<1>3. ~Good(b, i)
  BY <1>2 DEF InKey, InVal, Lost
<1>4. QED BY <1>2, <1>3 DEF Judged

(* The verdict is the meaning.                                             *)
LEMMA VerdictMeans ==
    ASSUME NEW b \in Seq(Bytes), b # <<>>, NEW p, Judged(p, b)
    PROVE  /\ p.accepted = Meaning(b)
           /\ p.state = "MORE" <=> Acceptable(b)
<1>1. Len(b) \in Nat /\ Len(b) + 1 \in Nat
  OBVIOUS
<1>2. CASE p.state = "MORE" /\ AcceptedBefore(p.accepted, b, Len(b) + 1)
  <2>1. p.accepted = Meaning(b)
    BY <1>1, <1>2, AcceptedMeans
  <2>2. Starts(b) = StartsBefore(b, Len(b) + 1)
    BY <1>1 DEF Starts, StartsBefore
  <2>3. Acceptable(b)
    BY <1>2, <2>2 DEF AcceptedBefore, Acceptable
  <2>4. QED BY <1>2, <2>1, <2>3
<1>3. CASE p.state # "MORE"
  <2>1. PICK i \in Starts(b) : AcceptedBefore(p.accepted, b, i) /\ ~Good(b, i)
    BY <1>3 DEF Judged
  <2>2. i \in Nat
    BY DEF Starts
  <2>3. p.accepted = Meaning(b)
    BY <2>1, <2>2, AcceptedMeans
  <2>4. ~Acceptable(b)
    BY <2>1 DEF Acceptable
  <2>5. QED BY <1>3, <2>3, <2>4
<1>4. QED BY <1>2, <1>3 DEF Judged

(* Whoever reads a body: the parser has read what was taken from it.       *)
Reading(s) ==
    /\ body[s] \in Bodies
    /\ left[s] \in 1 .. Len(body[s])
    /\ HasRead(parser, body[s], Len(body[s]) - left[s])
ParserInv ==
    /\ body \in [Slots -> Bodies \cup {<<>>}]
    /\ left \in [Slots -> Int]
    /\ return_code \in [Slots -> Codes]
    /\ \A s \in Slots : phase[s] = "body" => Reading(s)

(* The answer of a request that ends, as AnswerMatchesBody has it.         *)
Verdict(s) ==
    /\ parser'.accepted = Meaning(body[s])
    /\ return_code'[s] = "OK" <=> Acceptable(body[s])

(* A body is a sequence of bytes.                                          *)
LEMMA BodyIs ==
    ASSUME NEW b \in Bodies
    PROVE  b \in Seq(Bytes) /\ Len(b) \in Nat
BY BodiesAssumption

(* The parser starts before the first field.                               *)
LEMMA FreshHasReadNothing ==
    ASSUME NEW b \in Bodies
    PROVE  HasRead(Fresh, b, 0)
<1>1. b \in Seq(Bytes)
  BY BodyIs
<1>2. Fresh \in Parsers /\ Fresh.state = "INIT" /\ Fresh.accepted = <<>>
  <2>1. <<>> \in Seq(Bytes) /\ <<>> \in Seq(Seq(Bytes) \X Seq(Bytes))
    OBVIOUS
  <2>2. QED BY <2>1 DEF Fresh, Parsers, ParserStates
<1>3. StartsBefore(b, 1) = {}
  BY DEF StartsBefore, Starts
<1>4. Count(b, 1) = 0
  BY <1>3, FS_EmptySet DEF Count
<1>5. AcceptedBefore(<<>>, b, 1)
  BY <1>3, <1>4 DEF AcceptedBefore
<1>6. 0 + 1 = 1
  OBVIOUS
<1>7. Between(Fresh, b, 0)
  BY <1>2, <1>5, <1>6 DEF Between
<1>8. QED BY <1>2, <1>7 DEF HasRead

(* Every step keeps the parser's place, and each end gives the verdict.    *)
LEMMA StepParser ==
    ASSUME OwnerInv, ParserInv, [Next]_vars
    PROVE  /\ ParserInv'
           /\ \A s \in Slots :
                /\ phase[s] = "body" /\ phase'[s] = "output"
                /\ left'[s] >= 0
                => Verdict(s)
<1> DEFINE Goal == /\ ParserInv'
                   /\ \A t \in Slots :
                        /\ phase[t] = "body" /\ phase'[t] = "output"
                        /\ left'[t] >= 0
                        => Verdict(t)
<1>1. CASE UNCHANGED vars
  BY <1>1 DEF vars, ParserInv, Reading
<1>c. ASSUME NEW s \in Slots, NEW c \in Codes,
             return_code' = [return_code EXCEPT ![s] = c]
      PROVE  return_code' \in [Slots -> Codes] /\ return_code'[s] = c
  BY <1>c DEF ParserInv
<1>2. CASE Next
  <2>1. PICK s \in Slots :
           \/ Connect(s) \/ Gone(s) \/ Get(s) \/ BadLength(s) \/ Refuse(s)
           \/ \E b \in Bodies : Accept(s, b)
           \/ \E n \in 1 .. Len(body[s]) : ReadChunk(s, n)
           \/ \E e \in Surplus : ReadBeyond(s, e)
    BY <1>2 DEF Next
  <2>2. CASE Connect(s) \/ Get(s)
    <3>1. UNCHANGED <<body, left, parser>> /\ phase[s] # "body"
          /\ \E q \in {"headers", "output"} : phase' = [phase EXCEPT ![s] = q]
      BY <2>2 DEF Connect, Get
    <3>2. \A t \in Slots : phase'[t] = "body" => phase[t] = "body"
      BY <3>1 DEF OwnerInv
    <3>3. \A t \in Slots : phase[t] = "body" => phase'[t] = "body"
      BY <3>1 DEF OwnerInv
    <3>4. return_code' = return_code
      BY <2>2 DEF Connect, Get
    <3>5. QED BY <3>1, <3>2, <3>3, <3>4 DEF ParserInv, Reading
  <2>3. CASE Gone(s)
    <3>1. /\ phase' = [phase EXCEPT ![s] = "free"] /\ parser' = parser
          /\ body' = [body EXCEPT ![s] = <<>>] /\ left' = [left EXCEPT ![s] = 0]
      BY <2>3 DEF Gone
    <3>2. \A t \in Slots : phase'[t] = "body" => t # s /\ phase[t] = "body"
      BY <3>1 DEF OwnerInv
    <3>3. \A t \in Slots : phase[t] = "body" => phase'[t] \in {"body", "free"}
      BY <3>1 DEF OwnerInv
    <3>4. \A t \in Slots : t # s => body'[t] = body[t] /\ left'[t] = left[t]
      BY <3>1 DEF ParserInv
    <3>5. body' \in [Slots -> Bodies \cup {<<>>}] /\ left' \in [Slots -> Int]
          /\ return_code' \in [Slots -> Codes]
      BY <2>3, <3>1 DEF ParserInv, Gone, Codes
    <3>6. \A t \in Slots : phase'[t] = "body" => Reading(t)'
      BY <3>1, <3>2, <3>4 DEF ParserInv, Reading
    <3>7. QED BY <3>3, <3>5, <3>6 DEF ParserInv
  <2>4. CASE BadLength(s) \/ Refuse(s)
    <3>1. UNCHANGED <<body, left, parser>> /\ phase[s] # "body"
          /\ phase' = [phase EXCEPT ![s] = "output"]
      BY <2>4 DEF BadLength, Refuse, EndRequest
    <3>2. \A t \in Slots : phase'[t] = "body" <=> phase[t] = "body"
      BY <3>1 DEF OwnerInv
    <3>3. return_code' \in [Slots -> Codes]
      BY <2>4 DEF BadLength, Refuse, EndRequest, ParserInv, Codes
    <3>4. QED BY <3>1, <3>2, <3>3 DEF ParserInv, Reading
  <2>5. ASSUME NEW b \in Bodies, Accept(s, b) PROVE Goal
    <3>1. /\ phase[s] = "headers" /\ lock \in {NULL, s} /\ parser' = Fresh
          /\ body' = [body EXCEPT ![s] = b] /\ left' = [left EXCEPT ![s] = Len(b)]
          /\ \/ b # <<>> /\ phase' = [phase EXCEPT ![s] = "body"]
             \/ phase' = [phase EXCEPT ![s] = "output"]
      BY <2>5 DEF Accept, EndRequest
    <3>2. \A t \in Slots : phase[t] # "body"
      BY <3>1 DEF OwnerInv, ParserIsOwned, Slots, NULL
    <3>3. \A t \in Slots : phase'[t] = "body" => t = s /\ b # <<>>
      BY <3>1, <3>2 DEF OwnerInv
    <3>4. body' \in [Slots -> Bodies \cup {<<>>}] /\ left' \in [Slots -> Int]
      BY <3>1, BodyIs DEF ParserInv
    <3>r. return_code' \in [Slots -> Codes]
      BY <2>5 DEF Accept, EndRequest, ParserInv, Codes
    <3>5. body'[s] = b /\ left'[s] = Len(b)
      BY <3>1 DEF ParserInv
    <3>6. b # <<>> => Len(b) \in 1 .. Len(b) /\ Len(b) - Len(b) = 0
      BY BodiesAssumption
    <3>7. b # <<>> => Reading(s)'
      <4>1. HasRead(Fresh, b, 0)
        BY FreshHasReadNothing
      <4>2. QED BY <3>1, <3>5, <3>6, <4>1 DEF Reading
    <3>8. QED BY <3>2, <3>3, <3>4, <3>7, <3>r DEF ParserInv
  <2>6. ASSUME NEW n \in 1 .. Len(body[s]), ReadChunk(s, n) PROVE Goal
    <3> DEFINE b == body[s]
               from == Len(b) - left[s]
               p == ParseChunk(parser, SubSeq(b, from + 1, from + n), n = left[s])
               ends == p.state = "ERROR" \/ n = left[s]
    <3>1. /\ phase[s] = "body" /\ n <= left[s] /\ parser' = p /\ body' = body
          /\ left' = [left EXCEPT ![s] = @ - n]
          /\ IF ends
             THEN /\ phase' = [phase EXCEPT ![s] = "output"]
                  /\ return_code' =
                       [return_code EXCEPT
                           ![s] = IF p.state = "ERROR" \/ p.state # "MORE" THEN "BR"
                                  ELSE "OK"]
             ELSE phase' = phase /\ return_code' = return_code
      BY <2>6 DEF ReadChunk, EndRequest
    <3>2. b \in Bodies /\ left[s] \in 1 .. Len(b) /\ HasRead(parser, b, from)
      BY <3>1 DEF ParserInv, Reading
    <3>3. b \in Seq(Bytes) /\ Len(b) \in Nat
      BY <3>2, BodyIs
    <3>4. n \in Nat \ {0}
      BY <3>3
    <3>5. /\ from \in 0 .. Len(b) /\ n \in 1 .. Len(b) - from
          /\ n = left[s] => from + n = Len(b)
      BY <3>1, <3>2, <3>3, <3>4
    <3>6. \A t \in Slots : phase[t] = "body" <=> t = s
      BY <3>1 DEF OwnerInv, ParserIsOwned
    <3> HIDE DEF from, ends
    <3>7. (n = left[s]) \in BOOLEAN
      OBVIOUS
    <3>8. IF n = left[s] THEN Judged(p, b) ELSE HasRead(p, b, from + n)
      BY <3>2, <3>3, <3>5, <3>7, ChunkStep
    <3> HIDE DEF p
    <3>9. body' \in [Slots -> Bodies \cup {<<>>}] /\ left' \in [Slots -> Int]
          /\ left'[s] = left[s] - n
      BY <3>1, <3>2, <3>3, <3>4 DEF ParserInv
    <3>r. /\ return_code' \in [Slots -> Codes]
          /\ ends => return_code'[s] = IF p.state = "ERROR" \/ p.state # "MORE"
                                       THEN "BR" ELSE "OK"
      <4> DEFINE c == IF p.state = "ERROR" \/ p.state # "MORE" THEN "BR" ELSE "OK"
      <4>1. c \in Codes
        BY DEF Codes
      <4>2. ends => return_code' = [return_code EXCEPT ![s] = c]
        BY <3>1
      <4> HIDE DEF c
      <4>3. ends => return_code' \in [Slots -> Codes] /\ return_code'[s] = c
        BY <1>c, <4>1, <4>2
      <4>4. ~ends => return_code' \in [Slots -> Codes]
        BY <3>1 DEF ParserInv
      <4>5. QED BY <4>3, <4>4 DEF c
    <3>10. CASE ends
      <4>1. Judged(p, b)
        <5>1. from + n \in Nat
          BY <3>3, <3>4, <3>5
        <5>2. CASE n = left[s]
          BY <3>8, <5>2
        <5>3. CASE n # left[s]
          BY <3>3, <3>8, <3>10, <5>1, <5>3, ErrorJudges DEF ends
        <5>4. QED BY <5>2, <5>3
      <4>2. b # <<>>
        BY <3>2, <3>3
      <4>3. p.accepted = Meaning(b) /\ (p.state = "MORE" <=> Acceptable(b))
        BY <3>3, <4>1, <4>2, VerdictMeans
      <4>4. return_code'[s] = "OK" <=> p.state = "MORE"
        BY <3>10, <3>r
      <4>5. Verdict(s)
        BY <3>1, <4>3, <4>4 DEF Verdict
      <4>6. \A t \in Slots : phase'[t] # "body"
        BY <3>1, <3>6, <3>10 DEF OwnerInv
      <4>7. QED BY <3>6, <3>9, <3>r, <4>5, <4>6 DEF ParserInv
    <3>11. CASE ~ends
      <4>1. n # left[s]
        BY <3>11 DEF ends
      <4>2. HasRead(p, b, from + n)
        BY <3>8, <4>1
      <4>3. left[s] - n \in 1 .. Len(b) /\ Len(b) - (left[s] - n) = from + n
        BY <3>1, <3>2, <3>3, <3>4, <4>1 DEF from
      <4>4. Reading(s)'
        BY <3>1, <3>2, <3>9, <4>2, <4>3 DEF Reading
      <4>5. phase' = phase
        BY <3>1, <3>11
      <4>6. QED BY <3>6, <3>9, <3>r, <4>4, <4>5 DEF ParserInv
    <3>12. QED BY <3>10, <3>11
  <2>7. ASSUME NEW e \in Surplus, ReadBeyond(s, e) PROVE Goal
    <3>1. /\ phase[s] = "body" /\ body' = body
          /\ phase' = [phase EXCEPT ![s] = "output"]
          /\ left' = [left EXCEPT ![s] = 0 - Len(e)]
      BY <2>7 DEF ReadBeyond, EndRequest
    <3>2. Len(e) \in Nat /\ Len(e) > 0
      BY SurplusAssumption
    <3>3. \A t \in Slots : phase[t] = "body" <=> t = s
      BY <3>1 DEF OwnerInv, ParserIsOwned
    <3>4. \A t \in Slots : phase'[t] # "body"
      BY <3>1, <3>3 DEF OwnerInv
    <3>5. left' \in [Slots -> Int] /\ left'[s] = 0 - Len(e)
      BY <3>1, <3>2 DEF ParserInv
    <3>6. ~(left'[s] >= 0)
      BY <3>2, <3>5
    <3>7. return_code' \in [Slots -> Codes]
      BY <2>7 DEF ReadBeyond, EndRequest, ParserInv, Codes
    <3>8. QED BY <3>1, <3>3, <3>4, <3>5, <3>6, <3>7 DEF ParserInv
  <2>8. QED BY <2>1, <2>2, <2>3, <2>4, <2>5, <2>6, <2>7
<1>3. QED BY <1>1, <1>2

(* However TCP cuts a body, its request ends by handing over exactly the   *)
(* pairs that the body means, and in 302 exactly if it is acceptable.      *)
THEOREM AnswersMatch == Spec => AnswerMatchesBody
<1>1. Init => OwnerInv /\ ParserInv
  BY DEF Init, OwnerInv, ParserIsOwned, Phases, ParserInv, Codes
<1>2. OwnerInv /\ ParserInv /\ [Next]_vars => ParserInv'
  BY StepParser
<1>3. OwnerInv /\ ParserInv /\ [Next]_vars =>
         [\A s \in Slots :
             phase[s] = "body" /\ phase'[s] = "output" /\ left'[s] >= 0 =>
                /\ parser'.accepted = Meaning(body[s])
                /\ return_code'[s] = "OK" <=> Acceptable(body[s])]_vars
  BY StepParser DEF Verdict
<1>4. QED BY <1>1, <1>2, <1>3, StepOwner, PTL DEF Spec, AnswerMatchesBody
===============================================================================
