---------------------------- MODULE HttpdPages_proofs ----------------------------
(***************************************************************************)
(* Theorems about HttpdPages, for every size of the buffer and every set   *)
(* of chunk lengths that fit in it, and about the lists that IndexPage     *)
(* walks along, for any routes and any number of rows.                     *)
(***************************************************************************)
EXTENDS HttpdPages, IndexPage, SequenceTheorems, FiniteSetTheorems, TLAPS

(* While a segment is unacknowledged some item is being made.              *)
Waits == sending # "no" => todo # <<>> /\ conn = "output"

(* Type correctness gives enqueue_chunk the room it counts on; with it the *)
(* stream is inductive.                                                    *)
Inv == TypeOK /\ Waits /\ StreamIntact

LEMMA AnswersType == Answers \subseteq Seq(Items)
<1>1. Headers \in Seq(Items) /\ TopMatter \in Seq(Items) /\ <<"direct">> \in Seq(Items)
  BY DEF Headers, TopMatter, Items
<1>2. \A s, t \in Seq(Items) : s \o t \in Seq(Items)
  BY ConcatProperties
<1>3. Index \in Seq(Items)
  <2>1. <<"row", "text", "value", "text", "row", "text", "row", "text", "hits",
          "text", "bottom">> \in Seq(Items)
    BY DEF Items
  <2>2. QED BY <1>1, <1>2, <2>1 DEF Index
<1>4. Config \in Seq(Items)
  <2>1. <<"row", "value", "text", "bottom">> \in Seq(Items)
    BY DEF Items
  <2>2. QED BY <1>1, <1>2, <2>1 DEF Config
<1>5. MqttConfig \in Seq(Items) /\ NetUartConfig \in Seq(Items)
  <2>1. <<"value", "text", "bottom">> \in Seq(Items)
    BY DEF Items
  <2>2. QED BY <1>1, <1>2, <2>1 DEF MqttConfig, NetUartConfig
<1>6. QED BY <1>1, <1>2, <1>3, <1>4, <1>5 DEF Answers

--------------------------------------------------------------------------------
(* A sequence is its beginning and the rest of it.                         *)
LEMMA Split ==
    ASSUME NEW S, NEW s \in Seq(S), NEW n \in 1 .. Len(s)
    PROVE  /\ SubSeq(s, 1, n) \in Seq(S) /\ Len(SubSeq(s, 1, n)) = n
           /\ SubSeq(s, n + 1, Len(s)) \in Seq(S)
           /\ Len(SubSeq(s, n + 1, Len(s))) = Len(s) - n
           /\ SubSeq(s, 1, n) \o SubSeq(s, n + 1, Len(s)) = s
<1>1. Len(s) \in Nat /\ n \in Nat /\ n <= Len(s) /\ n > 0
  OBVIOUS
<1>2. \A i \in 1 .. Len(s) : s[i] \in S
  OBVIOUS
<1>3. SubSeq(s, 1, n) \in Seq(S) /\ Len(SubSeq(s, 1, n)) = n
  <2>1. \A i \in 1 .. n : s[i] \in S
    BY <1>1, <1>2
  <2>2. QED BY <1>1, <2>1, SubSeqProperties
<1>4. /\ SubSeq(s, n + 1, Len(s)) \in Seq(S)
      /\ Len(SubSeq(s, n + 1, Len(s))) = Len(s) - n
  <2>1. \A i \in n + 1 .. Len(s) : s[i] \in S
    BY <1>1, <1>2
  <2>2. /\ SubSeq(s, n + 1, Len(s)) \in Seq(S)
        /\ Len(SubSeq(s, n + 1, Len(s))) =
              IF n + 1 <= Len(s) THEN Len(s) - (n + 1) + 1 ELSE 0
    BY <1>1, <2>1, SubSeqProperties
  <2>3. (IF n + 1 <= Len(s) THEN Len(s) - (n + 1) + 1 ELSE 0) = Len(s) - n
    BY <1>1
  <2>4. QED BY <2>2, <2>3
<1>5. SubSeq(s, 1, n) \o SubSeq(s, n + 1, Len(s)) = s
  <2>1. 1 \in 1 .. Len(s) + 1 /\ n \in 1 - 1 .. Len(s) /\ Len(s) \in n .. Len(s)
    BY <1>1
  <2>2. SubSeq(s, 1, n) \o SubSeq(s, n + 1, Len(s)) = SubSeq(s, 1, Len(s))
    BY <2>1, ConcatAdjacentSubSeq
  <2>3. QED BY <2>2, SubSeqFull
<1>6. QED BY <1>3, <1>4, <1>5

(* What enqueue_chunk copies and what is left over is the old buffer and   *)
(* the chunk, in this order; the two parts keep within their buffers.      *)
LEMMA CopyKeeps ==
    ASSUME TypeOK, sending = "no", NEW chunk \in Seq(Bytes),
           Len(chunk) <= HTTPD_SIMPLE_MAIN_BUF_SIZE
    PROVE  LET c == Copy(chunk)
           IN  /\ c.buf \in Seq(Bytes) /\ c.rest \in Seq(Bytes)
               /\ c.full \in BOOLEAN
               /\ c.buf \o c.rest = buf \o chunk
               /\ Len(c.buf) <= HTTPD_SIMPLE_MAIN_BUF_SIZE
               /\ Len(c.rest) < HTTPD_SIMPLE_MAIN_BUF_SIZE
               /\ ~c.full => /\ c.rest = <<>>
                             /\ Len(c.buf) < HTTPD_SIMPLE_MAIN_BUF_SIZE
<1> DEFINE room == HTTPD_SIMPLE_MAIN_BUF_SIZE - Len(buf)
           head == SubSeq(chunk, 1, room)
           tail == SubSeq(chunk, room + 1, Len(chunk))
<1>1. /\ buf \in Seq(Bytes) /\ Len(buf) \in Nat /\ Len(chunk) \in Nat
      /\ Len(buf) < HTTPD_SIMPLE_MAIN_BUF_SIZE
      /\ HTTPD_SIMPLE_MAIN_BUF_SIZE \in Nat \ {0}
  BY BufferAssumption DEF TypeOK
<1>2. room \in Nat \ {0}
  BY <1>1
<1>3. CASE Len(chunk) < room
  <2>1. Copy(chunk) = [buf |-> buf \o chunk, rest |-> <<>>, full |-> FALSE]
    BY <1>3 DEF Copy
  <2>2. buf \o chunk \in Seq(Bytes) /\ Len(buf \o chunk) = Len(buf) + Len(chunk)
    BY <1>1, ConcatProperties
  <2>3. (buf \o chunk) \o <<>> = buf \o chunk
    BY <2>2, ConcatEmptySeq
  <2>4. Len(buf) + Len(chunk) < HTTPD_SIMPLE_MAIN_BUF_SIZE
    BY <1>1, <1>3
  <2>5. <<>> \in Seq(Bytes) /\ Len(<<>>) = 0
    OBVIOUS
  <2>6. QED BY <1>1, <2>1, <2>2, <2>3, <2>4, <2>5
<1>4. CASE ~(Len(chunk) < room)
  <2>1. Copy(chunk) = [buf |-> buf \o head, rest |-> tail, full |-> TRUE]
    BY <1>4 DEF Copy
  <2>2. room \in 1 .. Len(chunk)
    BY <1>1, <1>2, <1>4
  <2>3. head \in Seq(Bytes) /\ Len(head) = room
    BY <2>2, Split
  <2>4. tail \in Seq(Bytes) /\ Len(tail) = Len(chunk) - room
    BY <2>2, Split
  <2>5. head \o tail = chunk
    BY <2>2, Split
  <2> HIDE DEF room, head, tail
  <2>6. (buf \o head) \o tail = buf \o chunk
    <3>1. buf \in Seq(Bytes) /\ head \in Seq(Bytes) /\ tail \in Seq(Bytes)
      BY <1>1, <2>3, <2>4
    <3>2. \A s, t, u \in Seq(Bytes) : (s \o t) \o u = s \o (t \o u)
      BY ConcatAssociative
    <3>3. (buf \o head) \o tail = buf \o (head \o tail)
      BY <3>1, <3>2, Zenon
    <3>4. QED BY <2>5, <3>3, Zenon
  <2>7. buf \o head \in Seq(Bytes) /\ Len(buf \o head) = Len(buf) + room
    BY <1>1, <2>3, ConcatProperties
  <2>8. /\ Len(buf) + room = HTTPD_SIMPLE_MAIN_BUF_SIZE
        /\ Len(chunk) - room < HTTPD_SIMPLE_MAIN_BUF_SIZE
    BY <1>1, <1>2 DEF room
  <2>9. QED BY <1>1, <2>1, <2>3, <2>4, <2>6, <2>7, <2>8
<1>5. QED BY <1>3, <1>4

LEMMA ItemIsMadeType ==
    ASSUME todo \in Seq(Items), todo # <<>>, ItemIsMade
    PROVE  todo' \in Seq(Items)
<1>1. Tail(todo) \in Seq(Items)
  OBVIOUS
<1>2. QED BY <1>1 DEF ItemIsMade

LEMMA NumtimesType ==
    ASSUME TypeOK, EvaluateArguments
    PROVE  numtimes' \in Nat
BY DEF TypeOK, EvaluateArguments

LEMMA EnqueueChunkInv == ASSUME Inv, EnqueueChunk PROVE Inv'
<1>1. PICK n \in Lengths :
         LET c == Copy(Chunk(n))
         IN  /\ due' = due \o Chunk(n)
             /\ buf' = c.buf
             /\ rest' = c.rest
             /\ \/ c.full /\ sending' = "full" /\ todo' = todo
                \/ ~c.full /\ sending' = "last" /\ todo' = todo
                \/ ~c.full /\ sending' = "no" /\ ItemIsMade
  BY DEF EnqueueChunk
<1>2. Chunk(n) \in Seq(Bytes) /\ Len(Chunk(n)) = n
  <2>1. n \in Nat /\ n <= HTTPD_SIMPLE_MAIN_BUF_SIZE
    BY LengthsAssumption, BufferAssumption
  <2>2. Head(todo) \in Items
    BY DEF Inv, TypeOK, EnqueueChunk
  <2>3. QED BY <2>1, <2>2, BufferAssumption DEF Chunk, Bytes
<1>3. n <= HTTPD_SIMPLE_MAIN_BUF_SIZE
  BY LengthsAssumption, BufferAssumption
<1>4. sending = "no" /\ todo # <<>> /\ conn' = conn
  BY DEF EnqueueChunk
<1>5. LET c == Copy(Chunk(n))
      IN  /\ c.buf \in Seq(Bytes) /\ c.rest \in Seq(Bytes)
          /\ c.buf \o c.rest = buf \o Chunk(n)
          /\ Len(c.buf) <= HTTPD_SIMPLE_MAIN_BUF_SIZE
          /\ Len(c.rest) < HTTPD_SIMPLE_MAIN_BUF_SIZE
          /\ ~c.full => /\ c.rest = <<>>
                        /\ Len(c.buf) < HTTPD_SIMPLE_MAIN_BUF_SIZE
  BY <1>2, <1>3, <1>4, CopyKeeps DEF Inv
<1>6. due = buf
  <2>1. buf \in Seq(Bytes) /\ rest = <<>>
    BY <1>4 DEF Inv, TypeOK
  <2>2. QED BY <2>1, ConcatEmptySeq DEF Inv, StreamIntact
<1>7. StreamIntact'
  BY <1>1, <1>5, <1>6 DEF StreamIntact
<1>8. todo' \in Seq(Items)
  BY <1>1, <1>4, ItemIsMadeType DEF Inv, TypeOK
<1>9. numtimes' \in Nat /\ shown' \in Nat
  BY NumtimesType DEF EnqueueChunk, Inv, TypeOK
<1>10. due' \in Seq(Bytes)
  BY <1>1, <1>2, ConcatProperties DEF Inv, TypeOK
<1>11. TypeOK'
  BY <1>1, <1>4, <1>5, <1>8, <1>9, <1>10 DEF Inv, TypeOK
<1>12. Waits'
  BY <1>1, <1>4 DEF EnqueueChunk, Waits
<1>13. QED BY <1>7, <1>11, <1>12 DEF Inv

(* The acknowledged bytes are the buffer, so what is still due is the rest.*)
LEMMA AcknowledgedInv == ASSUME Inv, Acknowledged PROVE Inv'
<1>1. /\ buf \in Seq(Bytes) /\ rest \in Seq(Bytes) /\ due = buf \o rest
      /\ buf' = rest /\ rest' = <<>>
      /\ due' = SubSeq(due, Len(buf) + 1, Len(due))
  BY DEF Acknowledged, Inv, TypeOK, StreamIntact
<1>2. /\ Len(buf) \in Nat /\ Len(rest) \in Nat
      /\ Len(due) = Len(buf) + Len(rest)
  BY <1>1, ConcatProperties
<1>3. due' = rest
  <2>1. CASE Len(rest) = 0
    <3>1. due' = <<>>
      BY <1>1, <1>2, <2>1, SubSeqEmpty
    <3>2. QED BY <1>1, <2>1, <3>1
  <2>2. CASE Len(rest) > 0
    <3>1. /\ Len(buf) + 1 \in Len(buf) + 1 .. Len(buf) + Len(rest)
          /\ Len(due) \in Len(buf) + 1 .. Len(buf) + Len(rest)
          /\ (Len(buf) + 1) - Len(buf) = 1 /\ Len(due) - Len(buf) = Len(rest)
      BY <1>2, <2>2
    <3>2. due' = SubSeq(rest, 1, Len(rest))
      BY <1>1, <3>1, SubSeqOfConcat2
    <3>3. QED BY <1>1, <3>2, SubSeqFull
  <2>3. QED BY <1>2, <2>1, <2>2
<1>4. StreamIntact'
  BY <1>1, <1>3, ConcatEmptySeq DEF StreamIntact
<1>5. todo' \in Seq(Items)
  BY ItemIsMadeType DEF Acknowledged, Inv, TypeOK, Waits
<1>6. numtimes' \in Nat
  BY NumtimesType DEF Acknowledged, Inv
<1>7. TypeOK'
  <2>1. /\ Len(buf') < HTTPD_SIMPLE_MAIN_BUF_SIZE
        /\ rest' = <<>> /\ Len(rest') < HTTPD_SIMPLE_MAIN_BUF_SIZE
    BY <1>1, BufferAssumption DEF Inv, TypeOK
  <2>2. Len(buf') <= HTTPD_SIMPLE_MAIN_BUF_SIZE
    BY <1>1, <1>2, <2>1, BufferAssumption
  <2>3. sending' \in {"no", "last"} /\ conn' = conn /\ shown' = shown
    BY DEF Acknowledged
  <2>4. <<>> \in Seq(Bytes)
    OBVIOUS
  <2>5. QED
    BY <1>1, <1>3, <1>5, <1>6, <2>1, <2>2, <2>3, <2>4 DEF Inv, TypeOK
<1>8. Waits'
  BY DEF Acknowledged, Inv, Waits
<1>9. QED BY <1>4, <1>7, <1>8 DEF Inv

LEMMA OtherInv ==
    ASSUME Inv, Begin \/ SendString \/ Poll \/ Close \/ Gone \/ UNCHANGED vars
    PROVE  Inv'
<1>1. CASE Begin
  <2>1. todo' \in Seq(Items)
    BY <1>1, AnswersType DEF Begin
  <2>2. QED BY <1>1, <2>1 DEF Begin, Inv, TypeOK, Waits, StreamIntact
<1>2. CASE SendString
  <2>1. Tail(todo) \in Seq(Items)
    BY <1>2 DEF SendString, Inv, TypeOK
  <2>2. QED BY <1>2, <2>1 DEF SendString, Inv, TypeOK, Waits, StreamIntact
<1>3. CASE Poll
  <2>1. numtimes' \in Nat
    BY <1>3, NumtimesType DEF Poll, Inv
  <2>2. QED BY <1>3, <2>1 DEF Poll, Inv, TypeOK, Waits, StreamIntact
<1>4. CASE Close
  BY <1>4 DEF Close, Inv, TypeOK, Waits, StreamIntact
<1>5. CASE Gone
  <2>1. <<>> \in Seq(Items) /\ <<>> \in Seq(Bytes) /\ Len(<<>>) = 0 /\ <<>> \o <<>> = <<>>
    BY ConcatEmptySeq
  <2>2. QED
    BY <1>5, <2>1, BufferAssumption
    DEF Gone, Inv, TypeOK, Waits, StreamIntact
<1>6. CASE UNCHANGED vars
  BY <1>6 DEF vars, Inv, TypeOK, Waits, StreamIntact
<1>7. QED BY <1>1, <1>2, <1>3, <1>4, <1>5, <1>6

--------------------------------------------------------------------------------
LEMMA InitInv == Init => Inv
<1>1. <<>> \in Seq(Items) /\ <<>> \in Seq(Bytes) /\ Len(<<>>) = 0 /\ <<>> \o <<>> = <<>>
  BY ConcatEmptySeq
<1>2. QED
  BY <1>1, BufferAssumption DEF Init, Inv, TypeOK, Waits, StreamIntact

(* The conjunction Inv is an invariant of the answers.                     *)
THEOREM InvAlways == Spec => []Inv
<1>1. Init => Inv
  BY InitInv
<1>2. Inv /\ [Next]_vars => Inv'
  BY EnqueueChunkInv, AcknowledgedInv, OtherInv DEF Next
<1>3. QED BY <1>1, <1>2, PTL DEF Spec

(* enqueue_chunk never writes behind its buffer, and a call that does not  *)
(* wait leaves room in it: every variable keeps its type.                  *)
THEOREM BuffersHold == Spec => []TypeOK
<1>1. Inv => TypeOK
  BY DEF Inv
<1>2. QED BY <1>1, InvAlways, PTL

(* enqueue_chunk delivers the bytes that were formatted, in their order,   *)
(* none lost and none doubled, for every answer and every way to cut it.   *)
THEOREM StreamsIntact == Spec => []StreamIntact
<1>1. Inv => StreamIntact
  BY DEF Inv
<1>2. QED BY <1>1, InvAlways, PTL
--------------------------------------------------------------------------------
(* What is still to be made ends with a chunk that is sent at once, and    *)
(* behind it come strings that are not buffered, if anything.              *)
Bare(s) == \A i \in 1 .. Len(s) : s[i] = "direct"
Closes(s) ==
    \E i \in 1 .. Len(s) :
       s[i] = "bottom" /\ \A j \in i + 1 .. Len(s) : s[j] = "direct"

(* Either a chunk that flushes the buffer is still to come, or it has      *)
(* flushed it; nothing is made any more on a connection that is closed.    *)
Flushes == Closes(todo) \/ (Bare(todo) /\ buf = <<>> /\ sending = "no")
ClosesLast == conn = "closed" => todo = <<>>

FlushInv == Inv /\ Flushes /\ ClosesLast

(* An answer behind any first part ends as it ends alone.                  *)
LEMMA ClosesConcat ==
    ASSUME NEW s \in Seq(Items), NEW t \in Seq(Items), Closes(t)
    PROVE  Closes(s \o t)
<1>1. PICK i \in 1 .. Len(t) :
         t[i] = "bottom" /\ \A j \in i + 1 .. Len(t) : t[j] = "direct"
  BY DEF Closes
<1>2. /\ Len(s \o t) = Len(s) + Len(t)
      /\ \A j \in 1 .. Len(s) + Len(t) :
            (s \o t)[j] = IF j <= Len(s) THEN s[j] ELSE t[j - Len(s)]
  BY ConcatProperties
<1>3. Len(s) \in Nat /\ Len(t) \in Nat /\ i \in Nat
  OBVIOUS
<1>4. Len(s) + i \in 1 .. Len(s \o t) /\ (s \o t)[Len(s) + i] = "bottom"
  BY <1>1, <1>2, <1>3
<1>5. ASSUME NEW j \in Len(s) + i + 1 .. Len(s \o t) PROVE (s \o t)[j] = "direct"
  <2>1. (s \o t)[j] = t[j - Len(s)] /\ j - Len(s) \in i + 1 .. Len(t)
    BY <1>2, <1>3
  <2>2. QED BY <1>1, <2>1
<1>6. QED BY <1>4, <1>5 DEF Closes

LEMMA AnswersClose == \A s \in Answers : Closes(s)
<1>1. Headers \in Seq(Items) /\ TopMatter \in Seq(Items) /\ <<"direct">> \in Seq(Items)
  BY DEF Headers, TopMatter, Items
<1>2. Closes(Headers)
  BY DEF Closes, Headers
<1>3. Closes(Headers \o <<"direct">>)
  BY DEF Closes, Headers
<1>4. \A s, t \in Seq(Items) : s \o t \in Seq(Items) /\ (Closes(t) => Closes(s \o t))
  BY ConcatProperties, ClosesConcat
<1>5. Index \in Seq(Items) /\ Closes(Index)
  <2> DEFINE t == <<"row", "text", "value", "text", "row", "text", "row", "text", "hits",
                    "text", "bottom">>
  <2>1. t \in Seq(Items)
    BY DEF Items
  <2>2. Len(t) = 11 /\ t[11] = "bottom"
    OBVIOUS
  <2> HIDE DEF t
  <2>3. Closes(t)
    BY <2>2 DEF Closes
  <2>4. TopMatter \o t \in Seq(Items) /\ Closes(TopMatter \o t)
    BY <1>1, <1>4, <2>1, <2>3
  <2>5. QED BY <2>4 DEF Index, t
<1>6. Config \in Seq(Items) /\ Closes(Config)
  <2> DEFINE t == <<"row", "value", "text", "bottom">>
  <2>1. t \in Seq(Items) /\ Closes(t)
    BY DEF Items, Closes
  <2>2. QED BY <1>1, <1>4, <2>1 DEF Config
<1>7. /\ MqttConfig \in Seq(Items) /\ Closes(MqttConfig)
      /\ NetUartConfig \in Seq(Items) /\ Closes(NetUartConfig)
  <2> DEFINE t == <<"value", "text", "bottom">>
  <2>1. t \in Seq(Items) /\ Closes(t)
    BY DEF Items, Closes
  <2>2. QED BY <1>1, <1>4, <2>1 DEF MqttConfig, NetUartConfig
<1>8. QED BY <1>1, <1>2, <1>3, <1>4, <1>5, <1>6, <1>7 DEF Answers

(* When an item is made, the buffer's last flush is still to come, unless  *)
(* this item was the last to flush it.                                     *)
LEMMA TailCloses ==
    ASSUME NEW s \in Seq(Items), s # <<>>
    PROVE  /\ Closes(s) => Closes(Tail(s)) \/ (Bare(Tail(s)) /\ Head(s) = "bottom")
           /\ Bare(s) => Bare(Tail(s)) /\ Head(s) = "direct"
           /\ Closes(s) /\ Head(s) # "bottom" => Closes(Tail(s))
<1>1. /\ Len(s) \in Nat \ {0} /\ Head(s) = s[1] /\ Len(Tail(s)) = Len(s) - 1
      /\ \A i \in 1 .. Len(s) - 1 : Tail(s)[i] = s[i + 1]
  OBVIOUS
<1>2. ASSUME NEW i \in 1 .. Len(s), s[i] = "bottom",
             \A j \in i + 1 .. Len(s) : s[j] = "direct"
      PROVE  Closes(Tail(s)) \/ (Bare(Tail(s)) /\ i = 1)
  <2>1. CASE i = 1
    BY <1>1, <1>2, <2>1 DEF Bare
  <2>2. CASE i # 1
    <3>1. i - 1 \in 1 .. Len(Tail(s)) /\ Tail(s)[i - 1] = "bottom"
      BY <1>1, <1>2, <2>2
    <3>2. \A j \in (i - 1) + 1 .. Len(Tail(s)) : Tail(s)[j] = "direct"
      BY <1>1, <1>2, <2>2
    <3>3. QED BY <3>1, <3>2 DEF Closes
  <2>3. QED BY <2>1, <2>2
<1>3. Closes(s) => Closes(Tail(s)) \/ (Bare(Tail(s)) /\ Head(s) = "bottom")
  BY <1>1, <1>2 DEF Closes
<1>4. Bare(s) => Bare(Tail(s)) /\ Head(s) = "direct"
  BY <1>1 DEF Bare
<1>5. QED BY <1>3, <1>4

LEMMA EnqueueChunkFlush == ASSUME FlushInv, EnqueueChunk PROVE FlushInv'
<1>1. Inv'
  BY EnqueueChunkInv DEF FlushInv
<1>2. PICK n \in Lengths :
         LET c == Copy(Chunk(n))
         IN  /\ buf' = c.buf
             /\ \/ sending' = "full" /\ todo' = todo
                \/ sending' = "last" /\ todo' = todo
                \/ /\ ~(Immediate /\ c.buf # <<>>)
                   /\ sending' = "no" /\ ItemIsMade
  BY DEF EnqueueChunk
<1>3. /\ todo \in Seq(Items) /\ todo # <<>> /\ Head(todo) # "direct"
      /\ conn' = conn /\ conn = "output"
  BY DEF EnqueueChunk, FlushInv, Inv, TypeOK
<1>4. Closes(todo)
  BY <1>3, TailCloses DEF FlushInv, Flushes
<1>5. Flushes'
  <2>1. CASE todo' = todo
    BY <1>4, <2>1 DEF Flushes
  <2>2. CASE /\ ~(Immediate /\ buf' # <<>>)
             /\ sending' = "no" /\ ItemIsMade
    <3>1. CASE Immediate
      <4>1. todo' = Tail(todo) /\ buf' = <<>>
        BY <2>2, <3>1 DEF ItemIsMade, Immediate
      <4>2. QED BY <1>3, <1>4, <2>2, <4>1, TailCloses DEF Flushes
    <3>2. CASE ~Immediate
      <4>1. todo' = todo \/ todo' = Tail(todo)
        BY <2>2 DEF ItemIsMade
      <4>2. QED BY <1>3, <1>4, <3>2, <4>1, TailCloses DEF Flushes, Immediate
    <3>3. QED BY <3>1, <3>2
  <2>3. QED BY <1>2, <2>1, <2>2
<1>6. ClosesLast'
  BY <1>3 DEF ClosesLast
<1>7. QED BY <1>1, <1>5, <1>6 DEF FlushInv

(* After the immediate chunk nothing is left in the buffer.                *)
LEMMA AcknowledgedFlush == ASSUME FlushInv, Acknowledged PROVE FlushInv'
<1>1. Inv'
  BY AcknowledgedInv DEF FlushInv
<1>2. /\ todo \in Seq(Items) /\ todo # <<>> /\ sending # "no"
      /\ conn' = conn /\ conn = "output" /\ buf' = rest
  BY DEF Acknowledged, FlushInv, Inv, TypeOK, Waits
<1>3. Closes(todo)
  BY <1>2 DEF FlushInv, Flushes
<1>4. Flushes'
  <2>1. CASE todo' = todo
    BY <1>3, <2>1 DEF Flushes
  <2>2. CASE ~(Immediate /\ rest # <<>>) /\ sending' = "no" /\ ItemIsMade
    <3>1. CASE Immediate
      <4>1. todo' = Tail(todo) /\ buf' = <<>>
        BY <1>2, <2>2, <3>1 DEF ItemIsMade, Immediate
      <4>2. QED BY <1>2, <1>3, <2>2, <4>1, TailCloses DEF Flushes
    <3>2. CASE ~Immediate
      <4>1. todo' = todo \/ todo' = Tail(todo)
        BY <2>2 DEF ItemIsMade
      <4>2. QED BY <1>2, <1>3, <3>2, <4>1, TailCloses DEF Flushes, Immediate
    <3>3. QED BY <3>1, <3>2
  <2>3. QED BY <2>1, <2>2 DEF Acknowledged
<1>5. ClosesLast'
  BY <1>2 DEF ClosesLast
<1>6. QED BY <1>1, <1>4, <1>5 DEF FlushInv

LEMMA OtherFlush ==
    ASSUME FlushInv, Begin \/ SendString \/ Poll \/ Close \/ Gone \/ UNCHANGED vars
    PROVE  FlushInv'
<1>1. Inv'
  BY OtherInv DEF FlushInv
<1>2. CASE Begin
  BY <1>1, <1>2, AnswersClose DEF Begin, FlushInv, Flushes, ClosesLast
<1>3. CASE SendString
  <2>1. /\ todo \in Seq(Items) /\ todo # <<>> /\ Head(todo) = "direct"
        /\ todo' = Tail(todo) /\ buf' = buf /\ sending' = sending
        /\ conn' = "output"
    BY <1>3 DEF SendString, FlushInv, Inv, TypeOK
  <2>2. Closes(todo) => Closes(Tail(todo))
    BY <2>1, TailCloses
  <2>3. Bare(todo) => Bare(Tail(todo))
    BY <2>1, TailCloses
  <2>4. QED BY <1>1, <2>1, <2>2, <2>3 DEF FlushInv, Flushes, ClosesLast
<1>4. CASE Poll
  BY <1>1, <1>4 DEF Poll, FlushInv, Flushes, ClosesLast
<1>5. CASE Close
  BY <1>1, <1>5 DEF Close, FlushInv, Flushes, ClosesLast
<1>6. CASE Gone
  BY <1>1, <1>6 DEF Gone, FlushInv, Flushes, ClosesLast, Bare
<1>7. CASE UNCHANGED vars
  BY <1>1, <1>7 DEF vars, FlushInv, Flushes, ClosesLast
<1>8. QED BY <1>2, <1>3, <1>4, <1>5, <1>6, <1>7

(* The conjunction FlushInv is an invariant of the answers.                *)
THEOREM FlushAlways == Spec => []FlushInv
<1>1. Init => FlushInv
  BY InitInv DEF Init, FlushInv, Flushes, ClosesLast, Bare
<1>2. FlushInv /\ [Next]_vars => FlushInv'
  BY EnqueueChunkFlush, AcknowledgedFlush, OtherFlush DEF Next
<1>3. QED BY <1>1, <1>2, PTL DEF Spec

(* No answer is closed before all that was formatted for it was delivered  *)
(* and acknowledged, for every answer that handle_output chooses.          *)
THEOREM NothingLeftBehind == Spec => []DeliveredAtClose
<1>1. FlushInv => DeliveredAtClose
  <2> SUFFICES ASSUME FlushInv, conn = "closed" PROVE due = <<>>
    BY DEF DeliveredAtClose
  <2>1. todo = <<>>
    BY DEF FlushInv, ClosesLast
  <2>2. ~Closes(todo)
    BY <2>1 DEF Closes
  <2>3. buf = <<>> /\ rest = <<>>
    BY <2>2 DEF FlushInv, Flushes, Inv, TypeOK
  <2>4. QED BY <2>3, ConcatEmptySeq DEF FlushInv, Inv, StreamIntact
<1>2. QED BY <1>1, FlushAlways, PTL
--------------------------------------------------------------------------------
(* The sequences that lists are changed into.                              *)
LEMMA SubSeqElements ==
    ASSUME NEW S, NEW s \in Seq(S), NEW m \in Nat \ {0}, NEW n \in Nat,
           n <= Len(s), m <= n + 1
    PROVE  /\ SubSeq(s, m, n) \in Seq(S)
           /\ Len(SubSeq(s, m, n)) = n - m + 1
           /\ \A j \in 1 .. n - m + 1 : SubSeq(s, m, n)[j] = s[m + j - 1]
<1>1. m \in Int /\ n \in Int /\ \A j \in m .. n : s[j] \in S
  OBVIOUS
<1>2. /\ SubSeq(s, m, n) \in Seq(S)
      /\ Len(SubSeq(s, m, n)) = IF m <= n THEN n - m + 1 ELSE 0
      /\ \A j \in 1 .. n - m + 1 : SubSeq(s, m, n)[j] = s[m + j - 1]
  BY <1>1, SubSeqProperties
<1>3. (IF m <= n THEN n - m + 1 ELSE 0) = n - m + 1
  OBVIOUS
<1>4. QED BY <1>2, <1>3

(* Places of a list and of the same list without its place n.              *)
Up(n, i) == IF i < n THEN i ELSE i + 1
Down(n, i) == IF i < n THEN i ELSE i - 1

LEMMA InsertAtElements ==
    ASSUME NEW S, NEW s \in Seq(S), NEW e \in S, NEW i \in 1 .. Len(s) + 1
    PROVE  /\ InsertAt(s, i, e) \in Seq(S)
           /\ Len(InsertAt(s, i, e)) = Len(s) + 1
           /\ InsertAt(s, i, e)[i] = e
           /\ \A j \in 1 .. Len(s) : InsertAt(s, i, e)[Up(i, j)] = s[j]
<1> DEFINE front == SubSeq(s, 1, i - 1)
           back == SubSeq(s, i, Len(s))
           left == front \o <<e>>
<1>1. /\ front \in Seq(S) /\ Len(front) = i - 1
      /\ \A j \in 1 .. i - 1 : front[j] = s[j]
  <2>1. 1 \in Nat \ {0} /\ i - 1 \in Nat /\ i - 1 <= Len(s) /\ 1 <= (i - 1) + 1
    OBVIOUS
  <2>2. QED BY <2>1, SubSeqElements
<1>2. /\ back \in Seq(S) /\ Len(back) = Len(s) - i + 1
      /\ \A j \in 1 .. Len(s) - i + 1 : back[j] = s[i + j - 1]
  BY SubSeqElements
<1>3. /\ left \in Seq(S) /\ Len(left) = i
      /\ \A j \in 1 .. i : left[j] = IF j <= i - 1 THEN s[j] ELSE e
  <2>1. <<e>> \in Seq(S) /\ Len(<<e>>) = 1 /\ <<e>>[1] = e
    OBVIOUS
  <2> HIDE DEF front
  <2>2. /\ left \in Seq(S) /\ Len(left) = Len(front) + 1
        /\ \A j \in 1 .. Len(front) + 1 :
              left[j] = IF j <= Len(front) THEN front[j] ELSE <<e>>[j - Len(front)]
    BY <1>1, <2>1, ConcatProperties
  <2>3. QED BY <1>1, <2>1, <2>2
<1>4. InsertAt(s, i, e) = left \o back
  BY DEF InsertAt
<1> HIDE DEF front, back, left
<1>5. /\ left \o back \in Seq(S) /\ Len(left \o back) = Len(left) + Len(back)
      /\ \A j \in 1 .. Len(left) + Len(back) :
            (left \o back)[j] = IF j <= Len(left) THEN left[j] ELSE back[j - Len(left)]
  BY <1>2, <1>3, ConcatProperties
<1>6. Len(left) + Len(back) = Len(s) + 1
  BY <1>2, <1>3
<1>7. (left \o back)[i] = e
  BY <1>3, <1>5, <1>6
<1>8. ASSUME NEW j \in 1 .. Len(s) PROVE (left \o back)[Up(i, j)] = s[j]
  <2>1. CASE j < i
    BY <1>3, <1>5, <1>6, <2>1 DEF Up
  <2>2. CASE ~(j < i)
    <3>1. /\ Up(i, j) = j + 1 /\ j + 1 \in 1 .. Len(s) + 1 /\ ~(j + 1 <= i)
          /\ (j + 1) - i \in 1 .. Len(s) - i + 1 /\ i + ((j + 1) - i) - 1 = j
      BY <2>2 DEF Up
    <3>2. (left \o back)[j + 1] = back[(j + 1) - i]
      BY <1>3, <1>5, <1>6, <3>1
    <3>3. back[(j + 1) - i] = s[j]
      BY <1>2, <3>1
    <3>4. QED BY <3>1, <3>2, <3>3
  <2>3. QED BY <2>1, <2>2
<1>9. QED BY <1>4, <1>5, <1>6, <1>7, <1>8

LEMMA RemoveAtElements ==
    ASSUME NEW S, NEW s \in Seq(S), NEW i \in 1 .. Len(s)
    PROVE  /\ RemoveAt(s, i) \in Seq(S)
           /\ Len(s) = Len(RemoveAt(s, i)) + 1
           /\ \A j \in 1 .. Len(RemoveAt(s, i)) : RemoveAt(s, i)[j] = s[Up(i, j)]
<1> DEFINE front == SubSeq(s, 1, i - 1)
           back == SubSeq(s, i + 1, Len(s))
<1>1. /\ front \in Seq(S) /\ Len(front) = i - 1
      /\ \A j \in 1 .. i - 1 : front[j] = s[j]
  <2>1. 1 \in Nat \ {0} /\ i - 1 \in Nat /\ i - 1 <= Len(s) /\ 1 <= (i - 1) + 1
    OBVIOUS
  <2>2. QED BY <2>1, SubSeqElements
<1>2. /\ back \in Seq(S) /\ Len(back) = Len(s) - i
      /\ \A j \in 1 .. Len(s) - i : back[j] = s[i + j]
  <2>1. i + 1 \in Nat \ {0} /\ i + 1 <= Len(s) + 1
    OBVIOUS
  <2>2. QED BY <2>1, SubSeqElements
<1>3. RemoveAt(s, i) = front \o back
  BY DEF RemoveAt
<1> HIDE DEF front, back
<1>4. /\ front \o back \in Seq(S) /\ Len(front \o back) = Len(front) + Len(back)
      /\ \A j \in 1 .. Len(front) + Len(back) :
            (front \o back)[j] = IF j <= Len(front) THEN front[j] ELSE back[j - Len(front)]
  BY <1>1, <1>2, ConcatProperties
<1>5. Len(front) + Len(back) = Len(s) - 1
  BY <1>1, <1>2
<1>6. ASSUME NEW j \in 1 .. Len(s) - 1 PROVE (front \o back)[j] = s[Up(i, j)]
  <2>1. CASE j < i
    BY <1>1, <1>4, <1>5, <2>1 DEF Up
  <2>2. CASE ~(j < i)
    <3>1. /\ Up(i, j) = j + 1 /\ j - (i - 1) \in 1 .. Len(s) - i
          /\ i + (j - (i - 1)) = j + 1
      BY <2>2 DEF Up
    <3>2. (front \o back)[j] = back[j - (i - 1)]
      BY <1>1, <1>4, <1>5, <2>2
    <3>3. back[j - (i - 1)] = s[j + 1]
      BY <1>2, <3>1
    <3>4. QED BY <3>1, <3>2, <3>3
  <2>3. QED BY <2>1, <2>2
<1>7. Len(front \o back) = Len(s) - 1 /\ Len(s) \in Nat
  BY <1>4, <1>5
<1>8. /\ Len(s) = Len(front \o back) + 1
      /\ \A j \in 1 .. Len(front \o back) : (front \o back)[j] = s[Up(i, j)]
  BY <1>6, <1>7
<1>9. QED BY <1>3, <1>4, <1>8

--------------------------------------------------------------------------------
(* The walk along the list of routes. What it has shown is told by where   *)
(* the pointer stands: the steady routes before it, and while the page     *)
(* waits in a row the route at it, once; the ones behind it, not yet.      *)
Before(list, x, y) ==
    \E i, j \in 1 .. Len(list) : i < j /\ list[i] = x /\ list[j] = y
Once(x) ==
    \E i \in 1 .. Len(rows) :
       rows[i] = x /\ \A j \in 1 .. Len(rows) : rows[j] = x => j = i
NotYet(x) == \A i \in 1 .. Len(rows) : rows[i] # x
Passed(x) ==
    \/ page = "out" \/ r = NoRoute
    \/ Before(table, x, r)
    \/ page = "waiting" /\ x = r
Walks ==
    ~astray =>
       /\ page # "out" /\ r # NoRoute => r \in Range(table)
       /\ \A x \in steady : IF Passed(x) THEN Once(x) ELSE NotYet(x)

IndexInv ==
    /\ IndexTypeOK
    /\ page = "in" => Len(rows) < MaxRows
    /\ page = "waiting" => r # NoRoute
    /\ Walks

Injective(list) ==
    \A i, j \in 1 .. Len(list) : list[i] = list[j] => i = j
Elements(list) == {list[i] : i \in 1 .. Len(list)}

LEMMA TableTyped ==
    ASSUME IndexInv
    PROVE  /\ table \in Seq(Routes) /\ Injective(table)
           /\ Range(table) = Elements(table)
<1>1. table \in Seq(Routes) /\ IsInjective(table)
  BY DEF IndexInv, IndexTypeOK
<1>2. DOMAIN table = 1 .. Len(table)
  BY <1>1
<1>3. QED BY <1>1, <1>2 DEF IsInjective, Injective, Range, Elements

(* A route that comes or goes leaves the order of the others as it was.    *)
LEMMA WithoutKeepsOrder ==
    ASSUME NEW p \in Seq(Routes), NEW q \in Seq(Routes), Len(p) = Len(q) + 1,
           NEW n \in 1 .. Len(p), \A i \in 1 .. Len(q) : q[i] = p[Up(n, i)]
    PROVE  /\ Elements(p) = Elements(q) \cup {p[n]}
           /\ Injective(p) => Injective(q) /\ p[n] \notin Elements(q)
           /\ Injective(q) /\ p[n] \notin Elements(q) => Injective(p)
           /\ \A y, z : y # p[n] /\ z # p[n] =>
                 (Before(p, y, z) <=> Before(q, y, z))
<1>0. Len(p) \in Nat /\ Len(q) \in Nat /\ n \in Nat
  OBVIOUS
<1>1. \A i \in 1 .. Len(q) : Up(n, i) \in 1 .. Len(p) /\ Up(n, i) # n
  BY <1>0 DEF Up
<1>2. \A i \in 1 .. Len(p) : i # n => Down(n, i) \in 1 .. Len(q) /\ Up(n, Down(n, i)) = i
  BY <1>0 DEF Up, Down
<1>3. \A i \in 1 .. Len(p) : i # n => q[Down(n, i)] = p[i]
  BY <1>2
<1>4. \A i, j \in 1 .. Len(q) : i < j <=> Up(n, i) < Up(n, j)
  BY <1>0 DEF Up
<1>5. \A i, j \in 1 .. Len(p) : i # n /\ j # n => (i < j <=> Down(n, i) < Down(n, j))
  BY <1>0 DEF Down
<1>6. Elements(p) = Elements(q) \cup {p[n]}
  <2>1. ASSUME NEW i \in 1 .. Len(p) PROVE p[i] \in Elements(q) \cup {p[n]}
    BY <1>2, <1>3 DEF Elements
  <2>2. ASSUME NEW i \in 1 .. Len(q) PROVE q[i] \in Elements(p)
    BY <1>1 DEF Elements
  <2>3. p[n] \in Elements(p)
    BY DEF Elements
  <2>4. QED BY <2>1, <2>2, <2>3 DEF Elements
<1>7. ASSUME Injective(p) PROVE Injective(q) /\ p[n] \notin Elements(q)
  <2>1. ASSUME NEW i \in 1 .. Len(q), NEW j \in 1 .. Len(q), q[i] = q[j]
        PROVE  i = j
    <3>1. Up(n, i) = Up(n, j)
      BY <1>1, <1>7, <2>1 DEF Injective
    <3>2. QED BY <1>0, <3>1 DEF Up
  <2>2. ASSUME NEW i \in 1 .. Len(q) PROVE q[i] # p[n]
    BY <1>1, <1>7 DEF Injective
  <2>3. QED BY <2>1, <2>2 DEF Injective, Elements
<1>8. ASSUME Injective(q), p[n] \notin Elements(q) PROVE Injective(p)
  <2> SUFFICES ASSUME NEW i \in 1 .. Len(p), NEW j \in 1 .. Len(p), p[i] = p[j]
               PROVE  i = j
    BY DEF Injective
  <2>1. ASSUME NEW k \in 1 .. Len(p), k # n PROVE p[k] # p[n]
    BY <1>2, <1>3, <1>8, <2>1 DEF Elements
  <2>2. CASE i = n \/ j = n
    BY <2>1, <2>2
  <2>3. CASE i # n /\ j # n
    <3>1. Down(n, i) = Down(n, j)
      BY <1>2, <1>3, <1>8, <2>3 DEF Injective
    <3>2. Up(n, Down(n, i)) = i /\ Up(n, Down(n, j)) = j
      BY <1>2, <2>3
    <3>3. QED BY <3>1, <3>2
  <2>4. QED BY <2>2, <2>3
<1>9. ASSUME NEW y, NEW z, y # p[n], z # p[n]
      PROVE  Before(p, y, z) <=> Before(q, y, z)
  <2>1. ASSUME NEW i \in 1 .. Len(p), NEW j \in 1 .. Len(p),
               i < j, p[i] = y, p[j] = z
        PROVE  Before(q, y, z)
    <3>1. i # n /\ j # n
      BY <1>9, <2>1
    <3>2. /\ Down(n, i) \in 1 .. Len(q) /\ q[Down(n, i)] = y
          /\ Down(n, j) \in 1 .. Len(q) /\ q[Down(n, j)] = z
      BY <1>2, <1>3, <2>1, <3>1
    <3>3. Down(n, i) < Down(n, j)
      BY <1>5, <2>1, <3>1
    <3>4. QED BY <3>2, <3>3 DEF Before
  <2>2. ASSUME NEW i \in 1 .. Len(q), NEW j \in 1 .. Len(q),
               i < j, q[i] = y, q[j] = z
        PROVE  Before(p, y, z)
    <3>1. /\ Up(n, i) \in 1 .. Len(p) /\ p[Up(n, i)] = y
          /\ Up(n, j) \in 1 .. Len(p) /\ p[Up(n, j)] = z
      BY <1>1, <2>2
    <3>2. Up(n, i) < Up(n, j)
      BY <1>4, <2>2
    <3>3. QED BY <3>1, <3>2 DEF Before
  <2>3. QED BY <2>1, <2>2 DEF Before
<1>10. QED BY <1>6, <1>7, <1>8, <1>9
LEMMA InsertStep ==
    ASSUME NEW q \in Seq(Routes), Injective(q), NEW x \in Routes, x \notin Elements(q),
           NEW n \in 1 .. Len(q) + 1, NEW p, p = InsertAt(q, n, x)
    PROVE  /\ p \in Seq(Routes) /\ Injective(p) /\ Elements(p) = Elements(q) \cup {x}
           /\ \A y, z : y # x /\ z # x => (Before(p, y, z) <=> Before(q, y, z))
<1>1. /\ p \in Seq(Routes) /\ Len(p) = Len(q) + 1 /\ p[n] = x
      /\ \A i \in 1 .. Len(q) : q[i] = p[Up(n, i)]
  BY InsertAtElements
<1>2. n \in 1 .. Len(p)
  BY <1>1
<1>3. /\ Elements(p) = Elements(q) \cup {p[n]}
      /\ Injective(q) /\ p[n] \notin Elements(q) => Injective(p)
      /\ \A y, z : y # p[n] /\ z # p[n] => (Before(p, y, z) <=> Before(q, y, z))
  BY <1>1, <1>2, WithoutKeepsOrder, Zenon
<1>4. QED BY <1>1, <1>3

(* Whatever happens to another route than the one the page waits at.       *)
LEMMA WalksOn ==
    ASSUME IndexInv, page # "in", NEW x,
           page' = page, r' = r, rows' = rows,
           steady' \subseteq steady \ {x},
           ~astray' => ~astray /\ (page = "waiting" => x # r),
           Elements(table) \ {x} \subseteq Elements(table'),
           table' \in Seq(Routes), Range(table') = Elements(table'),
           \A y, z : y # x /\ z # x =>
              (Before(table', y, z) <=> Before(table, y, z))
    PROVE  Walks'
<1>1. page \in {"out", "waiting"} /\ (page = "waiting" => r # NoRoute)
  BY DEF IndexInv, IndexTypeOK
<1>2. SUFFICES ASSUME ~astray'
               PROVE  /\ page # "out" /\ r # NoRoute => r \in Range(table')
                      /\ \A y \in steady' :
                            IF Passed(y)' THEN Once(y) ELSE NotYet(y)
  BY DEF Walks, Once, NotYet
<1>3. ~astray /\ Walks
  BY <1>2 DEF IndexInv
<1>4. CASE page = "out"
  BY <1>3, <1>4 DEF Walks, Passed
<1>5. CASE page = "waiting"
  <2>1. x # r
    BY <1>2, <1>5
  <2>2. r \in Range(table')
    BY <1>1, <1>3, <1>5, <2>1, TableTyped DEF Walks
  <2>3. ASSUME NEW y \in steady' PROVE IF Passed(y)' THEN Once(y) ELSE NotYet(y)
    <3>1. y \in steady /\ y # x
      OBVIOUS
    <3>2. Before(table', y, r) <=> Before(table, y, r)
      BY <2>1, <3>1
    <3>3. Passed(y)' <=> Passed(y)
      BY <3>2 DEF Passed, Before
    <3>4. IF Passed(y) THEN Once(y) ELSE NotYet(y)
      BY <1>3, <3>1 DEF Walks
    <3>5. QED BY <3>3, <3>4
  <2>4. QED BY <2>2, <2>3
<1>6. QED BY <1>1, <1>4, <1>5
LEMMA AddedInv == ASSUME IndexInv, NEW x \in Routes, RouteIsAdded(x) PROVE IndexInv'
<1>1. /\ table \in Seq(Routes) /\ Injective(table)
      /\ Range(table) = Elements(table)
  BY TableTyped
<1>2. PICK n \in 1 .. Len(table) + 1 : table' = InsertAt(table, n, x)
  BY DEF RouteIsAdded
<1>3. /\ page # "in" /\ x \notin Elements(table)
      /\ r' = r /\ page' = page /\ rows' = rows /\ steady' = steady /\ astray' = astray
  BY <1>1 DEF RouteIsAdded
<1>4. /\ table' \in Seq(Routes) /\ Injective(table')
      /\ Elements(table') = Elements(table) \cup {x}
      /\ \A y, z : y # x /\ z # x => (Before(table', y, z) <=> Before(table, y, z))
  BY <1>1, <1>2, <1>3, InsertStep
<1>5. IsInjective(table') /\ Range(table') = Elements(table')
  BY <1>4 DEF IsInjective, Injective, Range, Elements
<1>6. steady \subseteq Elements(table) \ {x}
  BY <1>1, <1>3 DEF IndexInv, IndexTypeOK
<1>7. ~astray /\ page = "waiting" => x # r
  BY <1>1, <1>3 DEF IndexInv, Walks
<1>8. Walks'
  <2>1. steady' \subseteq steady \ {x} /\ Elements(table) \ {x} \subseteq Elements(table')
    BY <1>3, <1>4, <1>6
  <2>2. QED BY <1>3, <1>4, <1>5, <1>7, <2>1, WalksOn
<1>9. IndexTypeOK'
  BY <1>3, <1>4, <1>5, <1>6 DEF IndexInv, IndexTypeOK
<1>10. QED BY <1>3, <1>8, <1>9 DEF IndexInv

LEMMA DroppedInv == ASSUME IndexInv, NEW x \in Routes, RouteIsDropped(x) PROVE IndexInv'
<1>1. /\ table \in Seq(Routes) /\ Injective(table)
      /\ Range(table) = Elements(table) /\ DOMAIN table = 1 .. Len(table)
  BY TableTyped
<1>2. PICK n \in 1 .. Len(table) : table[n] = x /\ table' = RemoveAt(table, n)
  BY <1>1 DEF RouteIsDropped
<1>3. /\ page # "in"
      /\ r' = r /\ page' = page /\ rows' = rows /\ steady' = steady \ {x}
      /\ astray' = (astray \/ x = r)
  BY DEF RouteIsDropped
<1>4. /\ table' \in Seq(Routes) /\ Len(table) = Len(table') + 1
      /\ \A i \in 1 .. Len(table') : table'[i] = table[Up(n, i)]
  BY <1>1, <1>2, RemoveAtElements
<1>5. /\ Injective(table') /\ Elements(table') = Elements(table) \ {x}
      /\ \A y, z : y # x /\ z # x => (Before(table', y, z) <=> Before(table, y, z))
  <2>1. /\ Elements(table) = Elements(table') \cup {table[n]}
        /\ Injective(table) => Injective(table') /\ table[n] \notin Elements(table')
        /\ \A y, z : y # table[n] /\ z # table[n] =>
              (Before(table, y, z) <=> Before(table', y, z))
    BY <1>1, <1>4, WithoutKeepsOrder, Zenon
  <2>2. QED BY <1>1, <1>2, <2>1
<1>6. IsInjective(table') /\ Range(table') = Elements(table')
  BY <1>4, <1>5 DEF IsInjective, Injective, Range, Elements
<1>7. astray' \in BOOLEAN
  BY <1>3 DEF IndexInv, IndexTypeOK
<1>8. Walks'
  <2>1. ~astray' => ~astray /\ (page = "waiting" => x # r)
    BY <1>3
  <2>2. QED BY <1>3, <1>4, <1>5, <1>6, <2>1, WalksOn
<1>9. IndexTypeOK'
  BY <1>1, <1>3, <1>4, <1>5, <1>6, <1>7 DEF IndexInv, IndexTypeOK
<1>10. QED BY <1>3, <1>8, <1>9 DEF IndexInv

LEMMA MovedInv == ASSUME IndexInv, NEW x \in Routes, RouteIsMoved(x) PROVE IndexInv'
<1>1. /\ table \in Seq(Routes) /\ Injective(table)
      /\ Range(table) = Elements(table) /\ DOMAIN table = 1 .. Len(table)
  BY TableTyped
<1>2. PICK m \in 1 .. Len(table), n \in 1 .. Len(table) :
         table[n] = x /\ table' = InsertAt(RemoveAt(table, n), m, x)
  BY <1>1 DEF RouteIsMoved
<1>3. /\ page # "in"
      /\ r' = r /\ page' = page /\ rows' = rows /\ steady' = steady \ {x}
      /\ astray' = (astray \/ x = r)
  BY DEF RouteIsMoved
<1> DEFINE without == RemoveAt(table, n)
<1>4. /\ without \in Seq(Routes) /\ Len(table) = Len(without) + 1
      /\ \A i \in 1 .. Len(without) : without[i] = table[Up(n, i)]
  BY <1>1, <1>2, RemoveAtElements
<1>5. table' = InsertAt(without, m, x)
  BY <1>2
<1> HIDE DEF without
<1>6. /\ Injective(without) /\ Elements(without) = Elements(table) \ {x}
      /\ \A y, z : y # x /\ z # x => (Before(without, y, z) <=> Before(table, y, z))
  BY <1>1, <1>2, <1>4, WithoutKeepsOrder
<1>7. /\ table' \in Seq(Routes) /\ Injective(table')
      /\ Elements(table') = Elements(without) \cup {x}
      /\ \A y, z : y # x /\ z # x => (Before(table', y, z) <=> Before(without, y, z))
  BY <1>4, <1>5, <1>6, InsertStep
<1>8. IsInjective(table') /\ Range(table') = Elements(table')
  BY <1>7 DEF IsInjective, Injective, Range, Elements
<1>9. astray' \in BOOLEAN
  BY <1>3 DEF IndexInv, IndexTypeOK
<1>10. Walks'
  <2>1. ~astray' => ~astray /\ (page = "waiting" => x # r)
    BY <1>3
  <2>2. \A y, z : y # x /\ z # x => (Before(table', y, z) <=> Before(table, y, z))
    BY <1>6, <1>7
  <2>3. QED BY <1>3, <1>6, <1>7, <1>8, <2>1, <2>2, WalksOn
<1>11. IndexTypeOK'
  BY <1>1, <1>3, <1>6, <1>7, <1>8, <1>9 DEF IndexInv, IndexTypeOK
<1>12. QED BY <1>3, <1>10, <1>11 DEF IndexInv
(* One step of the walk, as long as the pointer is in the list: what was   *)
(* passed is then what was passed before, and the route at the pointer.    *)
LEMMA NextRoute ==
    ASSUME IndexInv, r \in Range(table), NEW y \in Successors
    PROVE  \/ /\ y = NoRoute
              /\ \A x \in Range(table) : x = r \/ Before(table, x, r)
           \/ /\ y # NoRoute /\ y \in Range(table)
              /\ \A x : Before(table, x, y) <=> x = r \/ Before(table, x, r)
<1>1. /\ table \in Seq(Routes) /\ Injective(table)
      /\ Range(table) = Elements(table) /\ DOMAIN table = 1 .. Len(table)
  BY TableTyped
<1> DEFINE i == CHOOSE j \in DOMAIN table : table[j] = r
<1>2. i \in 1 .. Len(table) /\ table[i] = r
  BY <1>1 DEF Elements
<1>3. y \in IF i < Len(table) THEN {table[i + 1]} ELSE {NoRoute}
  BY DEF Successors
<1> HIDE DEF i
<1>4. CASE i < Len(table)
  <2>1. i + 1 \in 1 .. Len(table) /\ y = table[i + 1]
    BY <1>2, <1>3, <1>4
  <2>2. y \in Range(table) /\ y # NoRoute
    BY <1>1, <2>1, NoRouteAssumption DEF Elements
  <2>3. ASSUME NEW x, Before(table, x, y) PROVE x = r \/ Before(table, x, r)
    <3>1. PICK a \in 1 .. Len(table), b \in 1 .. Len(table) :
             a < b /\ table[a] = x /\ table[b] = y
      BY <2>3 DEF Before
    <3>2. b = i + 1
      BY <1>1, <2>1, <3>1 DEF Injective
    <3>3. a = i \/ a < i
      BY <1>2, <3>1, <3>2
    <3>4. QED BY <1>2, <3>1, <3>3 DEF Before
  <2>4. Before(table, r, y)
    BY <1>2, <2>1 DEF Before
  <2>5. ASSUME NEW x, Before(table, x, r) PROVE Before(table, x, y)
    <3>1. PICK a \in 1 .. Len(table), b \in 1 .. Len(table) :
             a < b /\ table[a] = x /\ table[b] = r
      BY <2>5 DEF Before
    <3>2. b = i
      BY <1>1, <1>2, <3>1 DEF Injective
    <3>3. a < i + 1
      BY <1>2, <3>1, <3>2
    <3>4. QED BY <2>1, <3>1, <3>3 DEF Before
  <2>6. QED BY <2>2, <2>3, <2>4, <2>5
<1>5. CASE ~(i < Len(table))
  <2>1. y = NoRoute /\ i = Len(table)
    BY <1>2, <1>3, <1>5
  <2>2. ASSUME NEW x \in Range(table) PROVE x = r \/ Before(table, x, r)
    <3>1. PICK a \in 1 .. Len(table) : table[a] = x
      BY <1>1 DEF Elements
    <3>2. a = i \/ a < i
      BY <1>2, <2>1
    <3>3. QED BY <1>2, <3>1, <3>2 DEF Before
  <2>3. QED BY <2>1, <2>2
<1>6. QED BY <1>4, <1>5

LEMMA NotBeforeItself ==
    ASSUME IndexInv
    PROVE  ~Before(table, r, r)
BY TableTyped DEF Before, Injective

(* What Successors gives is a route or the end of the list.                *)
LEMMA SuccessorsType ==
    ASSUME IndexInv, NEW y \in Successors
    PROVE  y \in Routes \cup {NoRoute}
<1>1. \A x \in Range(table) : x \in Routes
  BY TableTyped DEF Elements
<1>2. CASE r \in Range(table)
  BY <1>1, <1>2, NextRoute
<1>3. CASE r \notin Range(table)
  BY <1>1, <1>3 DEF Successors
<1>4. QED BY <1>2, <1>3

(* The row of the route at the pointer, once more or for the first time.   *)
LEMMA RowIsBegun ==
    ASSUME IndexInv, page = "in", r # NoRoute, rows' = Append(rows, r)
    PROVE  /\ rows' \in Seq(Routes) /\ Len(rows') = Len(rows) + 1
           /\ \A x : x = r /\ NotYet(x) => Once(x)'
           /\ \A x : x # r => (Once(x) => Once(x)') /\ (NotYet(x) => NotYet(x)')
<1>1. rows \in Seq(Routes) /\ r \in Routes
  BY DEF IndexInv, IndexTypeOK
<1>2. /\ rows' \in Seq(Routes) /\ Len(rows') = Len(rows) + 1 /\ Len(rows) \in Nat
      /\ \A i \in 1 .. Len(rows) : rows'[i] = rows[i]
      /\ rows'[Len(rows) + 1] = r
  BY <1>1
<1>3. \A i \in 1 .. Len(rows') : i \in 1 .. Len(rows) \/ i = Len(rows) + 1
  BY <1>2
<1>4. 1 .. Len(rows) \subseteq 1 .. Len(rows') /\ Len(rows) + 1 \in 1 .. Len(rows')
  BY <1>2
<1>5. ASSUME NEW x, x = r, NotYet(x) PROVE Once(x)'
  <2>1. \A j \in 1 .. Len(rows') : rows'[j] = x => j = Len(rows) + 1
    BY <1>2, <1>3, <1>5 DEF NotYet
  <2>2. QED BY <1>2, <1>4, <1>5, <2>1 DEF Once
<1>6. ASSUME NEW x, x # r, NotYet(x) PROVE NotYet(x)'
  BY <1>2, <1>3, <1>6 DEF NotYet
<1>7. ASSUME NEW x, x # r, Once(x) PROVE Once(x)'
  <2>1. PICK i \in 1 .. Len(rows) :
           rows[i] = x /\ \A j \in 1 .. Len(rows) : rows[j] = x => j = i
    BY <1>7 DEF Once
  <2>2. i \in 1 .. Len(rows') /\ rows'[i] = x
    BY <1>2, <1>4, <2>1
  <2>3. \A j \in 1 .. Len(rows') : rows'[j] = x => j = i
    BY <1>2, <1>3, <1>7, <2>1
  <2>4. QED BY <2>2, <2>3 DEF Once
<1>8. QED BY <1>2, <1>5, <1>6, <1>7

(* The pointer goes on from a route whose row is done.                     *)
LEMMA PointerGoesOn ==
    ASSUME IndexInv, page' = "in", r' \in Successors,
           table' = table, steady' = steady, astray' = astray,
           ~astray => r \in Range(table),
           ~astray => \A x \in steady :
              IF x = r \/ Before(table, x, r) THEN Once(x)' ELSE NotYet(x)'
    PROVE  Walks'
<1> SUFFICES ASSUME ~astray
             PROVE  /\ r' # NoRoute => r' \in Range(table)
                    /\ \A x \in steady : IF Passed(x)' THEN Once(x)' ELSE NotYet(x)'
  BY DEF Walks
<1>1. \/ /\ r' = NoRoute
         /\ \A x \in Range(table) : x = r \/ Before(table, x, r)
      \/ /\ r' # NoRoute /\ r' \in Range(table)
         /\ \A x : Before(table, x, r') <=> x = r \/ Before(table, x, r)
  BY NextRoute
<1>2. ASSUME NEW x \in steady PROVE Passed(x)' <=> x = r \/ Before(table, x, r)
  <2>1. Passed(x)' <=> r' = NoRoute \/ Before(table, x, r')
    BY DEF Passed, Before
  <2>2. x \in Range(table)
    BY DEF IndexInv, IndexTypeOK
  <2>3. QED BY <1>1, <2>1, <2>2
<1>3. QED BY <1>1, <1>2
LEMMA ShowRowInv == ASSUME IndexInv, ShowRow PROVE IndexInv'
<1>1. /\ page = "in" /\ r # NoRoute /\ rows' = Append(rows, r)
      /\ table' = table /\ steady' = steady /\ astray' = astray
  BY DEF ShowRow
<1>2. /\ rows' \in Seq(Routes) /\ Len(rows') = Len(rows) + 1
      /\ \A x : x = r /\ NotYet(x) => Once(x)'
      /\ \A x : x # r => (Once(x) => Once(x)') /\ (NotYet(x) => NotYet(x)')
  BY <1>1, RowIsBegun
<1>3. Len(rows') <= MaxRows
  <2>1. Len(rows) < MaxRows /\ rows \in Seq(Routes)
    BY <1>1 DEF IndexInv, IndexTypeOK
  <2>2. QED BY <1>2, <2>1, MaxRowsAssumption
<1>4. ASSUME ~astray
      PROVE  /\ r \in Range(table)
             /\ \A x \in steady :
                   IF x = r \/ Before(table, x, r) THEN Once(x)' ELSE NotYet(x)'
  <2>1. Walks
    BY DEF IndexInv
  <2>2. r \in Range(table)
    BY <1>1, <1>4, <2>1 DEF Walks
  <2>3. ASSUME NEW x \in steady
        PROVE  IF x = r \/ Before(table, x, r) THEN Once(x)' ELSE NotYet(x)'
    <3>1. IF Before(table, x, r) THEN Once(x) ELSE NotYet(x)
      BY <1>1, <1>4, <2>1 DEF Walks, Passed
    <3>2. CASE x = r
      <4>1. ~Before(table, x, r)
        BY <3>2, NotBeforeItself
      <4>2. QED BY <1>2, <3>1, <3>2, <4>1
    <3>3. CASE x # r
      BY <1>2, <3>1, <3>3
    <3>4. QED BY <3>2, <3>3
  <2>4. QED BY <2>2, <2>3
<1>5. CASE Len(rows') < MaxRows /\ r' \in Successors /\ page' = page
  <2>1. Walks'
    BY <1>1, <1>4, <1>5, PointerGoesOn
  <2>2. r' \in Routes \cup {NoRoute}
    BY <1>5, SuccessorsType
  <2>3. IndexTypeOK'
    BY <1>1, <1>2, <1>3, <1>5, <2>2 DEF IndexInv, IndexTypeOK
  <2>4. QED BY <1>1, <1>5, <2>1, <2>3 DEF IndexInv
<1>6. CASE page' = "waiting" /\ r' = r
  <2>1. Walks'
    <3>1. SUFFICES ASSUME ~astray
                   PROVE  \A x \in steady : IF Passed(x)' THEN Once(x)' ELSE NotYet(x)'
      BY <1>1, <1>4, <1>6 DEF Walks
    <3>2. \A x : Passed(x)' <=> x = r \/ Before(table, x, r)
      BY <1>1, <1>6 DEF Passed, Before
    <3>3. QED BY <1>4, <3>1, <3>2
  <2>2. IndexTypeOK'
    BY <1>1, <1>2, <1>3, <1>6 DEF IndexInv, IndexTypeOK
  <2>3. QED BY <1>1, <1>6, <2>1, <2>2 DEF IndexInv
<1>7. QED BY <1>5, <1>6 DEF ShowRow

LEMMA GoOnInv == ASSUME IndexInv, GoOn PROVE IndexInv'
<1>1. /\ page = "waiting" /\ Len(rows) < MaxRows /\ r # NoRoute
      /\ table' = table /\ rows' = rows /\ steady' = steady /\ astray' = astray
  BY DEF GoOn, IndexInv
<1>2. CASE page' = "in" /\ r' \in Successors
  <2>1. ASSUME ~astray
        PROVE  /\ r \in Range(table)
               /\ \A x \in steady :
                     IF x = r \/ Before(table, x, r) THEN Once(x)' ELSE NotYet(x)'
    <3>1. r \in Range(table)
      BY <1>1, <2>1 DEF IndexInv, Walks
    <3>2. \A x \in steady : IF x = r \/ Before(table, x, r) THEN Once(x) ELSE NotYet(x)
      BY <1>1, <2>1 DEF IndexInv, Walks, Passed
    <3>3. \A x : (Once(x)' <=> Once(x)) /\ (NotYet(x)' <=> NotYet(x))
      BY <1>1 DEF Once, NotYet
    <3>4. QED BY <3>1, <3>2, <3>3
  <2>2. Walks'
    BY <1>1, <1>2, <2>1, PointerGoesOn
  <2>3. r' \in Routes \cup {NoRoute}
    BY <1>2, SuccessorsType
  <2>4. IndexTypeOK'
    BY <1>1, <1>2, <2>3 DEF IndexInv, IndexTypeOK
  <2>5. QED BY <1>1, <1>2, <2>2, <2>4 DEF IndexInv
<1>3. CASE page' = page /\ r' = r
  <2>1. IndexTypeOK'
    BY <1>1, <1>3 DEF IndexInv, IndexTypeOK
  <2>2. \A x : /\ Once(x)' <=> Once(x)
               /\ NotYet(x)' <=> NotYet(x)
               /\ Before(table, x, r)' <=> Before(table, x, r)
    BY <1>1, <1>3 DEF Once, NotYet, Before
  <2>3. Walks'
    <3>1. \A x : Passed(x)' <=> Passed(x)
      BY <1>1, <1>3, <2>2 DEF Passed
    <3>2. \A x \in steady : ~astray => IF Passed(x) THEN Once(x) ELSE NotYet(x)
      BY DEF IndexInv, Walks
    <3>3. ~astray /\ page # "out" /\ r # NoRoute => r \in Range(table)
      BY DEF IndexInv, Walks
    <3>4. QED BY <1>1, <1>3, <2>2, <3>1, <3>2, <3>3 DEF Walks
  <2>4. QED BY <1>1, <1>3, <2>1, <2>3 DEF IndexInv
<1>4. QED BY <1>2, <1>3 DEF GoOn

LEMMA EnterListInv == ASSUME IndexInv, EnterList PROVE IndexInv'
<1>1. /\ page' = "in" /\ r' = First /\ rows' = <<>>
      /\ steady' = Range(table) /\ astray' = FALSE /\ table' = table
  BY DEF EnterList
<1>2. /\ table \in Seq(Routes) /\ Injective(table) /\ Range(table) = Elements(table)
  BY TableTyped
<1>3. \A x : NotYet(x)'
  BY <1>1 DEF NotYet
<1>4. /\ r' \in Routes \cup {NoRoute}
      /\ r' # NoRoute => r' \in Range(table)
      /\ \A x \in Range(table) : ~Passed(x)'
  <2>1. CASE table = <<>>
    BY <1>1, <1>2, <2>1 DEF First, Elements
  <2>2. CASE table # <<>>
    <3>1. /\ Len(table) \in Nat \ {0} /\ r' = table[1] /\ 1 \in 1 .. Len(table)
          /\ r' \in Routes
      BY <1>1, <1>2, <2>2 DEF First
    <3>2. r' # NoRoute /\ r' \in Range(table)
      BY <1>2, <3>1, NoRouteAssumption DEF Elements
    <3>3. ASSUME NEW x PROVE ~Before(table, x, r')
      BY <1>2, <3>1 DEF Before, Injective
    <3>4. ASSUME NEW x PROVE Passed(x)' <=> Before(table, x, r')
      BY <1>1, <3>2 DEF Passed, Before
    <3>5. QED BY <3>1, <3>2, <3>3, <3>4
  <2>3. QED BY <2>1, <2>2
<1>5. Walks'
  BY <1>1, <1>3, <1>4 DEF Walks
<1>6. <<>> \in Seq(Routes) /\ Len(<<>>) = 0
  OBVIOUS
<1>7. IndexTypeOK'
  <2>1. Len(rows') <= MaxRows
    BY <1>1, <1>6, MaxRowsAssumption
  <2>2. steady' \subseteq Range(table') /\ astray' \in BOOLEAN
    BY <1>1
  <2>3. QED BY <1>1, <1>4, <1>6, <2>1, <2>2 DEF IndexInv, IndexTypeOK
<1>8. QED BY <1>1, <1>5, <1>6, <1>7, MaxRowsAssumption DEF IndexInv

LEMMA LeaveListInv == ASSUME IndexInv, LeaveList PROVE IndexInv'
BY DEF LeaveList, IndexInv, IndexTypeOK, Walks, Passed, Once, NotYet

LEMMA PageGoneInv == ASSUME IndexInv, PageGone PROVE IndexInv'
<1>1. <<>> \in Seq(Routes) /\ Len(<<>>) = 0
  OBVIOUS
<1>2. IndexTypeOK'
  BY <1>1, MaxRowsAssumption DEF PageGone, IndexInv, IndexTypeOK
<1>3. QED BY <1>2 DEF PageGone, IndexInv, Walks

(* The conjunction IndexInv is an invariant of the list.                   *)
THEOREM IndexAlways == IndexSpec => []IndexInv
<1>1. IndexInit => IndexInv
  <2>1. <<>> \in Seq(Routes) /\ Len(<<>>) = 0 /\ IsInjective(<<>>)
    BY DEF IsInjective
  <2>2. IndexInit => IndexTypeOK
    <3>1. IndexInit => Len(rows) <= MaxRows
      BY <2>1, MaxRowsAssumption DEF IndexInit
    <3>2. IndexInit => table \in Seq(Routes) /\ IsInjective(table) /\ rows \in Seq(Routes)
      BY <2>1 DEF IndexInit
    <3>3. QED BY <3>1, <3>2 DEF IndexInit, IndexTypeOK
  <2>3. QED BY <2>2 DEF IndexInit, IndexInv, Walks
<1>2. ASSUME IndexInv, UNCHANGED indexVars PROVE IndexInv'
  <2>1. IndexTypeOK'
    BY <1>2 DEF indexVars, IndexInv, IndexTypeOK
  <2>2. Walks'
    BY <1>2 DEF indexVars, IndexInv, Walks, Passed, Once, NotYet, Before
  <2>3. QED BY <1>2, <2>1, <2>2 DEF indexVars, IndexInv
<1>3. IndexInv /\ [IndexNext]_indexVars => IndexInv'
  BY <1>2, EnterListInv, ShowRowInv, GoOnInv, LeaveListInv, PageGoneInv,
     AddedInv, DroppedInv, MovedInv DEF IndexNext
<1>4. QED BY <1>1, <1>3, PTL DEF IndexSpec

(* A page whose pointer always stood on a route that stayed in its place   *)
(* has shown each route that did so exactly once, for any table and any    *)
(* number of rows. A page whose pointer lost its route is left out.        *)
THEOREM ShownOnce == IndexSpec => []ShowsEachRouteOnce
<1>1. IndexInv => ShowsEachRouteOnce
  <2> SUFFICES ASSUME IndexInv, page = "out", ~astray, NEW x \in steady
               PROVE  Cardinality({i \in DOMAIN rows : rows[i] = x}) = 1
    BY DEF ShowsEachRouteOnce
  <2>1. Once(x) /\ DOMAIN rows = 1 .. Len(rows)
    BY DEF IndexInv, IndexTypeOK, Walks, Passed
  <2>2. PICK n \in 1 .. Len(rows) :
           rows[n] = x /\ \A j \in 1 .. Len(rows) : rows[j] = x => j = n
    BY <2>1 DEF Once
  <2>3. {i \in DOMAIN rows : rows[i] = x} = {n}
    BY <2>1, <2>2
  <2>4. QED BY <2>3, FS_Singleton
<1>2. QED BY <1>1, IndexAlways, PTL
================================================================================
