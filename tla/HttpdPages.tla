------------------------------ MODULE HttpdPages ------------------------------
(***************************************************************************)
(* How the node's web server makes its answers (httpd-simple.c): a         *)
(* protothread formats them chunk by chunk, each right after the state that*)
(* it shows is read, and enqueue_chunk packs the chunks into segments.     *)
(* While a segment is unacknowledged the protothread waits in its middle;  *)
(* uIP re-enters it on every poll, and the arguments of the call it waits  *)
(* in are evaluated again each time.                                       *)
(*                                                                         *)
(* One connection is followed. A byte is the item that it is a part of, and*)
(* its place in the chunk.                                                 *)
(***************************************************************************)
EXTENDS Naturals, SequencesExt

CONSTANTS
    HTTPD_SIMPLE_MAIN_BUF_SIZE,
    Lengths,   \* lengths of chunks
    MaxHits    \* bound: how often numtimes is counted up

ASSUME BufferAssumption == HTTPD_SIMPLE_MAIN_BUF_SIZE \in Nat \ {0}
(* A chunk fits in tmp_buf, which is as long as buf, and a zero byte.      *)
ASSUME LengthsAssumption == Lengths \subseteq 0 .. HTTPD_SIMPLE_MAIN_BUF_SIZE
ASSUME MaxHitsAssumption == MaxHits \in Nat

-------------------------------------------------------------------------------
(* An answer is a sequence of items. "text" stands for the fixed chunks in *)
(* a row, "row" for the chunks of a neighbour, route or reading, "value"   *)
(* for a setting, "hits" for the counter, "bottom" for the chunk that is   *)
(* sent at once, and "direct" for a string that is not buffered.           *)
Items == {"text", "row", "value", "hits", "bottom", "direct"}

Headers == <<"text", "bottom">>
TopMatter == <<"text", "row", "text">>
Index == TopMatter \o <<"row", "text", "value", "text", "row", "text", "row",
                        "text", "hits", "text", "bottom">>
Config == TopMatter \o <<"row", "value", "text", "bottom">>
MqttConfig == TopMatter \o <<"value", "text", "bottom">>
NetUartConfig == TopMatter \o <<"value", "text", "bottom">>

(* What handle_output sends: a page, or 404, to a GET; a redirection, or   *)
(* one of the errors, to a POST.                                           *)
Answers ==
    {Headers \o p : p \in {Index, Config, MqttConfig, NetUartConfig}} \cup
    {Headers, Headers \o <<"direct">>}

VARIABLES
    todo,      \* the items that are to be made; the first is being made
    buf,       \* s->buf up to s->blen
    rest,      \* what of s->tmp_buf is not copied yet
    sending,   \* in PSOCK_SEND: of a full buffer, of the last part, or not
    conn,      \* idle, output or closed
    numtimes,  \* the page hits
    due,       \* history: what was formatted and not acknowledged
    shown      \* history: the index pages that got to the counter

vars == <<todo, buf, rest, sending, conn, numtimes, due, shown>>

Bytes == Items \X (1 .. HTTPD_SIMPLE_MAIN_BUF_SIZE)

TypeOK ==
    /\ todo \in Seq(Items)
    /\ buf \in Seq(Bytes)
    /\ rest \in Seq(Bytes)
    /\ Len(buf) <= HTTPD_SIMPLE_MAIN_BUF_SIZE
    /\ sending = "no" => Len(buf) < HTTPD_SIMPLE_MAIN_BUF_SIZE /\ rest = <<>>
    /\ Len(rest) < HTTPD_SIMPLE_MAIN_BUF_SIZE
    /\ sending \in {"no", "full", "last"}
    /\ conn \in {"idle", "output", "closed"}
    /\ numtimes \in Nat
    /\ due \in Seq(Bytes)
    /\ shown \in Nat

Init ==
    /\ todo = <<>>
    /\ buf = <<>>
    /\ rest = <<>>
    /\ sending = "no"
    /\ conn = "idle"
    /\ numtimes = 0
    /\ due = <<>>
    /\ shown = 0

(* handle_output begins: PT_INIT, and the choice of the answer.            *)
Begin ==
    /\ conn = "idle"
    /\ conn' = "output"
    /\ todo' \in Answers
    /\ UNCHANGED <<buf, rest, sending, numtimes, due, shown>>

(* The connection's record is cleared when it closes, aborts or times out. *)
Gone ==
    /\ conn # "idle"
    /\ conn' = "idle"
    /\ todo' = <<>>
    /\ buf' = <<>>
    /\ rest' = <<>>
    /\ sending' = "no"
    /\ due' = <<>>
    /\ UNCHANGED <<numtimes, shown>>

(* The arguments of the call to enqueue_chunk that makes the item.         *)
EvaluateArguments ==
    IF Head(todo) = "hits" THEN numtimes' = numtimes + 1
    ELSE UNCHANGED numtimes
MayEvaluate == Head(todo) = "hits" => numtimes < MaxHits

(* Mutant: the flag is only looked at after a full buffer.                 *)
ImmediateLate == Head(todo) = "bottom" /\ sending # "no"

Immediate == Head(todo) = "bottom"

(* The item is made. Fixed chunks and rows may be followed by more.        *)
ItemIsMade ==
    IF Head(todo) \in {"text", "row", "value"} THEN todo' \in {todo, Tail(todo)}
    ELSE todo' = Tail(todo)

Chunk(n) == [i \in 1 .. n |-> <<Head(todo), i>>]

(* Mutant: the part that does not fit is lost.                             *)
CopyCut(chunk) ==
    LET room == HTTPD_SIMPLE_MAIN_BUF_SIZE - Len(buf)
    IN  IF Len(chunk) < room
        THEN [buf |-> buf \o chunk, rest |-> <<>>, full |-> FALSE]
        ELSE [buf |-> buf \o SubSeq(chunk, 1, room),
              rest |-> <<>>, full |-> TRUE]

(* enqueue_chunk up to its first PSOCK_SEND.                               *)
Copy(chunk) ==
    LET room == HTTPD_SIMPLE_MAIN_BUF_SIZE - Len(buf)
    IN  IF Len(chunk) < room
        THEN [buf |-> buf \o chunk, rest |-> <<>>, full |-> FALSE]
        ELSE [buf |-> buf \o SubSeq(chunk, 1, room),
              rest |-> SubSeq(chunk, room + 1, Len(chunk)), full |-> TRUE]

(* A chunk is formatted and copied; if that fills the buffer, or it is the *)
(* last, the segment is sent, else the item is made.                       *)
EnqueueChunk ==
    /\ conn = "output" /\ sending = "no" /\ todo # <<>>
    /\ Head(todo) # "direct"
    /\ MayEvaluate /\ EvaluateArguments
    /\ shown' = IF Head(todo) = "hits" THEN shown + 1 ELSE shown
    /\ \E n \in Lengths :
          LET c == Copy(Chunk(n))
          IN  /\ due' = due \o Chunk(n)
              /\ buf' = c.buf
              /\ rest' = c.rest
              /\ \/ /\ c.full
                    /\ sending' = "full"
                    /\ UNCHANGED todo
                 \/ /\ ~c.full /\ Immediate /\ c.buf # <<>>
                    /\ sending' = "last"
                    /\ UNCHANGED todo
                 \/ /\ ~c.full /\ ~(Immediate /\ c.buf # <<>>)
                    /\ sending' = "no"
                    /\ ItemIsMade
    /\ UNCHANGED conn

(* send_string: the string is sent from where it is.                       *)
SendString ==
    /\ conn = "output" /\ sending = "no" /\ todo # <<>>
    /\ Head(todo) = "direct"
    /\ todo' = Tail(todo)
    /\ UNCHANGED <<buf, rest, sending, conn, numtimes, due, shown>>

(* uIP calls the application while the segment is unacknowledged.          *)
Poll ==
    /\ conn = "output" /\ sending # "no"
    /\ MayEvaluate /\ EvaluateArguments
    /\ UNCHANGED <<todo, buf, rest, sending, conn, due, shown>>

(* The segment is acknowledged, and enqueue_chunk goes on.                 *)
Acknowledged ==
    /\ conn = "output" /\ sending # "no"
    /\ MayEvaluate /\ EvaluateArguments
    /\ due' = SubSeq(due, Len(buf) + 1, Len(due))
    /\ buf' = rest
    /\ rest' = <<>>
    /\ \/ /\ Immediate /\ rest # <<>>
          /\ sending' = "last"
          /\ UNCHANGED todo
       \/ /\ ~(Immediate /\ rest # <<>>)
          /\ sending' = "no"
          /\ ItemIsMade
    /\ UNCHANGED <<conn, shown>>

(* PSOCK_CLOSE, when the answer is made.                                   *)
Close ==
    /\ conn = "output" /\ sending = "no" /\ todo = <<>>
    /\ conn' = "closed"
    /\ UNCHANGED <<todo, buf, rest, sending, numtimes, due, shown>>

Next ==
    \/ Begin \/ EnqueueChunk \/ SendString \/ Poll \/ Acknowledged \/ Close
    \/ Gone

Spec == Init /\ [][Next]_vars
-------------------------------------------------------------------------------
(* Wherever the chunks end and however the segments are cut, the buffer and*)
(* the part that did not fit are exactly the bytes still to be delivered,  *)
(* in their order: none is lost, doubled or swapped.                       *)
StreamIntact == buf \o rest = due

(* An answer is closed only when all of it was delivered: every answer has *)
(* an immediate chunk behind its last buffered one.                        *)
DeliveredAtClose == conn = "closed" => due = <<>>
-------------------------------------------------------------------------------
(* httpd-simple.c:515: the index page shows the page hits.                 *)
HitsArePages == numtimes = shown
===============================================================================
