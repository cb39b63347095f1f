----------------------------- MODULE PostParser -----------------------------
(***************************************************************************)
(* parse_post_request_chunk (httpd-simple.c): the character machine that   *)
(* splits the body of a POST into key=value pairs and hands each pair to   *)
(* the registered handlers, chunk by chunk as TCP delivers the body; and   *)
(* what a body means, stated without the machine.                          *)
(*                                                                         *)
(* Four bytes tell the cases apart: the two separators, and two ordinary   *)
(* ones from which the handlers' keys and bad values are made.             *)
(***************************************************************************)
EXTENDS Integers, SequencesExt

CONSTANT PARSE_POST_MAX_POS \* last position a key or a value may occupy

ASSUME MaxPosAssumption == PARSE_POST_MAX_POS \in Nat

Bytes == {"=", "&", "k", "x"}

ParserStates == {"INIT", "MORE", "READING_KEY", "READING_VAL", "ERROR"}

(* key and val are the static buffers up to key_len and val_len; accepted  *)
(* is the sequence of pairs that some handler took.                        *)
Fresh == [state |-> "INIT", key |-> <<>>, val |-> <<>>, accepted |-> <<>>]

(* The registered handlers: one key is known, and its value may be bad.    *)
HandlerResult(key, val) ==
    IF key # <<"k">> THEN "UNKNOWN" ELSE IF Contains(val, "x") THEN "ERROR"
    ELSE "OK"

(* A finished pair. A key that no handler knows leaves the machine where it*)
(* is: reading a value.                                                    *)
Handle(p) ==
    CASE HandlerResult(p.key, p.val) = "OK" ->
           [p EXCEPT !.state = "MORE",
                     !.accepted = Append(@, <<p.key, p.val>>)]
      [] HandlerResult(p.key, p.val) = "ERROR" -> [p EXCEPT !.state = "ERROR"]
      [] OTHER -> p

Separators == {"=", "&"}

ReadKey(p, b) ==
    CASE b = "=" -> [p EXCEPT !.state = "READING_VAL"]
      [] b \notin Separators /\ Len(p.key) <= PARSE_POST_MAX_POS ->
           [p EXCEPT !.key = Append(@, b)]
      [] OTHER -> [p EXCEPT !.state = "ERROR"]

(* last: the byte is the last one of the last chunk.                       *)
ReadVal(p, b, last) ==
    CASE b = "&" -> Handle(p)
      [] b \notin Separators /\ Len(p.val) <= PARSE_POST_MAX_POS ->
           LET q == [p EXCEPT !.val = Append(@, b)]
           IN  IF last THEN Handle(q) ELSE q
      [] OTHER -> [p EXCEPT !.state = "ERROR"]

(* INIT and MORE clear the buffers and go on to read a key.                *)
ReadByte(p, b, last) ==
    CASE p.state \in {"INIT", "MORE"} ->
           ReadKey([p EXCEPT !.state = "READING_KEY", !.key = <<>>,
                             !.val = <<>>], b)
      [] p.state = "READING_KEY" -> ReadKey(p, b)
      [] p.state = "READING_VAL" -> ReadVal(p, b, last)
      [] p.state = "ERROR" -> p

(* Mutant: every chunk is taken for the last one.                          *)
ParseChunkLast(p, chunk, last_chunk) ==
    LET after[i \in 0 .. Len(chunk)] ==
          IF i = 0 THEN p ELSE ReadByte(after[i - 1], chunk[i], i = Len(chunk))
    IN  after[Len(chunk)]

ParseChunk(p, chunk, last_chunk) ==
    LET after[i \in 0 .. Len(chunk)] ==
          IF i = 0 THEN p
          ELSE ReadByte(after[i - 1], chunk[i], last_chunk /\ i = Len(chunk))
    IN  after[Len(chunk)]
-----------------------------------------------------------------------------
(* What a body means.                                                      *)

(* Where fields start, and where the field that starts at i ends.          *)
Starts(body) ==
    {i \in 1 .. Len(body) : i = 1 \/ body[i - 1] = "&"}
FieldAt(body, i) ==
    LET stops == {e \in i .. Len(body) : body[e] = "&"}
    IN  SubSeq(body, i, IF stops = {} THEN Len(body) ELSE Min(stops) - 1)

(* e splits field f into a key and a value that fit and that a handler     *)
(* accepts; only the last field must have a value that is not empty.       *)
Splits(f, e, isLast) ==
    LET key == SubSeq(f, 1, e - 1)
        val == SubSeq(f, e + 1, Len(f))
    IN  /\ f[e] = "="
        /\ ~Contains(key, "=") /\ ~Contains(val, "=")
        /\ Len(key) <= PARSE_POST_MAX_POS + 1
        /\ Len(val) <= PARSE_POST_MAX_POS + 1
        /\ HandlerResult(key, val) = "OK"
        /\ isLast => val # <<>>

Good(body, i) ==
    LET f == FieldAt(body, i)
    IN  \E e \in 1 .. Len(f) : Splits(f, e, i + Len(f) > Len(body))

PairAt(body, i) ==
    LET f == FieldAt(body, i)
        e == CHOOSE e \in 1 .. Len(f) : f[e] = "="
    IN  <<SubSeq(f, 1, e - 1), SubSeq(f, e + 1, Len(f))>>

(* The pairs before the first field that is not good, in their order.      *)
Meaning(body) ==
    LET good == {i \in Starts(body) :
                    \A j \in Starts(body) : j <= i => Good(body, j)}
        Rank(i) == Cardinality({j \in good : j <= i})
    IN  [n \in 1 .. Cardinality(good) |->
           PairAt(body, CHOOSE i \in good : Rank(i) = n)]

(* A body is acceptable when every field is, and there is one.             *)
Acceptable(body) ==
    /\ body # <<>>
    /\ \A i \in Starts(body) : Good(body, i)
=============================================================================
