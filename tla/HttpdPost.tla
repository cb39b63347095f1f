------------------------------ MODULE HttpdPost ------------------------------
(***************************************************************************)
(* The node's web server (httpd-simple.c): a pool of connection records,   *)
(* one protothread per connection that reads a request, and what all       *)
(* connections share: the parser's static buffers, the lock that lets one  *)
(* POST at a time use them, and the flag that a configuration changed.     *)
(*                                                                         *)
(* uIP calls appcall for one connection at a time and a protothread runs   *)
(* until it waits for data, so an action is what one call does; between two*)
(* chunks of a body any other connection may run, begin, or end.           *)
(***************************************************************************)
EXTENDS PostParser

CONSTANTS
    CONNS,  \* records in the pool
    Bodies, \* message bodies that clients send
    Surplus \* what clients send beyond the Content-Length they announce

ASSUME ConnsAssumption == CONNS \in Nat \ {0}
ASSUME BodiesAssumption == Bodies \subseteq Seq(Bytes)
ASSUME SurplusAssumption == Surplus \subseteq Seq(Bytes) \ {<<>>}

Slots == 1 .. CONNS
NULL == 0

(* free; headers: handle_input has not reached the body; body: reading it; *)
(* output: handle_input is done and the answer is being sent.              *)
Phases == {"free", "headers", "body", "output"}
Codes == {"OK", "SU", "BR", "LR", "TL"}

VARIABLES
    phase,       \* of each record
    return_code, \* of each record
    body,        \* what the client of each record sends in its POST
    left,        \* content_length of each record, an int
    lock,        \* the record that may parse, or NULL
    parser,      \* the static parser state
    config_ok,   \* some handler accepted a pair
    unsaved,     \* history: pairs accepted that no event has announced
    dropped      \* history: an event found no place, and none came since

vars == <<phase, return_code, body, left, lock, parser, config_ok, unsaved,
          dropped>>

TypeOK ==
    /\ phase \in [Slots -> Phases]
    /\ return_code \in [Slots -> Codes]
    /\ body \in [Slots -> Bodies \cup {<<>>}]
    /\ left \in [Slots -> Int]
    /\ lock \in Slots \cup {NULL}
    /\ parser.state \in ParserStates
    /\ config_ok \in BOOLEAN
    /\ unsaved \in BOOLEAN
    /\ dropped \in BOOLEAN

Init ==
    /\ phase = [s \in Slots |-> "free"]
    /\ return_code = [s \in Slots |-> "OK"]
    /\ body = [s \in Slots |-> <<>>]
    /\ left = [s \in Slots |-> 0]
    /\ lock = NULL
    /\ parser = Fresh
    /\ config_ok = FALSE
    /\ unsaved = FALSE
    /\ dropped = FALSE

(* appcall, connected: memb_alloc takes the first free record; without one *)
(* the connection is aborted.                                              *)
Connect(s) ==
    /\ phase[s] = "free"
    /\ \A t \in 1 .. s - 1 : phase[t] # "free"
    /\ phase' = [phase EXCEPT ![s] = "headers"]
    /\ UNCHANGED <<return_code, body, left, lock, parser, config_ok, unsaved,
                   dropped>>

(* appcall: closed, aborted or timed out, or 10 seconds without data. The  *)
(* record is cleared and freed; the lock is not looked at. After a time-out*)
(* appcall still runs handle_connection on the cleared record: a poll      *)
(* brings no data, so handle_input waits at once, and Connect sets up the  *)
(* whole record before it is used again.                                   *)
Gone(s) ==
    /\ phase[s] # "free"
    /\ phase' = [phase EXCEPT ![s] = "free"]
    /\ return_code' = [return_code EXCEPT ![s] = "OK"]
    /\ body' = [body EXCEPT ![s] = <<>>]
    /\ left' = [left EXCEPT ![s] = 0]
    /\ UNCHANGED <<lock, parser, config_ok, unsaved, dropped>>

(* A GET uses none of what is shared.                                      *)
Get(s) ==
    /\ phase[s] = "headers"
    /\ phase' = [phase EXCEPT ![s] = "output"]
    /\ UNCHANGED <<return_code, body, left, lock, parser, config_ok, unsaved,
                   dropped>>

(* process_post of new_config, if the flag is set (ok). Its result is not  *)
(* looked at, and the queue of 32 places that all processes share may be   *)
(* full: posted or not, the flag is cleared.                               *)
Announce(ok, dirty) ==
    /\ config_ok' = FALSE
    /\ \E posted \in {FALSE, ok} :
          /\ unsaved' = (dirty /\ ~posted)
          /\ dropped' = (~posted /\ (dropped \/ ok))

(* Mutants: the lock is dropped by whoever ends; the event is only posted  *)
(* for a request that is answered OK.                                      *)
EndRequestUnlock(s, code, p, ok, dirty) ==
    /\ phase' = [phase EXCEPT ![s] = "output"]
    /\ return_code' = [return_code EXCEPT ![s] = code]
    /\ Announce(ok, dirty)
    /\ lock' = NULL
EndRequestSilent(s, code, p, ok, dirty) ==
    /\ phase' = [phase EXCEPT ![s] = "output"]
    /\ return_code' = [return_code EXCEPT ![s] = code]
    /\ Announce(ok /\ code = "OK", dirty)
    /\ lock' = NULL

(* The end of handle_input for a POST that got code c so far, with parser  *)
(* state p and flag ok. An OK body must have left the parser between two   *)
(* pairs; what was accepted is announced whatever the code.                *)
EndRequest(s, code, p, ok, dirty) ==
    /\ phase' = [phase EXCEPT ![s] = "output"]
    /\ return_code' =
         [return_code EXCEPT
             ![s] = IF code = "OK" /\ p.state # "MORE" THEN "BR" ELSE code]
    /\ Announce(ok, dirty)
    /\ lock' = IF lock = s THEN NULL ELSE lock

(* The headers had no Content-Length, or one above CONTENT_LENGTH_MAX.     *)
BadLength(s) ==
    /\ phase[s] = "headers"
    /\ \E code \in {"LR", "TL"} :
          EndRequest(s, code, parser, config_ok, unsaved)
    /\ UNCHANGED <<body, left, parser>>

(* Another record has the lock: Service Unavailable.                       *)
Refuse(s) ==
    /\ phase[s] = "headers"
    /\ lock \notin {NULL, s}
    /\ EndRequest(s, "SU", parser, config_ok, unsaved)
    /\ UNCHANGED <<body, left, parser>>

(* lock_obtain succeeds, also on a record that still has the lock; the     *)
(* parser starts anew. An empty body ends at once.                         *)
Accept(s, b) ==
    /\ phase[s] = "headers"
    /\ lock \in {NULL, s}
    /\ parser' = Fresh
    /\ body' = [body EXCEPT ![s] = b]
    /\ left' = [left EXCEPT ![s] = Len(b)]
    /\ \/ /\ b # <<>>
          /\ lock' = s
          /\ phase' = [phase EXCEPT ![s] = "body"]
          /\ return_code' = [return_code EXCEPT ![s] = "OK"]
          /\ UNCHANGED <<config_ok, unsaved, dropped>>
       \/ /\ b = <<>>
          /\ EndRequest(s, "OK", Fresh, config_ok, unsaved)

(* A chunk of n bytes. The loop reads on while the length is not exhausted *)
(* and the parser is not in ERROR.                                         *)
ReadChunk(s, n) ==
    LET from == Len(body[s]) - left[s]
        p == ParseChunk(parser, SubSeq(body[s], from + 1, from + n),
                        n = left[s])
        some == p.accepted # parser.accepted
    IN  /\ phase[s] = "body"
        /\ n <= left[s]
        /\ parser' = p
        /\ left' = [left EXCEPT ![s] = @ - n]
        /\ IF p.state = "ERROR" \/ n = left[s]
           THEN EndRequest(s, IF p.state = "ERROR" THEN "BR" ELSE "OK", p,
                           config_ok \/ some, unsaved \/ some)
           ELSE /\ config_ok' = (config_ok \/ some)
                /\ unsaved' = (unsaved \/ some)
                /\ UNCHANGED <<phase, return_code, lock, dropped>>
        /\ UNCHANGED body

(* The segment with the rest of the body also brings bytes e beyond it. All*)
(* of it is read: content_length falls below zero, so no byte counts as the*)
(* last one, and the loop ends.                                            *)
ReadBeyond(s, e) ==
    LET from == Len(body[s]) - left[s]
        p == ParseChunk(parser, SubSeq(body[s], from + 1, Len(body[s])) \o e,
                        FALSE)
        some == p.accepted # parser.accepted
    IN  /\ phase[s] = "body"
        /\ parser' = p
        /\ left' = [left EXCEPT ![s] = 0 - Len(e)]
        /\ EndRequest(s, IF p.state = "ERROR" THEN "BR" ELSE "OK", p,
                      config_ok \/ some, unsaved \/ some)
        /\ UNCHANGED body

Next ==
    \E s \in Slots :
       \/ Connect(s)
       \/ Gone(s)
       \/ Get(s)
       \/ BadLength(s)
       \/ Refuse(s)
       \/ \E b \in Bodies : Accept(s, b)
       \/ \E n \in 1 .. Len(body[s]) : ReadChunk(s, n)
       \/ \E e \in Surplus : ReadBeyond(s, e)

Spec == Init /\ [][Next]_vars
-----------------------------------------------------------------------------
(* The lock protects the static parser: whoever reads a body has it, hence *)
(* no second body is ever parsed into the same buffers, although the lock  *)
(* outlives connections that close and records that are used again.        *)
ParserIsOwned == \A s \in Slots : phase[s] = "body" => lock = s

(* A POST ends by handing its handlers exactly the pairs its body means,   *)
(* and with 302 exactly for an acceptable body, however TCP cut the body.  *)
(* (A client that sends more than it announced has no such promise.)       *)
AnswerMatchesBody ==
    [][\A s \in Slots :
          phase[s] = "body" /\ phase'[s] = "output" /\ left'[s] >= 0 =>
             /\ parser'.accepted = Meaning(body[s])
             /\ return_code'[s] = "OK" <=> Acceptable(body[s])]_vars

(* A pair that was accepted is announced, and so saved, at the latest when *)
(* its request ends, also when the request ends in an error after it, and  *)
(* when another request took the flag in between. It stays unannounced only*)
(* if an event was dropped by a full queue and none was posted since: the  *)
(* flag is cleared all the same, so nothing makes up for it.               *)
AnnouncedAtEnd ==
    [][\A s \in Slots :
          phase[s] = "body" /\ phase'[s] = "output" => ~unsaved' \/ dropped']_vars

(* httpd-simple.c:109: the lock is NULL or points to the connection which  *)
(* currently has it.                                                       *)
LockIsHeld == lock # NULL => phase[lock] = "body"
=============================================================================
