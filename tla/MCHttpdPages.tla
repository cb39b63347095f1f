---------------------------- MODULE MCHttpdPages ----------------------------
(* HttpdPages and IndexPage for TLC. IndexPage sees of the segments only   *)
(* that the page waits for some of them, and HttpdPages of the lists only  *)
(* that they make some number of rows; a behaviour shows one of the two,   *)
(* while the other rests in its first state.                               *)
EXTENDS HttpdPages, IndexPage

VARIABLE part

MCInit == Init /\ IndexInit /\ part \in {"segments", "list"}

MCNext ==
    \/ part = "segments" /\ Next /\ UNCHANGED <<indexVars, part>>
    \/ part = "list" /\ IndexNext /\ UNCHANGED <<vars, part>>

MCSpec == MCInit /\ [][MCNext]_<<vars, indexVars, part>>
=============================================================================
