------------------------------ MODULE IndexPage ------------------------------
(***************************************************************************)
(* The lists of the web server's index page (generate_index in             *)
(* httpd-simple.c): the protothread walks along RPL's table of routes by   *)
(* pointer, and shows a row of each. Whenever a chunk fills the segment it *)
(* waits, in the middle of a row; until the segment is acknowledged the    *)
(* node goes on, and the table may change under the pointer. (The list of  *)
(* neighbors is walked along in the same way; the readings never change.)  *)
(***************************************************************************)
EXTENDS Naturals, SequencesExt

CONSTANTS
    Routes,   \* the routes that are looked at
    NoRoute,  \* NULL
    MaxRows   \* bound: a page with that many rows never goes on

ASSUME NoRouteAssumption == NoRoute \notin Routes
ASSUME MaxRowsAssumption == MaxRows \in Nat \ {0}

VARIABLES
    table,   \* the list of routes, of uip_ds6_route_head
    r,       \* s->r: the route whose row is shown, or NoRoute at the end
    page,    \* out of the list, in it, or waiting for an acknowledgement
    rows,    \* history: the routes whose rows were begun
    steady,  \* history: the routes that kept their places since the list began
    astray   \* history: the route that the page waited at was removed or moved

indexVars == <<table, r, page, rows, steady, astray>>

IndexTypeOK ==
    /\ table \in Seq(Routes) /\ IsInjective(table)
    /\ r \in Routes \cup {NoRoute}
    /\ page \in {"out", "in", "waiting"}
    /\ rows \in Seq(Routes) /\ Len(rows) <= MaxRows
    /\ steady \subseteq Range(table)
    /\ astray \in BOOLEAN

IndexInit ==
    /\ table = <<>>
    /\ r = NoRoute
    /\ page = "out"
    /\ rows = <<>>
    /\ steady = {}
    /\ astray = FALSE

(* uip_ds6_route_head                                                      *)
First == IF table = <<>> THEN NoRoute ELSE Head(table)

(* Mutant: the page counts its rows instead of following the pointer.      *)
SuccessorsByNumber ==
    IF Len(rows') < Len(table) THEN {table[Len(rows') + 1]} ELSE {NoRoute}

(* uip_ds6_route_next: the next route, NULL behind the last one. What the  *)
(* record of a removed route points to is whatever it holds by then.       *)
Successors ==
    IF r \in Range(table)
    THEN LET i == CHOOSE j \in DOMAIN table : table[j] = r
         IN  IF i < Len(table) THEN {table[i + 1]} ELSE {NoRoute}
    ELSE Range(table) \cup {NoRoute}

(* The loop starts: each page begins anew.                                 *)
EnterList ==
    /\ page = "out"
    /\ page' = "in"
    /\ r' = First
    /\ rows' = <<>>
    /\ steady' = Range(table)
    /\ astray' = FALSE
    /\ UNCHANGED table

(* A row is made. Either all of its chunks find room in the segment, and   *)
(* the loop goes on, or it waits in one of them.                           *)
ShowRow ==
    /\ page = "in" /\ r # NoRoute
    /\ rows' = Append(rows, r)
    /\ \/ Len(rows') < MaxRows /\ r' \in Successors /\ UNCHANGED page
       \/ page' = "waiting" /\ UNCHANGED r
    /\ UNCHANGED <<table, steady, astray>>

(* The segment is acknowledged; the rest of the row, which may fill another*)
(* one, and the next route.                                                *)
GoOn ==
    /\ page = "waiting"
    /\ Len(rows) < MaxRows
    /\ UNCHANGED <<table, rows, steady, astray>>
    /\ \/ page' = "in" /\ r' \in Successors
       \/ UNCHANGED <<page, r>>

LeaveList ==
    /\ page = "in" /\ r = NoRoute
    /\ page' = "out"
    /\ UNCHANGED <<table, r, rows, steady, astray>>

(* The connection is gone.                                                 *)
PageGone ==
    /\ page = "waiting"
    /\ page' = "out"
    /\ r' = NoRoute
    /\ rows' = <<>>
    /\ steady' = {}
    /\ UNCHANGED <<table, astray>>

(* RPL adds a route, drops one, or moves one to another place in the list; *)
(* never while the page is made without waiting.                           *)
RouteIsAdded(x) ==
    /\ page # "in"
    /\ x \notin Range(table)
    /\ \E i \in 1 .. Len(table) + 1 : table' = InsertAt(table, i, x)
    /\ UNCHANGED <<r, page, rows, steady, astray>>
RouteIsDropped(x) ==
    /\ page # "in"
    /\ \E j \in DOMAIN table : table[j] = x /\ table' = RemoveAt(table, j)
    /\ steady' = steady \ {x}
    /\ astray' = (astray \/ x = r)
    /\ UNCHANGED <<r, page, rows>>
RouteIsMoved(x) ==
    /\ page # "in"
    /\ \E i, j \in DOMAIN table :
          table[j] = x /\ table' = InsertAt(RemoveAt(table, j), i, x)
    /\ steady' = steady \ {x}
    /\ astray' = (astray \/ x = r)
    /\ UNCHANGED <<r, page, rows>>

IndexNext ==
    \/ EnterList \/ ShowRow \/ GoOn \/ LeaveList \/ PageGone
    \/ \E x \in Routes : RouteIsAdded(x) \/ RouteIsDropped(x) \/ RouteIsMoved(x)

IndexSpec == IndexInit /\ [][IndexNext]_indexVars
-------------------------------------------------------------------------------
(* Where the pointer's own route stays in its place whenever the page      *)
(* waits, the page shows every other route that does so exactly once,      *)
(* however RPL changes the rest of the table. Nothing is said of a page    *)
(* whose pointer lost its route (astray): the code reads the record of a   *)
(* route that is gone, and may show routes twice or leave out the rest.    *)
ShowsEachRouteOnce ==
    page = "out" /\ ~astray =>
       \A x \in steady : Cardinality({i \in DOMAIN rows : rows[i] = x}) = 1
===============================================================================
