----------------------------- MODULE NodeNetwork -----------------------------
(***************************************************************************)
(* What the node does for its place in the network, while RPL gives and    *)
(* takes its address, its root and its default route at any time:          *)
(* - the 6LBR client (cetic-6lbr-client.c) reports once a minute to the    *)
(*   root of the DODAG, through a connection that follows the root;        *)
(* - the main process (cc26xx-web-demo.c) blinks while there is no address,*)
(*   and pings its default router, to read the signal strength off the     *)
(*   reply. Two timers drive the main process; it does not ask which of    *)
(*   them an event came from, but which of them are expired.               *)
(***************************************************************************)
EXTENDS FiniteSets

CONSTANTS
    Roots,    \* the DODAG roots that are looked at
    Routers,  \* the default routers that are looked at
    None

ASSUME NoneAssumption == None \notin Roots \cup Routers

(* The etimers of the main process.                                        *)
Timers == {"et", "echo_request_timer"}

VARIABLES
    address,  \* uip_ds6_get_global finds a preferred address
    root,     \* of the DAG that rpl_get_any_dag finds, or None
    route,    \* uip_ds6_defrt_choose, or None
    full,     \* the other processes use all UDP connections but the client's
    client_conn,  \* the root that the client's connection goes to, or None
    running,  \* the etimers that have not expired
    fired,    \* the etimers whose event is in the queue
    led,      \* the status LED is on
    echoes,   \* the routers whose echo reply may still come
    rssi      \* the router whose signal strength def_rt_rssi is, or None

networkVars == <<address, root, route, full, client_conn, running, fired, led,
                 echoes, rssi>>

NetworkTypeOK ==
    /\ address \in BOOLEAN
    /\ root \in Roots \cup {None}
    /\ route \in Routers \cup {None}
    /\ full \in BOOLEAN
    /\ client_conn \in Roots \cup {None}
    /\ running \subseteq Timers
    /\ fired \subseteq Timers
    /\ led \in BOOLEAN
    /\ echoes \subseteq Routers
    /\ rssi \in Routers \cup {None}

NetworkInit ==
    /\ address = FALSE
    /\ root = None
    /\ route = None
    /\ full = FALSE
    /\ client_conn = None
    /\ running = Timers
    /\ fired = {}
    /\ led = FALSE
    /\ echoes = {}
    /\ rssi = None
-------------------------------------------------------------------------------
(* RPL, neighbor discovery and the other processes' connections.           *)
NetworkChanges ==
    /\ \/ address' \in BOOLEAN /\ UNCHANGED <<root, route, full>>
       \/ root' \in Roots \cup {None} /\ UNCHANGED <<address, route, full>>
       \/ route' \in Routers \cup {None} /\ UNCHANGED <<address, root, full>>
       \/ full' \in BOOLEAN /\ UNCHANGED <<address, root, route>>
    /\ UNCHANGED <<client_conn, running, fired, led, echoes, rssi>>

(* Mutant: the new connection is opened before the old one is removed.     *)
ReconnectFirst == IF full THEN None ELSE root

(* The connection after udp_new. It finds room if there was any, or if one *)
(* to the former root was removed first.                                   *)
Reconnect == IF client_conn = None /\ full THEN None ELSE root

(* timeout_handler of the client, once a minute: it knows its destination  *)
(* if it has an address and a DAG, and reports if it has a connection.     *)
TimeoutHandler ==
    /\ client_conn' = IF address /\ root # None THEN Reconnect ELSE client_conn
    /\ UNCHANGED <<address, root, route, full, running, fired, led, echoes, rssi>>
-------------------------------------------------------------------------------
(* The main process.                                                       *)

(* An etimer expires; the event of its last expiry has been delivered.     *)
TimerExpires(t) ==
    /\ t \in running \ fired
    /\ running' = running \ {t}
    /\ fired' = fired \cup {t}
    /\ UNCHANGED <<address, root, route, full, client_conn, led, echoes, rssi>>

(* Mutants: each event only concerns its own timer; a node that has pinged *)
(* does not ping again.                                                    *)
TimerEventOwn(t) ==
    /\ t \in fired
    /\ fired' = fired \ {t}
    /\ led' = (led \/ (t = "et" /\ ~address))
    /\ running' = running \cup ({t} \ (IF address THEN {"et"} ELSE {}))
    /\ echoes' = IF t = "echo_request_timer" /\ address /\ route # None
                 THEN echoes \cup {route} ELSE echoes
    /\ UNCHANGED <<address, root, route, full, client_conn, rssi>>
TimerEventOnce(t) ==
    /\ t \in fired
    /\ fired' = fired \ {t}
    /\ led' = (led \/ ("et" \notin running /\ ~address))
    /\ running' = IF address THEN running ELSE Timers
    /\ echoes' = IF "echo_request_timer" \notin running /\ address /\ route # None
                 THEN echoes \cup {route} ELSE echoes
    /\ UNCHANGED <<address, root, route, full, client_conn, rssi>>

(* A timer's event. If et is expired, the node without an address blinks   *)
(* and sets it again; if echo_request_timer is, the node with one pings,   *)
(* and sets it again in any case. (ping_parent without a default route     *)
(* reads the destination through NULL: nobody answers such a ping.)        *)
TimerEvent(t) ==
    /\ t \in fired
    /\ fired' = fired \ {t}
    /\ led' = (led \/ ("et" \notin running /\ ~address))
    /\ running' = running \cup {"echo_request_timer"}
                          \cup (IF address THEN {} ELSE {"et"})
    /\ echoes' = IF "echo_request_timer" \notin running /\ address /\ route # None
                 THEN echoes \cup {route} ELSE echoes
    /\ UNCHANGED <<address, root, route, full, client_conn, rssi>>

(* publish_led_off, by the ctimer.                                         *)
PublishLedOff ==
    /\ led
    /\ led' = FALSE
    /\ UNCHANGED <<address, root, route, full, client_conn, running, fired,
                   echoes, rssi>>

(* echo_reply_handler: a reply counts if its source is the default router. *)
EchoReplyHandler(r) ==
    /\ r \in echoes
    /\ echoes' = echoes \ {r}
    /\ rssi' = IF r = route THEN r ELSE rssi
    /\ UNCHANGED <<address, root, route, full, client_conn, running, fired, led>>

(* The request or the reply is lost.                                       *)
EchoIsLost(r) ==
    /\ r \in echoes
    /\ echoes' = echoes \ {r}
    /\ UNCHANGED <<address, root, route, full, client_conn, running, fired, led,
                   rssi>>

NetworkNext ==
    \/ NetworkChanges
    \/ TimeoutHandler
    \/ \E t \in Timers : TimerExpires(t) \/ TimerEvent(t)
    \/ PublishLedOff
    \/ \E r \in Routers : EchoReplyHandler(r) \/ EchoIsLost(r)

NetworkSpec == NetworkInit /\ [][NetworkNext]_networkVars

(* Timers expire, Contiki delivers their events, and the link does not lose*)
(* every reply of a router.                                                *)
NetworkFairness ==
    /\ WF_networkVars(TimeoutHandler)
    /\ \A t \in Timers :
          WF_networkVars(TimerExpires(t)) /\ WF_networkVars(TimerEvent(t))
    /\ WF_networkVars(PublishLedOff)
    /\ \A r \in Routers : SF_networkVars(EchoReplyHandler(r))
-------------------------------------------------------------------------------
(* The client's reports go to the root there is: if it stays, and the pool *)
(* of connections gives the client one at any time, the client ends up with*)
(* a connection to that root, even if the others use all of the pool when  *)
(* the root changes.                                                       *)
ReportsFollowRoot ==
    \A r \in Roots :
       <>[](address /\ root = r) /\ (<>(client_conn # None) \/ <>[]~full)
          => <>[](client_conn = r)

(* The signal strength that is published ends up as that of the router that*)
(* stays, however often address, router and replies came and went before.  *)
RssiFollowsRoute ==
    \A r \in Routers : <>[](address /\ route = r) => <>[](rssi = r)

(* A node without an address goes on blinking, also when it has had one in *)
(* between: et is not set then, but the other timer's event finds it       *)
(* expired.                                                                *)
BlinksWithoutAddress == <>[]~address => []<>led /\ []<>~led
===============================================================================
