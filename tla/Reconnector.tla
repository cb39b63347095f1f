----------------------------- MODULE Reconnector -----------------------------
(***************************************************************************)
(* What the MQTT client promises, without its timers, events, queue and    *)
(* library: a round of at most RECONNECT_ATTEMPTS attempts at a broker,    *)
(* after which it stops; a connection that proved stable begins the count  *)
(* anew; a new configuration interrupts everything; and where it is the    *)
(* client's own turn, it takes it. MqttClient implements this.             *)
(***************************************************************************)
EXTENDS Naturals

CONSTANTS RECONNECT_ATTEMPTS

VARIABLES
    phase,   \* where the client stands
    n        \* the attempts made in this round

vars == <<phase, n>>

Phases == {"idle", "waiting", "trying", "online", "lost", "paused", "stopped"}

TypeOK == phase \in Phases /\ n \in 0 .. RECONNECT_ATTEMPTS

Init == phase = "idle" /\ n = 0

(* A round begins, with its first attempt if the network is there; or the  *)
(* configuration is no good.                                               *)
Begin ==
    /\ phase = "idle"
    /\ \/ phase' = "waiting" /\ n' = 0
       \/ phase' = "trying" /\ n' = 1
       \/ phase' = "stopped" /\ n' = 0

Attempt ==
    /\ phase = "waiting"
    /\ \/ phase' = "trying" /\ n < RECONNECT_ATTEMPTS /\ n' = n + 1
       \/ phase' = "stopped" /\ n' = 0

(* The attempt ends, well or badly; a connection is lost at any time.      *)
Up == phase = "trying" /\ phase' = "online" /\ UNCHANGED n
Fail == phase = "trying" /\ phase' = "lost" /\ UNCHANGED n
Lose == phase = "online" /\ phase' = "lost" /\ UNCHANGED n

Stable == phase = "online" /\ n' = 0 /\ UNCHANGED phase

Again ==
    /\ phase = "lost" /\ n < RECONNECT_ATTEMPTS
    /\ phase' = "waiting"
    /\ UNCHANGED n

GiveUp ==
    /\ phase = "lost" /\ n = RECONNECT_ATTEMPTS
    /\ phase' = "stopped"
    /\ n' = 0

(* A stopped client begins a round when the user presses its trigger.      *)
Trigger ==
    /\ phase = "stopped"
    /\ \/ phase' = "waiting" /\ n' = 0
       \/ phase' = "trying" /\ n' = 1

(* A new configuration arrives. An attempt at the old broker that is under *)
(* way (and only that) may still succeed; else the configuration is taken. *)
Pause ==
    /\ phase # "paused"
    /\ phase' = "paused"
    /\ n' = IF phase = "trying" THEN n ELSE 0
Ends == phase = "paused" /\ n > 0 /\ n' = 0 /\ UNCHANGED phase
Relapse == phase = "paused" /\ n > 0 /\ phase' = "online" /\ UNCHANGED n
Resume == phase = "paused" /\ n = 0 /\ phase' \in {"idle", "stopped"} /\ n' = 0

Restart == phase' = "idle" /\ n' = 0

Next ==
    \/ Begin \/ Attempt \/ Up \/ Fail \/ Lose \/ Stable \/ Again \/ GiveUp
    \/ Trigger \/ Pause \/ Ends \/ Relapse \/ Resume \/ Restart

(* It is never the client that keeps a round from beginning, an attempt    *)
(* from ending, or a lost connection from being tried again or given up.   *)
Fairness ==
    /\ WF_vars(Begin)
    /\ WF_vars(Up \/ Fail)
    /\ WF_vars(Again \/ GiveUp)

SafeSpec == Init /\ [][Next]_vars
Spec == SafeSpec /\ Fairness
==============================================================================
