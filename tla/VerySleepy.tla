------------------------------ MODULE VerySleepy ------------------------------
(***************************************************************************)
(* The very sleepy node (very-sleepy-demo.c): a process that, once per     *)
(* second and on every button or configuration event, decides whether the  *)
(* node is in its normal mode, notifies the observers of its readings, or  *)
(* turns the MAC layer off; and the CoAP resource that reconfigures it.    *)
(*                                                                         *)
(* Time is in seconds. The soft timers count down to 0, which is expired.  *)
(***************************************************************************)
EXTENDS Integers, Sequences

CONSTANTS
    Durations,                  \* durations that a POST may set
    Intervals,                  \* intervals that a POST may set
    NORMAL_OP_DURATION_DEFAULT,
    NORMAL_OP_DURATION_MIN,
    PERIODIC_INTERVAL_DEFAULT,
    KEEP_MAC_ON_MIN_PERIOD,
    MaxQueue,                   \* bound: events waiting for the process
    MaxQuiet                    \* bound: seconds that the history counts

ASSUME DurationsAssumption ==
    /\ NORMAL_OP_DURATION_MIN \in Nat \ {0}
    /\ Durations \subseteq Nat
    /\ NORMAL_OP_DURATION_DEFAULT \in Durations
    /\ \A d \in Durations : d >= NORMAL_OP_DURATION_MIN

ASSUME IntervalsAssumption ==
    /\ Intervals \subseteq Nat \ {0}
    /\ PERIODIC_INTERVAL_DEFAULT \in Intervals

ASSUME LimitsAssumption ==
    /\ KEEP_MAC_ON_MIN_PERIOD \in Nat \ {0}
    /\ MaxQueue \in Nat \ {0}
    /\ MaxQuiet \in Nat

States == {"NORMAL", "NOTIFY_OBSERVERS", "VERY_SLEEPY"}
Events == {"timer", "button", "new_config"}

VARIABLES
    mode,                   \* config.mode = VERY_SLEEPY_MODE_ON
    interval,               \* config.interval
    duration,               \* config.duration
    state,
    st_duration,            \* soft timers
    st_interval,
    st_min_mac_on_duration,
    mac_on,                 \* NETSTACK_MAC
    events,                 \* Contiki's queue of events for the process
    reachable,              \* the default route's neighbour is NBR_REACHABLE
    awake,                  \* history: seconds of this stint, up to the minimum
    quiet,                  \* history: seconds without notification or event
    missed                  \* history: a new configuration's event was "lost";
                            \* "timed": the timers run for it all the same, but
                            \* the first notification is to come; or "none"

timers == <<st_duration, st_interval, st_min_mac_on_duration>>
vars == <<mode, interval, duration, state, timers, mac_on, events, reachable,
          awake, quiet, missed>>

TypeOK ==
    /\ mode \in BOOLEAN
    /\ interval \in Intervals
    /\ duration \in Durations
    /\ state \in States
    /\ st_duration \in Nat
    /\ st_interval \in Nat
    /\ st_min_mac_on_duration \in 0 .. KEEP_MAC_ON_MIN_PERIOD
    /\ mac_on \in BOOLEAN
    /\ events \in Seq(Events)
    /\ reachable \in BOOLEAN
    /\ awake \in 0 .. NORMAL_OP_DURATION_MIN
    /\ quiet \in 0 .. MaxQuiet
    /\ missed \in {"none", "lost", "timed"}

(* After boot: switch_to_normal, and the first pass in a second.           *)
Init ==
    /\ mode = FALSE
    /\ interval = PERIODIC_INTERVAL_DEFAULT
    /\ duration = NORMAL_OP_DURATION_DEFAULT
    /\ state = "NOTIFY_OBSERVERS"
    /\ st_duration = NORMAL_OP_DURATION_DEFAULT
    /\ st_interval = PERIODIC_INTERVAL_DEFAULT
    /\ st_min_mac_on_duration = 0
    /\ mac_on = TRUE
    /\ events = <<>>
    /\ reachable = FALSE
    /\ awake = 0
    /\ quiet = 0
    /\ missed = "none"

(* A soft timer's remaining time a second later.                           *)
Less(t) == IF t = 0 THEN 0 ELSE t - 1

(* A second passes; et_periodic expires. The process is done with its      *)
(* events well within a second.                                            *)
Tick ==
    /\ events = <<>>
    /\ events' = <<"timer">>
    /\ st_duration' = Less(st_duration)
    /\ st_interval' = Less(st_interval)
    /\ st_min_mac_on_duration' = Less(st_min_mac_on_duration)
    /\ awake' = IF awake < NORMAL_OP_DURATION_MIN THEN awake + 1 ELSE awake
    /\ quiet' = IF quiet < MaxQuiet THEN quiet + 1 ELSE quiet
    /\ UNCHANGED <<mode, interval, duration, state, mac_on, reachable, missed>>

(* Neighbour discovery finds or loses the parent.                          *)
ReachabilityChanges ==
    /\ reachable' = ~reachable
    /\ UNCHANGED <<mode, interval, duration, state, timers, mac_on, events,
                   awake, quiet, missed>>

Enqueue(e) ==
    /\ Len(events) < MaxQueue
    /\ events' = Append(events, e)

ButtonPress ==
    /\ Enqueue("button")
    /\ UNCHANGED <<mode, interval, duration, state, timers, mac_on, reachable,
                   awake, quiet, missed>>

(* conf_post_handler, for a POST in which some variable is there and all   *)
(* that are there are good; any other POST changes nothing. The new values *)
(* count at once, the event comes later, or never: nobody looks whether the*)
(* queue, which all processes share, had a place for it.                   *)
ConfPost ==
    /\ \/ Enqueue("new_config") /\ UNCHANGED missed
       \/ UNCHANGED events /\ missed' = "lost"
    /\ mode' \in BOOLEAN
    /\ interval' \in Intervals
    /\ duration' \in Durations
    /\ UNCHANGED <<state, timers, mac_on, reachable, awake, quiet>>
-------------------------------------------------------------------------------
(* Mutant: the period of a lock in progress is not looked at.              *)
KeepMacOnAnew(probing) ==
    LET need == probing \/ ~reachable
    IN  [must |-> need,
         timer |-> IF need THEN KEEP_MAC_ON_MIN_PERIOD
                   ELSE st_min_mac_on_duration]

(* keep_mac_on: the MAC stays on while it is locked on; otherwise network  *)
(* maintenance (a probe that is due, a parent that is not reachable) locks *)
(* it on for KEEP_MAC_ON_MIN_PERIOD.                                       *)
KeepMacOn(probing) ==
    LET locked == st_min_mac_on_duration > 0
        need == probing \/ ~reachable
    IN  [must |-> locked \/ need,
         timer |-> IF ~locked /\ need THEN KEEP_MAC_ON_MIN_PERIOD
                   ELSE st_min_mac_on_duration]

(* Mutant: only restarts the interval.                                     *)
SwitchToNormalShort ==
    [state |-> "NOTIFY_OBSERVERS", duration |-> st_duration,
     interval |-> interval]

(* switch_to_normal: the state and the two timers it leaves.               *)
SwitchToNormal ==
    [state |-> "NOTIFY_OBSERVERS", duration |-> duration,
     interval |-> interval]

(* What the event itself does, before the pass.                            *)
OnEvent(e) ==
    CASE e = "button" -> SwitchToNormal
      [] e = "new_config" -> [state |-> state, duration |-> duration,
                              interval |-> interval]
      [] e = "timer" -> [state |-> state, duration |-> st_duration,
                         interval |-> st_interval]

(* Mutant: a sleeping node does not look at its interval.                  *)
SwitchModesAsleep(s) ==
    CASE s.state = "VERY_SLEEPY" -> s
      [] OTHER -> [s EXCEPT
                     !.state = IF s.duration = 0 /\ mode THEN "VERY_SLEEPY"
                               ELSE "NORMAL",
                     !.duration = IF s.duration = 0 THEN duration ELSE @]

(* The switch between the modes, after observers have been notified.       *)
SwitchModes(s) ==
    CASE s.state = "VERY_SLEEPY" ->
           IF s.interval = 0 THEN SwitchToNormal ELSE s
      [] OTHER -> [s EXCEPT
                     !.state = IF s.duration = 0 /\ mode THEN "VERY_SLEEPY"
                               ELSE "NORMAL",
                     !.duration = IF s.duration = 0 THEN duration ELSE @]

(* What a pass for event e, from state s to state t, makes up for: both    *)
(* events set the timers, a node that wakes up sets them too.              *)
MissedAfter(e, s, t) ==
    CASE e # "timer" -> "none"
      [] e = "timer" /\ s = "VERY_SLEEPY" /\ t # s ->
           IF missed = "lost" THEN "timed" ELSE missed
      [] e = "timer" /\ s = "NOTIFY_OBSERVERS" ->
           IF missed = "timed" THEN "none" ELSE missed
      [] OTHER -> missed

(* One pass of the process for the event at the head of its queue.         *)
Pass ==
    \E probing \in BOOLEAN :
       LET e == Head(events)
           keep == KeepMacOn(probing)
           before == OnEvent(e)
           after == SwitchModes(before)
           woke == after.state = "NOTIFY_OBSERVERS" \/ e = "button"
       IN  /\ events # <<>>
           /\ events' = Tail(events)
           /\ state' = after.state
           /\ st_duration' = after.duration
           /\ st_interval' = after.interval
           /\ st_min_mac_on_duration' = keep.timer
           /\ mac_on' = (keep.must \/ after.state # "VERY_SLEEPY")
           /\ awake' = IF woke THEN 0 ELSE awake
           /\ quiet' = IF before.state = "NOTIFY_OBSERVERS" \/ e = "new_config"
                       THEN 0 ELSE quiet
           /\ missed' = MissedAfter(e, state, after.state)
           /\ UNCHANGED <<mode, interval, duration, reachable>>

Next == Tick \/ ReachabilityChanges \/ ButtonPress \/ ConfPost \/ Pass

Spec == Init /\ [][Next]_vars
-------------------------------------------------------------------------------
(* The MAC is only off in very sleepy mode, and never while it is locked on*)
(* for network maintenance, whatever happens between two passes.           *)
MacKeptOn == ~mac_on => state = "VERY_SLEEPY" /\ st_min_mac_on_duration = 0

(* A stint of normal mode lasts NORMAL_OP_DURATION_MIN seconds at least,   *)
(* whatever is posted or pressed meanwhile: there is always a window in    *)
(* which the node can be reconfigured.                                     *)
StintLasts ==
    [][state # "VERY_SLEEPY" /\ state' = "VERY_SLEEPY"
          => awake = NORMAL_OP_DURATION_MIN]_vars

(* In very sleepy mode the observers hear from the node, or it was         *)
(* reconfigured, at the latest interval + 1 seconds after they last did, or*)
(* duration + 2 if the interval is not the longer one: the node then falls *)
(* asleep after its interval, and it takes one pass more to wake up and one*)
(* to notify. A configuration counts from the pass that sets the timers:   *)
(* that of its event, or the next waking-up if the event was lost.         *)
Settled == \A i \in 1 .. Len(events) : events[i] # "new_config"
Gap == IF interval > duration THEN interval + 1 ELSE duration + 2
NotifiesInTime == mode /\ Settled /\ missed = "none" => quiet <= Gap
-------------------------------------------------------------------------------
(* What the README says, and the code does not do.                         *)

(* README.md:16-17: it notifies subscribers every interval seconds; before *)
(* that, line 14 has the node boot into normal mode, and no line makes the *)
(* notification depend on the mode, or the interval on the duration.       *)
NotifiesEveryInterval == Settled /\ missed = "none" => quiet <= interval + 1

(* README.md:45: mode=0 disables very sleepy mode.                         *)
ModeOffWakes == ~mode /\ events = <<>> => state # "VERY_SLEEPY"
===============================================================================
