--------------------------- MODULE VerySleepy_proofs ---------------------------
(***************************************************************************)
(* Theorems about VerySleepy, for every choice of durations and intervals, *)
(* every minimal duration and every length of the event queue.             *)
(***************************************************************************)
EXTENDS VerySleepy, TLAPS

(* The second's event is the first of the queue or not in it: a second only*)
(* passes when the process is done with its events.                        *)
OneTimer == \A i \in 2 .. Len(events) : events[i] # "timer"
TickPending == events # <<>> /\ Head(events) = "timer"

(* A stint has lasted its minimum when its timer expires; the timer is     *)
(* looked at within the second in which it expires.                        *)
StintCounted ==
    /\ state # "VERY_SLEEPY" => awake + st_duration >= NORMAL_OP_DURATION_MIN
    /\ state = "NORMAL" /\ ~TickPending => st_duration > 0

(* A node that is to notify has just set its timers for the present        *)
(* configuration, unless that one's event waits or was lost.               *)
TimersFit ==
    Settled /\ missed # "lost" /\ state = "NOTIFY_OBSERVERS" =>
       st_duration <= duration /\ st_interval <= interval

(* The time without a notification and what the timers have left add up to *)
(* what they were set to, once in every mode of the cycle.                 *)
QuietCounted ==
    mode /\ Settled /\ missed = "none" =>
       /\ state = "NORMAL" =>
             /\ quiet + st_duration <= duration
             /\ st_interval = 0 \/ quiet + st_interval <= interval
       /\ state = "VERY_SLEEPY" =>
             \/ st_interval > 0 /\ quiet + st_interval <= interval
             \/ st_interval = 0 /\ quiet <= duration
             \/ TickPending /\ st_interval = 0 /\ quiet + 1 <= Gap
       /\ state = "NOTIFY_OBSERVERS" =>
             \/ quiet + 1 <= Gap
             \/ TickPending /\ quiet <= Gap

Inv == TypeOK /\ MacKeptOn /\ OneTimer /\ StintCounted /\ TimersFit
       /\ QuietCounted

(* The constants' types, as the proofs use them.                           *)
LEMMA Constants ==
    /\ Durations \subseteq Nat \ {0} /\ Intervals \subseteq Nat \ {0}
    /\ NORMAL_OP_DURATION_MIN \in Nat \ {0}
    /\ KEEP_MAC_ON_MIN_PERIOD \in Nat \ {0}
    /\ MaxQuiet \in Nat
    /\ \A d \in Durations : d >= NORMAL_OP_DURATION_MIN
BY DurationsAssumption, IntervalsAssumption, LimitsAssumption

LEMMA GapType ==
    ASSUME TypeOK
    PROVE  Gap \in Nat /\ Gap >= interval + 1 /\ Gap >= duration + 2
BY Constants DEF TypeOK, Gap

LEMMA InitInv == Init => Inv
<1> SUFFICES ASSUME Init PROVE Inv
  OBVIOUS
<1>1. /\ duration \in Durations /\ interval \in Intervals
      /\ events \in Seq(Events) /\ Len(events) = 0
      /\ duration >= NORMAL_OP_DURATION_MIN
  BY DurationsAssumption, IntervalsAssumption DEF Init
<1>2. duration \in Nat /\ interval \in Nat
  BY <1>1, Constants
<1>3. TypeOK
  <2>1. /\ 0 \in 0 .. KEEP_MAC_ON_MIN_PERIOD /\ 0 \in 0 .. MaxQuiet
        /\ 0 \in 0 .. NORMAL_OP_DURATION_MIN
    BY Constants
  <2>2. st_duration \in Nat /\ st_interval \in Nat
    BY <1>2 DEF Init
  <2>3. QED BY <1>1, <2>1, <2>2 DEF Init, TypeOK, States
<1>4. Gap \in Nat /\ Gap >= duration + 2 /\ duration \in Nat
  BY <1>2, <1>3, GapType
<1>5. MacKeptOn /\ OneTimer /\ TimersFit
  BY <1>1, <1>2 DEF Init, timers, MacKeptOn, OneTimer, TimersFit
<1>6. StintCounted
  BY <1>1, <1>2, Constants DEF Init, timers, StintCounted
<1>7. QuietCounted
  BY <1>4 DEF Init, timers, QuietCounted
<1>8. QED BY <1>3, <1>5, <1>6, <1>7 DEF Inv

--------------------------------------------------------------------------------
LEMMA TickInv == ASSUME Inv, Tick PROVE Inv'
<1> USE DEF Inv
<1>1. TypeOK'
  <2>1. events' \in Seq(Events)
    BY DEF Tick, Events
  <2>2. /\ st_duration' \in Nat /\ st_interval' \in Nat
        /\ st_min_mac_on_duration' \in 0 .. KEEP_MAC_ON_MIN_PERIOD
    BY Constants DEF Tick, TypeOK, Less
  <2>3. awake' \in 0 .. NORMAL_OP_DURATION_MIN /\ quiet' \in 0 .. MaxQuiet
    BY Constants DEF Tick, TypeOK
  <2>4. QED BY <2>1, <2>2, <2>3 DEF Tick, TypeOK
<1>2. MacKeptOn'
  BY DEF MacKeptOn, Tick, Less
<1>3. Len(events') = 1 /\ events'[1] = "timer" /\ TickPending' /\ Settled
  BY DEF Tick, TickPending, Settled
<1>4. OneTimer'
  BY <1>3 DEF OneTimer
<1>5. /\ ~TickPending /\ missed' = missed
      /\ Gap' = Gap /\ Gap \in Nat /\ Gap >= interval + 1 /\ Gap >= duration + 2
  BY GapType DEF Tick, TickPending, Gap
<1>6. StintCounted'
  <2>1. /\ awake \in Nat /\ st_duration \in Nat
        /\ awake <= NORMAL_OP_DURATION_MIN
        /\ NORMAL_OP_DURATION_MIN \in Nat
    BY Constants DEF TypeOK
  <2>2. QED BY <1>3, <2>1 DEF Tick, Less, StintCounted
<1>7. TimersFit'
  <2>1. /\ st_duration \in Nat /\ st_interval \in Nat
        /\ duration \in Nat /\ interval \in Nat
    BY Constants DEF TypeOK
  <2>2. QED BY <1>3, <1>5, <2>1 DEF Tick, Less, TimersFit
<1>8. quiet' \in Nat /\ quiet' <= quiet + 1
  BY Constants DEF TypeOK, Tick
<1>9. QuietCounted'
  <2> SUFFICES ASSUME mode', missed' = "none" PROVE QuietCounted'
    BY DEF QuietCounted
  <2>1. mode /\ missed = "none" /\ QuietCounted
    BY <1>5 DEF Tick
  <2>2. /\ st_duration \in Nat /\ st_interval \in Nat /\ quiet \in Nat
        /\ duration \in Nat /\ interval \in Nat
    BY Constants DEF TypeOK
  <2>3. CASE state = "NORMAL"
    <3>1. st_duration > 0
      BY <2>3, <1>5 DEF StintCounted
    <3>2. quiet' + st_duration' <= duration'
      BY <2>1, <2>2, <2>3, <3>1, <1>3, <1>8 DEF Tick, Less, QuietCounted
    <3>3. st_interval' = 0 \/ quiet' + st_interval' <= interval'
      BY <2>1, <2>2, <2>3, <1>3, <1>8 DEF Tick, Less, QuietCounted
    <3>4. QED BY <2>3, <3>2, <3>3 DEF Tick, QuietCounted
  <2>4. CASE state = "VERY_SLEEPY"
    <3>1. \/ st_interval > 0 /\ quiet + st_interval <= interval
          \/ st_interval = 0 /\ quiet <= duration
      BY <2>1, <2>4, <1>3, <1>5 DEF QuietCounted
    <3>2. \/ st_interval' > 0 /\ quiet' + st_interval' <= interval'
          \/ st_interval' = 0 /\ quiet' + 1 <= Gap'
      BY <3>1, <2>2, <1>5, <1>8 DEF Tick, Less
    <3>3. QED BY <2>4, <3>2, <1>3 DEF Tick, QuietCounted
  <2>5. CASE state = "NOTIFY_OBSERVERS"
    <3>1. quiet + 1 <= Gap
      BY <2>1, <2>5, <1>3, <1>5 DEF QuietCounted
    <3>2. quiet' <= Gap'
      BY <3>1, <2>2, <1>5, <1>8
    <3>3. QED BY <2>5, <3>2, <1>3 DEF Tick, QuietCounted
  <2>6. QED BY <2>3, <2>4, <2>5 DEF TypeOK, States
<1>10. QED BY <1>1, <1>2, <1>4, <1>6, <1>7, <1>9

--------------------------------------------------------------------------------
(* An event is queued behind the others.                                   *)
LEMMA EnqueueFacts ==
    ASSUME TypeOK, NEW e \in Events, Enqueue(e)
    PROVE  /\ events' \in Seq(Events)
           /\ Len(events') = Len(events) + 1
           /\ \A i \in 1 .. Len(events) : events'[i] = events[i]
           /\ events'[Len(events) + 1] = e
           /\ events' # <<>>
BY DEF TypeOK, Enqueue

LEMMA EnqueueTimer ==
    ASSUME TypeOK, OneTimer, NEW e \in Events \ {"timer"}, Enqueue(e)
    PROVE  OneTimer' /\ TickPending' = TickPending
<1>1. /\ events \in Seq(Events) /\ Len(events) \in Nat
      /\ events = <<>> <=> Len(events) = 0
  BY DEF TypeOK
<1>2. OneTimer'
  BY <1>1, EnqueueFacts DEF OneTimer
<1>3. Head(events') = events'[1]
  BY EnqueueFacts
<1>4. CASE events = <<>>
  <2>1. Head(events') = e
    BY <1>1, <1>3, <1>4, EnqueueFacts
  <2>2. QED BY <1>2, <1>4, <2>1 DEF TickPending
<1>5. CASE events # <<>>
  <2>1. Head(events') = Head(events)
    BY <1>1, <1>3, <1>5, EnqueueFacts
  <2>2. QED BY <1>2, <1>5, <2>1, EnqueueFacts DEF TickPending
<1>6. QED BY <1>4, <1>5

LEMMA ButtonPressInv == ASSUME Inv, ButtonPress PROVE Inv'
<1> USE DEF Inv
<1>1. Enqueue("button") /\ "button" \in Events \ {"timer"}
  BY DEF ButtonPress, Events
<1>2. OneTimer' /\ TickPending' = TickPending
  BY <1>1, EnqueueTimer
<1>3. TypeOK'
  BY <1>1, EnqueueFacts DEF ButtonPress, timers, TypeOK
<1>4. Len(events) \in Nat
  BY DEF TypeOK
<1>5. Settled' => Settled
  BY <1>1, <1>4, EnqueueFacts DEF Settled
<1>6. Gap' = Gap
  BY DEF ButtonPress, timers, Gap
<1>7. MacKeptOn' /\ StintCounted' /\ TimersFit' /\ QuietCounted'
  BY <1>2, <1>5, <1>6
  DEF ButtonPress, timers, MacKeptOn, StintCounted, TimersFit, QuietCounted
<1>8. QED BY <1>2, <1>3, <1>7

LEMMA ConfPostInv == ASSUME Inv, ConfPost PROVE Inv'
<1> USE DEF Inv
<1>1. "new_config" \in Events \ {"timer"} /\ Len(events) \in Nat
  BY DEF Events, TypeOK
<1>2. CASE Enqueue("new_config") /\ UNCHANGED missed
  <2>1. OneTimer' /\ TickPending' = TickPending
    BY <1>1, <1>2, EnqueueTimer
  <2>2. TypeOK'
    BY <1>1, <1>2, EnqueueFacts DEF ConfPost, timers, TypeOK
  <2>3. ~Settled'
    BY <1>1, <1>2, EnqueueFacts DEF Settled
  <2>4. MacKeptOn' /\ StintCounted' /\ TimersFit' /\ QuietCounted'
    BY <2>1, <2>3
    DEF ConfPost, timers, MacKeptOn, StintCounted, TimersFit, QuietCounted
  <2>5. QED BY <2>1, <2>2, <2>4
<1>3. CASE UNCHANGED events /\ missed' = "lost"
  <2>1. OneTimer' /\ TickPending' = TickPending
    BY <1>3 DEF OneTimer, TickPending
  <2>2. TypeOK'
    BY <1>3 DEF ConfPost, timers, TypeOK
  <2>3. MacKeptOn' /\ StintCounted' /\ TimersFit' /\ QuietCounted'
    BY <1>3, <2>1
    DEF ConfPost, timers, MacKeptOn, StintCounted, TimersFit, QuietCounted
  <2>4. QED BY <2>1, <2>2, <2>3
<1>4. QED BY <1>2, <1>3 DEF ConfPost

LEMMA OtherInv ==
    ASSUME Inv, ReachabilityChanges \/ UNCHANGED vars PROVE Inv'
<1> USE DEF Inv
<1>1. /\ events' = events /\ state' = state /\ mode' = mode
      /\ interval' = interval /\ duration' = duration
      /\ st_duration' = st_duration /\ st_interval' = st_interval
      /\ st_min_mac_on_duration' = st_min_mac_on_duration
      /\ mac_on' = mac_on /\ awake' = awake /\ quiet' = quiet
      /\ missed' = missed
      /\ reachable' \in BOOLEAN
  BY DEF ReachabilityChanges, vars, timers, TypeOK
<1>2. TypeOK'
  BY <1>1 DEF TypeOK
<1>3. OneTimer' /\ TickPending' = TickPending /\ Settled' = Settled
      /\ Gap' = Gap
  BY <1>1 DEF OneTimer, TickPending, Settled, Gap
<1>4. QED
  BY <1>1, <1>2, <1>3 DEF MacKeptOn, StintCounted, TimersFit, QuietCounted

--------------------------------------------------------------------------------
(* A pass takes its event from the head of the queue.                      *)
LEMMA PassQueue ==
    ASSUME TypeOK, OneTimer, Pass
    PROVE  /\ Head(events) \in Events
           /\ events' \in Seq(Events)
           /\ OneTimer' /\ ~TickPending'
           /\ Settled' /\ Head(events) # "new_config" => Settled
           /\ TickPending <=> Head(events) = "timer"
<1>1. events # <<>> /\ events' = Tail(events) /\ events \in Seq(Events)
  BY DEF Pass, TypeOK
<1>2. /\ Head(events) = events[1] /\ Head(events) \in Events
      /\ Len(events) \in Nat \ {0}
      /\ events' \in Seq(Events) /\ Len(events') = Len(events) - 1
      /\ \A i \in 1 .. Len(events') : events'[i] = events[i + 1]
  BY <1>1
<1>3. \A i \in 1 .. Len(events') : events'[i] # "timer"
  BY <1>2 DEF OneTimer
<1>4. OneTimer'
  BY <1>2, <1>3 DEF OneTimer
<1>5. ~TickPending'
  BY <1>2, <1>3 DEF TickPending
<1>6. ASSUME Settled', Head(events) # "new_config" PROVE Settled
  <2> SUFFICES ASSUME NEW i \in 1 .. Len(events) PROVE events[i] # "new_config"
    BY DEF Settled
  <2>1. CASE i = 1
    BY <2>1, <1>2, <1>6
  <2>2. CASE i # 1
    <3>1. i - 1 \in 1 .. Len(events') /\ (i - 1) + 1 = i
      BY <2>2, <1>2
    <3>2. QED BY <3>1, <1>2, <1>6 DEF Settled
  <2>3. QED BY <2>1, <2>2
<1>7. QED BY <1>1, <1>2, <1>4, <1>5, <1>6 DEF TickPending

(* The MAC, whatever the pass is for.                                      *)
LEMMA PassMac ==
    ASSUME TypeOK, Pass
    PROVE  /\ MacKeptOn'
           /\ st_min_mac_on_duration' \in 0 .. KEEP_MAC_ON_MIN_PERIOD
           /\ mac_on' \in BOOLEAN
<1>1. PICK probing \in BOOLEAN :
         /\ st_min_mac_on_duration' = KeepMacOn(probing).timer
         /\ mac_on' = (KeepMacOn(probing).must \/ state' # "VERY_SLEEPY")
  BY DEF Pass
<1>2. /\ KeepMacOn(probing).timer \in 0 .. KEEP_MAC_ON_MIN_PERIOD
      /\ ~KeepMacOn(probing).must => KeepMacOn(probing).timer = 0
  <2>1. CASE st_min_mac_on_duration > 0
    BY <2>1 DEF TypeOK, KeepMacOn
  <2>2. CASE st_min_mac_on_duration = 0 /\ (probing \/ ~reachable)
    <3>1. KeepMacOn(probing).timer = KEEP_MAC_ON_MIN_PERIOD
      BY <2>2 DEF KeepMacOn
    <3>2. KeepMacOn(probing).must
      BY <2>2 DEF KeepMacOn
    <3>3. QED BY <3>1, <3>2, Constants
  <2>3. CASE st_min_mac_on_duration = 0 /\ ~(probing \/ ~reachable)
    BY <2>3, Constants DEF KeepMacOn
  <2>4. QED BY <2>1, <2>2, <2>3 DEF TypeOK
<1>3. QED BY <1>1, <1>2 DEF MacKeptOn

(* What a pass leaves alone.                                               *)
Kept == mode' = mode /\ interval' = interval /\ duration' = duration
        /\ reachable' = reachable

(* What a pass does for each event, as one case each.                      *)
LEMMA ButtonPass ==
    ASSUME TypeOK, Pass, Head(events) = "button"
    PROVE  /\ Kept
           /\ state' = "NORMAL" /\ awake' = 0 /\ quiet' = 0 /\ missed' = "none"
           /\ st_duration' = duration /\ st_interval' = interval
<1>1. duration # 0
  BY Constants DEF TypeOK
<1>2. QED BY <1>1 DEF Pass, OnEvent, SwitchModes, SwitchToNormal, Kept, MissedAfter

LEMMA NewConfigPass ==
    ASSUME TypeOK, Pass, Head(events) = "new_config"
    PROVE  /\ Kept
           /\ state' = IF state = "VERY_SLEEPY" THEN state ELSE "NORMAL"
           /\ awake' = awake /\ quiet' = 0 /\ missed' = "none"
           /\ st_duration' = duration /\ st_interval' = interval
<1>1. duration # 0 /\ interval # 0
  BY Constants DEF TypeOK
<1>2. QED BY <1>1 DEF Pass, OnEvent, SwitchModes, SwitchToNormal, Kept, MissedAfter

LEMMA WakingPass ==
    ASSUME TypeOK, Pass, Head(events) = "timer", state = "VERY_SLEEPY",
           st_interval = 0
    PROVE  /\ Kept
           /\ state' = "NOTIFY_OBSERVERS" /\ awake' = 0 /\ quiet' = quiet
           /\ missed' = IF missed = "lost" THEN "timed" ELSE missed
           /\ st_duration' = duration /\ st_interval' = interval
BY DEF Pass, OnEvent, SwitchModes, SwitchToNormal, Kept, MissedAfter

LEMMA SleepingPass ==
    ASSUME TypeOK, Pass, Head(events) = "timer", state = "VERY_SLEEPY",
           st_interval # 0
    PROVE  /\ Kept
           /\ state' = state /\ awake' = awake /\ quiet' = quiet
           /\ missed' = missed
           /\ st_duration' = st_duration /\ st_interval' = st_interval
BY DEF Pass, OnEvent, SwitchModes, SwitchToNormal, Kept, MissedAfter

LEMMA NormalPass ==
    ASSUME TypeOK, Pass, Head(events) = "timer", state # "VERY_SLEEPY"
    PROVE  /\ Kept
           /\ state' = IF st_duration = 0 /\ mode THEN "VERY_SLEEPY"
                       ELSE "NORMAL"
           /\ awake' = awake
           /\ quiet' = IF state = "NOTIFY_OBSERVERS" THEN 0 ELSE quiet
           /\ missed' = IF state = "NOTIFY_OBSERVERS" /\ missed = "timed"
                        THEN "none" ELSE missed
           /\ st_duration' = IF st_duration = 0 THEN duration ELSE st_duration
           /\ st_interval' = st_interval
BY DEF Pass, OnEvent, SwitchModes, SwitchToNormal, Kept, MissedAfter

LEMMA PassInv == ASSUME Inv, Pass PROVE Inv'
<1> USE DEF Inv
<1>1. /\ duration \in Nat /\ interval \in Nat /\ quiet \in Nat /\ awake \in Nat
      /\ st_duration \in Nat /\ st_interval \in Nat
      /\ duration >= NORMAL_OP_DURATION_MIN /\ NORMAL_OP_DURATION_MIN \in Nat
      /\ duration > 0 /\ interval > 0
      /\ awake \in 0 .. NORMAL_OP_DURATION_MIN /\ quiet \in 0 .. MaxQuiet
      /\ 0 \in 0 .. NORMAL_OP_DURATION_MIN /\ 0 \in 0 .. MaxQuiet
      /\ missed \in {"none", "lost", "timed"}
  BY Constants DEF TypeOK
<1>2. Gap \in Nat /\ Gap >= interval + 1 /\ Gap >= duration + 2
  BY GapType
<1>3. Kept => Gap' = Gap
  BY DEF Kept, Gap
<1>4. Kept /\ awake' \in 0 .. NORMAL_OP_DURATION_MIN /\ quiet' \in 0 .. MaxQuiet
      /\ st_duration' \in Nat /\ st_interval' \in Nat /\ state' \in States
      /\ missed' \in {"none", "lost", "timed"}
         => TypeOK'
  BY PassQueue, PassMac DEF TypeOK, Kept
<1>5. CASE Head(events) = "button"
  <2>1. TypeOK'
    BY <1>1, <1>4, <1>5, ButtonPass DEF States
  <2>2. StintCounted' /\ TimersFit' /\ QuietCounted'
    BY <1>1, <1>5, ButtonPass DEF Kept, StintCounted, TimersFit, QuietCounted
  <2>3. QED BY <2>1, <2>2, PassQueue, PassMac
<1>6. CASE Head(events) = "new_config"
  <2>1. TypeOK'
    BY <1>1, <1>4, <1>6, NewConfigPass DEF States
  <2>2. StintCounted'
    BY <1>1, <1>6, NewConfigPass DEF StintCounted
  <2>3. TimersFit'
    BY <1>6, NewConfigPass DEF TimersFit
  <2>4. QuietCounted'
    BY <1>1, <1>2, <1>3, <1>6, NewConfigPass DEF Kept, QuietCounted
  <2>5. QED BY <2>1, <2>2, <2>3, <2>4, PassQueue, PassMac
<1>7. CASE Head(events) = "timer" /\ state = "VERY_SLEEPY" /\ st_interval = 0
  <2>1. TypeOK'
    BY <1>1, <1>4, <1>7, WakingPass DEF States
  <2>2. StintCounted' /\ TimersFit'
    BY <1>1, <1>7, WakingPass DEF Kept, StintCounted, TimersFit
  <2>3. mode /\ Settled' /\ missed' = "none" => quiet + 1 <= Gap
    BY <1>1, <1>2, <1>7, PassQueue, WakingPass DEF QuietCounted
  <2>4. QuietCounted'
    BY <1>3, <1>7, <2>3, WakingPass DEF Kept, QuietCounted
  <2>5. QED BY <2>1, <2>2, <2>4, PassQueue, PassMac
<1>8. CASE Head(events) = "timer" /\ state = "VERY_SLEEPY" /\ st_interval # 0
  <2>1. TypeOK'
    BY <1>1, <1>4, <1>8, SleepingPass DEF TypeOK
  <2>2. StintCounted' /\ TimersFit'
    BY <1>8, SleepingPass DEF StintCounted, TimersFit
  <2>3. mode /\ Settled' /\ missed' = "none" =>
           st_interval > 0 /\ quiet + st_interval <= interval
    BY <1>1, <1>8, PassQueue, SleepingPass DEF QuietCounted
  <2>4. QuietCounted'
    BY <1>3, <1>8, <2>3, SleepingPass DEF Kept, QuietCounted
  <2>5. QED BY <2>1, <2>2, <2>4, PassQueue, PassMac
<1>9. CASE Head(events) = "timer" /\ state # "VERY_SLEEPY"
  <2>1. TypeOK'
    BY <1>1, <1>4, <1>9, NormalPass DEF States
  <2>2. StintCounted'
    <3>1. awake + st_duration >= NORMAL_OP_DURATION_MIN
      BY <1>9 DEF StintCounted
    <3>2. QED BY <1>1, <1>9, <3>1, NormalPass DEF StintCounted
  <2>3. TimersFit'
    BY <1>9, NormalPass DEF TimersFit
  <2>4. QuietCounted'
    <3> SUFFICES ASSUME mode', Settled', missed' = "none" PROVE QuietCounted'
      BY DEF QuietCounted
    <3>1. mode /\ Settled /\ Kept
      BY <1>9, NormalPass, PassQueue DEF Kept
    <3>2. CASE state = "NOTIFY_OBSERVERS"
      <4>1. st_duration <= duration /\ st_interval <= interval
        BY <1>9, <3>1, <3>2, NormalPass DEF TimersFit
      <4>2. QED
        BY <1>1, <1>2, <1>3, <1>9, <3>1, <3>2, <4>1, NormalPass
        DEF Kept, QuietCounted
    <3>3. CASE state = "NORMAL"
      <4>1. /\ quiet + st_duration <= duration
            /\ st_interval = 0 \/ quiet + st_interval <= interval
        BY <1>9, <3>1, <3>3, NormalPass DEF QuietCounted
      <4>2. QED
        BY <1>1, <1>2, <1>3, <1>9, <3>1, <3>3, <4>1, NormalPass
        DEF Kept, QuietCounted
    <3>4. QED BY <1>9, <3>2, <3>3 DEF TypeOK, States
  <2>5. QED BY <2>1, <2>2, <2>3, <2>4, PassQueue, PassMac
<1>10. QED BY <1>5, <1>6, <1>7, <1>8, <1>9, PassQueue DEF Events

--------------------------------------------------------------------------------
LEMMA StepInv == Inv /\ [Next]_vars => Inv'
<1> SUFFICES ASSUME Inv, [Next]_vars PROVE Inv'
  OBVIOUS
<1>1. CASE Tick
  BY <1>1, TickInv
<1>2. CASE ReachabilityChanges \/ UNCHANGED vars
  BY <1>2, OtherInv
<1>3. CASE ButtonPress
  BY <1>3, ButtonPressInv
<1>4. CASE ConfPost
  BY <1>4, ConfPostInv
<1>5. CASE Pass
  BY <1>5, PassInv
<1>6. QED BY <1>1, <1>2, <1>3, <1>4, <1>5 DEF Next

(* The conjunction above is an invariant of the node.                      *)
THEOREM InvAlways == Spec => []Inv
<1>1. Init => Inv
  BY InitInv
<1>2. Inv /\ [Next]_vars => Inv'
  BY StepInv
<1>3. QED BY <1>1, <1>2, PTL DEF Spec

(* The soft timers never run below zero, and a lock of the MAC is never    *)
(* longer than its period: every variable keeps its type.                  *)
THEOREM SleepyTypes == Spec => []TypeOK
<1>1. Inv => TypeOK
  BY DEF Inv
<1>2. QED BY <1>1, InvAlways, PTL

(* keep_mac_on: the radio is off only in very sleepy mode, and never while *)
(* it is locked on.                                                        *)
THEOREM MacIsKeptOn == Spec => []MacKeptOn
<1>1. Inv => MacKeptOn
  BY DEF Inv
<1>2. QED BY <1>1, InvAlways, PTL

(* The observers of a node in very sleepy mode hear from it, or it was     *)
(* reconfigured, within interval + 1 seconds, or duration + 2 if those are *)
(* more, also in the second in which the notification is due.              *)
THEOREM ObserversHearInTime == Spec => []NotifiesInTime
<1>1. Inv => NotifiesInTime
  <2> SUFFICES ASSUME Inv, mode, Settled, missed = "none" PROVE quiet <= Gap
    BY DEF NotifiesInTime
  <2>1. /\ Gap \in Nat /\ Gap >= interval + 1 /\ Gap >= duration + 2
        /\ quiet \in Nat /\ st_duration \in Nat /\ st_interval \in Nat
        /\ duration \in Nat /\ interval \in Nat
    BY GapType, Constants DEF Inv, TypeOK
  <2>2. state \in States
    BY DEF Inv, TypeOK
  <2>3. QED BY <2>1, <2>2 DEF Inv, QuietCounted, States
<1>2. QED BY <1>1, InvAlways, PTL

(* Every stint of normal mode lasts NORMAL_OP_DURATION_MIN seconds: only a *)
(* pass for the timer puts the node to sleep, and it does when the stint's *)
(* timer has expired.                                                      *)
THEOREM StintsLast == Spec => StintLasts
<1>1. Inv /\ [Next]_vars =>
         (state # "VERY_SLEEPY" /\ state' = "VERY_SLEEPY"
             => awake = NORMAL_OP_DURATION_MIN)
  <2> SUFFICES ASSUME Inv, [Next]_vars, state # "VERY_SLEEPY",
                      state' = "VERY_SLEEPY"
               PROVE  awake = NORMAL_OP_DURATION_MIN
    OBVIOUS
  <2>1. Pass
    BY DEF Next, vars, Tick, ReachabilityChanges, ButtonPress, ConfPost
  <2>2. Head(events) = "timer"
    BY <2>1, PassQueue, ButtonPass, NewConfigPass DEF Inv, Events
  <2>3. st_duration = 0
    BY <2>1, <2>2, NormalPass DEF Inv
  <2>4. awake + 0 >= NORMAL_OP_DURATION_MIN
    BY <2>3 DEF Inv, StintCounted
  <2>5. QED BY <2>4, Constants DEF Inv, TypeOK
<1>2. QED BY <1>1, InvAlways, PTL DEF Spec, StintLasts
================================================================================
