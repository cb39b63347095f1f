----------------------------- MODULE Cc26xxDemo -----------------------------
(***************************************************************************)
(* The simple demo (cc26xx-demo.c): it prints what the battery monitor says*)
(* every 20 seconds, and what the five chips of a SensorTag measure, each  *)
(* in a round of its own: the chip is switched on, announces its           *)
(* measurement, is read, and its timer switches it on again.               *)
(***************************************************************************)
EXTENDS Naturals

CONSTANTS
    DemoChips,  \* the chips that are looked at
    DemoBoots   \* bound: how often the node starts

ASSUME DemoChipsAssumption == DemoChips \subseteq {"bmp", "tmp", "hdc", "opt", "mpu"}
ASSUME DemoBootsAssumption == DemoBoots \in Nat \ {0}

VARIABLES
    fitted,     \* the chips of the board: a SensorTag's, or none
    active,     \* the chips that are on and have not announced themselves
    announced,  \* the chips whose sensors_event is in the queue
    ctimers,    \* the chips whose ctimer is set
    leds,       \* the LEDs that are on
    buzzer,     \* the buzzer sounds
    tmpFailed,  \* history: the thermometer has failed since the node started
    starts      \* bound

demoVars == <<fitted, active, announced, ctimers, leds, buzzer, tmpFailed,
              starts>>

DemoTypeOK ==
    /\ fitted \in {{}, DemoChips}
    /\ active \subseteq fitted
    /\ announced \subseteq fitted
    /\ ctimers \subseteq fitted
    /\ leds \subseteq {"YELLOW", "RED"}
    /\ buzzer \in BOOLEAN
    /\ tmpFailed \in BOOLEAN
    /\ starts \in 1 .. DemoBoots

(* init_sensor_readings switches all chips on.                             *)
DemoInit ==
    /\ fitted \in {{}, DemoChips}
    /\ active = fitted
    /\ announced = {}
    /\ ctimers = {}
    /\ leds = {}
    /\ buzzer = FALSE
    /\ tmpFailed = FALSE
    /\ starts = 1

(* The right button, or a failure: the watchdog restarts the node.         *)
WatchdogReboot ==
    /\ starts < DemoBoots
    /\ starts' = starts + 1
    /\ active' = fitted
    /\ announced' = {}
    /\ ctimers' = {}
    /\ leds' = {}
    /\ buzzer' = FALSE
    /\ tmpFailed' = FALSE
    /\ UNCHANGED fitted

(* The driver of a chip announces its measurement.                         *)
ChipAnnounces(c) ==
    /\ c \in active
    /\ active' = active \ {c}
    /\ announced' = announced \cup {c}
    /\ UNCHANGED <<fitted, ctimers, leds, buzzer, tmpFailed, starts>>

(* Mutant: no chip is switched on again after an error.                    *)
GetChipGivesUp(c) ==
    /\ c \in announced
    /\ announced' = announced \ {c}
    /\ \E fails \in BOOLEAN :
          /\ ctimers' = IF fails THEN ctimers ELSE ctimers \cup {c}
          /\ tmpFailed' = (tmpFailed \/ (fails /\ c = "tmp"))
    /\ UNCHANGED <<fitted, active, leds, buzzer, starts>>

(* get_X_reading on the chip's event; any of its values may be an error.   *)
(* get_tmp_reading returns on an error, before it sets its timer.          *)
GetChip(c) ==
    /\ c \in announced
    /\ announced' = announced \ {c}
    /\ \/ ctimers' = ctimers \cup {c} /\ UNCHANGED tmpFailed
       \/ c = "tmp" /\ tmpFailed' = TRUE /\ UNCHANGED ctimers
    /\ UNCHANGED <<fitted, active, leds, buzzer, starts>>

(* init_X_reading, by the chip's ctimer.                                   *)
InitChip(c) ==
    /\ c \in ctimers
    /\ ctimers' = ctimers \ {c}
    /\ active' = active \cup {c}
    /\ UNCHANGED <<fitted, announced, leds, buzzer, tmpFailed, starts>>

Toggled(set, x) == (set \ {x}) \cup ({x} \ set)

(* The main process: et, the left button, the reed relay.                  *)
PeriodicOrButton ==
    /\ \/ \E l \in {"YELLOW", "RED"} : leds' = Toggled(leds, l) /\ UNCHANGED buzzer
       \/ fitted # {} /\ buzzer' = ~buzzer /\ UNCHANGED leds
    /\ UNCHANGED <<fitted, active, announced, ctimers, tmpFailed, starts>>

DemoNext ==
    \/ WatchdogReboot
    \/ \E c \in DemoChips : ChipAnnounces(c) \/ GetChip(c) \/ InitChip(c)
    \/ PeriodicOrButton

DemoSpec == DemoInit /\ [][DemoNext]_demoVars

(* Chips measure, Contiki delivers their events, and timers expire.        *)
DemoFairness ==
    \A c \in DemoChips :
       WF_demoVars(ChipAnnounces(c)) /\ WF_demoVars(GetChip(c)) /\
       WF_demoVars(InitChip(c))
-------------------------------------------------------------------------------
(* Every chip is read again and again, whatever errors it and the others   *)
(* report; only the thermometer, after an error of its own, waits for a    *)
(* restart.                                                                *)
ReadsGoOn ==
    \A c \in DemoChips :
       c \in fitted =>
          []<><<GetChip(c)>>_demoVars \/ (c = "tmp" /\ <>[]tmpFailed)
===============================================================================
