------------------------------- MODULE WebDemo -------------------------------
(***************************************************************************)
(* The main process of the web demo (cc26xx-web-demo.c): it measures the   *)
(* chips on the board in turn, keeps for each reading whether it is on     *)
(* (its "publish" flag) and its text, which the CoAP resources and the     *)
(* MQTT client pass on, and saves the flags in the external flash.         *)
(*                                                                         *)
(* A chip is activated, announces some time later that it is ready, and is *)
(* read then; Contiki delivers one event at a time, and a button press, a  *)
(* form or a reset may come between any two of these steps.                *)
(***************************************************************************)
EXTENDS Naturals, FiniteSets

CONSTANTS
    Boards,     \* the sets of chips that are looked at together
    Watched,    \* the readings that are looked at
    MaxBoots    \* bound: how often the node starts

Chips == {"batmon", "adc", "bmp", "tmp", "hdc", "opt", "mpu"}

(* The readings of each chip, as DEMO_SENSOR declares them.                *)
AllReadings(c) ==
    CASE c = "batmon" -> {"batmon_temp", "batmon_volt"}
      [] c = "adc" -> {"adc_dio23"}
      [] c = "bmp" -> {"bmp_pres", "bmp_temp"}
      [] c = "tmp" -> {"tmp_amb", "tmp_obj"}
      [] c = "hdc" -> {"hdc_temp", "hdc_hum"}
      [] c = "opt" -> {"opt"}
      [] c = "mpu" -> {"mpu_acc_x", "mpu_acc_y", "mpu_acc_z",
                       "mpu_gyro_x", "mpu_gyro_y", "mpu_gyro_z"}
Readings(c) == AllReadings(c) \cap Watched

ASSUME BoardsAssumption == Boards \subseteq SUBSET Chips
ASSUME WatchedAssumption == Watched \subseteq UNION {AllReadings(c) : c \in Chips}
ASSUME MaxBootsAssumption == MaxBoots \in Nat

VARIABLES
    chips,     \* the chips of this board
    on,        \* the readings whose publish flag is 1
    text,      \* reading->converted; "number" stands for any measurement
    failed,    \* the readings whose raw value is CC26XX_SENSOR_READING_ERROR
    changed,   \* reading->changed
    timer,     \* the chips whose ctimer is set
    busy,      \* the chips that are on and have not announced themselves
    ready,     \* the chips whose sensors_event is in the queue
    flash,     \* the readings saved as on, or that there is no valid config
    post,      \* whether a form is open, and the event of another in the queue
    spoilt,    \* history: a save or load failed since the last good save
    missed,    \* history: a form's event was dropped, and none saved since
    message,   \* the readings and texts that were published just now
    boots      \* bound

settings == <<on, flash, post, spoilt, missed>>
chipState == <<timer, busy, ready>>
vars == <<chips, text, failed, changed, chipState, settings, message, boots>>

(* The list that init_sensors builds.                                      *)
Listed == UNION {Readings(c) : c \in chips}
(* The chips that are switched on for each measurement.                    *)
Switched == chips \ {"batmon", "adc"}

Texts == {"", "N/A", "number", "error number"}
(* The flash holds one configuration, or none that is valid.              *)
NoConfig == {}

TypeOK ==
    /\ chips \in Boards
    /\ on \subseteq Listed
    /\ text \in [Watched -> Texts]
    /\ failed \subseteq {"tmp_amb", "tmp_obj"}
    /\ changed \subseteq Watched
    /\ timer \subseteq chips
    /\ busy \subseteq Switched
    /\ ready \subseteq Switched
    /\ flash = NoConfig \/ \E f \in SUBSET Listed : flash = {f}
    /\ post \subseteq {"open", "event"}
    /\ spoilt \in BOOLEAN
    /\ missed \in BOOLEAN
    /\ message \subseteq Watched \X Texts
    /\ boots \in 0 .. MaxBoots
-------------------------------------------------------------------------------
(* A chip is worth switching on.                                           *)
Wanted(c) == Readings(c) \cap on # {}

(* What a measurement brings for a reading.                                *)
Outcomes == {"error", "same", "new"}

(* Mutant: a flag that was switched off meanwhile is not looked at.        *)
LookedAnyway(c) == Readings(c)

(* The readings of c that a pass over it looks at: all that are on; the    *)
(* light is read without asking.                                           *)
Looked(c) == IF c = "opt" THEN Readings(c) ELSE Readings(c) \cap on

(* The update of the readings by the get_X_reading of chip c, with outcome *)
(* o for each reading. tmp shows even an error, mpu shows its last value,  *)
(* the others leave the text alone; batmon and adc do not compare.         *)
Read(c, o) ==
    LET got(r) == r \in Looked(c) /\ o[r] # "error"
        erred(r) == r \in Looked(c) /\ o[r] = "error"
    IN  /\ text' = [r \in Watched |->
                      IF got(r) \/ (erred(r) /\ c = "mpu") THEN "number"
                      ELSE IF erred(r) /\ c = "tmp" THEN "error number"
                      ELSE text[r]]
        /\ failed' = IF c = "tmp"
                     THEN (failed \ Looked(c)) \cup {r \in Looked(c) : erred(r)}
                     ELSE failed
        /\ LET fresh == {r \in Looked(c) :
                           IF erred(r) THEN c = "tmp" /\ r \notin failed
                           ELSE o[r] = "new" \/ r \in failed}
               stale == {r \in Looked(c) \ fresh :
                           got(r) \/ c \in {"tmp", "mpu"}}
           IN  changed' = IF c \in {"batmon", "adc"} THEN changed
                          ELSE (changed \cup fresh) \ stale

(* Mutant: a chip that nobody wants is left alone for good.                *)
StartOnce(C, t) ==
    /\ busy' = busy \cup {c \in C : Wanted(c)}
    /\ timer' = t

(* init_X_reading of the chips in C, reached with the timers in t set: a   *)
(* chip that nobody wants is looked at again a second later.               *)
Start(C, t) ==
    /\ busy' = busy \cup {c \in C : Wanted(c)}
    /\ timer' = t \cup {c \in C : ~Wanted(c)}
-------------------------------------------------------------------------------
(* Boot: load_config over the defaults, then init_sensor_readings.         *)
Boot(board, saved, loads) ==
    LET listed == UNION {Readings(c) : c \in board}
        flags == IF loads /\ saved # NoConfig THEN CHOOSE f \in saved : TRUE
                 ELSE listed
        wanted == {c \in board \ {"batmon", "adc"} : Readings(c) \cap flags # {}}
    IN  [on |-> flags,
         timer |-> board \ (wanted \cup {"adc"}),
         busy |-> wanted,
         texts |-> {[r \in Watched |-> IF r \in listed \ flags THEN "N/A"
                                       ELSE IF r \in read THEN "number" ELSE ""] :
                      read \in SUBSET (Readings("batmon") \cap flags)}]

Booted(b) ==
    /\ on' = b.on
    /\ text' \in b.texts
    /\ timer' = b.timer
    /\ busy' = b.busy
    /\ failed' = {}
    /\ changed' = Watched
    /\ ready' = {}
    /\ post' = {}
    /\ missed' = FALSE

(* A node that has no configuration in its flash starts with all flags on. *)
Init ==
    /\ chips \in Boards
    /\ LET b == Boot(chips, NoConfig, TRUE)
       IN  on = b.on /\ text \in b.texts /\ timer = b.timer /\ busy = b.busy
    /\ failed = {}
    /\ changed = Watched
    /\ ready = {}
    /\ flash = NoConfig
    /\ post = {}
    /\ spoilt = FALSE
    /\ missed = FALSE
    /\ message = {}
    /\ boots = 1

(* The node restarts; what RAM held is gone, and the flash may fail.       *)
Reset ==
    /\ boots < MaxBoots
    /\ boots' = boots + 1
    /\ \E loads \in BOOLEAN :
          /\ Booted(Boot(chips, flash, loads))
          /\ spoilt' = ~loads
    /\ message' = {}
    /\ UNCHANGED <<chips, flash>>

(* The driver announces that chip c has measured (a sensors_event).        *)
ChipIsReady(c) ==
    /\ c \in busy
    /\ busy' = busy \ {c}
    /\ ready' = ready \cup {c}
    /\ message' = {}
    /\ UNCHANGED <<chips, text, failed, changed, timer, settings, boots>>

(* The ctimer of chip c: init_X_reading.                                   *)
TimerExpires(c) ==
    /\ c \in timer \cap Switched
    /\ Start({c}, timer \ {c})
    /\ message' = {}
    /\ UNCHANGED <<chips, text, failed, changed, ready, settings, boots>>

(* get_batmon_reading sets its own timer; adc_process resets its etimer.   *)
ReadBatmonOrAdc(c) ==
    /\ c \in chips \cap {"batmon", "adc"}
    /\ \E o \in [Readings(c) -> Outcomes] :
          /\ c = "adc" => \A r \in Readings(c) : o[r] # "error"
          /\ Read(c, o)
    /\ message' = {}
    /\ UNCHANGED <<chips, chipState, settings, boots>>

(* Mutant: get_tmp_reading as cc26xx-demo.c:178 has it: after an error it  *)
(* returns, and nothing starts the chip again.                             *)
GetReadingGivesUp(c) ==
    /\ c \in ready
    /\ ready' = ready \ {c}
    /\ \E o \in [Readings(c) -> Outcomes] :
          /\ Read(c, o)
          /\ timer' = IF \E r \in Readings(c) : o[r] = "error" THEN timer
                      ELSE timer \cup {c}
    /\ busy' = IF c \in {"bmp", "tmp", "mpu"} THEN busy \ {c} ELSE busy
    /\ message' = {}
    /\ UNCHANGED <<chips, settings, boots>>

(* The sensors_event of chip c: get_X_reading. bmp, tmp and mpu are        *)
(* switched off, which also ends a measurement that was started meanwhile. *)
GetReading(c) ==
    /\ c \in ready
    /\ ready' = ready \ {c}
    /\ \E o \in [Readings(c) -> Outcomes] : Read(c, o)
    /\ busy' = IF c \in {"bmp", "tmp", "mpu"} THEN busy \ {c} ELSE busy
    /\ timer' = timer \cup {c}
    /\ message' = {}
    /\ UNCHANGED <<chips, settings, boots>>

(* A short press of the button: init_sensor_readings, whatever is under    *)
(* way. (The publish event that follows only makes the MQTT client act.)   *)
ButtonPress ==
    /\ \E o \in [Readings("batmon") -> Outcomes] :
          IF "batmon" \in chips THEN Read("batmon", o)
          ELSE UNCHANGED <<text, failed, changed>>
    /\ Start(Switched, timer \cup (chips \cap {"batmon"}))
    /\ message' = {}
    /\ UNCHANGED <<chips, ready, settings, boots>>
-------------------------------------------------------------------------------
(* save_config of the flags f: the flash does not open or erase, or it is  *)
(* erased and not written, or all goes well.                               *)
SaveConfig(f) ==
    /\ missed' = FALSE
    /\ \/ flash' = {f} /\ spoilt' = FALSE
       \/ flash' \in {flash, NoConfig} /\ spoilt' = TRUE

(* sensor_readings_handler: a form switches a reading.                     *)
PostSetting ==
    /\ post' = post \cup {"open"}
    /\ \E r \in Listed :
          \/ /\ on' = on \ {r}
             /\ text' = [text EXCEPT ![r] = "N/A"]
          \/ /\ on' = on \cup {r}
             /\ UNCHANGED text
    /\ message' = {}
    /\ UNCHANGED <<chips, failed, changed, chipState, flash, spoilt, missed,
                   boots>>

(* Mutant: the defaults are not saved.                                     *)
RestoreDefaultsUnsaved ==
    /\ on' = Listed
    /\ post' \in {post, post \cup {"open"}}
    /\ message' = {}
    /\ UNCHANGED <<chips, text, failed, changed, chipState, flash, spoilt, missed,
                   boots>>

(* cc26xx_web_demo_restore_defaults, by a long press or a form's field.    *)
RestoreDefaults ==
    /\ on' = Listed
    /\ SaveConfig(Listed)
    /\ post' \in {post, post \cup {"open"}}
    /\ message' = {}
    /\ UNCHANGED <<chips, text, failed, changed, chipState, boots>>

(* The server has the whole form and posts httpd_simple_event_new_config;  *)
(* it does not look whether the queue that all processes share had a place.*)
PostEnds ==
    /\ "open" \in post
    /\ \/ post' = {"event"} /\ UNCHANGED missed
       \/ post' = post \ {"open"} /\ missed' = TRUE
    /\ message' = {}
    /\ UNCHANGED <<chips, on, text, failed, changed, chipState, flash, spoilt, boots>>

(* The process gets the event.                                             *)
NewConfig ==
    /\ "event" \in post
    /\ post' = post \ {"event"}
    /\ SaveConfig(on)
    /\ message' = {}
    /\ UNCHANGED <<chips, on, text, failed, changed, chipState, boots>>

(* publish of the MQTT client.                                             *)
Publish ==
    /\ message' = {<<r, text[r]>> : r \in on \ failed}
    /\ UNCHANGED <<chips, text, failed, changed, chipState, settings, boots>>

Next ==
    \/ Reset
    \/ \E c \in Chips :
          \/ ChipIsReady(c) \/ TimerExpires(c)
          \/ ReadBatmonOrAdc(c) \/ GetReading(c)
    \/ ButtonPress
    \/ PostSetting \/ RestoreDefaults \/ PostEnds \/ NewConfig
    \/ Publish

Spec == Init /\ [][Next]_vars

(* Timers expire, chips measure, and Contiki delivers events.              *)
FairSpec ==
    /\ Spec
    /\ \A c \in Chips : WF_vars(ChipIsReady(c)) /\ WF_vars(TimerExpires(c)) /\
                        WF_vars(GetReading(c))
-------------------------------------------------------------------------------
(* No chip is ever forgotten: it has a timer, is measuring, or has an      *)
(* event in the queue, whatever presses, errors and switches come between. *)
EveryChipScheduled == \A c \in Switched : c \in timer \cup busy \cup ready

(* A reading that was switched off, even while its chip was measuring,     *)
(* goes on showing N/A. (The light is the exception: get_light_reading     *)
(* does not look at its flag.)                                             *)
OffShowsNothing == \A r \in Listed \ (on \cup {"opt"}) : text[r] = "N/A"

(* The flags differ from the saved ones only while a form is on its way    *)
(* into the flash, after a failure of the flash, before anything was ever  *)
(* saved, or because the event that should have saved them was dropped by a*)
(* full queue: then nothing saves them before the next form or reset to    *)
(* the defaults, and a restart loses them.                                 *)
SettingsAreSaved ==
    flash # {on} =>
       post # {} \/ spoilt \/ missed \/ (flash = NoConfig /\ on = Listed)

(* A chip with a reading that stays on is read again and again.            *)
SampledForEver ==
    \A c \in Chips \ {"batmon", "adc"} :
       <>[](c \in chips /\ Wanted(c)) => []<><<GetReading(c)>>_vars
-------------------------------------------------------------------------------
(* cc26xx-web-demo/README.md:123: only readings that have changed since    *)
(* the previous one are published, but for those of the battery monitor.   *)
PublishesChangesOnly ==
    \A m \in message : m[1] \in changed \cup AllReadings("batmon")
===============================================================================
