---------------------------- MODULE WebDemo_proofs -----------------------------
(***************************************************************************)
(* Theorems about WebDemo, for every set of chips on the board, any        *)
(* readings of them that are looked at, and any number of restarts.        *)
(***************************************************************************)
EXTENDS WebDemo, TLAPS

LEMMA ReadingsOfChip ==
    /\ \A c \in Chips : Readings(c) \subseteq Watched
    /\ \A c \in chips : Readings(c) \subseteq Listed
    /\ Readings("opt") \subseteq {"opt"}
BY DEF Readings, Listed, AllReadings

LEMMA ListedWatched == Listed \subseteq Watched
BY DEF Listed, Readings

(* What the three promises need of the types.                              *)
Typed ==
    /\ on \subseteq Listed
    /\ text \in [Watched -> Texts]
    /\ flash = NoConfig \/ \E f \in SUBSET Listed : flash = {f}
    /\ busy \subseteq Switched
    /\ ready \subseteq Switched

Inv == Typed /\ EveryChipScheduled /\ OffShowsNothing /\ SettingsAreSaved

(* A measurement overwrites no N/A: it looks only at readings that are on, *)
(* but for the light.                                                      *)
LEMMA ReadKeepsOff ==
    ASSUME Typed, OffShowsNothing, NEW c \in chips, NEW o, Read(c, o),
           UNCHANGED <<chips, on>>
    PROVE  text' \in [Watched -> Texts] /\ OffShowsNothing'
<1>1. \A r \in Watched : text[r] \in Texts
  BY DEF Typed
<1>2. text' \in [Watched -> Texts]
  BY <1>1 DEF Read, Texts
<1>3. ASSUME NEW r \in Listed \ (on \cup {"opt"})
      PROVE  text'[r] = text[r]
  <2>1. r \notin Looked(c)
    BY <1>3, ReadingsOfChip DEF Looked
  <2>2. r \in Watched
    BY ListedWatched
  <2>3. QED BY <2>1, <2>2 DEF Read
<1>4. OffShowsNothing'
  BY <1>3 DEF OffShowsNothing, Listed
<1>5. QED BY <1>2, <1>4

(* Chips whose initialisation runs, or that nobody touches, stay scheduled.*)
LEMMA StartKeepsScheduled ==
    ASSUME EveryChipScheduled, NEW C, NEW t, Start(C, t),
           timer \ C \subseteq t,
           UNCHANGED <<chips, ready>>
    PROVE  EveryChipScheduled'
BY DEF EveryChipScheduled, Start, Switched

(* A step that leaves alone what a promise looks at.                       *)
LEMMA OtherKeeps ==
    /\ EveryChipScheduled /\ UNCHANGED <<chips, chipState>> => EveryChipScheduled'
    /\ OffShowsNothing /\ UNCHANGED <<chips, on, text>> => OffShowsNothing'
    /\ SettingsAreSaved /\ UNCHANGED <<chips, settings>> => SettingsAreSaved'
    /\ Typed /\ UNCHANGED <<chips, on, text, flash, busy, ready>> => Typed'
BY DEF EveryChipScheduled, OffShowsNothing, SettingsAreSaved, Typed, settings,
       chipState, Switched, Listed

(* What a boot b begins with, on whatever board and from whatever flash.   *)
BootsWell(b, saved, loads) ==
    /\ b.on \subseteq Listed
    /\ b.on = Listed \/ (loads /\ saved = {b.on})
    /\ loads /\ saved # NoConfig => saved = {b.on}
    /\ b.busy \subseteq Switched
    /\ \A c \in Switched : c \in b.timer \cup b.busy
    /\ \A tx \in b.texts :
          /\ tx \in [Watched -> Texts]
          /\ \A r \in Listed \ b.on : tx[r] = "N/A"

LEMMA BootInv ==
    ASSUME NEW saved, saved = NoConfig \/ \E f \in SUBSET Listed : saved = {f},
           NEW loads \in BOOLEAN
    PROVE  BootsWell(Boot(chips, saved, loads), saved, loads)
<1> USE DEF BootsWell
<1> DEFINE b == Boot(chips, saved, loads)
<1>1. CASE loads /\ saved # NoConfig
  <2>1. PICK f \in SUBSET Listed : saved = {f}
    BY <1>1
  <2>2. b.on = f
    BY <1>1, <2>1 DEF Boot
  <2>3. /\ b.on \subseteq Listed
        /\ saved = {b.on}
    BY <2>1, <2>2
  <2>4. b.busy \subseteq Switched /\ \A c \in Switched : c \in b.timer \cup b.busy
    BY DEF Boot, Switched
  <2>5. \A tx \in b.texts :
           /\ tx \in [Watched -> Texts]
           /\ \A r \in Listed \ f : tx[r] = "N/A"
    <3>1. b.texts =
             {[r \in Watched |-> IF r \in Listed \ b.on THEN "N/A"
                                ELSE IF r \in read THEN "number" ELSE ""] :
                 read \in SUBSET (Readings("batmon") \cap b.on)}
      BY DEF Boot, Listed
    <3>2. TAKE tx \in b.texts
    <3>3. PICK read \in SUBSET (Readings("batmon") \cap b.on) :
             tx = [r \in Watched |-> IF r \in Listed \ b.on THEN "N/A"
                                    ELSE IF r \in read THEN "number" ELSE ""]
      BY <3>1
    <3>4. QED BY <2>2, <3>3, ListedWatched DEF Texts
  <2>6. QED BY <1>1, <2>2, <2>3, <2>4, <2>5
<1>2. CASE ~(loads /\ saved # NoConfig)
  <2>1. b.on = Listed
    BY <1>2 DEF Boot, Listed
  <2>2. QED
    BY <1>2, <2>1, ListedWatched DEF Boot, Listed, Switched, Texts
<1>3. QED BY <1>1, <1>2
--------------------------------------------------------------------------------
LEMMA InitInv == Init => Inv
<1> SUFFICES ASSUME Init PROVE Inv
  OBVIOUS
<1>1. LET b == Boot(chips, NoConfig, TRUE)
      IN  on = b.on /\ text \in b.texts /\ timer = b.timer /\ busy = b.busy
  BY DEF Init
<1>2. BootsWell(Boot(chips, NoConfig, TRUE), NoConfig, TRUE)
  BY BootInv
<1>3. on = Listed
  BY <1>1, <1>2 DEF BootsWell, NoConfig
<1>4. Typed /\ EveryChipScheduled /\ OffShowsNothing
  BY <1>1, <1>2 DEF BootsWell, Init, Typed, EveryChipScheduled, OffShowsNothing
<1>5. SettingsAreSaved
  BY <1>3 DEF Init, SettingsAreSaved
<1>6. QED BY <1>4, <1>5 DEF Inv

LEMMA ResetInv == ASSUME Inv, Reset PROVE Inv'
<1>1. PICK loads \in BOOLEAN :
         /\ Booted(Boot(chips, flash, loads))
         /\ spoilt' = ~loads
  BY DEF Reset
<1> DEFINE b == Boot(chips, flash, loads)
<1>2. /\ on' = b.on /\ text' \in b.texts /\ timer' = b.timer /\ busy' = b.busy
      /\ ready' = {} /\ post' = {}
      /\ chips' = chips /\ flash' = flash
  BY <1>1 DEF Booted, Reset
<1>3. BootsWell(b, flash, loads)
  <2>1. flash = NoConfig \/ \E f \in SUBSET Listed : flash = {f}
    BY DEF Inv, Typed
  <2>2. QED BY <1>1, <2>1, BootInv
<1> HIDE DEF b
<1> USE DEF BootsWell
<1>4. Listed' = Listed /\ Switched' = Switched
  BY <1>2 DEF Listed, Switched
<1>5. Typed'
  BY <1>2, <1>3, <1>4 DEF Inv, Typed
<1>6. EveryChipScheduled'
  BY <1>2, <1>3, <1>4 DEF EveryChipScheduled
<1>7. OffShowsNothing'
  BY <1>2, <1>3, <1>4 DEF OffShowsNothing
<1>8. SettingsAreSaved'
  BY <1>1, <1>2, <1>3, <1>4 DEF SettingsAreSaved
<1>9. QED BY <1>5, <1>6, <1>7, <1>8 DEF Inv

(* The steps of a measurement: no setting changes.                         *)
LEMMA MeasureInv ==
    ASSUME Inv, NEW c \in Chips,
           \/ ChipIsReady(c) \/ TimerExpires(c)
           \/ ReadBatmonOrAdc(c) \/ GetReading(c)
    PROVE  Inv'
<1> USE DEF Inv
<1>0. UNCHANGED <<chips, on, flash, settings>>
  BY DEF ChipIsReady, TimerExpires, ReadBatmonOrAdc, GetReading, settings
<1>1. SettingsAreSaved'
  BY <1>0, OtherKeeps
<1>2. CASE ChipIsReady(c)
  <2>1. Typed'
    BY <1>0, <1>2 DEF ChipIsReady, Typed, Listed, Switched
  <2>2. EveryChipScheduled'
    BY <1>2 DEF ChipIsReady, EveryChipScheduled, Switched
  <2>3. QED BY <1>0, <1>1, <1>2, <2>1, <2>2, OtherKeeps DEF ChipIsReady
<1>3. CASE TimerExpires(c)
  <2>1. Start({c}, timer \ {c}) /\ c \in Switched
    BY <1>3 DEF TimerExpires
  <2>2. Typed'
    BY <1>0, <1>3, <2>1 DEF TimerExpires, Start, Typed, Listed, Switched
  <2>3. EveryChipScheduled'
    BY <1>3, <2>1, StartKeepsScheduled DEF TimerExpires
  <2>4. QED BY <1>0, <1>1, <1>3, <2>2, <2>3, OtherKeeps DEF TimerExpires
<1>4. CASE ReadBatmonOrAdc(c)
  <2>1. c \in chips /\ UNCHANGED chipState /\ \E o : Read(c, o)
    BY <1>4 DEF ReadBatmonOrAdc
  <2>2. text' \in [Watched -> Texts] /\ OffShowsNothing'
    BY <1>0, <2>1, ReadKeepsOff
  <2>3. Typed'
    BY <1>0, <2>1, <2>2 DEF Typed, chipState, Listed, Switched
  <2>4. QED BY <1>0, <1>1, <2>1, <2>2, <2>3, OtherKeeps
<1>5. CASE GetReading(c)
  <2>1. c \in Switched /\ c \in chips /\ \E o : Read(c, o)
    BY <1>5 DEF GetReading, Typed, Switched
  <2>2. text' \in [Watched -> Texts] /\ OffShowsNothing'
    BY <1>0, <2>1, ReadKeepsOff
  <2>3. /\ busy' \in {busy, busy \ {c}} /\ ready' = ready \ {c}
        /\ timer' = timer \cup {c}
    BY <1>5 DEF GetReading
  <2>4. Typed'
    BY <1>0, <2>2, <2>3 DEF Typed, Listed, Switched
  <2>5. EveryChipScheduled'
    BY <1>0, <2>3 DEF EveryChipScheduled, Switched
  <2>6. QED BY <1>1, <2>2, <2>4, <2>5
<1>6. QED BY <1>2, <1>3, <1>4, <1>5

LEMMA ButtonInv == ASSUME Inv, ButtonPress PROVE Inv'
<1> USE DEF Inv
<1>0. UNCHANGED <<chips, on, flash, ready, settings>>
  BY DEF ButtonPress, settings
<1>1. SettingsAreSaved'
  BY <1>0, OtherKeeps
<1>2. Start(Switched, timer \cup (chips \cap {"batmon"}))
  BY DEF ButtonPress
<1>3. EveryChipScheduled'
  BY <1>0, <1>2, StartKeepsScheduled
<1>4. text' \in [Watched -> Texts] /\ OffShowsNothing'
  <2>1. CASE "batmon" \in chips
    <3>1. \E o : Read("batmon", o)
      BY <2>1 DEF ButtonPress
    <3>2. QED BY <1>0, <2>1, <3>1, ReadKeepsOff
  <2>2. CASE "batmon" \notin chips
    <3>1. text' = text
      BY <2>2 DEF ButtonPress
    <3>2. QED BY <1>0, <3>1, OtherKeeps DEF Typed
  <2>3. QED BY <2>1, <2>2
<1>5. Typed'
  BY <1>0, <1>2, <1>4 DEF Start, Typed, Listed, Switched
<1>6. QED BY <1>1, <1>3, <1>4, <1>5

(* Saving: afterwards the flash holds what is on, or the failure is noted. *)
LEMMA SaveConfigInv ==
    ASSUME Typed, on' \subseteq Listed, SaveConfig(on'), chips' = chips
    PROVE  /\ flash' = NoConfig \/ \E f \in SUBSET Listed' : flash' = {f}
           /\ SettingsAreSaved'
BY DEF Typed, SaveConfig, SettingsAreSaved, Listed

LEMMA SettingsInv ==
    ASSUME Inv, PostSetting \/ RestoreDefaults \/ PostEnds \/ NewConfig
    PROVE  Inv'
<1> USE DEF Inv
<1>0. UNCHANGED <<chips, chipState, busy, ready>>
  BY DEF PostSetting, RestoreDefaults, PostEnds, NewConfig, chipState
<1>1. EveryChipScheduled'
  BY <1>0, OtherKeeps
<1>2. Listed' = Listed /\ Switched' = Switched
  BY <1>0 DEF Listed, Switched
<1>3. CASE PostSetting
  <2>1. PICK r \in Listed :
           \/ /\ on' = on \ {r}
              /\ text' = [text EXCEPT ![r] = "N/A"]
           \/ /\ on' = on \cup {r}
              /\ UNCHANGED text
    BY <1>3 DEF PostSetting
  <2>2. r \in Watched
    BY ListedWatched
  <2>3. text' \in [Watched -> Texts]
    BY <2>1, <2>2 DEF Typed, Texts
  <2>4. Typed'
    BY <1>0, <1>2, <1>3, <2>1, <2>3 DEF Typed, PostSetting
  <2>5. \A q \in Listed : q \in Watched
    BY ListedWatched
  <2>6. OffShowsNothing'
    BY <1>2, <2>1, <2>5 DEF OffShowsNothing, Typed
  <2>7. SettingsAreSaved'
    BY <1>3 DEF PostSetting, SettingsAreSaved
  <2>8. QED BY <1>1, <2>4, <2>6, <2>7
<1>4. CASE RestoreDefaults
  <2>1. on' = Listed /\ text' = text /\ SaveConfig(on')
    BY <1>4 DEF RestoreDefaults
  <2>2. SettingsAreSaved' /\ Typed'
    BY <1>0, <1>2, <2>1, SaveConfigInv DEF Typed
  <2>3. OffShowsNothing'
    BY <1>2, <2>1 DEF OffShowsNothing
  <2>4. QED BY <1>1, <2>2, <2>3
<1>5. CASE PostEnds
  <2>1. SettingsAreSaved'
    BY <1>5 DEF PostEnds, SettingsAreSaved
  <2>2. QED BY <1>0, <1>1, <1>5, <2>1, OtherKeeps DEF PostEnds
<1>6. CASE NewConfig
  <2>1. on' = on /\ text' = text /\ SaveConfig(on')
    BY <1>6 DEF NewConfig
  <2>2. SettingsAreSaved' /\ Typed'
    BY <1>0, <1>2, <2>1, SaveConfigInv DEF Typed
  <2>3. QED BY <1>0, <1>1, <2>1, <2>2, OtherKeeps
<1>7. QED BY <1>3, <1>4, <1>5, <1>6

(* The three promises about the main process hold together: which chips    *)
(* have something that runs them, what readings show that are off, and     *)
(* what the flash holds.                                                   *)
THEOREM InvAlways == Spec => []Inv
<1>1. Inv /\ [Next]_vars => Inv'
  <2> SUFFICES ASSUME Inv, [Next]_vars PROVE Inv'
    OBVIOUS
  <2>1. CASE Publish \/ UNCHANGED vars
    BY <2>1, OtherKeeps DEF Publish, vars, Inv, chipState, settings
  <2>2. QED
    BY <2>1, ResetInv, MeasureInv, ButtonInv, SettingsInv DEF Next
<1>2. QED BY InitInv, <1>1, PTL DEF Spec

(* No chip is ever forgotten, whatever presses, errors, switches and       *)
(* restarts come between its activation and its reading.                   *)
THEOREM NoChipForgotten == Spec => []EveryChipScheduled
<1>1. Inv => EveryChipScheduled
  BY DEF Inv
<1>2. QED BY InvAlways, <1>1, PTL

(* A reading that was switched off, even while its chip was measuring, goes*)
(* on showing N/A (but for the light).                                     *)
THEOREM OffAlwaysShowsNothing == Spec => []OffShowsNothing
<1>1. Inv => OffShowsNothing
  BY DEF Inv
<1>2. QED BY InvAlways, <1>1, PTL

(* The flags differ from the saved ones only while a form is on its way    *)
(* into the flash, after a failure, before anything was ever saved, or     *)
(* because the event that should have saved them found the queue full.     *)
THEOREM SettingsAlwaysSaved == Spec => []SettingsAreSaved
<1>1. Inv => SettingsAreSaved
  BY DEF Inv
<1>2. QED BY InvAlways, <1>1, PTL
================================================================================
