------------------------------ MODULE DeviceList ------------------------------
(***************************************************************************)
(* A room of the Android application (ListViewAdapter.java): a list of     *)
(* devices, each with a switch or a reading, of which some are on the      *)
(* screen at a time. A row's widgets are used again for another item when  *)
(* the list scrolls, the listener of its switch stays. What a touch starts *)
(* runs later: AsyncTask has one thread, which takes the tasks in order,   *)
(* and writes an answer into the row that was touched. The voice commands  *)
(* (VoiceActivity.java) share this thread, and know nothing of the lists.  *)
(***************************************************************************)
EXTENDS Naturals, SequencesExt

CONSTANTS
    Rows,      \* the views the list makes
    Switches,  \* the items with mClass "Switch"
    Readings,  \* the items with mClass "Text"
    None,      \* no item
    MaxTasks   \* bound: tasks that have not begun

ASSUME ItemsAssumption == Switches \cap Readings = {}
ASSUME MaxTasksAssumption == MaxTasks \in Nat

Items == Switches \cup Readings
ASSUME NoneAssumption == None \notin Items

VARIABLES
    shown,     \* the item each row shows, or None: off the screen
    checked,   \* the rows whose switch is on
    listener,  \* the item each row's switch listener was made for, or None
    value,     \* the item whose reading each row shows
    mCheck,    \* the items whose mCheck is true
    heard,     \* the items whose bOnCheckedChangeListener is true
    tasks,     \* AsyncTask's queue
    told,      \* history: the items whose last PUT that ran was ON
    recycled,  \* history: some row has shown two items
    spoken     \* history: the items whose last command was a voice command

row == <<shown, checked, listener, value>>
vars == <<row, mCheck, heard, tasks, told, recycled, spoken>>

Tasks == [kind : {"ON", "OFF", "GET"}, item : Items,
          into : Rows \cup {None}]

TypeOK ==
    /\ shown \in [Rows -> Items \cup {None}]
    /\ checked \subseteq Rows
    /\ listener \in [Rows -> Items \cup {None}]
    /\ value \in [Rows -> Items \cup {None}]
    /\ mCheck \subseteq Items
    /\ heard \subseteq Items
    /\ tasks \in Seq(Tasks) /\ Len(tasks) <= MaxTasks
    /\ told \subseteq Items
    /\ recycled \in BOOLEAN
    /\ spoken \subseteq Switches

(* addItem: every item starts with mCheck false.                           *)
Init ==
    /\ shown = [r \in Rows |-> None]
    /\ checked = {}
    /\ listener = [r \in Rows |-> None]
    /\ value = [r \in Rows |-> None]
    /\ mCheck = {}
    /\ heard = {}
    /\ tasks = <<>>
    /\ told = {}
    /\ recycled = FALSE
    /\ spoken = {}

With(set, x, in) == IF in THEN set \cup {x} ELSE set \ {x}

(* Mutant: mCheck is not kept.                                             *)
CheckedChangedUnkept(r, isOn) ==
    /\ listener[r] # None
    /\ Len(tasks) < MaxTasks
    /\ tasks' = Append(tasks, [kind |-> IF isOn THEN "ON" ELSE "OFF",
                               item |-> listener[r], into |-> r])
    /\ spoken' = spoken \ {listener[r]}
    /\ UNCHANGED mCheck

(* onCheckedChanged of the row's listener, if it has one: a PUT for the    *)
(* item the listener was made for, whose mCheck follows.                   *)
CheckedChanged(r, isOn) ==
    IF listener[r] = None THEN UNCHANGED <<tasks, mCheck, spoken>>
    ELSE /\ Len(tasks) < MaxTasks
         /\ tasks' = Append(tasks, [kind |-> IF isOn THEN "ON" ELSE "OFF",
                                    item |-> listener[r], into |-> r])
         /\ mCheck' = With(mCheck, listener[r], isOn)
         /\ spoken' = spoken \ {listener[r]}

(* Mutant: each time a listener is made.                                   *)
ListenAgain(r, i) ==
    /\ listener' = [listener EXCEPT ![r] = i]
    /\ UNCHANGED heard

(* The end of getView: an item's first row gets a listener for it.         *)
Listen(r, i) ==
    IF i \in heard THEN UNCHANGED <<listener, heard>>
    ELSE /\ listener' = [listener EXCEPT ![r] = i]
         /\ heard' = heard \cup {i}

(* getView for an item that comes onto the screen, or is laid out again.   *)
(* setChecked calls the listener the row has already, if the switch moves. *)
GetView(r, i) ==
    /\ shown[r] \in {None, i}
    /\ \A q \in Rows \ {r} : shown[q] # i
    /\ shown' = [shown EXCEPT ![r] = i]
    /\ value' = [value EXCEPT ![r] = i]
    /\ checked' = With(checked, r, i \in mCheck)
    /\ IF (r \in checked) = (i \in mCheck)
       THEN UNCHANGED <<tasks, mCheck, spoken>>
       ELSE CheckedChanged(r, i \in mCheck)
    /\ Listen(r, i)
    /\ recycled' = (recycled \/ value[r] \notin {None, i})
    /\ UNCHANGED told

(* The list scrolls and keeps the row for another item.                    *)
ScrollsOff(r) ==
    /\ shown[r] # None
    /\ shown' = [shown EXCEPT ![r] = None]
    /\ UNCHANGED <<checked, listener, value, mCheck, heard, tasks, told,
                   recycled, spoken>>

(* The user moves the switch of a row.                                     *)
Toggle(r) ==
    /\ shown[r] \in Switches
    /\ checked' = With(checked, r, r \notin checked)
    /\ CheckedChanged(r, r \notin checked)
    /\ UNCHANGED <<shown, listener, value, heard, told, recycled>>

(* The user touches a reading: its listener was made by the last getView.  *)
Touch(r) ==
    /\ shown[r] \in Readings
    /\ Len(tasks) < MaxTasks
    /\ tasks' = Append(tasks, [kind |-> "GET", item |-> shown[r], into |-> r])
    /\ UNCHANGED <<row, mCheck, heard, told, recycled, spoken>>

(* The user says or types a phrase of a note in the table that is a PUT for*)
(* a switch. (A phrase of a GET, or of no note, only has an answer spoken.)*)
Say ==
    /\ Len(tasks) < MaxTasks
    /\ \E kind \in {"ON", "OFF"}, i \in Switches :
          /\ tasks' = Append(tasks, [kind |-> kind, item |-> i, into |-> None])
          /\ spoken' = spoken \cup {i}
    /\ UNCHANGED <<row, mCheck, heard, told, recycled>>

(* Mutant: the tasks run on several threads.                               *)
RunTaskAny ==
    \E n \in DOMAIN tasks :
       /\ told' = IF tasks[n].kind = "GET" THEN told
                  ELSE With(told, tasks[n].item, tasks[n].kind = "ON")
       /\ tasks' = RemoveAt(tasks, n)
       /\ UNCHANGED <<row, mCheck, heard, recycled, spoken>>

(* The first task runs, and the answer or an error text of a GET goes into *)
(* the row it was started from. An answer to a PUT changes nothing.        *)
RunTask ==
    /\ tasks # <<>>
    /\ LET t == Head(tasks)
       IN  /\ value' = IF t.kind = "GET" THEN [value EXCEPT ![t.into] = t.item]
                       ELSE value
           /\ told' = IF t.kind = "GET" THEN told
                      ELSE With(told, t.item, t.kind = "ON")
    /\ tasks' = Tail(tasks)
    /\ UNCHANGED <<shown, checked, listener, mCheck, heard, recycled, spoken>>

Next ==
    \/ \E r \in Rows, i \in Items : GetView(r, i)
    \/ \E r \in Rows : ScrollsOff(r) \/ Toggle(r) \/ Touch(r)
    \/ Say \/ RunTask

Spec == Init /\ [][Next]_vars
-------------------------------------------------------------------------------
(* What the application has told the nodes, and is still going to tell     *)
(* them, ends with what it believes: whichever row, own or another item's, *)
(* a command came from, once the tasks have run each item's mCheck is the  *)
(* last command that was sent for it, unless that was spoken: mCheck does  *)
(* not follow the voice.                                                   *)
Puts(i) == {n \in DOMAIN tasks : tasks[n].item = i /\ tasks[n].kind # "GET"}
BelievesWhatItSends ==
    \A i \in Items \ spoken :
       /\ Puts(i) = {} => (i \in mCheck <=> i \in told)
       /\ \A n \in Puts(i) : (\A m \in Puts(i) : m <= n) =>
             (i \in mCheck <=> tasks[n].kind = "ON")

(* No two rows command the same device, hence no single movement of a      *)
(* switch sends two commands.                                              *)
OneListener ==
    \A q, r \in Rows : q # r /\ listener[q] # None => listener[q] # listener[r]

(* As long as no row has been used for two items, a row on the screen shows*)
(* its own item's reading and what the application believes of its switch, *)
(* and the switch commands its own item, if anything.                      *)
ShowsBelief ==
    ~recycled =>
       \A r \in Rows : shown[r] # None =>
          /\ value[r] = shown[r]
          /\ listener[r] \in {None, shown[r]}
          /\ shown[r] \in Switches /\ listener[r] # None =>
                (r \in checked <=> shown[r] \in mCheck)
===============================================================================
