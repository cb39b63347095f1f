------------------------------ MODULE Home_proofs ------------------------------
(***************************************************************************)
(* Theorems about DeviceList and Home, for any rows, items and requests    *)
(* and every length of AsyncTask's queue and of the Arduino's buffer.      *)
(***************************************************************************)
EXTENDS Home, TLAPS

BrokerProofs == INSTANCE XBeeBroker_proofs WITH Modes <- {1}, Leds <- Switches

(* What the broker's theorems assume of their constants.                   *)
LEMMA BrokerAssumptions ==
    /\ BrokerProofs!IsFiniteSet(Exchanges) /\ {1} \subseteq {1, 2, 3}
    /\ Switches \subseteq 1 .. 9 /\ BUFFER_SIZE \in Nat
BY ExchangesAssumption, LampsAssumption, BufferAssumption
   DEF IsFiniteSet, BrokerProofs!IsFiniteSet
--------------------------------------------------------------------------------

(* What the promises need of the types.                                    *)
Typed ==
    /\ shown \in [Rows -> Items \cup {None}]
    /\ listener \in [Rows -> Items \cup {None}]
    /\ value \in [Rows -> Items \cup {None}]
    /\ checked \subseteq Rows
    /\ tasks \in Seq(Tasks)

(* A listener is only made for an item that has none.                      *)
ListenersHeard == \A r \in Rows : listener[r] # None => listener[r] \in heard

(* Before a row is used for two items, all that hangs on a row is about the*)
(* one item that it showed: its reading, its listener, with its switch's   *)
(* position, and the answers on their way.                                 *)
RowsAgree ==
    ~recycled =>
       \A r \in Rows :
          /\ shown[r] # None => value[r] = shown[r]
          /\ listener[r] # None =>
                listener[r] = value[r] /\ (r \in checked <=> listener[r] \in mCheck)
AnswersAgree ==
    \A n \in 1 .. Len(tasks) :
       tasks[n].kind = "GET" =>
          /\ tasks[n].into \in Rows
          /\ ~recycled => value[tasks[n].into] = tasks[n].item

Inv == Typed /\ ListenersHeard /\ OneListener /\ RowsAgree /\ AnswersAgree

LEMMA InitInv == Init => Inv
BY DEF Init, Inv, Typed, ListenersHeard, OneListener, RowsAgree, AnswersAgree

(* Answers agree as long as no row changes its item unnoticed and only     *)
(* tasks are added that are commands, or questions of what the row shows.  *)
LEMMA AnswersKeep ==
    ASSUME Typed, AnswersAgree, tasks' \in Seq(Tasks),
           ~recycled' => /\ ~recycled
                         /\ \A q \in Rows : value[q] # None => value'[q] = value[q],
           \A n \in 1 .. Len(tasks') : tasks'[n].kind = "GET" =>
              \/ \E m \in 1 .. Len(tasks) : tasks[m] = tasks'[n]
              \/ /\ tasks'[n].into \in Rows
                 /\ ~recycled' => value'[tasks'[n].into] = tasks'[n].item
    PROVE  AnswersAgree'
<1> SUFFICES ASSUME NEW n \in 1 .. Len(tasks'), tasks'[n].kind = "GET",
                    NEW m \in 1 .. Len(tasks), tasks[m] = tasks'[n]
             PROVE  /\ tasks[m].into \in Rows
                    /\ ~recycled' => value'[tasks[m].into] = tasks[m].item
  BY DEF AnswersAgree
<1>1. tasks[m] \in Tasks
  BY DEF Typed
<1>2. tasks[m].item # None
  BY <1>1, NoneAssumption DEF Tasks
<1>3. QED BY <1>2 DEF AnswersAgree

LEMMA AppendTask ==
    ASSUME tasks \in Seq(Tasks), NEW t \in Tasks, tasks' = Append(tasks, t)
    PROVE  /\ tasks' \in Seq(Tasks)
           /\ \A n \in 1 .. Len(tasks') :
                 tasks'[n] = t \/ \E m \in 1 .. Len(tasks) : tasks[m] = tasks'[n]
OBVIOUS

(* What moving a switch does: a command for the listener's own item, or    *)
(* nothing.                                                                *)
LEMMA CommandType ==
    ASSUME Typed, NEW r \in Rows, NEW isOn \in BOOLEAN, CheckedChanged(r, isOn)
    PROVE  /\ tasks' \in Seq(Tasks)
           /\ \A n \in 1 .. Len(tasks') : tasks'[n].kind = "GET" =>
                 \E m \in 1 .. Len(tasks) : tasks[m] = tasks'[n]
           /\ mCheck' = IF listener[r] = None THEN mCheck
                        ELSE With(mCheck, listener[r], isOn)
<1>1. CASE listener[r] = None
  BY <1>1 DEF CheckedChanged, Typed
<1>2. CASE listener[r] # None
  <2> DEFINE t == [kind |-> IF isOn THEN "ON" ELSE "OFF",
                   item |-> listener[r], into |-> r]
  <2>1. listener[r] \in Items
    BY <1>2 DEF Typed
  <2>2. t \in Tasks /\ t.kind # "GET"
    BY <2>1 DEF Tasks
  <2>3. tasks' = Append(tasks, t) /\ mCheck' = With(mCheck, listener[r], isOn)
    BY <1>2 DEF CheckedChanged
  <2> HIDE DEF t
  <2>4. /\ tasks' \in Seq(Tasks)
        /\ \A n \in 1 .. Len(tasks') :
              tasks'[n] = t \/ \E m \in 1 .. Len(tasks) : tasks[m] = tasks'[n]
    BY <2>2, <2>3, AppendTask DEF Typed
  <2>5. QED BY <1>2, <2>2, <2>3, <2>4
<1>3. QED BY <1>1, <1>2

(* An item comes onto the screen, in a row that nobody used, or that shows *)
(* it again, or (recycled) that another item used before.                  *)
LEMMA GetViewInv ==
    ASSUME Inv, NEW r \in Rows, NEW i \in Items, GetView(r, i)
    PROVE  Inv'
<1> USE DEF Inv
<1>1. /\ shown' = [shown EXCEPT ![r] = i]
      /\ value' = [value EXCEPT ![r] = i]
      /\ checked' = With(checked, r, i \in mCheck)
      /\ recycled' = (recycled \/ value[r] \notin {None, i})
      /\ Listen(r, i)
  BY DEF GetView
<1>2. i # None
  BY NoneAssumption
<1>3. /\ tasks' \in Seq(Tasks)
      /\ \A n \in 1 .. Len(tasks') : tasks'[n].kind = "GET" =>
            \E m \in 1 .. Len(tasks) : tasks[m] = tasks'[n]
  <2>1. CASE (r \in checked) = (i \in mCheck)
    BY <2>1 DEF GetView, Typed
  <2>2. CASE (r \in checked) # (i \in mCheck)
    <3>1. CheckedChanged(r, i \in mCheck)
      BY <2>2 DEF GetView
    <3>2. CheckedChanged(r, TRUE) \/ CheckedChanged(r, FALSE)
      BY <3>1 DEF CheckedChanged, With
    <3>3. QED BY <3>2, CommandType
  <2>3. QED BY <2>1, <2>2
<1>4. Typed'
  BY <1>1, <1>3 DEF Typed, With, Listen
<1>5. ListenersHeard' /\ OneListener'
  BY <1>1, <1>2 DEF Typed, Listen, ListenersHeard, OneListener
<1>6. ~recycled' =>
         /\ ~recycled /\ value[r] \in {None, i}
         /\ listener[r] # None => listener[r] = i /\ (r \in checked <=> i \in mCheck)
  BY <1>1, <1>2 DEF RowsAgree
<1>7. ~recycled' => mCheck' = mCheck
  <2>1. CASE (r \in checked) = (i \in mCheck)
    BY <2>1 DEF GetView
  <2>2. CASE (r \in checked) # (i \in mCheck)
    <3>1. CheckedChanged(r, i \in mCheck)
      BY <2>2 DEF GetView
    <3>2. ~recycled' => listener[r] = None
      BY <1>6, <2>2
    <3>3. CheckedChanged(r, TRUE) \/ CheckedChanged(r, FALSE)
      BY <3>1 DEF CheckedChanged, With
    <3>4. QED BY <3>2, <3>3, CommandType
  <2>3. QED BY <2>1, <2>2
<1>8. RowsAgree'
  <2> SUFFICES ASSUME ~recycled', NEW q \in Rows
               PROVE  /\ shown'[q] # None => value'[q] = shown'[q]
                      /\ listener'[q] # None =>
                            /\ listener'[q] = value'[q]
                            /\ q \in checked' <=> listener'[q] \in mCheck'
    BY DEF RowsAgree
  <2>1. CASE q = r
    BY <1>1, <1>6, <1>7, <2>1 DEF Typed, Listen, With
  <2>2. CASE q # r
    BY <1>1, <1>6, <1>7, <2>2 DEF Typed, Listen, With, RowsAgree
  <2>3. QED BY <2>1, <2>2
<1>9. AnswersAgree'
  <2>1. ~recycled' => \A q \in Rows : value[q] # None => value'[q] = value[q]
    BY <1>1, <1>6 DEF Typed
  <2>2. QED BY <1>3, <1>6, <2>1, AnswersKeep
<1>10. QED BY <1>4, <1>5, <1>8, <1>9

(* The user's own steps.                                                   *)
LEMMA ToggleInv == ASSUME Inv, NEW r \in Rows, Toggle(r) PROVE Inv'
<1> USE DEF Inv
<1>1. /\ checked' = With(checked, r, r \notin checked)
      /\ CheckedChanged(r, r \notin checked)
      /\ UNCHANGED <<shown, listener, value, heard, recycled>>
  BY DEF Toggle
<1>2. /\ tasks' \in Seq(Tasks)
      /\ \A n \in 1 .. Len(tasks') : tasks'[n].kind = "GET" =>
            \E m \in 1 .. Len(tasks) : tasks[m] = tasks'[n]
      /\ mCheck' = IF listener[r] = None THEN mCheck
                   ELSE With(mCheck, listener[r], r \notin checked)
  BY <1>1, CommandType
<1>3. Typed' /\ ListenersHeard' /\ OneListener'
  BY <1>1, <1>2 DEF Typed, With, ListenersHeard, OneListener
<1>4. RowsAgree'
  <2>1. \A q \in Rows \ {r} : listener[q] # None =>
           (listener[q] \in mCheck' <=> listener[q] \in mCheck)
    BY <1>2 DEF OneListener, With
  <2>2. QED BY <1>1, <1>2, <2>1 DEF RowsAgree, With
<1>5. AnswersAgree'
  BY <1>1, <1>2, AnswersKeep
<1>6. QED BY <1>3, <1>4, <1>5

LEMMA QueueInv ==
    ASSUME Inv, NEW t \in Tasks, tasks' = Append(tasks, t),
           t.kind = "GET" => t.into \in Rows /\ (~recycled => value[t.into] = t.item),
           UNCHANGED <<row, mCheck, heard, recycled>>
    PROVE  Inv'
<1>1. /\ tasks' \in Seq(Tasks)
      /\ \A n \in 1 .. Len(tasks') :
            tasks'[n] = t \/ \E m \in 1 .. Len(tasks) : tasks[m] = tasks'[n]
  BY AppendTask DEF Inv, Typed
<1>2. AnswersAgree'
  BY <1>1, AnswersKeep DEF Inv, row
<1>3. QED
  BY <1>1, <1>2 DEF Inv, Typed, ListenersHeard, OneListener, RowsAgree, row

LEMMA AskInv ==
    ASSUME Inv, Say \/ \E r \in Rows : Touch(r)
    PROVE  Inv'
<1>1. CASE Say
  <2>1. PICK how \in {"ON", "OFF"}, i \in Switches :
           tasks' = Append(tasks, [kind |-> how, item |-> i, into |-> None])
    BY <1>1 DEF Say
  <2>2. [kind |-> how, item |-> i, into |-> None] \in Tasks
    BY DEF Tasks, Items
  <2>3. QED BY <1>1, <2>1, <2>2, QueueInv DEF Say
<1>2. CASE \E r \in Rows : Touch(r)
  <2>1. PICK r \in Rows : Touch(r)
    BY <1>2
  <2> DEFINE t == [kind |-> "GET", item |-> shown[r], into |-> r]
  <2>2. shown[r] \in Items /\ shown[r] # None
    BY <2>1, NoneAssumption DEF Touch, Items
  <2>3. t \in Tasks
    BY <2>2 DEF Tasks
  <2>4. ~recycled => value[r] = shown[r]
    BY <2>2 DEF Inv, RowsAgree
  <2>5. QED BY <2>1, <2>3, <2>4, QueueInv DEF Touch
<1>3. QED BY <1>1, <1>2

(* A task runs; its answer goes into a row that still shows its item.      *)
LEMMA RunTaskInv == ASSUME Inv, RunTask PROVE Inv'
<1> USE DEF Inv
<1> DEFINE t == Head(tasks)
<1>1. /\ tasks # <<>> /\ tasks' = Tail(tasks)
      /\ value' = IF t.kind = "GET" THEN [value EXCEPT ![t.into] = t.item] ELSE value
      /\ UNCHANGED <<shown, checked, listener, mCheck, heard, recycled>>
  BY DEF RunTask
<1>2. 1 \in 1 .. Len(tasks) /\ tasks[1] = t /\ t \in Tasks
  BY <1>1 DEF Typed
<1>3. t.item \in Items /\ (t.kind = "GET" => t.into \in Rows)
  BY <1>2 DEF AnswersAgree, Tasks
<1>4. /\ tasks' \in Seq(Tasks)
      /\ \A n \in 1 .. Len(tasks') :
            \E m \in 1 .. Len(tasks) : tasks[m] = tasks'[n]
  <2>1. /\ tasks' \in Seq(Tasks)
        /\ \A n \in 1 .. Len(tasks') :
              n + 1 \in 1 .. Len(tasks) /\ tasks[n + 1] = tasks'[n]
    BY <1>1 DEF Typed
  <2>2. QED BY <2>1
<1>5. ~recycled => value' = value
  BY <1>1, <1>2, <1>3 DEF Typed, AnswersAgree
<1>6. Typed'
  BY <1>1, <1>3, <1>4 DEF Typed
<1>7. ListenersHeard' /\ OneListener'
  BY <1>1 DEF ListenersHeard, OneListener
<1>8. RowsAgree'
  BY <1>1, <1>5 DEF RowsAgree
<1>9. AnswersAgree'
  BY <1>1, <1>4, <1>5, AnswersKeep
<1>10. QED BY <1>6, <1>7, <1>8, <1>9

LEMMA ScrollsOffInv == ASSUME Inv, NEW r \in Rows, ScrollsOff(r) PROVE Inv'
BY DEF Inv, Typed, ListenersHeard, OneListener, RowsAgree, AnswersAgree,
       ScrollsOff

LEMMA InvStep == Inv /\ [Next]_vars => Inv'
<1> SUFFICES ASSUME Inv, [Next]_vars PROVE Inv'
  OBVIOUS
<1>1. CASE UNCHANGED vars
  BY <1>1 DEF vars, row, Inv, Typed, ListenersHeard, OneListener, RowsAgree,
              AnswersAgree
<1>2. QED
  BY <1>1, GetViewInv, ToggleInv, AskInv, RunTaskInv, ScrollsOffInv DEF Next

(* What hangs on the rows holds together, whatever order views are bound,  *)
(* scrolled away and used again, switches moved and answers shown in.      *)
THEOREM InvAlways == Spec => []Inv
BY InitInv, InvStep, PTL DEF Spec

(* No two rows ever command the same device.                               *)
THEOREM NeverTwoListeners == Spec => []OneListener
<1>1. Inv => OneListener
  BY DEF Inv
<1>2. QED BY InvAlways, <1>1, PTL

(* Until a row is used for a second item, the screen shows each item's own *)
(* reading and what the application believes of its switch.                *)
THEOREM AlwaysShowsBelief == Spec => []ShowsBelief
<1>1. Inv => ShowsBelief
  BY DEF Inv, Typed, RowsAgree, ShowsBelief
<1>2. QED BY InvAlways, <1>1, PTL
--------------------------------------------------------------------------------
(* What the application believes.                                          *)

(* The PUTs for an item, and those among them that switch it on.           *)
PutsFor(i) == {t \in Tasks : t.item = i /\ t.kind # "GET"}
OnsFor(i) == {t \in Tasks : t.item = i /\ t.kind = "ON"}

(* For an item nobody spoke of the last PUT in the queue, or that ran, is  *)
(* what the application believes.                                          *)
Believes ==
    \A i \in Items \ spoken :
       BrokerProofs!LastSays(tasks, PutsFor(i), OnsFor(i), i, told, mCheck)

LEMMA AppendOwn ==
    ASSUME tasks \in Seq(Tasks), NEW t \in Tasks, NEW i, t \in PutsFor(i),
           t \in OnsFor(i) <=> i \in mCheck'
    PROVE  BrokerProofs!LastSays(Append(tasks, t), PutsFor(i), OnsFor(i), i, told, mCheck')
BY BrokerAssumptions, BrokerProofs!LastSaysAppendOwn

LEMMA AppendOther ==
    ASSUME tasks \in Seq(Tasks), NEW t \in Tasks, NEW i, t \notin PutsFor(i),
           i \in mCheck' <=> i \in mCheck,
           BrokerProofs!LastSays(tasks, PutsFor(i), OnsFor(i), i, told, mCheck)
    PROVE  BrokerProofs!LastSays(Append(tasks, t), PutsFor(i), OnsFor(i), i, told, mCheck')
BY BrokerAssumptions, BrokerProofs!LastSaysAppendOther

LEMMA TakeFirst ==
    ASSUME tasks \in Seq(Tasks), tasks # <<>>, NEW i,
           Head(tasks) \in PutsFor(i) => (i \in told' <=> Head(tasks) \in OnsFor(i)),
           Head(tasks) \notin PutsFor(i) => (i \in told' <=> i \in told),
           BrokerProofs!LastSays(tasks, PutsFor(i), OnsFor(i), i, told, mCheck)
    PROVE  BrokerProofs!LastSays(Tail(tasks), PutsFor(i), OnsFor(i), i, told', mCheck)
BY BrokerAssumptions, BrokerProofs!LastSaysTail

(* A command joins the queue: the application believes it, or it was spoken.*)
LEMMA BelievesAppend ==
    ASSUME tasks \in Seq(Tasks), Believes, NEW t \in Tasks, tasks' = Append(tasks, t),
           told' = told, t.kind # "GET",
           \A i \in Items \ {t.item} : i \in mCheck' <=> i \in mCheck,
           \A i \in Items \ {t.item} : i \in spoken => i \in spoken',
           t.item \in spoken' \/ (t.item \in mCheck' <=> t.kind = "ON")
    PROVE  Believes'
<1> SUFFICES ASSUME NEW i \in Items, i \notin spoken'
             PROVE  BrokerProofs!LastSays(tasks', PutsFor(i), OnsFor(i), i, told', mCheck')
  BY DEF Believes
<1>1. CASE i = t.item
  <2>1. t \in PutsFor(i) /\ (t \in OnsFor(i) <=> i \in mCheck')
    BY <1>1 DEF PutsFor, OnsFor
  <2>2. BrokerProofs!LastSays(Append(tasks, t), PutsFor(i), OnsFor(i), i, told, mCheck')
    BY <2>1, AppendOwn
  <2>3. QED BY <2>2
<1>2. CASE i # t.item
  <2>1. t \notin PutsFor(i) /\ (i \in mCheck' <=> i \in mCheck) /\ i \notin spoken
    BY <1>2 DEF PutsFor
  <2>2. BrokerProofs!LastSays(Append(tasks, t), PutsFor(i), OnsFor(i), i, told, mCheck')
    BY <2>1, AppendOther DEF Believes
  <2>3. QED BY <2>2
<1>3. QED BY <1>1, <1>2

LEMMA BelievesCommand ==
    ASSUME Typed, Believes, NEW r \in Rows, NEW isOn \in BOOLEAN,
           CheckedChanged(r, isOn), told' = told
    PROVE  Believes'
<1>1. CASE listener[r] = None
  BY <1>1 DEF CheckedChanged, Believes
<1>2. CASE listener[r] # None
  <2> DEFINE t == [kind |-> IF isOn THEN "ON" ELSE "OFF",
                   item |-> listener[r], into |-> r]
  <2>1. listener[r] \in Items
    BY <1>2 DEF Typed
  <2>2. /\ t \in Tasks /\ t.kind # "GET" /\ t.item = listener[r]
        /\ t.kind = "ON" <=> isOn = TRUE
    BY <2>1 DEF Tasks
  <2>3. /\ tasks' = Append(tasks, t) /\ mCheck' = With(mCheck, t.item, isOn)
        /\ spoken' = spoken \ {t.item}
    BY <1>2 DEF CheckedChanged
  <2>4. tasks \in Seq(Tasks)
    BY DEF Typed
  <2> HIDE DEF t
  <2>5. /\ \A i \in Items \ {t.item} : i \in mCheck' <=> i \in mCheck
        /\ \A i \in Items \ {t.item} : i \in spoken => i \in spoken'
    BY <2>3 DEF With
  <2>6. t.item \in mCheck' <=> t.kind = "ON"
    BY <2>2, <2>3 DEF With
  <2>7. QED BY <2>2, <2>3, <2>4, <2>5, <2>6, BelievesAppend
<1>3. QED BY <1>1, <1>2

LEMMA BelievesInit == Init => Believes
<1> SUFFICES ASSUME Init, NEW i \in Items
             PROVE  BrokerProofs!LastSays(tasks, PutsFor(i), OnsFor(i), i, told, mCheck)
  BY DEF Believes
<1>1. tasks = <<>> /\ Len(tasks) = 0 /\ told = {} /\ mCheck = {}
  BY DEF Init
<1>2. QED BY <1>1 DEF BrokerProofs!LastSays

(* A task runs: it told the node what it said, and what it said counts now.*)
LEMMA BelievesRunTask == ASSUME Typed, Believes, RunTask PROVE Believes'
<1>1. /\ tasks # <<>> /\ tasks' = Tail(tasks) /\ mCheck' = mCheck /\ spoken' = spoken
      /\ told' = IF Head(tasks).kind = "GET" THEN told
                 ELSE With(told, Head(tasks).item, Head(tasks).kind = "ON")
  BY DEF RunTask
<1>2. tasks \in Seq(Tasks) /\ Head(tasks) \in Tasks
  BY <1>1 DEF Typed
<1> SUFFICES ASSUME NEW i \in Items, i \notin spoken
             PROVE  BrokerProofs!LastSays(tasks', PutsFor(i), OnsFor(i), i, told', mCheck')
  BY <1>1 DEF Believes
<1>3. /\ Head(tasks) \in PutsFor(i) => (i \in told' <=> Head(tasks) \in OnsFor(i))
      /\ Head(tasks) \notin PutsFor(i) => (i \in told' <=> i \in told)
  BY <1>1, <1>2 DEF PutsFor, OnsFor, With
<1>4. BrokerProofs!LastSays(tasks, PutsFor(i), OnsFor(i), i, told, mCheck)
  BY DEF Believes
<1>5. BrokerProofs!LastSays(Tail(tasks), PutsFor(i), OnsFor(i), i, told', mCheck)
  BY <1>1, <1>2, <1>3, <1>4, TakeFirst
<1>6. QED BY <1>1, <1>5

LEMMA BelievesStep == Typed /\ Believes /\ [Next]_vars => Believes'
<1> SUFFICES ASSUME Typed, Believes, [Next]_vars PROVE Believes'
  OBVIOUS
<1>1. ASSUME UNCHANGED <<tasks, mCheck, told, spoken>> PROVE Believes'
  BY <1>1 DEF Believes
<1>2. ASSUME NEW r \in Rows, NEW i \in Items, GetView(r, i) PROVE Believes'
  <2>1. CASE (r \in checked) = (i \in mCheck)
    BY <1>1, <1>2, <2>1 DEF GetView
  <2>2. CASE (r \in checked) # (i \in mCheck)
    <3>1. CheckedChanged(r, i \in mCheck) /\ told' = told
      BY <1>2, <2>2 DEF GetView
    <3>2. CheckedChanged(r, TRUE) \/ CheckedChanged(r, FALSE)
      BY <3>1 DEF CheckedChanged, With
    <3>3. QED BY <3>1, <3>2, BelievesCommand
  <2>3. QED BY <2>1, <2>2
<1>3. ASSUME NEW r \in Rows, Toggle(r) PROVE Believes'
  BY <1>3, BelievesCommand DEF Toggle
<1>4. ASSUME NEW r \in Rows, Touch(r) PROVE Believes'
  <2> DEFINE t == [kind |-> "GET", item |-> shown[r], into |-> r]
  <2>1. t \in Tasks /\ t.kind = "GET"
    BY <1>4 DEF Touch, Tasks, Items
  <2>2. /\ tasks' = Append(tasks, t) /\ mCheck' = mCheck /\ told' = told
        /\ spoken' = spoken
    BY <1>4 DEF Touch
  <2> HIDE DEF t
  <2> SUFFICES ASSUME NEW i \in Items, i \notin spoken
               PROVE  BrokerProofs!LastSays(tasks', PutsFor(i), OnsFor(i), i, told', mCheck')
    BY <2>2 DEF Believes
  <2>3. BrokerProofs!LastSays(Append(tasks, t), PutsFor(i), OnsFor(i), i, told, mCheck')
    BY <2>1, <2>2, AppendOther DEF Believes, Typed, PutsFor
  <2>4. QED BY <2>2, <2>3
<1>5. ASSUME Say PROVE Believes'
  <2>1. PICK how \in {"ON", "OFF"}, i \in Switches :
           /\ tasks' = Append(tasks, [kind |-> how, item |-> i, into |-> None])
           /\ spoken' = spoken \cup {i}
    BY <1>5 DEF Say
  <2> DEFINE t == [kind |-> how, item |-> i, into |-> None]
  <2>2. t \in Tasks /\ t.kind # "GET" /\ t.item = i
    BY DEF Tasks, Items
  <2>3. tasks' = Append(tasks, t) /\ mCheck' = mCheck /\ told' = told
    BY <1>5, <2>1 DEF Say
  <2>4. tasks \in Seq(Tasks)
    BY DEF Typed
  <2> HIDE DEF t
  <2>5. QED BY <2>1, <2>2, <2>3, <2>4, BelievesAppend
<1>6. ASSUME NEW r \in Rows, ScrollsOff(r) PROVE Believes'
  BY <1>1, <1>6 DEF ScrollsOff
<1>7. CASE UNCHANGED vars
  BY <1>1, <1>7 DEF vars
<1>8. QED
  BY <1>2, <1>3, <1>4, <1>5, <1>6, <1>7, BelievesRunTask DEF Next

LEMMA LastPutIsBelieved == Typed /\ Believes => BelievesWhatItSends
<1> SUFFICES ASSUME Typed, Believes, NEW i \in Items, i \notin spoken
             PROVE  /\ Puts(i) = {} => (i \in mCheck <=> i \in told)
                    /\ \A n \in Puts(i) : (\A m \in Puts(i) : m <= n) =>
                          (i \in mCheck <=> tasks[n].kind = "ON")
  BY DEF BelievesWhatItSends
<1>1. /\ Len(tasks) \in Nat /\ DOMAIN tasks = 1 .. Len(tasks)
      /\ \A n \in 1 .. Len(tasks) : tasks[n] \in Tasks
  BY DEF Typed
<1>2. Puts(i) = {n \in 1 .. Len(tasks) : tasks[n] \in PutsFor(i)}
  BY <1>1 DEF Puts, PutsFor
<1>3. BrokerProofs!LastSays(tasks, PutsFor(i), OnsFor(i), i, told, mCheck)
  BY DEF Believes
<1>4. ASSUME Puts(i) = {} PROVE i \in mCheck <=> i \in told
  BY <1>2, <1>3, <1>4 DEF BrokerProofs!LastSays
<1>5. ASSUME NEW n \in Puts(i), \A m \in Puts(i) : m <= n
      PROVE  i \in mCheck <=> tasks[n].kind = "ON"
  <2>1. n \in 1 .. Len(tasks) /\ tasks[n] \in PutsFor(i)
    BY <1>2
  <2>2. \A m \in n + 1 .. Len(tasks) : tasks[m] \notin PutsFor(i)
    <3> SUFFICES ASSUME NEW m \in n + 1 .. Len(tasks), tasks[m] \in PutsFor(i)
                 PROVE  FALSE
      OBVIOUS
    <3>1. m \in 1 .. Len(tasks) /\ ~(m <= n)
      BY <1>1, <2>1
    <3>2. QED BY <1>2, <1>5, <3>1
  <2>3. tasks[n] \in OnsFor(i) <=> i \in mCheck
    BY <1>3, <2>1, <2>2 DEF BrokerProofs!LastSays
  <2>4. tasks[n] \in OnsFor(i) <=> tasks[n].kind = "ON"
    BY <2>1 DEF PutsFor, OnsFor
  <2>5. QED BY <2>3, <2>4
<1>6. QED BY <1>4, <1>5

(* The application's belief of an item is the last command that it sent or *)
(* is going to send for it, from whichever row, unless that was spoken.    *)
THEOREM AlwaysBelievesWhatItSends == Spec => []BelievesWhatItSends
<1>1. Init => Typed /\ Believes
  BY InitInv, BelievesInit DEF Inv
<1>2. (Inv /\ Believes) /\ [Next]_vars => (Inv /\ Believes)'
  BY BelievesStep, InvStep DEF Inv
<1>3. Inv /\ Believes => BelievesWhatItSends
  BY LastPutIsBelieved DEF Inv
<1>4. QED BY InitInv, <1>1, <1>2, <1>3, PTL DEF Spec
--------------------------------------------------------------------------------
(* The way to the lamps. The broker's steps are those its theorems are     *)
(* about.                                                                  *)
LEMMA SameLeds ==
    /\ \A i : Broker!Led(i) = BrokerProofs!Led(i)
    /\ \A i : Broker!LedRoom[i] = BrokerProofs!LedRoom[i]
BY DEF Broker!Led, BrokerProofs!Led, Broker!LedRoom, BrokerProofs!LedRoom, Broker!LedOn,
       BrokerProofs!LedOn, Broker!LedOff, BrokerProofs!LedOff, Broker!LedReq,
       BrokerProofs!LedReq

LEMMA SameInit == Broker!Init => BrokerProofs!Init
BY DEF Broker!Init, BrokerProofs!Init

LEMMA SamePutTo ==
    ASSUME NEW e, NEW r, NEW on, Broker!PutTo(e, r, on)
    PROVE  BrokerProofs!PutTo(e, r, on)
BY DEF Broker!PutTo, BrokerProofs!PutTo, Broker!Write, BrokerProofs!Write, Broker!Lose,
       BrokerProofs!Lose, Broker!IsRequest, BrokerProofs!IsRequest,
       Broker!Switched, BrokerProofs!Switched, Broker!Answer, BrokerProofs!Answer,
       Broker!NodeCommands, BrokerProofs!NodeCommands, Broker!Readonlys, BrokerProofs!Readonlys,
       Broker!Controlables, BrokerProofs!Controlables, Broker!Server1, BrokerProofs!Server1,
       Broker!Server2, BrokerProofs!Server2, Broker!Server3, BrokerProofs!Server3,
       Broker!Led, BrokerProofs!Led, Broker!LedRoom, BrokerProofs!LedRoom, Broker!LedOn,
       BrokerProofs!LedOn, Broker!LedOff, BrokerProofs!LedOff, Broker!LedReq,
       BrokerProofs!LedReq, Broker!Window, BrokerProofs!Window

LEMMA SameGoesOn ==
    ASSUME NEW e
    PROVE  /\ Broker!PutAnswers(e) => BrokerProofs!PutAnswers(e)
           /\ Broker!ArduinoLoop => BrokerProofs!ArduinoLoop
           /\ Broker!RadioLoses => BrokerProofs!RadioLoses
BY DEF Broker!PutAnswers, BrokerProofs!PutAnswers, Broker!ArduinoLoop,
       BrokerProofs!ArduinoLoop, Broker!RadioLoses, BrokerProofs!RadioLoses, Broker!Lose,
       BrokerProofs!Lose, Broker!IsRequest, BrokerProofs!IsRequest,
       Broker!Switched, BrokerProofs!Switched, Broker!Answer, BrokerProofs!Answer,
       Broker!NodeAnswers, BrokerProofs!NodeAnswers, Broker!ReadingBytes,
       BrokerProofs!ReadingBytes, Front, Broker!Front, BrokerProofs!Front,
       Broker!NodeCommands, BrokerProofs!NodeCommands, Broker!Readonlys, BrokerProofs!Readonlys,
       Broker!Controlables, BrokerProofs!Controlables, Broker!Server1, BrokerProofs!Server1,
       Broker!Server2, BrokerProofs!Server2, Broker!Server3, BrokerProofs!Server3,
       Broker!Led, BrokerProofs!Led, Broker!LedRoom, BrokerProofs!LedRoom, Broker!LedOn,
       BrokerProofs!LedOn, Broker!LedOff, BrokerProofs!LedOff, Broker!LedReq,
       BrokerProofs!LedReq, Broker!Window, BrokerProofs!Window

Lamp(i) == <<BrokerProofs!LedRoom[i], i>>

(* A request and an exchange under way are those of the first task, which  *)
(* is a command; of the exchange's write the broker kept what it says.     *)
AtHead ==
    /\ requests # {} \/ pending # None => tasks # <<>> /\ Head(tasks).kind # "GET"
    /\ \A q \in requests :
          q = [item |-> Head(tasks).item, on |-> Head(tasks).kind = "ON"]
    /\ requests = {} \/ pending = None
    /\ pending # None =>
          /\ pending \in Exchanges /\ Head(tasks).item \in Switches
          /\ step[pending] \in {"written", "answered"}
          /\ step[pending] = "written" \/ answer[pending] = "CHANGED" =>
                (Lamp(Head(tasks).item) \in commanded <=> Head(tasks).kind = "ON")

(* What an item's last task said is what was last written for its lamp,    *)
(* unless it failed, or its first task is at it.                           *)
Told ==
    \A i \in Switches :
       i \notin refused /\ (pending = None \/ Head(tasks).item # i) =>
          (i \in told <=> Lamp(i) \in commanded)

HomeInv == Inv /\ Believes /\ BrokerProofs!BrokerInv /\ AtHead /\ Told

LEMMA HomeInitInv == HomeInit => HomeInv
<1> SUFFICES ASSUME HomeInit PROVE HomeInv
  OBVIOUS
<1>1. Inv /\ Believes
  BY InitInv, BelievesInit DEF HomeInit
<1>2. BrokerProofs!BrokerInv
  BY SameInit, BrokerAssumptions, BrokerProofs!BrokerInitInv DEF HomeInit
<1>3. requests = {} /\ pending = None /\ told = {} /\ commanded = {}
  BY DEF HomeInit, Init, Broker!Init
<1>4. QED BY <1>1, <1>2, <1>3 DEF HomeInv, AtHead, Told

LEMMA HomeTypes ==
    ASSUME HomeInv
    PROVE  /\ mode = 1 /\ tasks \in Seq(Tasks)
           /\ DOMAIN step = Exchanges /\ DOMAIN answer = Exchanges
           /\ \A e \in Exchanges : step = [step EXCEPT ![e] = step[e]]
           /\ step \in [Exchanges -> BrokerProofs!Steps]
           /\ answer \in [Exchanges -> BrokerProofs!Answers]
BY DEF HomeInv, Inv, Typed, BrokerProofs!BrokerInv, BrokerProofs!TypeOK

(* The application's steps are those of a list, the broker's its own.      *)
LEMMA HomeParts ==
    ASSUME HomeInv, [HomeNext]_homeVars
    PROVE  Inv' /\ Believes' /\ BrokerProofs!BrokerInv'
<1>1. [Next]_vars
  BY DEF HomeNext, UsesList, SendPut, PutIsLost, PutReturns, HandlePut, BrokerGoesOn,
         Next, homeVars
<1>2. [BrokerProofs!Next]_BrokerProofs!vars
  <2>1. UNCHANGED brokerVars => UNCHANGED BrokerProofs!vars
    BY DEF brokerVars, BrokerProofs!vars
  <2>2. ASSUME NEW e \in Exchanges, HandlePut(e) PROVE BrokerProofs!Next
    <3>1. PICK q \in requests : q.item \in Switches /\ Broker!PutTo(e, Broker!Led(q.item), q.on)
      BY <2>2 DEF HandlePut
    <3>2. BrokerProofs!PutTo(e, BrokerProofs!Led(q.item), q.on)
      BY <3>1, SameLeds, SamePutTo
    <3>3. q.on \in BOOLEAN
      <4>1. q = [item |-> Head(tasks).item, on |-> Head(tasks).kind = "ON"]
        BY DEF HomeInv, AtHead
      <4>2. CASE Head(tasks).kind = "ON"
        BY <4>1, <4>2
      <4>3. CASE Head(tasks).kind # "ON"
        BY <4>1, <4>3
      <4>4. QED BY <4>2, <4>3
    <3>4. BrokerProofs!Led(q.item) \in BrokerProofs!Controlables(mode)
      BY <3>1, HomeTypes, BrokerAssumptions, BrokerProofs!LedsReachable
    <3>5. BrokerProofs!Put(e)
      BY <3>2, <3>3, <3>4 DEF BrokerProofs!Put
    <3>6. QED BY <3>5 DEF BrokerProofs!Next
  <2>3. BrokerGoesOn => BrokerProofs!Next
    BY SameGoesOn DEF BrokerGoesOn, BrokerProofs!Next
  <2>4. QED
    BY <2>1, <2>2, <2>3 DEF HomeNext, UsesList, SendPut, PutIsLost, PutReturns, homeVars
<1>3. BrokerProofs!BrokerInv'
  BY <1>2, BrokerAssumptions, BrokerProofs!BrokerStepInv DEF HomeInv
<1>4. QED BY <1>1, <1>3, InvStep, BelievesStep DEF HomeInv, Inv

(* What the user does leaves the first task where it is.                   *)
LEMMA HeadStays ==
    ASSUME tasks \in Seq(Tasks), tasks # <<>>, NEW t \in Tasks,
           tasks' = tasks \/ tasks' = Append(tasks, t)
    PROVE  tasks' # <<>> /\ Head(tasks') = Head(tasks)
OBVIOUS

LEMMA UserAppends ==
    ASSUME Typed,
           \/ \E r \in Rows, i \in Items : GetView(r, i)
           \/ \E r \in Rows : ScrollsOff(r) \/ Toggle(r) \/ Touch(r)
           \/ Say
    PROVE  told' = told /\ (tasks' = tasks \/ \E t \in Tasks : tasks' = Append(tasks, t))
<1>1. ASSUME NEW r \in Rows, NEW isOn, CheckedChanged(r, isOn)
      PROVE  tasks' = tasks \/ \E t \in Tasks : tasks' = Append(tasks, t)
  <2> DEFINE t == [kind |-> IF isOn THEN "ON" ELSE "OFF",
                   item |-> listener[r], into |-> r]
  <2>1. CASE listener[r] = None
    BY <1>1, <2>1 DEF CheckedChanged
  <2>2. CASE listener[r] # None
    <3>1. t \in Tasks
      BY <2>2 DEF Typed, Tasks
    <3>2. QED BY <1>1, <2>2, <3>1 DEF CheckedChanged
  <2>3. QED BY <2>1, <2>2
<1>2. ASSUME NEW r \in Rows, NEW i \in Items, GetView(r, i)
      PROVE  told' = told /\ (tasks' = tasks \/ \E t \in Tasks : tasks' = Append(tasks, t))
  BY <1>1, <1>2 DEF GetView
<1>3. ASSUME NEW r \in Rows, Toggle(r)
      PROVE  told' = told /\ (tasks' = tasks \/ \E t \in Tasks : tasks' = Append(tasks, t))
  BY <1>1, <1>3 DEF Toggle
<1>4. ASSUME NEW r \in Rows, Touch(r)
      PROVE  told' = told /\ \E t \in Tasks : tasks' = Append(tasks, t)
  <2>1. [kind |-> "GET", item |-> shown[r], into |-> r] \in Tasks
    BY <1>4 DEF Touch, Tasks, Items
  <2>2. QED BY <1>4, <2>1 DEF Touch
<1>5. ASSUME Say
      PROVE  told' = told /\ \E t \in Tasks : tasks' = Append(tasks, t)
  <2>1. PICK how \in {"ON", "OFF"}, i \in Switches :
           tasks' = Append(tasks, [kind |-> how, item |-> i, into |-> None])
    BY <1>5 DEF Say
  <2>2. [kind |-> how, item |-> i, into |-> None] \in Tasks
    BY DEF Tasks, Items
  <2>3. QED BY <1>5, <2>1, <2>2 DEF Say
<1>6. QED BY <1>2, <1>3, <1>4, <1>5 DEF ScrollsOff

LEMMA UsesListKeeps == ASSUME HomeInv, UsesList PROVE AtHead' /\ Told'
<1>1. /\ requests' = requests /\ pending' = pending /\ refused' = refused
      /\ step' = step /\ answer' = answer /\ commanded' = commanded
  BY DEF UsesList, brokerVars
<1>2. CASE tasks # <<>> /\ Head(tasks).kind = "GET" /\ RunTask
  <2>1. requests = {} /\ pending = None
    BY <1>2 DEF HomeInv, AtHead
  <2>2. told' = told
    BY <1>2 DEF RunTask
  <2>3. QED BY <1>1, <2>1, <2>2 DEF HomeInv, AtHead, Told
<1>3. CASE \/ \E r \in Rows, i \in Items : GetView(r, i)
           \/ \E r \in Rows : ScrollsOff(r) \/ Toggle(r) \/ Touch(r)
           \/ Say
  <2>1. told' = told /\ (tasks' = tasks \/ \E t \in Tasks : tasks' = Append(tasks, t))
    BY <1>3, UserAppends DEF HomeInv, Inv
  <2>2. tasks # <<>> => tasks' # <<>> /\ Head(tasks') = Head(tasks)
    BY <2>1, HomeTypes, HeadStays
  <2>3. AtHead'
    BY <1>1, <2>2 DEF HomeInv, AtHead
  <2>4. Told'
    <3>1. pending # None => Head(tasks') = Head(tasks)
      BY <2>2 DEF HomeInv, AtHead
    <3>2. QED BY <1>1, <2>1, <3>1 DEF HomeInv, Told
  <2>5. QED BY <2>3, <2>4
<1>4. QED BY <1>2, <1>3 DEF UsesList

LEMMA SendPutKeeps == ASSUME HomeInv, SendPut PROVE AtHead' /\ Told'
<1>1. /\ requests' = {[item |-> Head(tasks).item, on |-> Head(tasks).kind = "ON"]}
      /\ tasks # <<>> /\ Head(tasks).kind # "GET" /\ pending = None /\ pending' = None
      /\ tasks' = tasks /\ told' = told /\ refused' = refused /\ commanded' = commanded
  BY DEF SendPut, vars, brokerVars
<1>2. QED BY <1>1 DEF HomeInv, AtHead, Told

(* A request is of the first task, and no exchange is under way.           *)
LEMMA RequestIs ==
    ASSUME HomeInv, NEW q \in requests
    PROVE  /\ tasks # <<>> /\ Head(tasks).kind # "GET" /\ pending = None
           /\ q.item = Head(tasks).item
           /\ Head(tasks).kind = "ON" => q.on = TRUE
           /\ Head(tasks).kind # "ON" => q.on = FALSE
           /\ requests \ {q} = {}
<1>1. /\ tasks # <<>> /\ Head(tasks).kind # "GET" /\ pending = None
      /\ \A p \in requests : p = [item |-> Head(tasks).item, on |-> Head(tasks).kind = "ON"]
  BY DEF HomeInv, AtHead
<1>2. requests \ {q} = {}
  BY <1>1
<1>3. q = [item |-> Head(tasks).item, on |-> Head(tasks).kind = "ON"]
  BY <1>1
<1>4. q.item = Head(tasks).item
  BY <1>3
<1>5. CASE Head(tasks).kind = "ON"
  BY <1>1, <1>2, <1>3, <1>4, <1>5
<1>6. CASE Head(tasks).kind # "ON"
  BY <1>1, <1>2, <1>3, <1>4, <1>6
<1>7. QED BY <1>5, <1>6

LEMMA HandlePutKeeps ==
    ASSUME HomeInv, NEW e \in Exchanges, HandlePut(e)
    PROVE  AtHead' /\ Told'
<1>1. PICK q \in requests :
         /\ q.item \in Switches
         /\ Broker!PutTo(e, Broker!Led(q.item), q.on)
         /\ requests' = requests \ {q} /\ pending' = e /\ UNCHANGED <<vars, refused>>
  BY DEF HandlePut
<1> DEFINE i == Head(tasks).item
           on == q.on
<1>2. /\ tasks' = tasks /\ told' = told /\ refused' = refused
      /\ tasks # <<>> /\ Head(tasks).kind # "GET" /\ pending = None
      /\ i \in Switches /\ requests' = {} /\ q.item = i
      /\ Head(tasks).kind = "ON" => on = TRUE
      /\ Head(tasks).kind # "ON" => on = FALSE
  BY <1>1, RequestIs DEF vars
<1>3. e # None
  BY ExchangesAssumption
<1>4. BrokerProofs!PutTo(e, BrokerProofs!Led(i), on)
  BY <1>1, <1>2, SameLeds, SamePutTo
<1>5. Lamp(i) = <<BrokerProofs!Led(i).room, BrokerProofs!Led(i).unit>>
  BY <1>2, HomeTypes, BrokerAssumptions, BrokerProofs!LedsReachable DEF Lamp
<1>6. /\ step' \in [Exchanges -> BrokerProofs!Steps \cup {"written", "answered"}]
      /\ \/ /\ commanded' = BrokerProofs!Switched(commanded, Lamp(i), on)
            /\ step'[e] = "written"
         \/ /\ commanded' = commanded
            /\ step'[e] = "answered" /\ answer'[e] = "ioexception"
  <2>1. \/ /\ commanded' = BrokerProofs!Switched(commanded, Lamp(i), on)
           /\ step' = [step EXCEPT ![e] = "written"]
        \/ /\ commanded' = commanded
           /\ step' = [step EXCEPT ![e] = "answered"]
           /\ answer' = [answer EXCEPT ![e] = "ioexception"]
    BY <1>4, <1>5 DEF BrokerProofs!PutTo, BrokerProofs!Answer
  <2>2. QED BY <2>1, HomeTypes
<1>7. \A j \in Switches : j # i => (Lamp(j) \in commanded' <=> Lamp(j) \in commanded)
  <2>1. \A j \in Switches : j # i => Lamp(j) # Lamp(i)
    BY DEF Lamp
  <2>2. QED BY <1>6, <2>1 DEF BrokerProofs!Switched
<1>8. step'[e] = "written" => (Lamp(i) \in commanded' <=> Head(tasks).kind = "ON")
  <2>1. CASE Head(tasks).kind = "ON"
    BY <1>2, <1>6, <2>1 DEF BrokerProofs!Switched
  <2>2. CASE Head(tasks).kind # "ON"
    BY <1>2, <1>6, <2>2 DEF BrokerProofs!Switched
  <2>3. QED BY <2>1, <2>2
<1>9. AtHead'
  BY <1>1, <1>2, <1>3, <1>6, <1>8 DEF AtHead
<1>10. Told'
  BY <1>1, <1>2, <1>3, <1>7 DEF HomeInv, Told
<1>11. QED BY <1>9, <1>10

(* A task that is done, whether its request came or not.                   *)
LEMMA PutIsLostKeeps == ASSUME HomeInv, PutIsLost PROVE AtHead' /\ Told'
<1>1. PICK q \in requests :
         /\ RunTask /\ requests' = requests \ {q} /\ refused' = refused \cup {q.item}
         /\ UNCHANGED <<brokerVars, pending>>
  BY DEF PutIsLost
<1>2. /\ requests' = {} /\ pending = None /\ pending' = None /\ commanded' = commanded
      /\ Head(tasks).kind # "GET" /\ refused' = refused \cup {Head(tasks).item}
  BY <1>1, RequestIs DEF brokerVars
<1>3. told' = With(told, Head(tasks).item, Head(tasks).kind = "ON")
  BY <1>1, <1>2 DEF RunTask
<1>4. QED BY <1>2, <1>3 DEF HomeInv, AtHead, Told, With

LEMMA PutReturnsKeeps == ASSUME HomeInv, PutReturns PROVE AtHead' /\ Told'
<1>1. /\ pending # None /\ pending' = None /\ requests' = requests /\ commanded' = commanded
      /\ refused' = IF answer[pending] = "CHANGED" THEN refused \ {Head(tasks).item}
                    ELSE refused \cup {Head(tasks).item}
  BY DEF PutReturns, brokerVars
<1>2. /\ requests = {} /\ Head(tasks).kind # "GET"
      /\ answer[pending] = "CHANGED" =>
            (Lamp(Head(tasks).item) \in commanded <=> Head(tasks).kind = "ON")
  BY <1>1 DEF HomeInv, AtHead
<1>3. told' = With(told, Head(tasks).item, Head(tasks).kind = "ON")
  BY <1>2 DEF PutReturns, RunTask
<1>4. AtHead'
  BY <1>1, <1>2 DEF AtHead
<1>5. ASSUME NEW i \in Switches, i \notin refused'
      PROVE  i \in told' <=> Lamp(i) \in commanded'
  <2>1. CASE i = Head(tasks).item
    BY <1>1, <1>2, <1>3, <1>5, <2>1 DEF With
  <2>2. CASE i # Head(tasks).item
    BY <1>1, <1>3, <1>5, <2>2 DEF HomeInv, Told, With
  <2>3. QED BY <2>1, <2>2
<1>6. QED BY <1>4, <1>5 DEF Told

LEMMA BrokerGoesOnKeeps == ASSUME HomeInv, BrokerGoesOn PROVE AtHead' /\ Told'
<1>1. /\ tasks' = tasks /\ told' = told /\ requests' = requests /\ pending' = pending
      /\ refused' = refused
  BY DEF BrokerGoesOn, vars
<1>2. /\ commanded' = commanded
      /\ \/ step' = step /\ answer' = answer
         \/ \E e \in Exchanges : /\ step[e] = "written"
                                 /\ step' = [step EXCEPT ![e] = "answered"]
                                 /\ answer' = [answer EXCEPT ![e] = "CHANGED"]
  BY DEF BrokerGoesOn, Broker!PutAnswers, Broker!Answer, Broker!ArduinoLoop,
         Broker!RadioLoses
<1>3. \A x \in Exchanges :
         \/ step'[x] = step[x] /\ answer'[x] = answer[x]
         \/ step[x] = "written" /\ step'[x] = "answered"
  BY <1>2, HomeTypes
<1>4. AtHead'
  BY <1>1, <1>2, <1>3 DEF HomeInv, AtHead
<1>5. Told'
  BY <1>1, <1>2 DEF HomeInv, Told
<1>6. QED BY <1>4, <1>5

LEMMA HomeStepInv == HomeInv /\ [HomeNext]_homeVars => HomeInv'
<1> SUFFICES ASSUME HomeInv, [HomeNext]_homeVars PROVE AtHead' /\ Told'
  BY HomeParts DEF HomeInv
<1>1. CASE UNCHANGED homeVars
  BY <1>1 DEF homeVars, vars, brokerVars, HomeInv, AtHead, Told
<1>2. QED
  BY <1>1, UsesListKeeps, SendPutKeeps, HandlePutKeeps, PutIsLostKeeps, PutReturnsKeeps,
     BrokerGoesOnKeeps DEF HomeNext

(* The list, the task that waits and the broker's exchange hold together.  *)
THEOREM HomeInvAlways == HomeSpec => []HomeInv
BY HomeInitInv, HomeStepInv, PTL DEF HomeSpec

(* From the finger to the lamp: when nothing is on its way, each lamp is as*)
(* its item in the application says, but for items whose last command was  *)
(* spoken, or failed, and lamps that lost a byte of their own.             *)
THEOREM AlwaysLampsFollow == HomeSpec => []LampsFollow
<1>1. HomeInv => LampsFollow
  <2> SUFFICES ASSUME HomeInv, tasks = <<>>, requests = {}, wire = <<>>,
                      NEW i \in Switches, i \notin spoken, i \notin refused,
                      Lamp(i) \notin lost
               PROVE  i \in mCheck <=> Lamp(i) \in outputs
    BY SameLeds, Zenon DEF LampsFollow, Lamp
  <2>1. pending = None
    BY DEF HomeInv, AtHead
  <2>2. Puts(i) = {}
    BY DEF Puts
  <2>3. i \in mCheck <=> i \in told
    BY <2>2, LastPutIsBelieved DEF HomeInv, Inv, BelievesWhatItSends, Items
  <2>4. i \in told <=> Lamp(i) \in commanded
    BY <2>1 DEF HomeInv, Told
  <2>5. Lamp(i) \in BrokerProofs!Reachable
    BY HomeTypes, BrokerAssumptions, BrokerProofs!LedsReachable DEF Lamp
  <2>6. outputs \ lost = (commanded \cap BrokerProofs!Reachable) \ lost
    BY BrokerAssumptions, BrokerProofs!QuietFollows DEF HomeInv, BrokerProofs!LastCommandWins
  <2>7. Lamp(i) \in commanded <=> Lamp(i) \in outputs
    BY <2>5, <2>6
  <2>8. QED BY <2>3, <2>4, <2>7
<1>2. QED BY <1>1, HomeInvAlways, PTL
================================================================================
