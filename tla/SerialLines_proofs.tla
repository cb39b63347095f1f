-------------------------- MODULE SerialLines_proofs ---------------------------
(***************************************************************************)
(* Theorems about the two serial lines: NetUart, for all addresses and     *)
(* ports and every length of Contiki's queue, and XBeeRadio, for all rates,*)
(* any number of attempts, and any number of faults and packets.           *)
(***************************************************************************)
EXTENDS NetUart, XBeeRadio, TLAPS

(* What is queued stays queued when an event is added, and when another    *)
(* one is delivered.                                                       *)
LEMMA PostKeeps ==
    ASSUME queue \in Seq(Events), QUEUE_SIZE \in Nat, Len(queue) <= QUEUE_SIZE,
           NEW e \in Events, Post(e), NEW x, Pending(x)
    PROVE  Pending(x)'
<1>1. PICK i \in DOMAIN queue : queue[i] = x
  BY DEF Pending, Range
<1>2. CASE queue' = queue
  BY <1>1, <1>2 DEF Pending, Range
<1>3. CASE queue' = Append(queue, e)
  <2>1. i \in DOMAIN queue' /\ queue'[i] = x
    BY <1>1, <1>3
  <2>2. QED BY <2>1 DEF Pending, Range
<1>4. QED BY <1>2, <1>3 DEF Post

LEMMA PostAdds ==
    ASSUME queue \in Seq(Events), QUEUE_SIZE \in Nat, Len(queue) <= QUEUE_SIZE,
           NEW e \in Events, Post(e)
    PROVE  Pending(e)' \/ Len(queue) = QUEUE_SIZE
<1>1. SUFFICES ASSUME Len(queue) # QUEUE_SIZE PROVE Pending(e)'
  OBVIOUS
<1>2. queue' = Append(queue, e)
  BY <1>1 DEF Post
<1>3. Len(queue') \in DOMAIN queue' /\ queue'[Len(queue')] = e
  BY <1>2
<1>4. QED BY <1>3 DEF Pending, Range

LEMMA PostType ==
    ASSUME queue \in Seq(Events), QUEUE_SIZE \in Nat, Len(queue) <= QUEUE_SIZE,
           NEW e \in Events, Post(e)
    PROVE  queue' \in Seq(Events) /\ Len(queue') <= QUEUE_SIZE
BY DEF Post

LEMMA TailKeeps ==
    ASSUME queue \in Seq(Events), queue # <<>>, queue' = Tail(queue),
           NEW x, Pending(x), x # Head(queue)
    PROVE  Pending(x)'
<1>1. PICK i \in DOMAIN queue : queue[i] = x
  BY DEF Pending, Range
<1>2. i \in 1 .. Len(queue) /\ i # 1
  BY <1>1
<1>3. i - 1 \in DOMAIN queue' /\ queue'[i - 1] = x
  BY <1>1, <1>2
<1>4. QED BY <1>3 DEF Pending, Range

LEMMA EventTypes ==
    /\ "loaded" \in Events /\ "new_config" \in Events /\ "other" \in Events
    /\ \A a \in Addresses : a \in Events
    /\ "loaded" \notin Addresses /\ "new_config" \notin Addresses
    /\ DefaultConfig \in Configs /\ Default \in Addresses
    /\ QUEUE_SIZE \in Nat /\ 1 <= QUEUE_SIZE
BY AddressesAssumption, PortsAssumption, QueueAssumption
   DEF Events, DefaultConfig, Configs
--------------------------------------------------------------------------------
(* The three promises do not depend on each other, but all on the types.   *)
UartInv == UartTypeOK /\ SendsWhereConfigured /\ HeardIfEnabled /\ RunsAsSaved

LEMMA UartInitInv == UartInit => UartInv
<1> SUFFICES ASSUME UartInit PROVE UartInv
  OBVIOUS
<1>1. Len(queue) = 1 /\ queue \in Seq(Events) /\ 1 \in DOMAIN queue
  BY EventTypes DEF UartInit
<1>2. UartTypeOK
  BY <1>1, EventTypes DEF UartInit, UartTypeOK
<1>3. Pending("loaded")
  BY <1>1 DEF UartInit, Pending, Range
<1>4. SendsWhereConfigured /\ HeardIfEnabled /\ RunsAsSaved
  BY <1>3
  DEF UartInit, SendsWhereConfigured, HeardIfEnabled, RunsAsSaved, DefaultConfig
<1>5. QED BY <1>2, <1>4 DEF UartInv

(* A save leaves one configuration, or none, in the flash; it leaves what  *)
(* the node runs with, or it failed.                                       *)
LEMMA SaveConfigType ==
    ASSUME UartTypeOK, SaveConfig, config' \in Configs
    PROVE  /\ saved' = {} \/ \E c \in Configs : saved' = {c}
           /\ spoilt' \in BOOLEAN
           /\ saved' = {config'} \/ spoilt'
BY DEF UartTypeOK, SaveConfig

(* A line or another event that is only queued disturbs nothing.           *)
LEMMA PostInv ==
    ASSUME UartInv, NEW e \in Events, Post(e),
           UNCHANGED <<remote_addr, config, input, form, saved, typed, unheard,
                       spoilt>>
    PROVE  UartInv'
<1>1. UartTypeOK'
  BY EventTypes, PostType DEF UartInv, UartTypeOK
<1>2. \A x : Pending(x) => Pending(x)'
  BY EventTypes, PostKeeps DEF UartInv, UartTypeOK
<1>3. SendsWhereConfigured'
  BY <1>2 DEF UartInv, SendsWhereConfigured
<1>4. HeardIfEnabled'
  BY <1>2 DEF UartInv, HeardIfEnabled
<1>5. RunsAsSaved'
  BY <1>2 DEF UartInv, RunsAsSaved
<1>6. QED BY <1>1, <1>3, <1>4, <1>5 DEF UartInv

(* The restart finds the configuration in the flash, or the defaults; in   *)
(* both cases it announces it.                                             *)
LEMMA ResetInv == ASSUME UartInv, Reset PROVE UartInv'
<1>1. queue' \in Seq(Events) /\ Len(queue') = 1 /\ 1 \in DOMAIN queue'
  BY EventTypes DEF Reset
<1>2. Pending("loaded")'
  BY <1>1 DEF Reset, Pending, Range
<1>3. config' \in Configs /\ spoilt' \in BOOLEAN
  BY EventTypes DEF Reset, UartInv, UartTypeOK
<1>4. UartTypeOK'
  BY <1>1, <1>3, EventTypes DEF Reset, UartInv, UartTypeOK
<1>5. SendsWhereConfigured'
  BY <1>2 DEF SendsWhereConfigured
<1>6. HeardIfEnabled'
  BY <1>2, <1>3 DEF Reset, HeardIfEnabled, Configs
<1>7. RunsAsSaved'
  <2>1. CASE config' \in saved
    <3>1. saved' = {config'}
      BY <2>1 DEF Reset, UartInv, UartTypeOK
    <3>2. QED BY <3>1 DEF RunsAsSaved
  <2>2. CASE config' = DefaultConfig /\ spoilt' = (saved # {})
    BY <2>2 DEF Reset, RunsAsSaved
  <2>3. QED BY <2>1, <2>2 DEF Reset, UartInv, UartTypeOK
<1>8. QED BY <1>4, <1>5, <1>6, <1>7 DEF UartInv

(* The event that is delivered is the one an exception waits for, or that  *)
(* exception's event stays in the queue.                                   *)
LEMMA DeliverInv == ASSUME UartInv, Deliver PROVE UartInv'
<1> USE DEF UartInv
<1>1. queue' \in Seq(Events) /\ Len(queue') <= QUEUE_SIZE
  BY EventTypes DEF Deliver, UartTypeOK
<1>2. \A x : x # Head(queue) /\ Pending(x) => Pending(x)'
  BY TailKeeps DEF Deliver, UartTypeOK
<1>3. CASE Head(queue) = "loaded" /\ GetLoaded
  <2>1. UartTypeOK'
    BY <1>1, <1>3 DEF Deliver, GetLoaded, UartTypeOK, Configs
  <2>2. SendsWhereConfigured'
    BY <1>3 DEF GetLoaded, SendsWhereConfigured
  <2>3. HeardIfEnabled'
    BY <1>3 DEF GetLoaded, HeardIfEnabled, UartTypeOK, Configs
  <2>4. RunsAsSaved'
    BY <1>2, <1>3 DEF Deliver, GetLoaded, RunsAsSaved
  <2>5. QED BY <2>1, <2>2, <2>3, <2>4
<1>4. CASE Head(queue) = "new_config" /\ GetNewConfig
  <2>1. SaveConfig /\ config' = config /\ config' \in Configs
    BY <1>4 DEF GetNewConfig, UartTypeOK
  <2>2. UartTypeOK'
    BY <1>1, <1>4, <2>1, SaveConfigType DEF Deliver, GetNewConfig, UartTypeOK
  <2>3. SendsWhereConfigured' /\ HeardIfEnabled'
    BY <1>2, <1>4 DEF GetNewConfig, SendsWhereConfigured, HeardIfEnabled
  <2>4. RunsAsSaved'
    BY <2>1, SaveConfigType DEF RunsAsSaved
  <2>5. QED BY <2>2, <2>3, <2>4
<1>5. CASE Head(queue) = "other" /\ GetOther
  <2>1. UartTypeOK'
    BY <1>1, <1>5 DEF Deliver, GetOther, UartTypeOK
  <2>2. SendsWhereConfigured' /\ HeardIfEnabled' /\ RunsAsSaved'
    BY <1>2, <1>5
    DEF Deliver, GetOther, SendsWhereConfigured, HeardIfEnabled, RunsAsSaved
  <2>3. QED BY <2>1, <2>2
<1>6. CASE Head(queue) \in Addresses /\ GetAddress
  <2>1. UartTypeOK'
    BY <1>1, <1>6 DEF Deliver, GetAddress, UartTypeOK
  <2>2. SendsWhereConfigured'
    BY <1>6 DEF GetAddress, SendsWhereConfigured
  <2>3. Head(queue) # "loaded" /\ Head(queue) # "new_config"
    BY <1>6, EventTypes
  <2>4. HeardIfEnabled' /\ RunsAsSaved'
    BY <1>2, <1>6, <2>3 DEF Deliver, GetAddress, HeardIfEnabled, RunsAsSaved
  <2>5. QED BY <2>1, <2>2, <2>4
<1>7. QED BY <1>3, <1>4, <1>5, <1>6 DEF Deliver

(* A form that sets something is not finished with it.                     *)
LEMMA FormInv ==
    ASSUME UartInv, PostPort \/ PostAddress \/ PostOnOff \/ PostOther
    PROVE  UartInv'
<1> USE DEF UartInv
<1>1. queue' = queue /\ form'
  BY DEF PostPort, PostAddress, PostOnOff, PostOther
<1>2. \A x : Pending(x)' <=> Pending(x)
  BY <1>1 DEF Pending
<1>3. RunsAsSaved'
  BY <1>1 DEF RunsAsSaved
<1>4. CASE PostPort
  <2>1. PICK p \in Ports : config' = [config EXCEPT !.remote_port = p]
    BY <1>4 DEF PostPort
  <2>2. /\ config' \in Configs
        /\ config'.remote_address = config.remote_address
        /\ config'.enable = config.enable
    BY <2>1 DEF UartTypeOK, Configs
  <2>3. UartTypeOK'
    BY <1>1, <1>4, <2>2 DEF PostPort, UartTypeOK
  <2>4. SendsWhereConfigured' /\ HeardIfEnabled'
    BY <1>2, <1>4, <2>2 DEF PostPort, SendsWhereConfigured, HeardIfEnabled
  <2>5. QED BY <1>3, <2>3, <2>4
<1>5. CASE PostAddress
  <2>1. PICK a \in Addresses :
           remote_addr' = a /\ config' = [config EXCEPT !.remote_address = a]
    BY <1>5 DEF PostAddress
  <2>2. /\ config' \in Configs
        /\ config'.remote_address = remote_addr'
        /\ config'.enable = config.enable
    BY <2>1 DEF UartTypeOK, Configs
  <2>3. UartTypeOK'
    BY <1>1, <1>5, <2>1, <2>2 DEF PostAddress, UartTypeOK
  <2>4. SendsWhereConfigured' /\ HeardIfEnabled'
    BY <1>2, <1>5, <2>2 DEF PostAddress, SendsWhereConfigured, HeardIfEnabled
  <2>5. QED BY <1>3, <2>3, <2>4
<1>6. CASE PostOnOff
  <2>1. PICK on \in BOOLEAN :
           config' = [config EXCEPT !.enable = on] /\ input' = on
    BY <1>6 DEF PostOnOff
  <2>2. /\ config' \in Configs
        /\ config'.remote_address = config.remote_address
        /\ config'.enable = input'
    BY <2>1 DEF UartTypeOK, Configs
  <2>3. UartTypeOK'
    BY <1>1, <1>6, <2>1, <2>2 DEF PostOnOff, UartTypeOK
  <2>4. SendsWhereConfigured' /\ HeardIfEnabled'
    BY <1>2, <1>6, <2>2 DEF PostOnOff, SendsWhereConfigured, HeardIfEnabled
  <2>5. QED BY <1>3, <2>3, <2>4
<1>7. CASE PostOther
  BY <1>1, <1>2, <1>3, <1>7
  DEF PostOther, UartTypeOK, SendsWhereConfigured, HeardIfEnabled
<1>8. QED BY <1>4, <1>5, <1>6, <1>7

LEMMA DefaultsInv == ASSUME UartInv, RestoreDefaults PROVE UartInv'
<1> USE DEF UartInv
<1>1. SaveConfig /\ config' \in Configs /\ queue' = queue
  BY EventTypes DEF RestoreDefaults
<1>2. UartTypeOK'
  BY <1>1, EventTypes, SaveConfigType DEF RestoreDefaults, UartTypeOK
<1>3. SendsWhereConfigured' /\ HeardIfEnabled'
  BY DEF RestoreDefaults, DefaultConfig, SendsWhereConfigured, HeardIfEnabled,
         UartTypeOK
<1>4. RunsAsSaved'
  BY <1>1, SaveConfigType DEF RunsAsSaved
<1>5. QED BY <1>2, <1>3, <1>4

(* The event that will save is in the queue, or the queue was full.        *)
LEMMA FormEndsInv == ASSUME UartInv, FormEnds PROVE UartInv'
<1> USE DEF UartInv
<1>1. /\ queue \in Seq(Events) /\ Len(queue) <= QUEUE_SIZE
      /\ Post("new_config") /\ "new_config" \in Events
  BY EventTypes DEF FormEnds, UartTypeOK
<1>2. UartTypeOK'
  BY <1>1, EventTypes, PostType DEF FormEnds, UartTypeOK
<1>3. \A x : Pending(x) => Pending(x)'
  BY <1>1, EventTypes, PostKeeps
<1>4. SendsWhereConfigured' /\ HeardIfEnabled'
  BY <1>3 DEF FormEnds, SendsWhereConfigured, HeardIfEnabled
<1>5. Pending("new_config")' \/ Len(queue) = QUEUE_SIZE
  BY <1>1, EventTypes, PostAdds
<1>6. RunsAsSaved'
  BY <1>5 DEF FormEnds, RunsAsSaved
<1>7. QED BY <1>2, <1>4, <1>6

LEMMA UartStepInv == UartInv /\ [UartNext]_uartVars => UartInv'
<1> SUFFICES ASSUME UartInv, [UartNext]_uartVars PROVE UartInv'
  OBVIOUS
<1>1. CASE TypeLine
  <2>1. PICK e \in {"other"} \cup Addresses : Post(e)
    BY <1>1 DEF TypeLine
  <2>2. e \in Events
    BY EventTypes
  <2>3. QED BY <1>1, <2>1, <2>2, PostInv DEF TypeLine
<1>2. CASE OtherPosts
  BY <1>2, EventTypes, PostInv DEF OtherPosts
<1>3. CASE UNCHANGED uartVars
  BY <1>3
  DEF uartVars, UartInv, UartTypeOK, SendsWhereConfigured, HeardIfEnabled,
      RunsAsSaved, Pending
<1>4. QED
  BY <1>1, <1>2, <1>3, ResetInv, DeliverInv, FormInv, DefaultsInv, FormEndsInv
  DEF UartNext

(* Whatever the console, the forms, the defaults and restarts do, in any   *)
(* order and with any loss of events, what is sent, heard and run with     *)
(* agrees with the configuration, but for the listed exceptions.           *)
THEOREM UartInvAlways == UartSpec => []UartInv
<1>1. QED BY UartInitInv, UartStepInv, PTL DEF UartSpec

(* What is typed goes where the configuration says, unless an address was  *)
(* typed since, or the loaded configuration is not announced yet.          *)
THEOREM AlwaysSendsWhereConfigured == UartSpec => []SendsWhereConfigured
<1>1. UartInv => SendsWhereConfigured
  BY DEF UartInv
<1>2. QED BY UartInvAlways, <1>1, PTL

(* The console is heard exactly when the configuration enables it, but for *)
(* a restart's first moments and a UART that only the defaults enabled.    *)
THEOREM AlwaysHeardIfEnabled == UartSpec => []HeardIfEnabled
<1>1. UartInv => HeardIfEnabled
  BY DEF UartInv
<1>2. QED BY UartInvAlways, <1>1, PTL

(* The settings in use are the saved ones, unless a save is on its way or  *)
(* something failed.                                                       *)
THEOREM AlwaysRunsAsSaved == UartSpec => []RunsAsSaved
<1>1. UartInv => RunsAsSaved
  BY DEF UartInv
<1>2. QED BY UartInvAlways, <1>1, PTL
--------------------------------------------------------------------------------
(* The two scripts of the sketches are lists of different steps, and After *)
(* is the next one.                                                        *)
LEMMA ScriptPlaces ==
    /\ DOMAIN Script = 1 .. 9
    /\ \A i, j \in 1 .. 9 : Script[i] = Script[j] => i = j
BY DEF Script

LEMMA SetupPlaces ==
    /\ DOMAIN Setup = 1 .. 6
    /\ \A i, j \in 1 .. 6 : Setup[i] = Setup[j] => i = j
BY DEF Setup

LEMMA StepSets ==
    /\ Range(Script) = {"SL", "MY", "CH", "ID", "AP", "MM", "AC", "channel", "ready"}
    /\ Range(Setup) = {"VR", "search", "ATAP2", "ATBD5", "ATAC", "set up"}
<1>1. Range(Script) = {Script[i] : i \in 1 .. 9}
  BY ScriptPlaces DEF Range
<1>2. Range(Setup) = {Setup[i] : i \in 1 .. 6}
  BY SetupPlaces DEF Range
<1>3. Range(Script) = {"SL", "MY", "CH", "ID", "AP", "MM", "AC", "channel", "ready"}
  BY <1>1 DEF Script
<1>4. Range(Setup) = {"VR", "search", "ATAP2", "ATBD5", "ATAC", "set up"}
  <2>1. /\ Setup[1] = "VR" /\ Setup[2] = "search" /\ Setup[3] = "ATAP2"
        /\ Setup[4] = "ATBD5" /\ Setup[5] = "ATAC" /\ Setup[6] = "set up"
    BY DEF Setup
  <2>2. \A i \in 1 .. 6 : i \in {1, 2, 3, 4, 5, 6}
    OBVIOUS
  <2>3. Range(Setup) = {Setup[1], Setup[2], Setup[3], Setup[4], Setup[5], Setup[6]}
    BY <1>2, <2>2
  <2>4. QED BY <2>1, <2>3
<1>5. QED BY <1>3, <1>4

LEMMA AfterScript == \A n \in 1 .. 8 : After(Script[n]) = Script[n + 1]
<1> SUFFICES ASSUME NEW n \in 1 .. 8 PROVE After(Script[n]) = Script[n + 1]
  OBVIOUS
<1>1. Script[n] \notin Range(Setup)
  <2>1. Script[n] \in Range(Script)
    BY ScriptPlaces DEF Range
  <2>2. QED BY <2>1, StepSets
<1>2. (CHOOSE j \in DOMAIN Script : Script[j] = Script[n]) = n
  BY ScriptPlaces
<1>3. QED BY <1>1, <1>2 DEF After

LEMMA AfterSetup == \A n \in 1 .. 5 : After(Setup[n]) = Setup[n + 1]
<1> SUFFICES ASSUME NEW n \in 1 .. 5 PROVE After(Setup[n]) = Setup[n + 1]
  OBVIOUS
<1>1. Setup[n] \in Range(Setup)
  BY SetupPlaces DEF Range
<1>2. (CHOOSE j \in DOMAIN Setup : Setup[j] = Setup[n]) = n
  BY SetupPlaces
<1>3. QED BY <1>1, <1>2 DEF After

LEMMA SetupOrder ==
    /\ After("search") = "ATAP2" /\ After("ATAP2") = "ATBD5"
    /\ After("ATBD5") = "ATAC" /\ After("ATAC") = "set up"
<1>1. /\ Setup[2] = "search" /\ Setup[3] = "ATAP2"
      /\ Setup[4] = "ATBD5" /\ Setup[5] = "ATAC" /\ Setup[6] = "set up"
  BY DEF Setup
<1>2. /\ After(Setup[2]) = Setup[3] /\ After(Setup[3]) = Setup[4]
      /\ After(Setup[4]) = Setup[5] /\ After(Setup[5]) = Setup[6]
  <2>1. 2 \in 1 .. 5 /\ 3 \in 1 .. 5 /\ 4 \in 1 .. 5 /\ 5 \in 1 .. 5
    OBVIOUS
  <2>2. QED BY <2>1, AfterSetup
<1>3. QED BY <1>1, <1>2

(* The next step of init, and what is done before it.                      *)
LEMMA ScriptOrder ==
    ASSUME NEW s \in Range(Script) \ {"ready"}
    PROVE  /\ After(s) \in Range(Script)
           /\ \E n \in 1 .. 8 : s = Script[n] /\ After(s) = Script[n + 1]
<1>1. PICK n \in 1 .. 9 : s = Script[n]
  BY ScriptPlaces DEF Range
<1>2. n # 9
  BY <1>1 DEF Script
<1>3. n \in 1 .. 8 /\ After(s) = Script[n + 1] /\ n + 1 \in 1 .. 9
  BY <1>1, <1>2, AfterScript
<1>4. QED BY <1>1, <1>3, ScriptPlaces DEF Range

LEMMA DoneGrows ==
    ASSUME at \in Range(Script) \ {"ready"}, at' = After(at)
    PROVE  Done' = Done \cup {at}
<1>1. PICK n \in 1 .. 8 : at = Script[n] /\ at' = Script[n + 1]
  BY ScriptOrder
<1>2. (CHOOSE j \in DOMAIN Script : Script[j] = at) = n
  BY <1>1, ScriptPlaces
<1>3. (CHOOSE j \in DOMAIN Script : Script[j] = at') = n + 1
  BY <1>1, ScriptPlaces
<1>4. Done = {Script[j] : j \in 1 .. n - 1} /\ Done' = {Script[j] : j \in 1 .. (n + 1) - 1}
  BY <1>2, <1>3 DEF Done
<1>5. 1 .. (n + 1) - 1 = (1 .. n - 1) \cup {n}
  OBVIOUS
<1>6. QED BY <1>1, <1>4, <1>5

(* Nothing is done at the first step.                                      *)
LEMMA DoneAtStart == at = "SL" => Done = {}
<1>1. Script[1] = "SL" /\ 1 \in 1 .. 9
  BY DEF Script
<1>2. at = "SL" => (CHOOSE j \in DOMAIN Script : Script[j] = at) = 1
  BY <1>1, ScriptPlaces
<1>3. QED BY <1>2 DEF Done
--------------------------------------------------------------------------------
(* While init runs the modem hears the sketch. A command that is waited for*)
(* and was not carried out has no success to come, unless it is doubtful.  *)
Trusts ==
    at \in Range(Script) =>
       /\ api /\ Heard
       /\ sent /\ at \notin applied \cup doubtful =>
             late = 0 /\ \A i \in 1 .. Len(in) : ~in[i].ok
       /\ Done \ {"channel"} \subseteq applied \cup doubtful

(* A modem that answered VR is in API mode.                                *)
VRAnswered ==
    at = "VR" =>
       /\ late > 0 => api /\ "VR" \in applied
       /\ \A i \in 1 .. Len(in) : in[i].ok => api /\ "VR" \in applied

(* What ATAC brought into effect is what was pending.                      *)
InEffect ==
    /\ "ATAP2" \in pending => api
    /\ "ATBD5" \in pending => baud = NEW_BAUD

(* A command before c was carried out, or each of its attempts failed.     *)
CarriedOut(c) == c \in pending \/ failed[c] >= Tries

(* Each attempt so far has failed, or the modem has carried the command    *)
(* out; one that no longer hears the sketch has carried out ATAC.          *)
SettingUp ==
    /\ at \in {"VR", "search"} => tries = 0
    /\ at \in {"ATAP2", "ATBD5"} => Heard /\ (at \in pending \/ failed[at] >= tries)
    /\ at \in {"ATBD5", "ATAC"} => CarriedOut("ATAP2")
    /\ at = "ATAC" =>
          /\ CarriedOut("ATBD5")
          /\ InEffect \/ (Heard /\ failed["ATAC"] >= tries)
    /\ SetUp

RadioInv ==
    TypeOK /\ (sent => at \in Frames) /\ Trusts /\ VRAnswered /\ SettingUp

LEMMA StepTypes ==
    /\ Steps = {"SL", "MY", "CH", "ID", "AP", "MM", "AC", "channel", "ready",
                "VR", "search", "ATAP2", "ATBD5", "ATAC", "set up"}
    /\ Range(Script) = {"SL", "MY", "CH", "ID", "AP", "MM", "AC", "channel", "ready"}
    /\ Frames = (Range(Script) \ {"ready"}) \cup {"VR"}
BY StepSets DEF Steps, Frames

LEMMA InType ==
    ASSUME TypeOK, NEW x \in [id : ApiIds, ok : BOOLEAN]
    PROVE  /\ Append(in, x) \in Seq([id : ApiIds, ok : BOOLEAN])
           /\ Len(Append(in, x)) = Len(in) + 1
           /\ \A i \in 1 .. Len(in) + 1 :
                 Append(in, x)[i] = x \/ (i \in 1 .. Len(in) /\ Append(in, x)[i] = in[i])
BY DEF TypeOK

LEMMA FrameTypes ==
    /\ Answer(TRUE) \in [id : ApiIds, ok : BOOLEAN]
    /\ Answer(FALSE) \in [id : ApiIds, ok : BOOLEAN]
    /\ PACKET \in [id : ApiIds, ok : BOOLEAN]
    /\ Answer(FALSE).ok = FALSE /\ PACKET.ok = FALSE
BY DEF Answer, PACKET, ApiIds

LEMMA TailType ==
    ASSUME TypeOK, in # <<>>
    PROVE  /\ Tail(in) \in Seq([id : ApiIds, ok : BOOLEAN])
           /\ Head(in) = in[1] /\ 1 \in 1 .. Len(in)
           /\ Len(in) <= 1 => Tail(in) = <<>>
BY DEF TypeOK

--------------------------------------------------------------------------------
(* AnswerToCome, in the words of the invariant.                            *)
LEMMA NothingToCome ==
    ASSUME TypeOK, ~AnswerToCome
    PROVE  late = 0 /\ \A i \in 1 .. Len(in) : ~in[i].ok
BY DEF TypeOK, AnswerToCome

LEMMA SendFrameInv == ASSUME RadioInv, SendFrame PROVE RadioInv'
<1>1. /\ at \in Frames /\ ~sent /\ sent' = TRUE
      /\ at' = at /\ k' = k /\ tries' = tries /\ baud' = baud /\ api' = api
      /\ pending' = pending /\ foreign' = foreign /\ failed' = failed
  BY DEF SendFrame
<1>2. \/ /\ api /\ Heard /\ applied' = applied \cup {at}
         /\ in' = Append(in, Answer(TRUE))
         /\ late' = late /\ faults' = faults /\ doubtful' = doubtful
      \/ /\ api /\ Heard /\ Fault /\ applied' = applied \cup {at}
         /\ in' = in /\ late' \in {late, late + 1} /\ doubtful' = doubtful
      \/ /\ Fault /\ FrameFails
         /\ in' = Append(in, Answer(FALSE)) /\ late' = late
      \/ /\ Fault \/ faults' = faults
         /\ FrameFails /\ in' = in /\ late' = late
  BY DEF SendFrame
<1>3. Fault => faults' \in 0 .. MaxFaults
  BY BoundsAssumption DEF Fault, RadioInv, TypeOK
<1>4. FrameFails => /\ applied' = applied
                    /\ doubtful' = doubtful \/ doubtful' = doubtful \cup {at}
                    /\ at \in doubtful' \/ ~AnswerToCome
  BY DEF FrameFails
<1>5. applied \subseteq applied' /\ doubtful \subseteq doubtful'
  BY <1>2, <1>4
<1>6. TypeOK'
  <2>1. in' \in Seq([id : ApiIds, ok : BOOLEAN])
    BY <1>2, InType, FrameTypes DEF RadioInv, TypeOK
  <2>2. applied' \subseteq Frames /\ doubtful' \subseteq Frames
    BY <1>1, <1>2, <1>4 DEF RadioInv, TypeOK
  <2>3. faults' \in 0 .. MaxFaults
    <3>1. Fault \/ faults' = faults
      BY <1>2
    <3>2. QED BY <1>3, <3>1 DEF RadioInv, TypeOK
  <2>4. late' \in Nat
    <3>1. late \in Nat /\ late' \in {late, late + 1}
      BY <1>2 DEF RadioInv, TypeOK
    <3>2. QED BY <3>1
  <2>5. QED BY <1>1, <2>1, <2>2, <2>3, <2>4 DEF RadioInv, TypeOK
<1>7. ASSUME at \in Range(Script) PROVE Trusts'
  <2>1. api' /\ Heard'
    BY <1>1, <1>7 DEF RadioInv, Trusts, Heard
  <2>2. ASSUME at \notin applied' \cup doubtful'
        PROVE  late' = 0 /\ \A i \in 1 .. Len(in') : ~in'[i].ok
    <3>1. FrameFails /\ late' = late /\ (in' = in \/ in' = Append(in, Answer(FALSE)))
      BY <1>2, <2>2
    <3>2. ~AnswerToCome
      BY <1>4, <2>2, <3>1
    <3>3. late = 0 /\ \A i \in 1 .. Len(in) : ~in[i].ok
      BY <3>2, NothingToCome DEF RadioInv
    <3>4. CASE in' = in
      BY <3>1, <3>3, <3>4
    <3>5. CASE in' = Append(in, Answer(FALSE))
      BY <3>1, <3>3, <3>5, FrameTypes, InType DEF RadioInv
    <3>6. QED BY <3>1, <3>4, <3>5
  <2>3. Done' \ {"channel"} \subseteq applied' \cup doubtful'
    <3>1. Done' = Done
      BY <1>1 DEF Done
    <3>2. QED BY <1>5, <1>7, <3>1 DEF RadioInv, Trusts
  <2>4. QED BY <1>1, <2>1, <2>2, <2>3 DEF Trusts
<1>8. Trusts'
  BY <1>1, <1>7 DEF Trusts
<1>9. VRAnswered'
  <2>1. ASSUME at = "VR", NEW i \in 1 .. Len(in'), in'[i].ok
        PROVE  api /\ "VR" \in applied'
    <3>1. CASE in' = in
      BY <1>5, <2>1, <3>1 DEF RadioInv, VRAnswered
    <3>2. CASE in' = Append(in, Answer(TRUE)) /\ applied' = applied \cup {at} /\ api
      BY <2>1, <3>2
    <3>3. CASE in' = Append(in, Answer(FALSE))
      BY <1>5, <2>1, <3>3, FrameTypes, InType DEF RadioInv, VRAnswered
    <3>4. QED BY <1>2, <3>1, <3>2, <3>3
  <2>2. ASSUME at = "VR", late' > 0 PROVE api /\ "VR" \in applied'
    <3>1. CASE api /\ applied' = applied \cup {at}
      BY <2>2, <3>1
    <3>2. CASE late' = late
      BY <1>5, <2>2, <3>2 DEF RadioInv, VRAnswered
    <3>3. QED BY <1>2, <3>1, <3>2
  <2>3. QED BY <1>1, <2>1, <2>2 DEF VRAnswered
<1>10. SettingUp'
  BY <1>1, StepTypes DEF RadioInv, SettingUp, SetUp
<1>11. QED BY <1>1, <1>6, <1>8, <1>9, <1>10 DEF RadioInv

(* readPacket returns, or its time is out: init goes on when it believes   *)
(* that the command was carried out, which then it was or it is doubtful;  *)
(* the channel's answer does not matter.                                   *)
LEMMA PassesTrusts ==
    ASSUME RadioInv, sent, at \in Range(Script), NEW success \in BOOLEAN,
           Passes(success),
           success => at \in applied \cup doubtful,
           k' = k, modem' = modem, doubtful' = doubtful
    PROVE  Trusts'
<1>1. at \in Range(Script) \ {"ready"} /\ at # "VR"
  BY StepTypes DEF RadioInv
<1>2. baud' = baud /\ api' = api /\ pending' = pending /\ applied' = applied
  BY DEF modem
<1>3. sent' = FALSE /\ at' \in {at, After(at)}
      /\ (at' = After(at) => success \/ at = "channel" \/ After(at) = at)
  BY <1>1 DEF Passes, AfterSuccess, AfterError
<1>4. api' /\ Heard'
  BY <1>2 DEF RadioInv, Trusts, Heard
<1>5. Done' \ {"channel"} \subseteq applied \cup doubtful
  <2>1. Done \ {"channel"} \subseteq applied \cup doubtful
    BY DEF RadioInv, Trusts
  <2>2. CASE at' = at
    BY <2>1, <2>2 DEF Done
  <2>3. CASE at' = After(at) /\ at' # at
    <3>1. Done' = Done \cup {at}
      BY <1>1, <2>3, DoneGrows
    <3>2. at = "channel" \/ at \in applied \cup doubtful
      BY <1>3, <2>3
    <3>3. QED BY <2>1, <3>1, <3>2
  <2>4. QED BY <1>3, <2>2, <2>3
<1>6. QED BY <1>2, <1>3, <1>4, <1>5 DEF Trusts

LEMMA PassesType ==
    ASSUME RadioInv, sent, NEW success \in BOOLEAN, Passes(success)
    PROVE  /\ at' \in Steps /\ sent' = FALSE
           /\ at # "VR" => at' \in Range(Script)
           /\ at = "VR" => at' = IF success THEN "set up" ELSE "search"
<1>1. at = "VR" \/ at \in Range(Script) \ {"ready"}
  BY StepTypes DEF RadioInv
<1>2. at # "VR" => After(at) \in Range(Script)
  BY <1>1, ScriptOrder
<1>3. at' = (IF success THEN AfterSuccess(at) ELSE AfterError(at)) /\ sent' = FALSE
  BY DEF Passes
<1>4. CASE at = "VR"
  BY <1>3, <1>4, StepTypes DEF AfterSuccess, AfterError
<1>5. CASE at # "VR"
  <2>1. at' \in {at, After(at)}
    BY <1>3, <1>5 DEF AfterSuccess, AfterError
  <2>2. at' \in Range(Script)
    BY <1>1, <1>2, <1>5, <2>1
  <2>3. QED BY <1>3, <1>5, <2>2 DEF Steps
<1>6. QED BY <1>4, <1>5

LEMMA ReadPacketInv == ASSUME RadioInv, ReadPacket PROVE RadioInv'
<1> DEFINE success == Head(in).id = "AT_COMMAND_RESPONSE" /\ Head(in).ok
<1>1. /\ sent /\ in # <<>> /\ Passes(success) /\ in' = Tail(in)
      /\ k' = k /\ tries' = tries /\ modem' = modem
      /\ faults' = faults /\ late' = late /\ history' = history
  BY DEF ReadPacket
<1>2. success \in BOOLEAN /\ (success => in[1].ok)
  BY <1>1, TailType DEF RadioInv, TypeOK
<1> HIDE DEF success
<1>3. baud' = baud /\ api' = api /\ pending' = pending /\ applied' = applied
      /\ foreign' = foreign /\ doubtful' = doubtful /\ failed' = failed
  BY <1>1 DEF modem, history
<1>4. /\ at' \in Steps /\ sent' = FALSE
      /\ at # "VR" => at' \in Range(Script)
      /\ at = "VR" => at' = IF success THEN "set up" ELSE "search"
  BY <1>1, <1>2, PassesType
<1>5. TypeOK'
  BY <1>1, <1>3, <1>4, TailType DEF RadioInv, TypeOK
<1>6. at \in Frames
  BY <1>1 DEF RadioInv
<1>7. CASE at = "VR"
  <2>1. at' = "set up" \/ at' = "search"
    BY <1>4, <1>7
  <2>2. at' = "set up" => api' /\ "VR" \in applied'
    BY <1>1, <1>2, <1>3, <1>4, <1>7, TailType DEF RadioInv, VRAnswered
  <2>3. Trusts' /\ VRAnswered'
    BY <2>1, StepTypes DEF Trusts, VRAnswered
  <2>4. SettingUp'
    BY <1>1, <1>3, <1>7, <2>1, <2>2 DEF RadioInv, SettingUp, SetUp
  <2>5. QED BY <1>4, <1>5, <2>3, <2>4 DEF RadioInv
<1>8. CASE at \in Range(Script)
  <2>1. success => at \in applied \cup doubtful
    BY <1>1, <1>2, <1>8, TailType DEF RadioInv, Trusts
  <2>2. Trusts'
    BY <1>1, <1>2, <1>3, <1>8, <2>1, PassesTrusts
  <2>3. at' \in Range(Script)
    BY <1>4, <1>8, StepTypes
  <2>4. VRAnswered' /\ SettingUp'
    BY <2>3, StepTypes DEF VRAnswered, SettingUp, SetUp
  <2>5. QED BY <1>4, <1>5, <2>2, <2>4 DEF RadioInv
<1>9. QED BY <1>6, <1>7, <1>8, StepTypes

LEMMA TimesOutInv == ASSUME RadioInv, TimesOut PROVE RadioInv'
<1>1. /\ sent /\ in = <<>> /\ Passes(FALSE) /\ in' = in
      /\ k' = k /\ tries' = tries /\ modem' = modem
      /\ faults' = faults /\ late' = late /\ history' = history
  BY DEF TimesOut
<1>2. baud' = baud /\ api' = api /\ pending' = pending /\ applied' = applied
      /\ foreign' = foreign /\ doubtful' = doubtful /\ failed' = failed
  BY <1>1 DEF modem, history
<1>3. /\ at' \in Steps /\ sent' = FALSE
      /\ at # "VR" => at' \in Range(Script)
      /\ at = "VR" => at' = "search"
  BY <1>1, PassesType
<1>4. TypeOK'
  BY <1>1, <1>2, <1>3 DEF RadioInv, TypeOK
<1>5. at \in Frames
  BY <1>1 DEF RadioInv
<1>6. CASE at = "VR"
  <2>1. Trusts' /\ VRAnswered'
    BY <1>3, <1>6, StepTypes DEF Trusts, VRAnswered
  <2>2. SettingUp'
    BY <1>1, <1>2, <1>3, <1>6 DEF RadioInv, SettingUp, SetUp
  <2>3. QED BY <1>3, <1>4, <2>1, <2>2 DEF RadioInv
<1>7. CASE at \in Range(Script)
  <2>1. Trusts'
    BY <1>1, <1>2, <1>7, PassesTrusts
  <2>2. at' \in Range(Script)
    BY <1>3, <1>7, StepTypes
  <2>3. VRAnswered' /\ SettingUp'
    BY <2>2, StepTypes DEF VRAnswered, SettingUp, SetUp
  <2>4. QED BY <1>3, <1>4, <2>1, <2>3 DEF RadioInv
<1>8. QED BY <1>5, <1>6, <1>7, StepTypes

(* A frame arrives that is no success, or a late answer does.              *)
LEMMA ArrivesInv ==
    ASSUME RadioInv, sketch' = sketch, modem' = modem, faults' = faults,
           doubtful' = doubtful, failed' = failed, foreign' \in 0 .. MaxForeign,
           NEW x \in [id : ApiIds, ok : BOOLEAN], in' = Append(in, x),
           late' \in Nat, late' <= late, x.ok => late > 0
    PROVE  RadioInv'
<1>1. /\ at' = at /\ sent' = sent /\ k' = k /\ tries' = tries
      /\ baud' = baud /\ api' = api /\ pending' = pending /\ applied' = applied
  BY DEF sketch, modem
<1>2. /\ in' \in Seq([id : ApiIds, ok : BOOLEAN]) /\ late \in Nat
      /\ \A i \in 1 .. Len(in') : in'[i] = x \/ (i \in 1 .. Len(in) /\ in'[i] = in[i])
  BY InType DEF RadioInv, TypeOK
<1>3. TypeOK'
  BY <1>1, <1>2 DEF RadioInv, TypeOK
<1>4. Trusts'
  <2>1. Done' = Done /\ Heard' = Heard
    BY <1>1 DEF Done, Heard
  <2>2. ASSUME at \in Range(Script), sent, at \notin applied \cup doubtful
        PROVE  late' = 0 /\ \A i \in 1 .. Len(in') : ~in'[i].ok
    <3>1. late = 0 /\ \A i \in 1 .. Len(in) : ~in[i].ok
      BY <2>2 DEF RadioInv, Trusts
    <3>2. ~x.ok /\ late' = 0
      BY <1>2, <3>1
    <3>3. QED BY <1>2, <3>1, <3>2
  <2>3. QED BY <1>1, <2>1, <2>2 DEF RadioInv, Trusts
<1>5. VRAnswered'
  BY <1>1, <1>2 DEF RadioInv, VRAnswered
<1>6. SettingUp'
  BY <1>1 DEF RadioInv, SettingUp, SetUp, Heard, InEffect, CarriedOut
<1>7. QED BY <1>1, <1>3, <1>4, <1>5, <1>6 DEF RadioInv

LEMMA PacketArrivesInv == ASSUME RadioInv, PacketArrives PROVE RadioInv'
<1>1. /\ foreign' = foreign + 1 /\ foreign < MaxForeign
      /\ in' = Append(in, PACKET) /\ late' = late /\ faults' = faults
      /\ sketch' = sketch /\ modem' = modem
      /\ doubtful' = doubtful /\ failed' = failed
  BY DEF PacketArrives
<1>2. foreign' \in 0 .. MaxForeign /\ late \in Nat
  BY <1>1, BoundsAssumption DEF RadioInv, TypeOK
<1>3. QED BY <1>1, <1>2, FrameTypes, ArrivesInv

LEMMA LateAnswerInv == ASSUME RadioInv, LateAnswer PROVE RadioInv'
<1>1. /\ late > 0 /\ late' = late - 1
      /\ in' = Append(in, Answer(TRUE)) /\ faults' = faults
      /\ sketch' = sketch /\ modem' = modem /\ history' = history
  BY DEF LateAnswer
<1>2. /\ foreign' = foreign /\ doubtful' = doubtful /\ failed' = failed
  BY <1>1 DEF history
<1>3. /\ foreign' \in 0 .. MaxForeign /\ late' \in Nat /\ late' <= late
  BY <1>1, <1>2 DEF RadioInv, TypeOK
<1>4. QED BY <1>1, <1>2, <1>3, FrameTypes, ArrivesInv

--------------------------------------------------------------------------------
(* The search: it changes nothing of the modem, and ends at its rate.      *)
LEMMA NextBaudType == \A i \in DOMAIN Bauds : NextBaud(i) \in DOMAIN Bauds
BY BaudsAssumption DEF NextBaud

LEMMA SetupXbeeInv == ASSUME RadioInv, SetupXbee PROVE RadioInv'
<1>1. /\ at = "search" /\ in' = <<>> /\ sent' = sent /\ tries' = tries
      /\ modem' = modem /\ late' = late
      /\ doubtful' = doubtful /\ failed' = failed
  BY DEF SetupXbee
<1>2. baud' = baud /\ api' = api /\ pending' = pending /\ applied' = applied
  BY <1>1 DEF modem
<1>3. ~sent /\ tries = 0
  BY <1>1, StepTypes DEF RadioInv, SettingUp
<1>4. \/ /\ Heard /\ at' = "ATAP2"
         /\ k' = k /\ faults' = faults /\ foreign' = foreign
      \/ /\ at' = at /\ k' = NextBaud(k)
         /\ faults' = faults \/ Fault
         /\ foreign' = foreign \/ (foreign < MaxForeign /\ foreign' = foreign + 1)
  BY <1>1, SetupOrder DEF SetupXbee
<1>5. TypeOK'
  <2>1. k' \in DOMAIN Bauds /\ at' \in Steps
    BY <1>1, <1>4, NextBaudType, StepTypes DEF RadioInv, TypeOK
  <2>2. faults' \in 0 .. MaxFaults /\ foreign' \in 0 .. MaxForeign
    BY <1>4, BoundsAssumption DEF RadioInv, TypeOK, Fault
  <2>3. in' \in Seq([id : ApiIds, ok : BOOLEAN])
    BY <1>1
  <2>4. QED BY <1>1, <1>2, <2>1, <2>2, <2>3 DEF RadioInv, TypeOK
<1>6. Trusts' /\ VRAnswered'
  BY <1>1, <1>4, StepTypes DEF Trusts, VRAnswered
<1>7. SettingUp'
  <2>1. tries' = 0 /\ at' \in {"search", "ATAP2"}
    BY <1>1, <1>3, <1>4
  <2>2. at' = "ATAP2" => Heard'
    BY <1>1, <1>2, <1>4 DEF Heard
  <2>3. at' = "ATAP2" => failed'["ATAP2"] >= tries'
    BY <1>5, <2>1 DEF TypeOK, Texts
  <2>4. QED BY <2>1, <2>2, <2>3 DEF SettingUp, SetUp
<1>8. QED BY <1>1, <1>3, <1>5, <1>6, <1>7 DEF RadioInv

(* A text command: an attempt that is lost counts among its faults.        *)
LEMMA SetupCommandInv == ASSUME RadioInv, SetupCommand PROVE RadioInv'
<1>1. /\ at \in Texts
      /\ sent' = sent /\ k' = k /\ in' = in /\ late' = late
      /\ applied' = applied /\ foreign' = foreign /\ doubtful' = doubtful
  BY DEF SetupCommand
<1>2. /\ at \in {"ATAP2", "ATBD5", "ATAC"} /\ ~sent
      /\ tries \in 0 .. Tries - 1 /\ failed \in [Texts -> Nat] /\ Tries \in Nat \ {0}
  <2>1. at \in {"ATAP2", "ATBD5", "ATAC"} /\ ~sent
    BY <1>1, StepTypes DEF RadioInv, Texts
  <2>2. tries \in 0 .. Tries - 1 /\ failed \in [Texts -> Nat]
    BY DEF RadioInv, TypeOK
  <2>3. QED BY <2>1, <2>2, TriesAssumption
<1> DEFINE Counted == failed' = [failed EXCEPT ![at] = @ + 1]
           Unchanged == baud' = baud /\ api' = api /\ pending' = pending
<1>3. \/ /\ Heard /\ Executes(at) /\ at' = After(at) /\ tries' = 0
         /\ faults' = faults /\ failed' = failed
      \/ Heard /\ Executes(at) /\ Fault /\ Counted /\ Fails
      \/ Heard /\ Unchanged /\ Fault /\ Counted /\ Fails
      \/ ~Heard /\ Unchanged /\ faults' = faults /\ failed' = failed /\ Fails
  BY DEF SetupCommand
<1>4. faults' \in 0 .. MaxFaults
  BY <1>3, BoundsAssumption DEF RadioInv, TypeOK, Fault
<1>5. /\ at = "ATAP2" => After(at) = "ATBD5"
      /\ at = "ATBD5" => After(at) = "ATAC"
      /\ at = "ATAC" => After(at) = "set up"
  BY SetupOrder
<1>6. /\ at' = After(at) \/ at' = at
      /\ tries' \in 0 .. Tries - 1
      /\ Fails => \/ tries = Tries - 1 /\ at' = After(at) /\ tries' = 0
                  \/ tries' = tries + 1 /\ at' = at
  BY <1>2, <1>3 DEF Fails
<1>7. /\ failed' \in [Texts -> Nat]
      /\ \A c \in Texts \ {at} : failed'[c] = failed[c]
      /\ failed'[at] >= failed[at]
      /\ Counted => failed'[at] = failed[at] + 1
  <2>1. CASE failed' = failed
    BY <1>1, <1>2, <2>1
  <2>2. CASE Counted
    BY <1>1, <1>2, <2>2
  <2>3. QED BY <1>3, <2>1, <2>2
<1>8. /\ baud' \in Nat /\ api' \in BOOLEAN /\ pending' \subseteq Texts
      /\ pending \subseteq pending'
      /\ at # "ATAC" => baud' = baud
  <2>1. baud \in Nat /\ api \in BOOLEAN /\ pending \subseteq Texts
    BY DEF RadioInv, TypeOK
  <2>2. CASE Executes(at) /\ at = "ATAC"
    BY <2>1, <2>2 DEF Executes, NEW_BAUD
  <2>3. CASE Executes(at) /\ at # "ATAC"
    BY <1>1, <2>1, <2>3 DEF Executes
  <2>4. CASE Unchanged
    BY <2>1, <2>4
  <2>5. QED BY <1>3, <2>2, <2>3, <2>4
<1> HIDE DEF Counted, Unchanged
<1>9. TypeOK'
  BY <1>1, <1>2, <1>4, <1>5, <1>6, <1>7, <1>8, StepTypes DEF RadioInv, TypeOK
<1>10. at' \in {"ATAP2", "ATBD5", "ATAC", "set up"}
  BY <1>2, <1>5, <1>6
<1>11. Trusts' /\ VRAnswered'
  BY <1>10, StepTypes DEF Trusts, VRAnswered
<1>12. \A c \in {"ATAP2", "ATBD5", "ATAC"} : c # at /\ CarriedOut(c) => CarriedOut(c)'
  BY <1>2, <1>7, <1>8 DEF CarriedOut, Texts
<1>13. ASSUME at \in {"ATAP2", "ATBD5"}
       PROVE  /\ Heard'
              /\ at' = at => at \in pending' \/ failed'[at] >= tries'
              /\ at' = After(at) =>
                    tries' = 0 /\ (at \in pending' \/ failed'[at] >= Tries)
  <2>1. Heard /\ Heard' /\ (at \in pending \/ failed[at] >= tries)
    BY <1>1, <1>8, <1>13 DEF RadioInv, SettingUp, Heard
  <2>2. Executes(at) => at \in pending'
    BY <1>1, <1>13 DEF Executes
  <2>3. failed[at] \in Nat /\ failed'[at] \in Nat
    BY <1>1, <1>2, <1>7
  <2>4. at \in pending' \/ (failed'[at] >= tries + 1 /\ Fails)
    BY <1>2, <1>3, <1>7, <1>8, <2>1, <2>2, <2>3
  <2>5. After(at) # at
    BY <1>5, <1>13
  <2>6. at' = at => at \in pending' \/ failed'[at] >= tries'
    BY <1>6, <2>4, <2>5
  <2>7. at' = After(at) => tries' = 0
    BY <1>2, <1>3, <1>6, <2>5
  <2>8. at' = After(at) => at \in pending' \/ failed'[at] >= Tries
    <3>1. at' = After(at) /\ Fails => tries = Tries - 1
      BY <1>6, <2>5
    <3>2. QED BY <1>2, <2>3, <2>4, <3>1
  <2>9. QED BY <2>1, <2>6, <2>7, <2>8
<1>14. SettingUp'
  <2>1. CASE at = "ATAP2"
    <3>1. at' = "ATAP2" \/ at' = "ATBD5"
      BY <1>5, <1>6, <2>1
    <3>2. at' = "ATBD5" => failed'["ATBD5"] >= tries' /\ CarriedOut("ATAP2")'
      <4>1. at' = "ATBD5" => tries' = 0 /\ CarriedOut("ATAP2")'
        BY <1>5, <1>13, <2>1 DEF CarriedOut
      <4>2. failed'["ATBD5"] \in Nat
        BY <1>7 DEF Texts
      <4>3. QED BY <4>1, <4>2
    <3>3. QED BY <1>13, <2>1, <3>1, <3>2 DEF SettingUp, SetUp
  <2>2. CASE at = "ATBD5"
    <3>1. at' = "ATBD5" \/ at' = "ATAC"
      BY <1>5, <1>6, <2>2
    <3>2. CarriedOut("ATAP2")'
      BY <1>12, <2>2 DEF RadioInv, SettingUp
    <3>3. at' = "ATAC" => failed'["ATAC"] >= tries' /\ CarriedOut("ATBD5")'
      <4>1. at' = "ATAC" => tries' = 0 /\ CarriedOut("ATBD5")'
        BY <1>5, <1>13, <2>2 DEF CarriedOut
      <4>2. failed'["ATAC"] \in Nat
        BY <1>7 DEF Texts
      <4>3. QED BY <4>1, <4>2
    <3>4. QED BY <1>13, <2>2, <3>1, <3>2, <3>3 DEF SettingUp, SetUp
  <2>3. CASE at = "ATAC"
    <3>1. /\ at' = "set up" \/ at' = "ATAC"
          /\ CarriedOut("ATAP2")' /\ CarriedOut("ATBD5")'
      BY <1>5, <1>6, <1>12, <2>3 DEF RadioInv, SettingUp
    <3>2. InEffect \/ (Heard /\ failed["ATAC"] >= tries)
      BY <2>3 DEF RadioInv, SettingUp
    <3>3. Executes(at) => InEffect'
      <4>1. Executes(at) => /\ pending' = pending
                            /\ "ATBD5" \in pending => baud' = NEW_BAUD
                            /\ api' = ("ATAP2" \in pending)
        BY <2>3 DEF Executes
      <4>2. ASSUME Executes(at) PROVE "ATAP2" \in pending' => api'
        BY <4>1, <4>2, Zenon
      <4>3. QED BY <4>1, <4>2 DEF InEffect
    <3>4. Unchanged /\ InEffect => InEffect'
      BY DEF Unchanged, InEffect
    <3>5. failed["ATAC"] \in Nat /\ failed'["ATAC"] \in Nat
      BY <1>2, <1>7 DEF Texts
    <3>6. InEffect' \/ (Heard' /\ failed'["ATAC"] >= tries + 1 /\ Fails)
      <4>1. CASE Executes(at)
        BY <3>3, <4>1
      <4>2. CASE Unchanged /\ Heard /\ Counted /\ Fails
        <5>1. Heard'
          BY <1>1, <4>2 DEF Unchanged, Heard
        <5>2. InEffect \/ failed'["ATAC"] >= tries + 1
          BY <1>2, <1>7, <2>3, <3>2, <3>5, <4>2
        <5>3. QED BY <3>4, <4>2, <5>1, <5>2
      <4>3. CASE Unchanged /\ ~Heard
        BY <3>2, <3>4, <4>3
      <4>4. QED BY <1>3, <4>1, <4>2, <4>3
    <3>7. at' = "ATAC" => InEffect' \/ (Heard' /\ failed'["ATAC"] >= tries')
      BY <1>5, <1>6, <2>3, <3>6
    <3>8. at' = "set up" => InEffect' \/ failed'["ATAC"] >= Tries
      <4>1. at' = "set up" /\ Fails => tries = Tries - 1
        BY <1>6, <2>3
      <4>2. tries = Tries - 1 /\ failed'["ATAC"] >= tries + 1 => failed'["ATAC"] >= Tries
        BY <1>2, <3>5
      <4>3. QED BY <3>6, <4>1, <4>2
    <3>9. \A n \in Nat : n < Tries => ~(n >= Tries)
      BY <1>2
    <3>10. \A c \in Texts : failed'[c] < Tries => ~(failed'[c] >= Tries)
      BY <1>7, <3>9
    <3>11. SetUp'
      <4> SUFFICES ASSUME at' = "set up", \A c \in Texts : failed'[c] < Tries
                   PROVE  api' /\ baud' = NEW_BAUD
        BY DEF SetUp
      <4>1. \A c \in Texts : ~(failed'[c] >= Tries)
        BY <3>10, Zenon
      <4>2. "ATAP2" \in Texts /\ "ATBD5" \in Texts /\ "ATAC" \in Texts
        BY DEF Texts
      <4>3. InEffect'
        BY <3>8, <4>1, <4>2, Zenon
      <4>4. "ATAP2" \in pending' /\ "ATBD5" \in pending'
        BY <3>1, <4>1, <4>2, Zenon DEF CarriedOut
      <4>5. QED BY <4>3, <4>4, Zenon DEF InEffect
    <3>12. QED BY <3>1, <3>7, <3>11 DEF SettingUp
  <2>4. QED BY <1>2, <2>1, <2>2, <2>3
<1>15. QED BY <1>1, <1>2, <1>9, <1>11, <1>14 DEF RadioInv

--------------------------------------------------------------------------------
LEMMA RadioInitInv == Init => RadioInv
<1> SUFFICES ASSUME Init PROVE RadioInv
  OBVIOUS
<1>1. /\ at \in {"VR", "SL"} /\ ~sent /\ k = 1 /\ tries = 0 /\ in = <<>>
      /\ Len(in) = 0 /\ baud \in Range(Bauds) /\ api \in BOOLEAN
      /\ at = "SL" => api /\ baud = Bauds[1]
      /\ pending = {} /\ applied = {} /\ faults = 0 /\ foreign = 0
      /\ late = 0 /\ doubtful = {} /\ failed = [c \in Texts |-> 0]
  BY DEF Init
<1>2. TypeOK
  <2>1. k \in DOMAIN Bauds /\ baud \in Nat
    BY <1>1, BaudsAssumption DEF Range
  <2>2. in \in Seq([id : ApiIds, ok : BOOLEAN])
    BY <1>1
  <2>3. at \in Steps
    BY <1>1, StepTypes
  <2>4. sent \in BOOLEAN
    BY DEF Init
  <2>5. tries \in 0 .. Tries - 1 /\ faults \in 0 .. MaxFaults
        /\ foreign \in 0 .. MaxForeign
    BY <1>1, TriesAssumption, BoundsAssumption
  <2>6. QED BY <1>1, <2>1, <2>2, <2>3, <2>4, <2>5 DEF TypeOK
<1>3. Trusts
  BY <1>1, DoneAtStart, StepTypes DEF Trusts, Heard
<1>4. VRAnswered /\ SettingUp
  <2>1. VRAnswered
    BY <1>1 DEF VRAnswered
  <2>2. SettingUp
    BY <1>1 DEF SettingUp, SetUp
  <2>3. QED BY <2>1, <2>2
<1>5. QED BY <1>1, <1>2, <1>3, <1>4 DEF RadioInv

LEMMA RadioStepInv == RadioInv /\ [Next]_vars => RadioInv'
<1> SUFFICES ASSUME RadioInv, [Next]_vars PROVE RadioInv'
  OBVIOUS
<1>1. CASE UNCHANGED vars
  <2>1. /\ at' = at /\ sent' = sent /\ k' = k /\ tries' = tries /\ in' = in
        /\ baud' = baud /\ api' = api /\ pending' = pending /\ applied' = applied
        /\ late' = late /\ faults' = faults /\ foreign' = foreign
        /\ doubtful' = doubtful /\ failed' = failed
    BY <1>1 DEF vars, sketch, modem, history
  <2>2. Done' = Done /\ Heard' = Heard
    BY <2>1 DEF Done, Heard
  <2>3. TypeOK' /\ Trusts' /\ VRAnswered'
    BY <2>1, <2>2 DEF RadioInv, TypeOK, Trusts, VRAnswered
  <2>4. SettingUp'
    BY <2>1, <2>2 DEF RadioInv, SettingUp, SetUp, InEffect, CarriedOut
  <2>5. QED BY <2>1, <2>3, <2>4 DEF RadioInv
<1>2. QED
  BY <1>1, SendFrameInv, ReadPacketInv, TimesOutInv, PacketArrivesInv,
     LateAnswerInv, SetupXbeeInv, SetupCommandInv DEF Next

(* The library's inductive invariant.                                      *)
THEOREM RadioInvAlways == Spec => []RadioInv
BY RadioInitInv, RadioStepInv, PTL DEF Spec

(* However much is lost, refused or late and whatever packets come, in any *)
(* order: a command of init that is taken for successful was carried out by*)
(* the modem, unless a frame of it failed with an earlier success still to *)
(* be read. sendAtCommand never compares the command of an answer, so that *)
(* this is the one case in which it errs.                                  *)
THEOREM AlwaysConfigured == Spec => []Configured
<1>1. RadioInv => Configured
  BY DEF RadioInv, Trusts, Configured
<1>2. QED BY <1>1, RadioInvAlways, PTL

(* initialize_xbee_module leaves a modem that it found in text mode in API *)
(* mode at 38400 baud, whatever else fails, if no single command failed as *)
(* often as it has attempts; for every list of rates.                      *)
THEOREM AlwaysSetUp == Spec => []SetUp
<1>1. RadioInv => SetUp
  BY DEF RadioInv, SettingUp
<1>2. QED BY <1>1, RadioInvAlways, PTL
================================================================================
