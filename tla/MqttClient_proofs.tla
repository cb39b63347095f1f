--------------------------- MODULE MqttClient_proofs ---------------------------
(***************************************************************************)
(* Theorems about MqttClient, for every number of reconnection attempts,   *)
(* every number of user acts and every length of the event queue.          *)
(***************************************************************************)
EXTENDS MqttClient, TLAPS

(* RECONNECT_ATTEMPTS is a number of attempts, not the sign for "for ever". *)
LEMMA ConstantBounds ==
    /\ RECONNECT_ATTEMPTS \in Nat \ {0}
    /\ RECONNECT_ATTEMPTS # RETRY_FOREVER
    /\ MaxUser \in Nat
    /\ MaxQueue \in Nat \ {0}
BY ConstantsAssumption DEF RETRY_FOREVER

LEMMA DefaultConfigType == DefaultConfig \in Config
BY DEF DefaultConfig, Config, Orgs

(* What a boot loads is a configuration, whatever is left in flash.        *)
LEMMA LoadConfigType ==
    ASSUME NEW image \in SUBSET Config
    PROVE  LoadConfig(image) \in Config
<1>1. CASE image = {}
  BY <1>1, DefaultConfigType DEF LoadConfig
<1>2. CASE image # {}
  BY <1>2 DEF LoadConfig
<1>3. QED BY <1>1, <1>2

(* A connection the library still works on was counted, also while the     *)
(* client is in NEWCONFIG: its CONNECTED may come late and revive it.      *)
LiveCounted == conn # "down" => connect_attempt = tries

(* The parts support each other: ConnAgrees says in which states a callback*)
(* can find the client, AttemptsCounted keeps connect_attempt in bounds.   *)
Inv == TypeOK /\ ConnAgrees /\ AttemptsCounted /\ LiveCounted

LEMMA InitInv == Init => Inv
<1> SUFFICES ASSUME Init PROVE Inv
  OBVIOUS
<1>1. conf \in Config
  BY LoadConfigType DEF Init
<1>2. client_id \in Orgs
  BY DefaultConfigType DEF Init, Config
<1>3. events \in Seq(Events) /\ flash \in SUBSET Config
  BY DEF Init
<1>4. /\ connect_attempt \in 0 .. RECONNECT_ATTEMPTS
      /\ tries \in 0 .. RECONNECT_ATTEMPTS
      /\ user \in 0 .. MaxUser
  BY ConstantBounds DEF Init
<1>5. TypeOK
  BY <1>1, <1>2, <1>3, <1>4 DEF Init, TypeOK, States, ConnStates, Timers
<1>6. ConnAgrees /\ AttemptsCounted /\ LiveCounted
  BY DEF Init, ConnAgrees, AttemptsCounted, LiveCounted
<1>7. QED BY <1>5, <1>6 DEF Inv

--------------------------------------------------------------------------------
(* What the state machine does not write.                                  *)
Around ==
    /\ connection_life' = connection_life
    /\ conf' = conf
    /\ post' = post
    /\ config_ok' = config_ok
    /\ global_addr' = global_addr
    /\ user' = user
    /\ poll' \in BOOLEAN
    /\ events' \in Seq(Events)
    /\ flash' \in SUBSET Config
    /\ forsaken' \in BOOLEAN

(* REGISTERED makes an attempt that is counted, or stays as it is.         *)
LEMMA RegisterInv ==
    ASSUME Inv, Around, NEW a \in 1 .. RECONNECT_ATTEMPTS,
           Register(a, a - 1, "down"), login' \in BOOLEAN
    PROVE  Inv'
<1>1. a - 1 \in 0 .. RECONNECT_ATTEMPTS /\ a \in 0 .. RECONNECT_ATTEMPTS
  BY ConstantBounds
<1>2. (a - 1) + 1 = a
  OBVIOUS
<1>3. TypeOK'
  BY <1>1, <1>2, ConstantBounds
  DEF Inv, TypeOK, Around, Register, States, ConnStates, Timers
<1>4. ConnAgrees' /\ AttemptsCounted' /\ LiveCounted'
  BY <1>2 DEF Register, ConnAgrees, AttemptsCounted, LiveCounted
<1>5. QED BY <1>3, <1>4 DEF Inv

LEMMA StateMachineInv ==
    ASSUME Inv, Around, StateMachine
    PROVE  Inv'
<1> USE DEF Inv, TypeOK
<1>1. CASE CaseInit
  <2>1. CASE Register(1, 0, "down")
    <3>1. 1 \in 1 .. RECONNECT_ATTEMPTS /\ 1 - 1 = 0
      BY ConstantBounds
    <3>2. login' \in BOOLEAN
      BY <1>1 DEF CaseInit
    <3>3. QED BY <2>1, <3>1, <3>2, RegisterInv
  <2>2. CASE ~Register(1, 0, "down")
    BY <1>1, <2>2
    DEF CaseInit, Around, ConnAgrees, AttemptsCounted, LiveCounted, States,
        ConnStates, Timers
  <2>3. QED BY <2>1, <2>2
<1>2. CASE CaseRegistered
  <2>1. conn = "down" /\ tries = connect_attempt - 1
    BY <1>2 DEF CaseRegistered, ConnAgrees, AttemptsCounted
  <2>2. connect_attempt \in 1 .. RECONNECT_ATTEMPTS
    BY <1>2, ConstantBounds DEF CaseRegistered, AttemptsCounted
  <2>3. QED BY <1>2, <2>1, <2>2, RegisterInv DEF CaseRegistered
<1>3. CASE CaseConnecting
  BY <1>3
  DEF CaseConnecting, Around, ConnAgrees, AttemptsCounted, LiveCounted, Timers
<1>4. CASE CasePublishing
  <2>1. /\ state' \in {"CONNECTED", "PUBLISHING"}
        /\ subscribed' \in BOOLEAN
        /\ publish_periodic_timer' \in {"publish", "state"}
    BY <1>4 DEF CasePublishing
  <2>2. conn = "connected" /\ connect_attempt = tries
    BY <1>4 DEF CasePublishing, ConnAgrees, LiveCounted
  <2>3. /\ connect_attempt' = tries'
        /\ connect_attempt' \in 0 .. RECONNECT_ATTEMPTS
    BY <1>4, <2>2, ConstantBounds DEF CasePublishing
  <2>4. conn' = conn /\ login' = login /\ client_id' = client_id
    BY <1>4 DEF CasePublishing
  <2>5. QED
    BY <2>1, <2>2, <2>3, <2>4
    DEF Around, ConnAgrees, AttemptsCounted, LiveCounted, States, ConnStates,
        Timers
<1>5. CASE CaseDisconnected
  <2>1. conn = "down" /\ connect_attempt = tries
    BY <1>5 DEF CaseDisconnected, ConnAgrees, AttemptsCounted
  <2>2. conn' = "down"
    BY <1>5, <2>1 DEF CaseDisconnected, MqttDisconnect
  <2>3. CASE connect_attempt < RECONNECT_ATTEMPTS
    <3>1. connect_attempt + 1 \in 0 .. RECONNECT_ATTEMPTS
      BY <2>3, ConstantBounds
    <3>2. QED
      BY <1>5, <2>1, <2>2, <2>3, <3>1, ConstantBounds
      DEF CaseDisconnected, Around, ConnAgrees, AttemptsCounted, LiveCounted,
          States, Timers
  <2>4. CASE ~(connect_attempt < RECONNECT_ATTEMPTS)
    BY <1>5, <2>1, <2>2, <2>4, ConstantBounds
    DEF CaseDisconnected, Around, ConnAgrees, AttemptsCounted, LiveCounted,
        States, Timers
  <2>5. QED BY <2>3, <2>4
<1>6. CASE CaseNewConfig
  <2>1. conf.org \in Orgs
    BY DEF Config
  <2>2. QED
    BY <1>6, <2>1
    DEF CaseNewConfig, UpdateConfig, Around, ConnAgrees, AttemptsCounted,
        LiveCounted, States, Timers
<1>7. CASE CaseError
  BY <1>7 DEF CaseError, Around, ConnAgrees, AttemptsCounted, LiveCounted
<1>8. QED BY <1>1, <1>2, <1>3, <1>4, <1>5, <1>6, <1>7 DEF StateMachine
--------------------------------------------------------------------------------
(* The steps of Next, one lemma for each group of actions.                 *)

LEMMA SaveConfigType ==
    ASSUME flash \in SUBSET Config, NEW c \in Config, SaveConfig(c)
    PROVE  flash' \in SUBSET Config
BY DEF SaveConfig

(* An event was queued: the first of the queue, or the rest of it.         *)
LEMMA NextEventType ==
    ASSUME TypeOK, NEW e, NextEvent(e)
    PROVE  events' \in Seq(Events) /\ poll' = poll
BY DEF TypeOK, NextEvent

(* The process takes a poll or an event.                                   *)
LEMMA ProcessInv ==
    ASSUME Inv,
           PollProcess \/ HandlePass \/ HandleTrigger \/ HandleNewConfig
    PROVE  Inv'
<1>1. CASE PollProcess
  <2>1. Around
    BY <1>1 DEF Inv, TypeOK, PollProcess, Around
  <2>2. QED BY <1>1, <2>1, StateMachineInv DEF PollProcess
<1>2. CASE HandlePass
  <2>1. Around
    BY <1>2, NextEventType DEF Inv, TypeOK, HandlePass, NextEvent, Around
  <2>2. QED BY <1>2, <2>1, StateMachineInv DEF HandlePass
<1>3. CASE HandleTrigger
  <2>1. Around
    BY <1>3, NextEventType DEF Inv, TypeOK, HandleTrigger, NextEvent, Around
  <2>2. CASE state = "ERROR"
    <3>1. conn = "down" /\ login' \in BOOLEAN /\ Register(1, 1 - 1, "down")
      BY <1>3, <2>2 DEF Inv, TypeOK, ConnAgrees, HandleTrigger
    <3>2. 1 \in 1 .. RECONNECT_ATTEMPTS
      BY ConstantBounds
    <3>3. QED BY <2>1, <3>1, <3>2, RegisterInv
  <2>3. CASE state # "ERROR"
    BY <1>3, <2>1, <2>3, StateMachineInv DEF HandleTrigger
  <2>4. QED BY <2>2, <2>3
<1>4. CASE HandleNewConfig
  <2>1. events' \in Seq(Events) /\ poll' = poll
    BY <1>4, NextEventType DEF Inv, HandleNewConfig
  <2>2. flash' \in SUBSET Config
    BY <1>4, SaveConfigType DEF Inv, TypeOK, HandleNewConfig
  <2>3. QED
    BY <1>4, <2>1, <2>2
    DEF Inv, TypeOK, ConnAgrees, AttemptsCounted, LiveCounted, Timers,
        HandleNewConfig, NextEvent
<1>5. QED BY <1>1, <1>2, <1>3, <1>4

(* A callback of the library, a timer, or a change of address.             *)
LEMMA CallbackInv ==
    ASSUME Inv,
           \/ TimerExpires \/ MqttConnected \/ MqttDisconnected
           \/ ConnectionLifeExpires \/ AddressChanges
    PROVE  Inv'
<1> USE DEF Inv, TypeOK, ConnAgrees, AttemptsCounted, LiveCounted
<1>1. CASE TimerExpires
  <2>1. events' \in Seq(Events)
    BY <1>1 DEF TimerExpires, Events
  <2>2. QED BY <1>1, <2>1 DEF TimerExpires, Timers
<1>2. CASE MqttConnected
  BY <1>2 DEF MqttConnected, LibUnchanged, States, ConnStates
<1>3. CASE MqttDisconnected
  BY <1>3 DEF MqttDisconnected, LibUnchanged, States, ConnStates
<1>4. CASE ConnectionLifeExpires
  BY <1>4 DEF ConnectionLifeExpires, LibUnchanged
<1>5. CASE AddressChanges
  BY <1>5 DEF AddressChanges
<1>6. QED BY <1>1, <1>2, <1>3, <1>4, <1>5

(* A configuration key puts the client in NEWCONFIG, which no part of Inv  *)
(* but LiveCounted looks at.                                               *)
LEMMA NewNetConfigInv ==
    ASSUME Inv, NewNetConfig, UserUnchanged, UserActs,
           conf' \in Config, events' \in Seq(Events), flash' = flash,
           post' \in {"idle", "open"}, config_ok' \in BOOLEAN,
           forsaken' \in BOOLEAN
    PROVE  Inv'
<1>1. user' \in 0 .. MaxUser
  BY ConstantBounds DEF Inv, TypeOK, UserActs
<1>2. /\ state' = "NEWCONFIG"
      /\ conn' \in ConnStates
      /\ conn' # "down" => conn # "down"
      /\ publish_periodic_timer' \in Timers
  BY DEF Inv, TypeOK, NewNetConfig, MqttDisconnect, ConnStates, Timers
<1>3. QED
  BY <1>1, <1>2
  DEF Inv, TypeOK, ConnAgrees, AttemptsCounted, LiveCounted, UserUnchanged,
      States

(* The end of a request queues at most one event.                          *)
LEMMA EndOfRequestType ==
    ASSUME TypeOK, NEW stopped, EndOfRequest(stopped)
    PROVE  /\ events' \in Seq(Events)
           /\ config_ok' \in BOOLEAN
           /\ forsaken' \in BOOLEAN
<1>1. events \in Seq(Events) /\ forsaken \in BOOLEAN
  BY DEF TypeOK
<1>2. Append(events, "new_config") \in Seq(Events)
  BY <1>1 DEF Events
<1>3. events' \in Seq(Events) /\ config_ok' \in BOOLEAN
  BY <1>1, <1>2 DEF EndOfRequest
<1>4. forsaken' \in BOOLEAN
  BY <1>1, Zenon DEF EndOfRequest
<1>5. QED BY <1>3, <1>4

LEMMA UserInv ==
    ASSUME Inv,
           \/ PostBegins \/ OtherKeyHandler \/ KeyTooLong \/ PostEnds
           \/ PostLost \/ PostRefused \/ RestoreDefaults \/ Press
    PROVE  Inv'
<1> USE DEF Inv, TypeOK, ConnAgrees, AttemptsCounted, LiveCounted, UserUnchanged
<1>1. UserActs => user' \in 0 .. MaxUser
  BY ConstantBounds DEF UserActs
<1>2. CASE PostBegins
  BY <1>1, <1>2 DEF PostBegins
<1>3. CASE KeyTooLong
  <2>1. /\ events' \in Seq(Events)
        /\ config_ok' \in BOOLEAN
        /\ forsaken' \in BOOLEAN
    BY <1>3, EndOfRequestType DEF KeyTooLong
  <2>2. QED BY <1>3, <2>1, NewNetConfigInv DEF KeyTooLong
<1>4. CASE PostEnds \/ PostRefused
  <2>1. /\ events' \in Seq(Events)
        /\ config_ok' \in BOOLEAN
        /\ forsaken' \in BOOLEAN
    BY <1>4, EndOfRequestType DEF PostEnds, PostRefused
  <2>2. QED BY <1>1, <1>4, <2>1 DEF PostEnds, PostRefused
<1>5. CASE PostLost
  BY <1>5 DEF PostLost
<1>6. CASE OtherKeyHandler
  BY <1>1, <1>6 DEF OtherKeyHandler
<1>7. CASE RestoreDefaults
  <2>1. flash' \in SUBSET Config
    BY <1>7, SaveConfigType, DefaultConfigType DEF RestoreDefaults
  <2>2. QED
    BY <1>1, <1>7, <2>1, DefaultConfigType DEF RestoreDefaults, Timers
<1>8. CASE Press
  <2>1. events' \in Seq(Events)
    BY <1>8 DEF Press, Events
  <2>2. QED BY <1>1, <1>8, <2>1 DEF Press
<1>9. QED BY <1>2, <1>3, <1>4, <1>5, <1>6, <1>7, <1>8

LEMMA KeysInv ==
    ASSUME Inv,
           \/ OrgIdHandler \/ NameHandler \/ AuthTokenHandler
           \/ IpAddrHandler \/ PortOrReconnectHandler
    PROVE  Inv'
<1>1. conf \in Config
  BY DEF Inv, TypeOK
<1>2. \A cs \in SUBSET Config : KeyAccepted(cs) => Inv'
  <2>1. TAKE cs \in SUBSET Config
  <2>2. HAVE KeyAccepted(cs)
  <2>3. /\ conf' \in Config /\ events' = events /\ flash' = flash
        /\ post' = post /\ config_ok' \in BOOLEAN /\ forsaken' \in BOOLEAN
        /\ NewNetConfig /\ UserUnchanged /\ UserActs
    BY <2>2 DEF KeyAccepted
  <2>4. post' \in {"idle", "open"} /\ events' \in Seq(Events)
    BY <2>3 DEF Inv, TypeOK
  <2>5. QED BY <2>3, <2>4, NewNetConfigInv
<1>3. {c \in Config : c.auth = conf.auth /\ c.ip = conf.ip} \in SUBSET Config
  OBVIOUS
<1>4. {[conf EXCEPT !.fits = f] : f \in BOOLEAN} \in SUBSET Config
  BY <1>1 DEF Config
<1>5. {[conf EXCEPT !.auth = a] : a \in BOOLEAN} \in SUBSET Config
  BY <1>1 DEF Config
<1>6. {[conf EXCEPT !.ip = i] : i \in BOOLEAN} \in SUBSET Config
  BY <1>1 DEF Config
<1>7. {conf} \in SUBSET Config
  BY <1>1 DEF Config
<1>8. CASE OrgIdHandler
  BY <1>2, <1>3, <1>8 DEF OrgIdHandler
<1>9. CASE NameHandler
  BY <1>2, <1>4, <1>9 DEF NameHandler
<1>10. CASE AuthTokenHandler
  BY <1>2, <1>5, <1>10 DEF AuthTokenHandler
<1>11. CASE IpAddrHandler
  BY <1>2, <1>6, <1>11 DEF IpAddrHandler
<1>12. CASE PortOrReconnectHandler
  BY <1>2, <1>7, <1>12 DEF PortOrReconnectHandler
<1>13. QED BY <1>8, <1>9, <1>10, <1>11, <1>12

LEMMA RebootInv == ASSUME Inv, Reboot PROVE Inv'
<1>1. flash' \in SUBSET Config /\ conf' \in Config
  BY LoadConfigType DEF Inv, TypeOK, Reboot
<1>2. /\ 0 \in 0 .. RECONNECT_ATTEMPTS
      /\ user' \in 0 .. MaxUser
  BY ConstantBounds DEF Inv, TypeOK, Reboot
<1>3. client_id' \in Orgs /\ events' \in Seq(Events)
  BY DefaultConfigType DEF Reboot, Config
<1>4. QED
  BY <1>1, <1>2, <1>3
  DEF Inv, TypeOK, ConnAgrees, AttemptsCounted, LiveCounted, Reboot, States,
      ConnStates, Timers

LEMMA StutterInv == ASSUME Inv, UNCHANGED vars PROVE Inv'
BY DEF Inv, TypeOK, ConnAgrees, AttemptsCounted, LiveCounted, vars

(* Inv is inductive.                                                       *)
THEOREM InvAlways == Spec => []Inv
<1>1. Inv /\ [Next]_vars => Inv'
  BY ProcessInv, CallbackInv, UserInv, KeysInv, RebootInv, StutterInv DEF Next
<1>2. QED BY InitInv, <1>1, PTL DEF Spec

(* Every variable keeps its type; connect_attempt and tries never exceed   *)
(* RECONNECT_ATTEMPTS, so the uint8_t counter cannot wrap.                 *)
THEOREM TypeCorrect == Spec => []TypeOK
<1>1. Inv => TypeOK
  BY DEF Inv
<1>2. QED BY InvAlways, <1>1, PTL

(* The state machine and the library agree on the connection.              *)
THEOREM ConnectionAgrees == Spec => []ConnAgrees
<1>1. Inv => ConnAgrees
  BY DEF Inv
<1>2. QED BY InvAlways, <1>1, PTL

(* No order of polls, events, callbacks and requests miscounts an attempt. *)
THEOREM EveryAttemptCounted == Spec => []AttemptsCounted
<1>1. Inv => AttemptsCounted
  BY DEF Inv
<1>2. QED BY InvAlways, <1>1, PTL

(* The client gives up only after all of its attempts.                     *)
THEOREM GivesUpOnlyAfterAll == Spec => GivesUpAfterAll
<1> DEFINE Step == state = "DISCONNECTED" /\ state' = "ERROR"
                       => tries = RECONNECT_ATTEMPTS
<1>1. Inv /\ [Next]_vars => Step
  <2> SUFFICES ASSUME Inv, [Next]_vars, state = "DISCONNECTED", state' = "ERROR"
               PROVE  tries = RECONNECT_ATTEMPTS
    OBVIOUS
  <2>1. connect_attempt = tries /\ tries \in 0 .. RECONNECT_ATTEMPTS
    BY DEF Inv, TypeOK, AttemptsCounted
  <2>2. CASE StateMachine
    <3>1. CaseDisconnected
      BY <2>2
      DEF StateMachine, CaseInit, CaseRegistered, CaseConnecting,
          CasePublishing, CaseNewConfig, CaseError
    <3>2. connect_attempt >= RECONNECT_ATTEMPTS
      BY <3>1 DEF CaseDisconnected
    <3>3. QED BY <2>1, <3>2, ConstantBounds
  <2>3. CASE ~StateMachine
    <3>1. ~PollProcess /\ ~HandlePass /\ ~HandleTrigger
      BY <2>3 DEF PollProcess, HandlePass, HandleTrigger
    <3>2. ~(\/ HandleNewConfig \/ TimerExpires \/ ConnectionLifeExpires
            \/ AddressChanges \/ PostBegins \/ OtherKeyHandler \/ PostEnds
            \/ PostLost \/ PostRefused \/ RestoreDefaults \/ Press)
      BY DEF HandleNewConfig, TimerExpires, ConnectionLifeExpires,
             LibUnchanged, AddressChanges, PostBegins, OtherKeyHandler,
             PostEnds, PostLost, PostRefused, RestoreDefaults, Press
    <3>3. ~MqttConnected /\ ~MqttDisconnected /\ ~Reboot
      BY DEF MqttConnected, MqttDisconnected, Reboot
    <3>4. ~NewNetConfig
      BY DEF NewNetConfig
    <3>5. ~KeyTooLong /\ \A cs : ~KeyAccepted(cs)
      BY <3>4 DEF KeyTooLong, KeyAccepted
    <3>6. ~(\/ OrgIdHandler \/ NameHandler \/ AuthTokenHandler
            \/ IpAddrHandler \/ PortOrReconnectHandler)
      BY ONLY <3>5
      DEF OrgIdHandler, NameHandler, AuthTokenHandler, IpAddrHandler,
          PortOrReconnectHandler
    <3>7. state' = state
      BY <3>1, <3>2, <3>3, <3>5, <3>6 DEF Next, vars
    <3>8. QED BY <3>7
  <2>4. QED BY <2>2, <2>3
<1>2. Inv /\ [Next]_vars => [Step]_vars
  BY <1>1
<1>3. QED BY InvAlways, <1>2, PTL DEF Spec, GivesUpAfterAll
--------------------------------------------------------------------------------
(* In a state it does not rest in, the client is never without something   *)
(* that will run it, but for a request that ended without its event.       *)

(* Queueing an event keeps what is queued.                                 *)
LEMMA QueuedAppend ==
    ASSUME events \in Seq(Events), NEW e \in Events,
           events' = Append(events, e)
    PROVE  /\ \A q \in Events : Queued(q) => Queued(q)'
           /\ Queued(e)'
<1>1. Len(events') = Len(events) + 1 /\ Len(events) \in Nat
  OBVIOUS
<1>2. \A i \in 1 .. Len(events) : events'[i] = events[i]
  OBVIOUS
<1>3. events'[Len(events')] = e
  BY <1>1
<1>4. ASSUME NEW q \in Events, Queued(q) PROVE Queued(q)'
  <2>1. PICK i \in 1 .. Len(events) : events[i] = q
    BY <1>4 DEF Queued
  <2>2. i \in 1 .. Len(events') /\ events'[i] = q
    BY <1>1, <1>2, <2>1
  <2>3. QED BY <2>2 DEF Queued
<1>5. Queued(e)'
  <2>1. Len(events') \in 1 .. Len(events')
    BY <1>1
  <2>2. QED BY <1>3, <2>1 DEF Queued
<1>6. QED BY <1>4, <1>5

(* Nothing is taken from the queue.                                        *)
Grows ==
    \/ events' = events
    \/ \E e \in Events : events' = Append(events, e)

LEMMA QueuedKept ==
    ASSUME events \in Seq(Events), Grows, NEW q \in Events, Queued(q)
    PROVE  Queued(q)'
<1>1. CASE events' = events
  BY <1>1 DEF Queued
<1>2. CASE \E e \in Events : events' = Append(events, e)
  BY <1>2, QueuedAppend
<1>3. QED BY <1>1, <1>2 DEF Grows

(* A pass of the state machine sets the timer, or ends in a state that only*)
(* a new configuration or a button can leave.                              *)
LEMMA PassRearms ==
    ASSUME Inv, StateMachine
    PROVE  publish_periodic_timer' # "off" \/ state' \notin Working
BY DEF StateMachine, CaseInit, CaseRegistered, CaseConnecting, CasePublishing,
       CaseDisconnected, CaseNewConfig, CaseError, Register, UpdateConfig,
       Working, Inv, TypeOK, States

(* A request ends with its event queued, or the client is forsaken, or     *)
(* the request never stopped it.                                           *)
LEMMA EndNoStall ==
    ASSUME TypeOK, NEW stopped \in BOOLEAN, EndOfRequest(stopped)
    PROVE  /\ Grows
           /\ forsaken => forsaken'
           /\ config_ok \/ stopped =>
                 \/ publish_periodic_timer' # "off"
                 \/ Queued("new_config")'
                 \/ forsaken'
<1>1. "new_config" \in Events /\ events \in Seq(Events)
  BY DEF TypeOK, Events
<1>2. CASE events' = events
  <2>1. CASE events = Append(events, "new_config")
    BY <1>1, <2>1
  <2>2. CASE events # Append(events, "new_config")
    BY <1>2, <2>2 DEF EndOfRequest, Grows
  <2>3. QED BY <2>1, <2>2
<1>3. CASE events' # events
  <2>1. events' = Append(events, "new_config") /\ forsaken' = forsaken
    BY <1>3 DEF EndOfRequest
  <2>2. Queued("new_config")'
    BY <1>1, <2>1, QueuedAppend
  <2>3. QED BY <1>1, <2>1, <2>2 DEF Grows
<1>4. QED BY <1>2, <1>3

LEMMA StepNoStall == Inv /\ NoStall /\ [Next]_vars => NoStall'
<1> SUFFICES ASSUME Inv, NoStall, [Next]_vars PROVE NoStall'
  OBVIOUS
<1>1. /\ TypeOK /\ events \in Seq(Events)
      /\ {"timer", "new_config"} \subseteq Events
  BY DEF Inv, TypeOK, Events
<1>2. CASE StateMachine
  BY <1>2, PassRearms DEF NoStall
<1>3. CASE \/ HandleNewConfig \/ RestoreDefaults \/ Reboot
           \/ HandleTrigger /\ Register(1, 0, conn)
  BY <1>3 DEF HandleNewConfig, RestoreDefaults, Reboot, Register, NoStall
<1>4. CASE TimerExpires
  <2>1. Queued("timer")'
    BY <1>1, <1>4, QueuedAppend DEF TimerExpires
  <2>2. QED BY <2>1 DEF NoStall
<1>5. CASE MqttDisconnected
  <2>1. CASE state = "NEWCONFIG"
    BY <1>5, <2>1
    DEF MqttDisconnected, LibUnchanged, NoStall, Working, States, Queued
  <2>2. CASE state # "NEWCONFIG"
    BY <1>5, <2>2 DEF MqttDisconnected, NoStall
  <2>3. QED BY <2>1, <2>2
<1>6. CASE MqttConnected
  <2>1. state \in Working
    BY <1>6 DEF MqttConnected, Inv, ConnAgrees, TypeOK, States, Working
  <2>2. QED BY <1>6, <2>1 DEF MqttConnected, LibUnchanged, NoStall, Queued
<1>7. ASSUME UNCHANGED <<state, publish_periodic_timer, poll>>, Grows,
             post = "open" /\ config_ok =>
                \/ post' = "open" /\ config_ok'
                \/ publish_periodic_timer' # "off"
                \/ Queued("new_config")'
                \/ forsaken',
             forsaken => forsaken'
      PROVE  NoStall'
  <2>1. /\ Queued("timer") => Queued("timer")'
        /\ Queued("new_config") => Queued("new_config")'
    BY <1>1, <1>7, QueuedKept
  <2>2. QED BY <1>7, <2>1 DEF NoStall
<1>8. CASE ConnectionLifeExpires \/ AddressChanges \/ UNCHANGED vars
  BY <1>7, <1>8
  DEF ConnectionLifeExpires, LibUnchanged, AddressChanges, vars, Grows
<1>9. CASE PostBegins \/ OtherKeyHandler
  BY <1>7, <1>9 DEF PostBegins, OtherKeyHandler, UserUnchanged, Grows
<1>10. CASE PostLost
  BY <1>7, <1>10 DEF PostLost, UserUnchanged, Grows
<1>11. CASE PostEnds \/ PostRefused
  <2>1. EndOfRequest(FALSE) /\ UNCHANGED <<state, publish_periodic_timer, poll>>
    BY <1>11 DEF PostEnds, PostRefused, UserUnchanged
  <2>2. QED BY <1>1, <1>7, <2>1, EndNoStall
<1>12. CASE Press
  BY <1>7, <1>12 DEF Press, UserUnchanged, Events, Grows
<1>13. CASE KeyTooLong
  <2>1. EndOfRequest(TRUE) /\ NewNetConfig
    BY <1>13 DEF KeyTooLong
  <2>2. QED BY <1>1, <2>1, EndNoStall DEF NoStall
<1>14. CASE \/ OrgIdHandler \/ NameHandler \/ AuthTokenHandler
            \/ IpAddrHandler \/ PortOrReconnectHandler
  <2>1. post' = "open" /\ config_ok'
    BY <1>14
    DEF OrgIdHandler, NameHandler, AuthTokenHandler, IpAddrHandler,
        PortOrReconnectHandler, KeyAccepted
  <2>2. QED BY <2>1 DEF NoStall
<1>15. CASE PollProcess \/ HandlePass \/ HandleTrigger
  BY <1>2, <1>3, <1>15 DEF PollProcess, HandlePass, HandleTrigger
<1>16. QED
  BY <1>3, <1>4, <1>5, <1>6, <1>8, <1>9, <1>10, <1>11, <1>12, <1>13, <1>14,
     <1>15
  DEF Next

(* In none of the states it works in does the client stand still for want  *)
(* of a wake-up, whatever order timers, polls, callbacks and keys come in, *)
(* unless a request that stopped its timer ended without its event.        *)
THEOREM NeverStalls == Spec => []NoStall
<1>1. Init => NoStall
  BY DEF Init, NoStall
<1>2. QED BY InvAlways, <1>1, StepNoStall, PTL DEF Spec
--------------------------------------------------------------------------------
(* Publishing for a registered account.                                    *)

(* Only CONNECTED, through a subscription, leads to PUBLISHING.            *)
LEMMA PassSubscribed ==
    ASSUME PublishingSubscribed, StateMachine, conf' = conf
    PROVE  PublishingSubscribed'
<1>1. CASE CasePublishing
  <2>1. conf.org # "quickstart" => \/ state = "PUBLISHING"
                                   \/ state = "CONNECTED"
    BY <1>1 DEF CasePublishing
  <2>2. conf.org = "registered" =>
           (state' = "PUBLISHING" => subscribed' \/ state = "PUBLISHING")
    BY <1>1 DEF CasePublishing
  <2>3. subscribed => subscribed'
    BY <1>1 DEF CasePublishing
  <2>4. QED BY <2>2, <2>3 DEF PublishingSubscribed
<1>2. CASE ~CasePublishing
  BY <1>2
  DEF StateMachine, CaseInit, CaseRegistered, CaseConnecting,
      CaseDisconnected, CaseNewConfig, CaseError, Register, UpdateConfig,
      PublishingSubscribed
<1>3. QED BY <1>1, <1>2

LEMMA StepSubscribed ==
    PublishingSubscribed /\ [Next]_vars => PublishingSubscribed'
<1> SUFFICES ASSUME PublishingSubscribed, [Next]_vars
             PROVE  PublishingSubscribed'
  OBVIOUS
<1>1. CASE PollProcess \/ HandlePass \/ HandleTrigger
  <2>1. conf' = conf
    BY <1>1 DEF PollProcess, HandlePass, HandleTrigger, NextEvent
  <2>2. CASE StateMachine
    BY <2>1, <2>2, PassSubscribed
  <2>3. CASE Register(1, 0, conn)
    BY <2>3 DEF Register, PublishingSubscribed
  <2>4. QED BY <1>1, <2>2, <2>3 DEF PollProcess, HandlePass, HandleTrigger
<1>2. CASE \/ OrgIdHandler \/ NameHandler \/ AuthTokenHandler
           \/ IpAddrHandler \/ PortOrReconnectHandler \/ KeyTooLong
  <2>1. NewNetConfig
    BY ONLY <1>2
    DEF OrgIdHandler, NameHandler, AuthTokenHandler, IpAddrHandler,
        PortOrReconnectHandler, KeyAccepted, KeyTooLong
  <2>2. QED BY <2>1 DEF NewNetConfig, PublishingSubscribed
<1>3. CASE MqttConnected \/ MqttDisconnected \/ Reboot
  BY <1>3
  DEF MqttConnected, MqttDisconnected, Reboot, LibUnchanged,
      PublishingSubscribed
<1>4. CASE RestoreDefaults
  BY <1>4 DEF RestoreDefaults, DefaultConfig, PublishingSubscribed
<1>5. CASE UNCHANGED <<state, conf, subscribed>>
  BY <1>5 DEF PublishingSubscribed
<1>6. CASE \/ HandleNewConfig \/ TimerExpires \/ ConnectionLifeExpires
           \/ AddressChanges \/ UNCHANGED vars
  BY <1>5, <1>6
  DEF HandleNewConfig, NextEvent, TimerExpires, ConnectionLifeExpires,
      LibUnchanged, AddressChanges, vars
<1>7. CASE \/ PostBegins \/ OtherKeyHandler \/ PostEnds \/ PostLost
           \/ PostRefused \/ Press
  BY <1>5, <1>7
  DEF PostBegins, OtherKeyHandler, PostEnds, PostLost, PostRefused, Press,
      UserUnchanged
<1>8. QED BY <1>1, <1>2, <1>3, <1>4, <1>6, <1>7 DEF Next

(* A registered client never publishes on a connection on which it did not *)
(* subscribe to its commands, whatever reconfigures it in between.         *)
THEOREM SubscribesFirst == Spec => []PublishingSubscribed
<1>1. Init => PublishingSubscribed
  BY DEF Init, PublishingSubscribed
<1>2. QED BY <1>1, StepSubscribed, PTL DEF Spec
--------------------------------------------------------------------------------
(* The client implements the safety part of Reconnector.                   *)

(* An attempt that is under way was made in this round, also while a new   *)
(* configuration waits for its end; Reconnector's Relapse and Ends need it.*)
UnderWay == conn = "connecting" => tries >= 1

(* The mapping, state by state.                                            *)
LEMMA PhaseOf ==
    /\ state = "INIT" => Phase = "idle" /\ Round = 0
    /\ state = "REGISTERED" => Phase = "waiting" /\ Round = tries
    /\ state = "CONNECTING" => Phase = "trying" /\ Round = tries
    /\ state \in {"CONNECTED", "PUBLISHING"} => Phase = "online" /\ Round = tries
    /\ state = "DISCONNECTED" => Phase = "lost" /\ Round = tries
    /\ state = "NEWCONFIG" =>
          Phase = "paused" /\ Round = IF conn = "connecting" THEN tries ELSE 0
    /\ state \in {"ERROR", "CONFIG_ERROR"} => Phase = "stopped" /\ Round = 0
BY DEF Phase, Round

LEMMA PhaseOfNext ==
    /\ state' = "INIT" => Phase' = "idle" /\ Round' = 0
    /\ state' = "REGISTERED" => Phase' = "waiting" /\ Round' = tries'
    /\ state' = "CONNECTING" => Phase' = "trying" /\ Round' = tries'
    /\ state' \in {"CONNECTED", "PUBLISHING"}
          => Phase' = "online" /\ Round' = tries'
    /\ state' = "DISCONNECTED" => Phase' = "lost" /\ Round' = tries'
    /\ state' = "NEWCONFIG" =>
          Phase' = "paused" /\ Round' = IF conn' = "connecting" THEN tries' ELSE 0
    /\ state' \in {"ERROR", "CONFIG_ERROR"} => Phase' = "stopped" /\ Round' = 0
BY DEF Phase, Round

(* What every step of the client is: one of Reconnector's, or none of its  *)
(* business; and UnderWay goes on holding.                                 *)
Refines == (Promise!Next \/ (Phase' = Phase /\ Round' = Round)) /\ UnderWay'

LEMMA StandsStill ==
    ASSUME UnderWay, UNCHANGED <<state, conn, tries>>
    PROVE  Refines
BY DEF Refines, UnderWay, Phase, Round

(* REGISTERED, entered from a round's beginning, a trigger or a back-off.  *)
LEMMA RegisterSteps ==
    ASSUME NEW a, NEW k \in Nat, Register(a, k, "down")
    PROVE  /\ \/ Phase' = "waiting" /\ Round' = k
              \/ Phase' = "trying" /\ Round' = k + 1
              \/ Phase' = "stopped" /\ Round' = 0
           /\ UnderWay'
           /\ state' = "REGISTERED" => tries' = k
BY PhaseOfNext DEF Register, UnderWay

LEMMA StateMachineRefines ==
    ASSUME Inv, UnderWay, StateMachine
    PROVE  Refines
<1> USE PhaseOf, PhaseOfNext DEF Inv
<1>0. tries \in Nat /\ RECONNECT_ATTEMPTS \in Nat \ {0}
  BY ConstantBounds DEF TypeOK
<1>1. CASE CaseInit
  <2>1. Phase = "idle" /\ Round = 0 /\ conn = "down"
    BY <1>1 DEF CaseInit, ConnAgrees
  <2>2. CASE Register(1, 0, "down")
    BY <2>1, <2>2, RegisterSteps DEF Refines, Promise!Next, Promise!Begin
  <2>3. CASE ~Register(1, 0, "down")
    <3>1. state' = "ERROR" /\ conn' = "down"
      BY <1>1, <2>3 DEF CaseInit
    <3>2. QED
      BY <2>1, <3>1 DEF Refines, UnderWay, Promise!Next, Promise!Begin
  <2>4. QED BY <2>2, <2>3
<1>2. CASE CaseRegistered
  <2>1. /\ Phase = "waiting" /\ Round = tries /\ conn = "down"
        /\ connect_attempt = tries + 1
    BY <1>2 DEF CaseRegistered, ConnAgrees, AttemptsCounted
  <2>2. tries < RECONNECT_ATTEMPTS
    BY <1>0, <2>1 DEF TypeOK
  <2>3. Register(connect_attempt, tries, "down")
    BY <1>2, <2>1 DEF CaseRegistered
  <2>4. QED
    BY <1>0, <2>1, <2>2, <2>3, RegisterSteps
    DEF Refines, Promise!Next, Promise!Attempt
<1>3. CASE CaseConnecting
  BY <1>3, StandsStill DEF CaseConnecting
<1>4. CASE CasePublishing
  <2>1. /\ Phase = "online" /\ Round = tries /\ conn = "connected"
        /\ Phase' = "online" /\ Round' = tries' /\ conn' = conn
        /\ tries' = 0 \/ tries' = tries
    BY <1>4 DEF CasePublishing, ConnAgrees
  <2>2. QED BY <2>1 DEF Refines, UnderWay, Promise!Next, Promise!Stable
<1>5. CASE CaseDisconnected
  <2>1. /\ Phase = "lost" /\ Round = tries /\ conn = "down"
        /\ connect_attempt = tries /\ tries' = tries
    BY <1>5 DEF CaseDisconnected, ConnAgrees, AttemptsCounted
  <2>2. conn' = "down"
    BY <1>5, <2>1 DEF CaseDisconnected, MqttDisconnect
  <2>3. CASE connect_attempt < RECONNECT_ATTEMPTS
    <3>1. state' = "REGISTERED"
      BY <1>0, <1>5, <2>1, <2>3 DEF CaseDisconnected
    <3>2. QED
      BY <2>1, <2>2, <2>3, <3>1 DEF Refines, UnderWay, Promise!Next, Promise!Again
  <2>4. CASE ~(connect_attempt < RECONNECT_ATTEMPTS)
    <3>1. state' = "ERROR" /\ tries = RECONNECT_ATTEMPTS
      BY <1>0, <1>5, <2>1, <2>4, ConstantBounds DEF CaseDisconnected, TypeOK
    <3>2. QED
      BY <2>1, <2>2, <3>1 DEF Refines, UnderWay, Promise!Next, Promise!GiveUp
  <2>5. QED BY <2>3, <2>4
<1>6. CASE CaseNewConfig
  <2>1. conn' = conn /\ tries' = tries /\ Phase = "paused"
    BY <1>6 DEF CaseNewConfig
  <2>2. CASE conn = "down" /\ UpdateConfig
    <3>1. Round = 0 /\ state' \in {"INIT", "CONFIG_ERROR"}
      BY <1>6, <2>2 DEF CaseNewConfig, UpdateConfig
    <3>2. QED
      BY <2>1, <2>2, <3>1 DEF Refines, UnderWay, Promise!Next, Promise!Resume
  <2>3. CASE ~(conn = "down" /\ UpdateConfig)
    BY <1>6, <2>1, <2>3, StandsStill DEF CaseNewConfig
  <2>4. QED BY <2>2, <2>3
<1>7. CASE CaseError
  BY <1>7, StandsStill DEF CaseError
<1>8. QED
  BY <1>1, <1>2, <1>3, <1>4, <1>5, <1>6, <1>7 DEF StateMachine

(* A new configuration pauses the client, but for the attempt under way.   *)
LEMMA NewNetConfigRefines ==
    ASSUME Inv, UnderWay, NewNetConfig, tries' = tries
    PROVE  Refines
<1>1. CASE state = "NEWCONFIG"
  BY <1>1, StandsStill DEF NewNetConfig
<1>2. CASE state # "NEWCONFIG"
  <2>1. /\ state' = "NEWCONFIG"
        /\ conn' = "connecting" <=> conn = "connecting"
    BY <1>2 DEF NewNetConfig, MqttDisconnect
  <2>2. conn = "connecting" <=> state = "CONNECTING"
    BY <1>2 DEF Inv, TypeOK, States, ConnAgrees
  <2>3. /\ Phase' = "paused"
        /\ Round' = IF state = "CONNECTING" THEN tries ELSE 0
    BY <2>1, <2>2, PhaseOfNext
  <2>4. /\ Phase # "paused"
        /\ Phase = "trying" <=> state = "CONNECTING"
        /\ state = "CONNECTING" => Round = tries
    BY <1>2, PhaseOf DEF Inv, TypeOK, States
  <2>5. Promise!Pause
    BY <2>3, <2>4 DEF Promise!Pause
  <2>6. QED BY <2>1, <2>5 DEF Refines, UnderWay, Promise!Next
<1>3. QED BY <1>1, <1>2

(* What the library reports.                                               *)
LEMMA ConnectedRefines == ASSUME Inv, UnderWay, MqttConnected PROVE Refines
<1>1. /\ state' = "CONNECTED" /\ conn' = "connected" /\ tries' = tries
      /\ conn = "connecting" /\ tries \in Nat /\ tries > 0
  BY DEF MqttConnected, LibUnchanged, UnderWay, Inv, TypeOK
<1>2. state \in {"CONNECTING", "NEWCONFIG"}
  BY <1>1 DEF Inv, TypeOK, States, ConnAgrees
<1>3. Phase' = "online" /\ Round' = tries
  BY <1>1, PhaseOfNext
<1>4. CASE state = "CONNECTING"
  BY <1>1, <1>3, <1>4, PhaseOf DEF Refines, UnderWay, Promise!Next, Promise!Up
<1>5. CASE state = "NEWCONFIG"
  BY <1>1, <1>3, <1>5, PhaseOf
  DEF Refines, UnderWay, Promise!Next, Promise!Relapse
<1>6. QED BY <1>2, <1>4, <1>5

LEMMA DisconnectedRefines == ASSUME Inv, UnderWay, MqttDisconnected PROVE Refines
<1>1. conn' = "down" /\ conn # "down" /\ tries' = tries /\ tries \in Nat
  BY DEF MqttDisconnected, LibUnchanged, Inv, TypeOK
<1>2. UnderWay'
  BY <1>1 DEF UnderWay
<1>3. CASE state = "NEWCONFIG"
  <2>1. state' = "NEWCONFIG"
    BY <1>3 DEF MqttDisconnected
  <2>2. Phase = "paused" /\ Phase' = "paused" /\ Round' = 0
    BY <1>1, <1>3, <2>1, PhaseOf, PhaseOfNext
  <2>3. Round = 0 \/ Round > 0
    BY <1>1, <1>3, PhaseOf DEF UnderWay
  <2>4. QED BY <1>2, <2>2, <2>3 DEF Refines, Promise!Next, Promise!Ends
<1>4. CASE state # "NEWCONFIG"
  <2>1. state' = "DISCONNECTED"
    BY <1>4 DEF MqttDisconnected
  <2>2. state \in {"CONNECTING", "CONNECTED", "PUBLISHING"}
    BY <1>1, <1>4 DEF Inv, TypeOK, States, ConnAgrees
  <2>3. /\ Phase \in {"trying", "online"} /\ Round = tries
        /\ Phase' = "lost" /\ Round' = tries
    BY <1>1, <2>1, <2>2, PhaseOf, PhaseOfNext
  <2>4. QED
    BY <1>2, <2>3 DEF Refines, Promise!Next, Promise!Fail, Promise!Lose
<1>5. QED BY <1>3, <1>4

(* A trigger begins a round of a client that has stopped in ERROR.         *)
LEMMA TriggerRefines == ASSUME Inv, UnderWay, HandleTrigger PROVE Refines
<1>1. CASE state = "ERROR"
  <2>1. /\ Phase = "stopped" /\ Round = 0
        /\ Register(1, 0, "down")
    BY <1>1, PhaseOf DEF Inv, ConnAgrees, HandleTrigger
  <2>2. QED BY <2>1, RegisterSteps DEF Refines, Promise!Next, Promise!Trigger
<1>2. CASE state # "ERROR"
  BY <1>2, StateMachineRefines DEF HandleTrigger
<1>3. QED BY <1>1, <1>2

LEMMA KeysRefine ==
    ASSUME Inv, UnderWay,
           \/ KeyTooLong \/ OrgIdHandler \/ NameHandler \/ AuthTokenHandler
           \/ IpAddrHandler \/ PortOrReconnectHandler
    PROVE  Refines
<1>1. NewNetConfig /\ UserUnchanged
  BY DEF KeyTooLong, OrgIdHandler, NameHandler, AuthTokenHandler,
         IpAddrHandler, PortOrReconnectHandler, KeyAccepted
<1>2. QED BY <1>1, NewNetConfigRefines DEF UserUnchanged

(* The steps that are not the reconnector's business.                      *)
LEMMA OthersStandStill ==
    ASSUME UnderWay,
           \/ HandleNewConfig \/ TimerExpires \/ ConnectionLifeExpires
           \/ AddressChanges \/ PostBegins \/ OtherKeyHandler \/ PostEnds
           \/ PostLost \/ PostRefused \/ RestoreDefaults \/ Press
           \/ UNCHANGED vars
    PROVE  Refines
<1>1. UNCHANGED <<state, conn, tries>>
  BY DEF HandleNewConfig, TimerExpires, ConnectionLifeExpires, LibUnchanged,
         AddressChanges, PostBegins, OtherKeyHandler, PostEnds, PostLost,
         PostRefused, RestoreDefaults, Press, UserUnchanged, vars
<1>2. QED BY <1>1, StandsStill

LEMMA StepRefines == ASSUME Inv, UnderWay, [Next]_vars PROVE Refines
<1>1. CASE PollProcess \/ HandlePass
  BY <1>1, StateMachineRefines DEF PollProcess, HandlePass
<1>2. CASE Reboot
  <2>1. state' = "INIT" /\ conn' = "down"
    BY <1>2 DEF Reboot
  <2>2. QED
    BY <2>1, PhaseOfNext DEF Refines, UnderWay, Promise!Next, Promise!Restart
<1>3. QED
  BY <1>1, <1>2, ConnectedRefines, DisconnectedRefines, TriggerRefines,
     KeysRefine, OthersStandStill DEF Next

(* MqttClient implements Reconnector's safety part, for every number of    *)
(* attempts: whatever order polls, timers, callbacks, presses and keys come*)
(* in, it makes its rounds of at most RECONNECT_ATTEMPTS attempts and stops*)
(* only at the end of one. (That it is never itself the reason why a round *)
(* stands still is left to the runs.)                                      *)
THEOREM ImplementsReconnector == Spec => Promise!SafeSpec
<1>1. Init => Promise!Init /\ UnderWay
  <2> SUFFICES ASSUME Init PROVE Promise!Init /\ UnderWay
    OBVIOUS
  <2>1. state = "INIT" /\ conn = "down"
    BY DEF Init
  <2>2. QED BY <2>1, PhaseOf DEF Promise!Init, UnderWay
<1>2. Inv /\ UnderWay /\ [Next]_vars => UnderWay'
  BY StepRefines DEF Refines
<1>3. Inv /\ UnderWay /\ [Next]_vars => [Promise!Next]_(Promise!vars)
  BY StepRefines DEF Refines, Promise!vars
<1>4. QED BY InvAlways, <1>1, <1>2, <1>3, PTL DEF Spec, Promise!SafeSpec
================================================================================
