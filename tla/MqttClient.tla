----------------------------- MODULE MqttClient -----------------------------
(***************************************************************************)
(* The MQTT client process of the CoAP node (mqtt-client.c): its state     *)
(* machine, its periodic etimer, the callbacks of the MQTT library, the    *)
(* HTTP POST handlers that rewrite its configuration while it runs, and    *)
(* the copy of that configuration in external flash (cc26xx-web-demo.c).   *)
(*                                                                         *)
(* Contiki is cooperative: a handler runs to its end before the next one   *)
(* starts, so a handler is one action. What interleaves is the order in    *)
(* which events, polls, timers and callbacks of the library reach the      *)
(* process, and that order is what the properties are about.               *)
(***************************************************************************)
EXTENDS Naturals, Sequences

CONSTANTS
    RECONNECT_ATTEMPTS, \* connection attempts before the client gives up
    MaxUser,            \* bound: requests, buttons and reboots in a behaviour
    MaxQueue            \* bound: events waiting for the process

(* The value of RECONNECT_ATTEMPTS that stands for "for ever": no build of *)
(* the node sets it (its counter is a uint8_t and would wrap round).       *)
RETRY_FOREVER == 255

ASSUME ConstantsAssumption ==
    /\ RECONNECT_ATTEMPTS \in 1 .. RETRY_FOREVER - 1
    /\ MaxUser \in Nat
    /\ MaxQueue \in Nat \ {0}

(* What the properties tell apart in mqtt_client_config_t: the account, a  *)
(* non-empty auth token, names that fit the 64 byte buffers, and a broker  *)
(* address that mqtt_connect accepts.                                      *)
Orgs == {"quickstart", "registered"}
Config == [org : Orgs, auth : BOOLEAN, fits : BOOLEAN, ip : BOOLEAN]
DefaultConfig ==
    [org |-> "quickstart", auth |-> FALSE, fits |-> TRUE, ip |-> TRUE]

States == {"INIT", "REGISTERED", "CONNECTING", "CONNECTED", "PUBLISHING",
           "DISCONNECTED", "NEWCONFIG", "CONFIG_ERROR", "ERROR"}

(* The library's connection: "down" is NOT_CONNECTED or ERROR, the two     *)
(* values the code treats alike.                                           *)
ConnStates == {"down", "connecting", "connected", "disconnecting"}

(* publish_periodic_timer: stopped, or the interval it was last set to.    *)
Timers == {"off", "asap", "net", "state", "publish", "backoff", "wait"}

Events == {"timer", "publish", "trigger", "new_config"}

VARIABLES
    state,                  \* the state machine's state
    conn,                   \* the library's connection
    login,                  \* user name and token were given to the library
    connect_attempt,        \* uint8_t, at most RECONNECT_ATTEMPTS
    publish_periodic_timer, \* the etimer that drives the state machine
    poll,                   \* process_poll requested
    events,                 \* Contiki's queue of events for the process
    connection_life,        \* the "connection is stable" timer
    conf,                   \* the running configuration
    client_id,              \* the account client_id was built for
    flash,                  \* {} or {the saved configuration}
    post,                   \* a POST of a configuration page is being received
    config_ok,              \* httpd-simple's flag: some key was accepted
    global_addr,            \* the node has a preferred global address
    user,                   \* what is left of MaxUser
    tries,                  \* history: mqtt_connect calls since the last reset
    subscribed,             \* history: subscribed on this connection
    forsaken                \* history: a request that stopped the timer ended
                            \* without its event, and nothing ran since

vars == <<state, conn, login, connect_attempt, publish_periodic_timer, poll,
          events, connection_life, conf, client_id, flash, post, config_ok,
          global_addr, user, tries, subscribed, forsaken>>

TypeOK ==
    /\ state \in States
    /\ conn \in ConnStates
    /\ login \in BOOLEAN
    /\ connect_attempt \in 0 .. RECONNECT_ATTEMPTS
    /\ publish_periodic_timer \in Timers
    /\ poll \in BOOLEAN
    /\ events \in Seq(Events)
    /\ connection_life \in {"running", "expired"}
    /\ conf \in Config
    /\ client_id \in Orgs
    /\ flash \in SUBSET Config
    /\ post \in {"idle", "open"}
    /\ config_ok \in BOOLEAN
    /\ global_addr \in BOOLEAN
    /\ user \in 0 .. MaxUser
    /\ tries \in 0 .. RECONNECT_ATTEMPTS
    /\ subscribed \in BOOLEAN
    /\ forsaken \in BOOLEAN
-----------------------------------------------------------------------------
(* load_config: a valid image in flash replaces the running configuration. *)
LoadConfig(image) ==
    IF image = {} THEN DefaultConfig ELSE CHOOSE c \in image : TRUE

(* The first boot. The client fills in its defaults and builds its client  *)
(* ID from them (update_config); only then does the main process load the  *)
(* configuration from flash.                                               *)
Init ==
    /\ state = "INIT"
    /\ conn = "down"
    /\ login = FALSE
    /\ connect_attempt = 0
    /\ publish_periodic_timer = "asap"
    /\ poll = FALSE
    /\ events = <<>>
    /\ connection_life = "expired"
    /\ flash = {}
    /\ conf = LoadConfig({})
    /\ client_id = DefaultConfig.org
    /\ post = "idle"
    /\ config_ok = FALSE
    /\ global_addr = FALSE
    /\ user = MaxUser
    /\ tries = 0
    /\ subscribed = FALSE
    /\ forsaken = FALSE

(* The node loses power and boots again: RAM is lost. Flash is kept, unless*)
(* power went between the erase and the write of save_config.              *)
Reboot ==
    /\ user > 0
    /\ user' = user - 1
    /\ flash' \in {flash, {}}
    /\ state' = "INIT"
    /\ conn' = "down"
    /\ login' = FALSE
    /\ connect_attempt' = 0
    /\ publish_periodic_timer' = "asap"
    /\ poll' = FALSE
    /\ events' = <<>>
    /\ connection_life' = "expired"
    /\ conf' = LoadConfig(flash')
    /\ client_id' = DefaultConfig.org
    /\ post' = "idle"
    /\ config_ok' = FALSE
    /\ global_addr' = FALSE
    /\ tries' = 0
    /\ subscribed' = FALSE
    /\ forsaken' = FALSE

(* save_config erases, then writes: it may fail to open or erase (flash    *)
(* keeps its contents) or to write (flash is left erased).                 *)
SaveConfig(c) == flash' \in {{c}, {}, flash}
-----------------------------------------------------------------------------
(* The cases of state_machine().                                           *)

(* REGISTERED, with connect_attempt a, n earlier attempts and connection c.*)
(* connect_to_broker: mqtt_connect refuses an address it cannot parse and  *)
(* answers OK at once if a connection is already under way.                *)
Register(a, n, c) ==
    /\ connect_attempt' = a
    /\ publish_periodic_timer' = "net"
    /\ \/ /\ ~global_addr
          /\ state' = "REGISTERED"
          /\ conn' = c
          /\ tries' = n
       \/ /\ global_addr
          /\ c # "down" \/ conf.ip
          /\ state' = "CONNECTING"
          /\ conn' = IF c = "down" THEN "connecting" ELSE c
          /\ tries' = n + 1
       \/ /\ global_addr
          /\ c = "down" /\ ~conf.ip
          /\ state' = "CONFIG_ERROR"
          /\ conn' = c
          /\ tries' = n
    /\ UNCHANGED <<client_id, subscribed>>

(* INIT: mqtt_register clears the connection; a registered account needs a *)
(* token; then fall into REGISTERED for the first attempt.                 *)
CaseInit ==
    /\ state = "INIT"
    /\ login' = (conf.org # "quickstart" /\ conf.auth)
    /\ \/ /\ conf.org = "quickstart" \/ conf.auth
          /\ Register(1, 0, "down")
       \/ /\ conf.org # "quickstart" /\ ~conf.auth
          /\ state' = "ERROR"
          /\ conn' = "down"
          /\ publish_periodic_timer' = "state"
          /\ UNCHANGED <<connect_attempt, tries, client_id, subscribed>>

CaseRegistered ==
    /\ state = "REGISTERED"
    /\ Register(connect_attempt, tries, conn)
    /\ UNCHANGED login

CaseConnecting ==
    /\ state = "CONNECTING"
    /\ publish_periodic_timer' = "state"
    /\ UNCHANGED <<state, conn, login, connect_attempt, client_id, tries,
                   subscribed>>

(* Mutant: takes every account for quickstart, and never subscribes.       *)
CasePublishingUnsubscribed ==
    /\ state \in {"CONNECTED", "PUBLISHING"}
    /\ state' = "PUBLISHING"
    /\ publish_periodic_timer' = "publish"
    /\ UNCHANGED <<conn, login, connect_attempt, client_id, tries, subscribed>>

(* CONNECTED and PUBLISHING: once the connection proved stable the attempts*)
(* start anew; subscribe first unless on quickstart, then publish, but only*)
(* when the library has nothing in flight (ready).                         *)
CasePublishing ==
    LET s == IF state = "CONNECTED" /\ conf.org = "quickstart"
             THEN "PUBLISHING" ELSE state
    IN  /\ state \in {"CONNECTED", "PUBLISHING"}
        /\ IF connection_life = "expired"
           THEN connect_attempt' = 0 /\ tries' = 0
           ELSE UNCHANGED <<connect_attempt, tries>>
        /\ \E ready \in BOOLEAN :
              /\ ready => conn = "connected"
              /\ state' = IF ready THEN "PUBLISHING" ELSE s
              /\ subscribed' = (subscribed \/ (ready /\ s = "CONNECTED"))
              /\ publish_periodic_timer' = IF ready THEN "publish" ELSE "state"
        /\ UNCHANGED <<conn, login, client_id>>

(* mqtt_disconnect starts a disconnection only of an established           *)
(* connection: a connection attempt under way goes on.                     *)
MqttDisconnect ==
    conn' = IF conn = "connected" THEN "disconnecting" ELSE conn

(* Mutants: one attempt too many; one too few; uncounted; counted anew.    *)
DisconnectedMutant(more, a) ==
    /\ state = "DISCONNECTED"
    /\ \/ more /\ connect_attempt' = a /\ publish_periodic_timer' = "backoff"
          /\ state' = "REGISTERED"
       \/ ~more /\ state' = "ERROR" /\ publish_periodic_timer' = "state"
          /\ UNCHANGED connect_attempt
    /\ UNCHANGED <<conn, login, client_id, tries, subscribed>>
DisconnectedOneMore ==
    DisconnectedMutant(connect_attempt <= RECONNECT_ATTEMPTS, connect_attempt + 1)
DisconnectedOneLess ==
    DisconnectedMutant(connect_attempt + 1 < RECONNECT_ATTEMPTS,
                       connect_attempt + 1)
DisconnectedUncounted ==
    DisconnectedMutant(connect_attempt < RECONNECT_ATTEMPTS, connect_attempt)
DisconnectedUnlimited ==
    /\ state = "DISCONNECTED"
    /\ state' = "REGISTERED"
    /\ connect_attempt' = 1 /\ tries' = 0
    /\ publish_periodic_timer' = "backoff"
    /\ UNCHANGED <<conn, login, client_id, subscribed>>

CaseDisconnected ==
    /\ state = "DISCONNECTED"
    /\ \/ /\ \/ connect_attempt < RECONNECT_ATTEMPTS
             \/ RECONNECT_ATTEMPTS = RETRY_FOREVER
          /\ MqttDisconnect
          /\ connect_attempt' = connect_attempt + 1
          /\ publish_periodic_timer' = "backoff"
          /\ state' = "REGISTERED"
       \/ /\ connect_attempt >= RECONNECT_ATTEMPTS
          /\ RECONNECT_ATTEMPTS # RETRY_FOREVER
          /\ state' = "ERROR"
          /\ publish_periodic_timer' = "state"
          /\ UNCHANGED <<conn, connect_attempt>>
    /\ UNCHANGED <<login, client_id, tries, subscribed>>

(* Mutant: the state machine is not scheduled for the new configuration.   *)
UpdateConfigUnscheduled ==
    /\ client_id' = conf.org
    /\ state' = IF conf.fits THEN "INIT" ELSE "CONFIG_ERROR"
    /\ UNCHANGED publish_periodic_timer

(* update_config: build client ID and topics from the configuration.       *)
UpdateConfig ==
    /\ client_id' = conf.org
    /\ IF conf.fits
       THEN state' = "INIT" /\ publish_periodic_timer' = "asap"
       ELSE state' = "CONFIG_ERROR" /\ UNCHANGED publish_periodic_timer

(* Mutant: does not wait for the disconnection.                            *)
CaseNewConfigEager ==
    /\ state = "NEWCONFIG"
    /\ UpdateConfig
    /\ UNCHANGED <<conn, login, connect_attempt, tries, subscribed>>

(* NEWCONFIG: take the new configuration only after the disconnection.     *)
CaseNewConfig ==
    /\ state = "NEWCONFIG"
    /\ \/ conn = "down" /\ UpdateConfig
       \/ /\ conn # "down"
          /\ publish_periodic_timer' = "state"
          /\ UNCHANGED <<state, client_id>>
    /\ UNCHANGED <<conn, login, connect_attempt, tries, subscribed>>

CaseError ==
    /\ state \in {"CONFIG_ERROR", "ERROR"}
    /\ UNCHANGED <<state, conn, login, connect_attempt, publish_periodic_timer,
                   client_id, tries, subscribed>>

StateMachine ==
    \/ CaseInit
    \/ CaseRegistered
    \/ CaseConnecting
    \/ CasePublishing
    \/ CaseDisconnected
    \/ CaseNewConfig
    \/ CaseError
-----------------------------------------------------------------------------
(* The process: polls run before queued events.                            *)

PollProcess ==
    /\ poll
    /\ poll' = FALSE
    /\ StateMachine
    /\ forsaken' = FALSE
    /\ UNCHANGED <<events, connection_life, conf, flash, post, config_ok,
                   global_addr, user>>

(* The etimer expires: it leaves the timer list and posts its event.       *)
TimerExpires ==
    /\ publish_periodic_timer # "off"
    /\ Len(events) < MaxQueue
    /\ publish_periodic_timer' = "off"
    /\ events' = Append(events, "timer")
    /\ UNCHANGED <<state, conn, login, connect_attempt, poll, connection_life,
                   conf, client_id, flash, post, config_ok, global_addr, user,
                   tries, subscribed, forsaken>>

NextEvent(e) ==
    /\ ~poll
    /\ events # <<>> /\ Head(events) = e
    /\ events' = Tail(events)
    /\ UNCHANGED <<poll, connection_life, conf, post, config_ok, global_addr,
                   user>>

(* The periodic timer, or a short press that broadcast publish_event.      *)
HandlePass ==
    /\ NextEvent("timer") \/ NextEvent("publish")
    /\ StateMachine
    /\ forsaken' = FALSE
    /\ UNCHANGED flash

(* The publish trigger (reed relay or button) also leaves ERROR.           *)
HandleTrigger ==
    /\ NextEvent("trigger")
    /\ \/ state = "ERROR" /\ Register(1, 0, conn) /\ UNCHANGED login
       \/ state # "ERROR" /\ StateMachine
    /\ forsaken' = FALSE
    /\ UNCHANGED flash

(* Mutant: the event is taken, but the timer is not set.                   *)
HandleNewConfigUntimed ==
    /\ NextEvent("new_config")
    /\ SaveConfig(conf)
    /\ forsaken' = FALSE
    /\ UNCHANGED <<state, conn, login, connect_attempt, publish_periodic_timer,
                   client_id, tries, subscribed>>

(* The broadcast new_config event: the client waits before it reconnects,  *)
(* and the main process saves the configuration.                           *)
HandleNewConfig ==
    /\ NextEvent("new_config")
    /\ publish_periodic_timer' = "wait"
    /\ SaveConfig(conf)
    /\ forsaken' = FALSE
    /\ UNCHANGED <<state, conn, login, connect_attempt, client_id, tries,
                   subscribed>>
-----------------------------------------------------------------------------
(* Callbacks of the MQTT library: mqtt_event.                              *)

LibUnchanged ==
    UNCHANGED <<login, connect_attempt, publish_periodic_timer, events, conf,
                client_id, flash, post, config_ok, global_addr, user, tries,
                forsaken>>

MqttConnected ==
    /\ conn = "connecting"
    /\ conn' = "connected"
    /\ connection_life' = "running"
    /\ state' = "CONNECTED"
    /\ subscribed' = FALSE
    /\ UNCHANGED poll
    /\ LibUnchanged

(* A refused attempt, a lost connection, or a finished disconnection.      *)
MqttDisconnected ==
    /\ conn # "down"
    /\ conn' = "down"
    /\ \/ state = "NEWCONFIG" /\ UNCHANGED <<state, poll>>
       \/ state # "NEWCONFIG" /\ state' = "DISCONNECTED" /\ poll' = TRUE
    /\ UNCHANGED <<connection_life, subscribed>>
    /\ LibUnchanged

ConnectionLifeExpires ==
    /\ connection_life = "running"
    /\ connection_life' = "expired"
    /\ UNCHANGED <<state, conn, poll, subscribed>>
    /\ LibUnchanged
-----------------------------------------------------------------------------
(* The configuration page. Its keys arrive in any number of TCP segments,  *)
(* so other handlers run between two keys of one POST.                     *)

UserUnchanged ==
    UNCHANGED <<login, connect_attempt, poll, connection_life, client_id,
                global_addr, tries, subscribed>>

UserActs == user > 0 /\ user' = user - 1

PostBegins ==
    /\ UserActs
    /\ post = "idle"
    /\ post' = "open"
    /\ UNCHANGED <<state, conn, publish_periodic_timer, events, conf, flash,
                   config_ok, forsaken>>
    /\ UserUnchanged

(* new_net_config: stop the timer and disconnect, once per configuration.  *)
NewNetConfig ==
    \/ state = "NEWCONFIG" /\ UNCHANGED <<state, conn, publish_periodic_timer>>
    \/ /\ state # "NEWCONFIG"
       /\ state' = "NEWCONFIG"
       /\ publish_periodic_timer' = "off"
       /\ MqttDisconnect

(* A key with a good value: cs are the configurations it may result in.    *)
KeyAccepted(cs) ==
    /\ UserActs
    /\ post = "open"
    /\ conf' \in cs
    /\ NewNetConfig
    /\ config_ok' = TRUE
    /\ forsaken' = FALSE
    /\ UNCHANGED <<events, flash, post>>
    /\ UserUnchanged

OrgIdHandler ==
    KeyAccepted({c \in Config : c.auth = conf.auth /\ c.ip = conf.ip})
(* type_id, event_type_id and cmd_type: parts of the client ID and topics. *)
NameHandler == KeyAccepted({[conf EXCEPT !.fits = f] : f \in BOOLEAN})
AuthTokenHandler == KeyAccepted({[conf EXCEPT !.auth = a] : a \in BOOLEAN})
IpAddrHandler == KeyAccepted({[conf EXCEPT !.ip = i] : i \in BOOLEAN})
(* broker_port and reconnect change nothing the model tells apart.         *)
PortOrReconnectHandler == KeyAccepted({conf})

(* interval, and the keys of the other pages, do not disconnect.           *)
OtherKeyHandler ==
    /\ UserActs
    /\ post = "open"
    /\ config_ok' = TRUE
    /\ UNCHANGED <<state, conn, publish_periodic_timer, events, conf, flash,
                   post, forsaken>>
    /\ UserUnchanged

(* The end of handle_input, for every request that got that far: an event  *)
(* if any key was accepted since the flag was last cleared. All processes  *)
(* share a queue of 32 places and nobody looks at the result of            *)
(* process_post: a full queue drops the event. stopped: a key of this      *)
(* request stopped the timer.                                              *)
EndOfRequest(stopped) ==
    /\ config_ok' = FALSE
    /\ \/ /\ config_ok
          /\ Len(events) < MaxQueue
          /\ events' = Append(events, "new_config")
          /\ UNCHANGED forsaken
       \/ /\ UNCHANGED events
          /\ forsaken' = \/ forsaken
                         \/ /\ publish_periodic_timer' = "off"
                            /\ config_ok \/ stopped

(* A value that is too long for its field: new_net_config is called all    *)
(* the same, and the server answers Bad Request.                           *)
KeyTooLong ==
    /\ UserActs
    /\ post = "open"
    /\ post' = "idle"
    /\ NewNetConfig
    /\ EndOfRequest(TRUE)
    /\ UNCHANGED <<conf, flash>>
    /\ UserUnchanged

(* The body was read, or an unknown key or a bad port ended it early.      *)
PostEnds ==
    /\ post = "open"
    /\ post' = "idle"
    /\ UNCHANGED <<state, conn, publish_periodic_timer, conf, flash, user>>
    /\ EndOfRequest(FALSE)
    /\ UserUnchanged

(* The connection closed, aborted or timed out: handle_input stops where   *)
(* it stood, and the flag stays set for the next request.                  *)
PostLost ==
    /\ post = "open"
    /\ post' = "idle"
    /\ forsaken' = (forsaken \/ (config_ok /\ publish_periodic_timer = "off"))
    /\ UNCHANGED <<state, conn, publish_periodic_timer, events, conf, flash,
                   config_ok, user>>
    /\ UserUnchanged

(* A second POST that is refused (no lock, no or too large a length) comes *)
(* to the same end of handle_input, and takes the flag of the first.       *)
PostRefused ==
    /\ UserActs
    /\ UNCHANGED <<state, conn, publish_periodic_timer, conf, flash, post>>
    /\ EndOfRequest(FALSE)
    /\ UserUnchanged

(* restore_defaults (long press, POST key or CoAP reset): init_config, a   *)
(* timer, save_config; synchronous, and without a change of state.         *)
RestoreDefaults ==
    /\ UserActs
    /\ conf' = DefaultConfig
    /\ publish_periodic_timer' = "wait"
    /\ SaveConfig(DefaultConfig)
    /\ \/ UNCHANGED config_ok
       \/ post = "open" /\ config_ok' = TRUE
    /\ forsaken' = FALSE
    /\ UNCHANGED <<state, conn, events, post>>
    /\ UserUnchanged

(* A short press broadcasts publish_event; the trigger is a sensors_event. *)
Press ==
    /\ UserActs
    /\ Len(events) < MaxQueue
    /\ \E e \in {"publish", "trigger"} : events' = Append(events, e)
    /\ UNCHANGED <<state, conn, publish_periodic_timer, conf, flash, post,
                   config_ok, forsaken>>
    /\ UserUnchanged

(* Neighbour discovery gives or takes the preferred global address.        *)
AddressChanges ==
    /\ global_addr' = ~global_addr
    /\ UNCHANGED <<state, conn, login, connect_attempt, publish_periodic_timer,
                   poll, events, connection_life, conf, client_id, flash, post,
                   config_ok, user, tries, subscribed, forsaken>>

Next ==
    \/ PollProcess
    \/ TimerExpires
    \/ HandlePass
    \/ HandleTrigger
    \/ HandleNewConfig
    \/ MqttConnected
    \/ MqttDisconnected
    \/ ConnectionLifeExpires
    \/ PostBegins
    \/ OrgIdHandler
    \/ NameHandler
    \/ AuthTokenHandler
    \/ IpAddrHandler
    \/ PortOrReconnectHandler
    \/ OtherKeyHandler
    \/ KeyTooLong
    \/ PostEnds
    \/ PostLost
    \/ PostRefused
    \/ RestoreDefaults
    \/ Press
    \/ AddressChanges
    \/ Reboot

Spec == Init /\ [][Next]_vars

(* Contiki keeps running its processes and timers, TCP resolves every      *)
(* connection attempt and disconnection, the server ends every POST (it    *)
(* closes a silent connection after 10 seconds). No user acts for ever.    *)
Fairness ==
    /\ WF_vars(PollProcess)
    /\ WF_vars(TimerExpires)
    /\ WF_vars(HandlePass \/ HandleTrigger \/ HandleNewConfig)
    /\ WF_vars(conn \in {"connecting", "disconnecting"} /\
                   (MqttConnected \/ MqttDisconnected))
    /\ WF_vars(PostEnds \/ PostLost)

FairSpec == Spec /\ Fairness
-----------------------------------------------------------------------------
Queued(e) == \E i \in 1 .. Len(events) : events[i] = e

(* The client's state and the library's connection agree although each     *)
(* changes on its own: no state but NEWCONFIG can meet a connection it     *)
(* does not expect, so mqtt_register (INIT) never wipes a live connection, *)
(* no second attempt starts beside a pending one, and publishing states    *)
(* have a connection under them.                                           *)
ConnAgrees ==
    /\ state \in {"INIT", "REGISTERED", "DISCONNECTED", "CONFIG_ERROR", "ERROR"}
          => conn = "down"
    /\ state = "CONNECTING" => conn = "connecting"
    /\ state \in {"CONNECTED", "PUBLISHING"} => conn = "connected"

(* connect_attempt counts the attempts since the last reset, one ahead     *)
(* while the next is due: polls, queued timers and buttons that run the    *)
(* state machine out of turn never lose or repeat an attempt.              *)
AttemptsCounted ==
    /\ state = "REGISTERED" => connect_attempt = tries + 1
    /\ state \in {"CONNECTING", "CONNECTED", "PUBLISHING", "DISCONNECTED"}
          => connect_attempt = tries

(* In every state but the two it rests in, something will run the client:  *)
(* its timer, a poll, an event, or a request under way whose flag promises *)
(* one. A key stops the timer and counts on the event at the end of its    *)
(* request, so there is one exception, and it is exact: that request ended *)
(* without the event (the connection was lost, its only key was too long,  *)
(* the queue was full). Then the client stands in NEWCONFIG until a user   *)
(* acts, or in CONNECTED when a connection attempt came through, and there *)
(* it publishes nothing as long as the connection lasts.                   *)
Working == States \ {"CONFIG_ERROR", "ERROR"}
NoStall ==
    state \in Working
        => \/ publish_periodic_timer # "off"
           \/ poll
           \/ Queued("timer") \/ Queued("new_config")
           \/ post = "open" /\ config_ok
           \/ forsaken

(* A client that publishes for a registered account subscribed to its      *)
(* commands on this very connection (README: "if you provide a different   *)
(* Org ID, the device will subscribe").                                    *)
PublishingSubscribed ==
    state = "PUBLISHING" /\ conf.org = "registered" => subscribed

(* The client gives up on a broker only after all RECONNECT_ATTEMPTS.      *)
GivesUpAfterAll ==
    [][state = "DISCONNECTED" /\ state' = "ERROR" => tries = RECONNECT_ATTEMPTS]_vars

(* With an address and no broker that ever accepts, the client does not    *)
(* try for ever: it comes to rest (NEWCONFIG: after a failed POST).        *)
Settles ==
    <>[](global_addr /\ conn # "connected")
        => <>[](state \in {"ERROR", "CONFIG_ERROR", "NEWCONFIG"})

(* A new configuration whose event is queued, or whose timer is set, comes *)
(* into use: client ID and topics are built from it and the client starts  *)
(* anew or, where they do not fit, stops; or the node restarted first. The *)
(* one state left out is a connection attempt still under way, that the    *)
(* pause does not stop: NewConfigDisconnects shows what comes of it.       *)
Restarted ==
    /\ state = "INIT"
    /\ client_id = DefaultConfig.org
    /\ conf = LoadConfig(flash)
Adopted ==
    \/ /\ client_id = conf.org
       /\ state = IF conf.fits THEN "INIT" ELSE "CONFIG_ERROR"
    \/ Restarted
AcceptedConfigIsActedOn ==
    (/\ state = "NEWCONFIG"
     /\ conn # "connecting"
     /\ Queued("new_config") \/ publish_periodic_timer # "off") ~> Adopted

(* The client is a reconnector: whatever order polls, timers, callbacks,   *)
(* presses and keys come in, it makes its rounds of attempts, stops only   *)
(* at the end of one, and is never itself the reason that one stands still.*)
Round ==
    IF \/ state \in {"INIT", "ERROR", "CONFIG_ERROR"}
       \/ state = "NEWCONFIG" /\ conn # "connecting"
    THEN 0 ELSE tries
Phase ==
    CASE state = "INIT" -> "idle"
      [] state = "REGISTERED" -> "waiting"
      [] state = "CONNECTING" -> "trying"
      [] state \in {"CONNECTED", "PUBLISHING"} -> "online"
      [] state = "DISCONNECTED" -> "lost"
      [] state = "NEWCONFIG" -> "paused"
      [] OTHER -> "stopped"
Promise == INSTANCE Reconnector WITH phase <- Phase, n <- Round
IsReconnector == Promise!Spec
-----------------------------------------------------------------------------
(* What comments and the README say, and the code does not do.             *)

(* mqtt-client.c:721: a client that is not on quickstart provides a user   *)
(* name and a password before it connects.                                 *)
LoginBeforeConnect ==
    [][conn # "connecting" /\ conn' = "connecting" /\ conf.org = "registered"
          => login']_vars

(* README.md:144: a saved configuration persists across restarts, so the   *)
(* client connects under the account it is configured for.                 *)
ConnectsAsConfigured ==
    [][conn # "connecting" /\ conn' = "connecting" => client_id = conf.org]_vars

(* mqtt-client.c:163: when the source of a new configuration is done, the  *)
(* client is notified: it does not stay disconnected.                      *)
NewConfigNotified == state = "NEWCONFIG" ~> state # "NEWCONFIG"

(* mqtt-client.c:160: a new configuration disconnects the client from the   *)
(* current broker, so it does not come up there under the old one.         *)
NewConfigDisconnects == [][state = "NEWCONFIG" => state' # "CONNECTED"]_vars

(* mqtt-client.c:814: the client backs off before it tries again.          *)
BacksOff ==
    [][conn # "connecting" /\ conn' = "connecting"
          => publish_periodic_timer # "backoff"]_vars
=============================================================================
