# Protalk: a verification project

Protalk is a home-automation system: sensor nodes on a 6LoWPAN/RPL network
(Contiki, C), a CoAP broker on a gateway that drives an XBee radio (Java), the
Arduino sketches behind that radio (C++), and an Android client (Java). This
directory holds TLA+ models of the parts that keep state, TLC configurations
that check them, and TLAPS proofs about the most important of them.

Paths below are relative to the repository (`src/` stands for its root);
`web-demo/` abbreviates `src/ServerCoapNode/cc26xx-web-demo/`.

Contents: 1 the system · 2 the modules · 3 the runs · 4 bounds · 5 fairness ·
6 proofs · 7 findings and observations · 8 what is not modelled · 9 plan.

## 1. The system

### 1.1 Components

| Component | State it keeps | Operations | Hard part |
|---|---|---|---|
| MQTT client (`web-demo/mqtt-client.c`) | state machine of 9 states, `connect_attempt`, one etimer, the library's connection, configuration, client ID and topics | timer and poll passes, library callbacks, eight POST handlers, button, new-configuration and defaults events | a handler may run between any two others; the timer is the only thing that keeps the machine going |
| Web server, requests (`httpd-simple.c`) | a pool of `CONNS` records, `lock`, the static parser buffers, `config_ok` | `appcall`, `handle_input`, `parse_post_request_chunk` | bodies arrive in segments, connections share the parser, a connection may end anywhere |
| Web server, answers (`httpd-simple.c`) | `buf`, `tmp_buf`, a protothread per record | `enqueue_chunk`, the four page generators, `send_string` | protothreads are re-entered in the middle of a call and evaluate its arguments again |
| Main process (`cc26xx-web-demo.c`) | two etimers, the network LED, the router's RSSI; readings with `publish`, `raw`, `last`, `changed`, `converted`; one ctimer per chip; the configuration and its copy in flash | init/get of each chip, button, form handlers, save, load, defaults | activation → event → reading, interleaved with the button, forms and resets; erase before write |
| CoAP resources of the web demo (`coap-server.c`, `resources/`) | none of their own | GET of readings, PUT of LEDs | none |
| Net-UART (`net-uart.c`) | `remote_addr`, the configured address and port, whether UART input is on | UART lines, UDP input, three POST handlers, load, defaults | two copies of the destination, changed by different events; a queue that may be full |
| 6LBR client (`cetic-6lbr-client.c`) | a UDP connection to the DODAG's root, a timer | send the parent once a minute | the root changes while all connections are in use |
| Very sleepy demo (`src/ServerCoapNode/very-sleepy-demo/`) | `config`, `state`, three soft timers, the MAC, observers | a pass per second or event, `POST /very_sleepy_config`, button | when to wake, when the MAC may go off, a new configuration at any moment |
| cc26xx demo (`src/ServerCoapNode/cc26xx-demo.c`) | ctimers | the same chips, printed | error path of the infrared thermometer |
| CoAP broker (`src/ServerCoapBroker`) | resources of the broker's mode, one serial port | `handlePUT`, `handleGET`, one reader thread per GET | threads share a byte stream without addresses or numbers |
| Arduino servers (`src/Arduino-Xbee-Serial/Arduino Server`) | outputs | a loop that reads a byte and acts or answers | slow loop, lost bytes |
| XBee radio library (`XbeeRadio.cpp`) | the rate of `Serial`, the response being read | search for the modem, set-up in text commands, `init` in API frames | time-outs, retries, late answers, packets from other nodes |
| Sensor sketches (`DustSensor.ino` and others) | the dust sensor's frame | read, print | bytes lost and added; no start mark, no time-out |
| Android client, lists (`ListViewAdapter.java`) | per item `mCheck`, `bOnCheckedChangeListener`; per row the widgets and their listener; the queue of tasks | `getView`, touches, switches, `AsyncTask`s | rows are recycled, tasks run later |
| Android client, voice (`VoiceActivity.java`, `DBAdapter.java`) | a table of phrases | look up a phrase, one request | its requests share the lists' queue of tasks, and the lists do not hear of them |
| Android mock server, proxies, set-up scripts | — | — | — |

### 1.2 How they interact

* On the node everything runs in one cooperative scheduler. The processes share
  the configuration structure `cc26xx_web_demo_config`: the web server's POST
  handlers, which belong to the MQTT client, the main process and Net-UART,
  write into it key by key while the body is being received. The end of the
  request broadcasts `httpd_simple_event_new_config`, on which the MQTT client
  sets its timer and the main process saves the structure to flash. A boot starts the
  processes first and loads the saved structure afterwards.
* `MqttClient`, `HttpdPost` and `WebDemo` each contain the part of this exchange
  that matters to them: `MqttClient` the keys, the end or loss of a POST, the
  shared `config_ok` flag, the event, the save and the boot; `HttpdPost` the
  connections and the parser behind those keys; `WebDemo` the flags of the
  readings and the flash.
* The MQTT client and the CoAP resources read `converted` and `raw` of the main
  process's readings (`Publish` in `WebDemo`).
* The Android client sends CoAP requests to the broker; the broker turns a PUT
  into one byte on the serial line and a GET into one byte and a thread that
  takes the next byte that comes back; the sketch behind the radio acts on bytes
  (`XBeeBroker` composes broker, wire and sketch; `Home` composes it with the
  application's list, from the touch to the lamp).
* RPL gives the node its address, root, routes and default router; the 6LBR client, the
  main process and the index page follow them (`NodeNetwork`, `IndexPage`).
* Net-UART's settings are the web server's and the main process's, too: forms set them, the
  event at a form's end saves them, a boot loads and announces them (`NetUart`).

### 1.3 What makes each component correct

* MQTT client: its state never disagrees with the library's connection; attempts
  are counted exactly, and the client gives up after all of them and not
  earlier; something will run the machine wherever it is to go on (a key stops the
  timer and counts on the event at the end of its request: this is the one way to
  lose it, see 7.3); an accepted configuration whose event comes is acted on.
* Web server: one body at a time in the parser; the answer and the accepted
  pairs depend on the body and not on how TCP cut it; accepted pairs are
  announced, as far as the event queue has room; an answer arrives complete, in order and once.
* Main process: no chip is forgotten; a reading that is off shows nothing;
  settings reach the flash if their event and the save succeed; the LED says whether there is an address, and the
  published RSSI is the default router's.
* Net-UART: it sends to the configured address and hears when it is enabled; what runs is
  what a restart will find. 6LBR client: reports go to the present root. cc26xx demo, dust
  sensor: readings go on.
* Very sleepy demo: the MAC is off only when nothing forbids it; observers hear
  from the node in time; there is always a window for reconfiguration.
* Broker: the last command to an output wins; answers belong to questions.
* Radio library: what it takes for configured is configured, as far as answers can be told apart; it ends.
* Android client: what it shows and believes is what it told the devices, and
  what they do.

## 2. The modules

Every action is one run of the code between two points where something else can
happen: a Contiki handler or process pass, one call of `appcall`, one CoAP
handler step before or after it blocks, one command of the radio library, one
Android callback. Definitions named as mutants (a comment says so) are not part
of the model; each is a plausible bug that breaks one of the properties.

| Module | Models | Notes |
|---|---|---|
| `MqttClient` | `mqtt-client.c`, with the POST end of `httpd-simple.c`, save/load/boot of `cc26xx-web-demo.c` | state, actions and handlers below |
| `Reconnector` | what `MqttClient` promises: rounds of attempts | abstract; `MqttClient!IsReconnector` is the refinement |
| `PostParser` | `parse_post_request_chunk` as pure functions, and `Meaning`/`Acceptable`, what a whole body means, written without the machine | no RECURSIVE operator: a function of the number of bytes read |
| `HttpdPost` | `appcall`, `handle_input`, the lock, the pool | extends `PostParser` |
| `HttpdPages` | `handle_output`, the page generators, `enqueue_chunk` | one connection |
| `IndexPage` | the index page's loop over RPL's routes | the table changes under it |
| `WebDemo` | `cc26xx-web-demo.c`: readings, forms, flash | all seven chips, or the boards a run chooses |
| `NodeNetwork` | `cetic-6lbr-client.c`; LED, pings and RSSI of `cc26xx-web-demo.c` | RPL is the environment |
| `NetUart` | `net-uart.c`, with the save, load and defaults it takes part in | Contiki's queue is bounded |
| `Cc26xxDemo` | `cc26xx-demo.c` | |
| `VerySleepy` | `very-sleepy-demo.c` | time in seconds |
| `XBeeBroker` | `ControlableResource`, `ReadonlyResource`, the directories, `Serial`, SERVER1 to SERVER3 | broker, wire, sketch in one module |
| `XBeeRadio` | `XbeeRadio.cpp` | library and modem |
| `DustSensor` | `DustSensor.ino` | sketch, line and sensor |
| `DeviceList` | `ListViewAdapter.java`, the PUTs of `VoiceActivity.java` | rows, items, tasks |
| `Home` | the composition of `DeviceList` and `XBeeBroker` | extends the one, instantiates the other |
| `MCMqttClient`, `MCHttpdPost`, `MCHttpdPages`, `MCWebDemo`, `MCNode`, `MCXBeeRadio`, `MCHome` | values for TLC | bodies, boards, rates, a restricted specification, the parts of a run |
| `MqttClient_proofs`, `HttpdPost_proofs`, `HttpdPages_proofs`, `WebDemo_proofs`, `SerialLines_proofs`, `VerySleepy_proofs`, `XBeeBroker_proofs`, `Home_proofs` | theorems | see 6 |

Three runs check modules together that do not interact, or only one of which a behaviour needs in
full: `MCNode` (`NetUart`, `NodeNetwork`, `Cc26xxDemo`, `DustSensor`), `MCHttpdPages` (`HttpdPages`,
`IndexPage`) and `MCHome` (`DeviceList` alone, or the whole way to the lamps). Their variable `part`
says which of them a behaviour shows. The others rest in a state in which each of their properties holds, or its premise fails,
so that a property is decided by the behaviours of its own part.

### 2.1 MqttClient

State: `state`, `connect_attempt`, `publish_periodic_timer` (off, or the interval
it was last set to), `poll`, the queue `events`, `connection_life`, `conf` (what
of the configuration decides anything: account, token, whether the names fit,
whether the address is acceptable), `client_id` (the account it was built for),
`flash`, the library's `conn` and `login`. `tries`, `subscribed` and `forsaken` are history.

`StateMachine` is the disjunction of the cases of `state_machine()`, with the
falls through from INIT to REGISTERED and from CONNECTED to PUBLISHING. It is run
by `PollProcess`, by a queued timer or publish event (`HandlePass`) and by the
trigger (`HandleTrigger`, which also leaves ERROR). `MqttConnected`,
`MqttDisconnected` and `ConnectionLifeExpires` are the library's callbacks and the
stability timer. `*Handler`, `KeyTooLong`, `PostEnds`, `PostLost` and `PostRefused`
are the keys and ends of a POST; every good network key calls `NewNetConfig`
(`new_net_config`). `EndOfRequest` posts the event, or loses it where the queue of all processes is full.
`CaseDisconnected` has both arms of the test for `RETRY_FOREVER`; the build's eight-bit value of that
(255) is excluded by `ConstantsAssumption`, as the default build has 5 attempts. `Reboot` loses RAM and, when it hits `save_config`, flash.

`Reconnector` is the abstract specification: a phase and the attempts of the present round. `Phase` and
`Round` map the client to it (a client in NEWCONFIG is paused; a count in REGISTERED is not an attempt
yet), `Promise == INSTANCE Reconnector WITH phase <- Phase, n <- Round`, and `IsReconnector` is
`Promise!Spec`, with its fairness: a client whose turn it is takes it.

### 2.2 PostParser and HttpdPost

A body is a sequence of four kinds of bytes: the separators `=` and `&`, and two
ordinary ones from which the keys and values that handlers know, do not know or
reject are built; `PARSE_POST_MAX_POS` is small so that keys and values overflow
in short bodies. `ParseChunk` is the machine; a chunk is any prefix of what is
left. In `HttpdPost` `Accept` obtains the lock (or takes over the record's own),
`ReadChunk` parses one chunk and, at the end of the body or on an error, does
`EndRequest`, which releases the lock only if it is the record's own, clears the flag and posts
the event, or tries to (`Announce`; the result of `process_post` is not looked at). `ReadBeyond` is the
chunk that ends behind the announced length: `handle_input` parses what it has, and counts below zero,
so that no byte is ever the last one. `Gone` is a connection that closes, aborts or times out: the record is
freed and the lock stays. (After a time-out `appcall` goes on to `handle_connection` with the cleared record;
it finds no state there, and does nothing.) `Get`, `BadLength` and `Refuse` are requests that never reach the
parser but do reach the end of `handle_input`.

### 2.3 HttpdPages

A byte is the item it belongs to and its place in the chunk. `buf` is the segment being
filled, `rest` what of a chunk did not fit, `due` the history of bytes formatted
and not yet delivered. `Poll` re-enters the protothread while a segment is
unacknowledged; the index page's `++numtimes` is an argument of the call that is
waited in, and so is evaluated once more (`EvaluateArguments`).

`IndexPage` is the loop over the routes: `s->r` points into RPL's list while a row waits for its
segment (`ShowRow`, `GoOn`). Meanwhile RPL adds, drops or moves routes. The successor of a route that
is in the list is the next one in it; that of one that was removed is whatever the memory says: any route or none.

### 2.4 WebDemo

For a chip: its ctimer is set (`timer`), it measures (`busy`), its event is queued
(`ready`), or it was read (`GetReading`, which sets the ctimer). Battery monitor
and ADC are read directly from their ctimers. For a reading: `on` (publish flag),
`text` (`converted`), `failed` (`raw` is the error value), `changed`. A form is
received (`PostSetting`), ends (`PostEnds`), and is saved when its event is
processed (`NewConfig`). `spoilt` remembers a failing open, erase or write until the next good save,
`missed` an event that found the queue full.
Power that goes during a save is a save that fails, followed by `Reset`.

### 2.5 VerySleepy

`Tick` lets a second pass: the soft timers count down and the etimer posts its
event. `Pass` is one turn of the process's loop for one event: react to the
event, then the switch of modes, `KeepMacOn` in very sleepy mode. `ConfPost` is the CoAP handler with its
parameters in any combination; its event may be dropped, while the new values count at once. `ReachabilityChanges` is RPL. `quiet` and `awake` are histories: seconds
since the observers were told or the node was reconfigured, and seconds of the present stint of normal mode.
`missed` remembers a dropped event until a pass sets the timers from the configuration after all (`MissedAfter`).

### 2.6 XBeeBroker

`wire` carries bytes to the sketch, `inbox` is what the serial port has for
readers. A PUT is `PutTo` (the byte is written, or the write fails) or `PutWrong` (any other payload), and
`PutAnswers`; a GET is `Get` (the request byte, or a failure) and `ReadByte` or
`ReadFails` of its thread. `ArduinoLoop` takes a byte and does what the sketch of this mode
does with it. `RadioLoses` loses a byte of either direction; `Write` loses one when `BUFFER_SIZE` bytes
already wait for the sketch. `unanswerable`, `skipped`, `commanded` and `lost` are histories.

### 2.7 XBeeRadio

`at` is the command the sketch is in. Text commands: `SetupXbee` (one rate of the
search), `SetupCommand` (one attempt of a command). Frames: `SendFrame`,
`ReadPacket`, `TimesOut`. An answer is on time, lost, or `late`: it then arrives (`LateAnswer`) at any moment, before or
after `readPacket`'s ten seconds and under any later command. (Answers to text commands are on time or lost.) The modem executes `AP` and `BD` when `AC` comes, and no
longer answers OK to text once it is in API mode. `PacketArrives` puts
another node's packet before, between or after answers. The library looks at the kind and
the status of an answer, not at its frame ID or command. Histories: `doubtful`, the commands of which a frame failed
while an earlier success was still to be read, and `failed`, the faults of each text command.

### 2.8 DeviceList

`GetView(r, i)` draws item `i` into row `r` with everything it does: `setChecked` may
call the listener that the row kept from an earlier item. `Toggle` and `Touch` are
the user's; `RunTask` is the next task of the serial executor, its answer included;
`ScrollsOff` makes a row scrap. `Say` is a phrase that `VoiceActivity` knows as a PUT: its task goes into the same
queue and `mCheck` of the item stays as it was.

### 2.9 Home

A PUT no longer runs in one step: `SendPut` sends the request and the task waits; `HandlePut` is the thread of
the broker that gets it, later; `PutReturns` is `client.put` with the broker's answer, or with none because that got lost;
`PutIsLost` is a request that never arrives. A GET of a reading is answered at once, since no lamp depends on it.
The switches are the LEDs of server 1. `refused` remembers the items whose last PUT did not succeed.

### 2.10 NetUart

`remote_addr` is what is sent to; `config` is what is shown and saved. The queue holds the loaded event of a boot,
lines (`TypeLine`: an address changes `remote_addr` alone), the new-configuration event of a form and other processes' events, and
drops what does not fit (`Post`), as `process_post` does. `RestoreDefaults` is the long press or the form's field: defaults are set through
`process_post_synch`, at once, and saved. `SaveConfig` may fail to open, to erase, or to write after erasing. `typed`, `unheard` and
`spoilt` are histories.

### 2.11 NodeNetwork

`NetworkChanges` is RPL and the other users of the UDP connections. `TimeoutHandler` is the client's minute: `Reconnect`
says whether the new connection finds room, given that the old one is removed first. `TimerEvent(t)` is the main process's
reaction to an event of either etimer; it looks at which timers are expired. `EchoReplyHandler` counts a reply only if it comes from
the present default router.

### 2.12 Cc26xxDemo and DustSensor

A chip of the demo is on (`active`), has announced itself, or waits for its ctimer. `get_tmp_reading` returns before it sets
the timer when the thermometer reports an error. The dust sensor's bytes carry the place they have in their frame and whether they answer the
latest command; a checksum is right exactly for a whole frame in order (that two mixed frames have the right sum by chance is excluded).

## 3. The runs

| Run | Configuration | Question | Result |
|---|---|---|---|
| `mqtt` | `MqttClient_protocol.cfg` | every order of passes, callbacks, keys, presses and restarts | seven properties hold, two of them liveness, and `MqttClient` implements `Reconnector` |
| `mqtt_boot` | `MqttClient_boot.cfg` | does a restarted client use its saved account? | violated (7.1) |
| `mqtt_stale` | `MqttClient_stale.cfg` | does a new configuration keep the client away from the old broker? | violated (7.1) |
| `post` | `HttpdPost_shared.cfg` | two connections, all short bodies and nine long ones, cut anywhere, with or without more than was announced | three properties hold |
| `post_lock` | `HttpdPost_lock.cfg` | does the lock point to a connection that has it? | violated (7.1) |
| `pages` | `HttpdPages_stream.cfg` | chunks of 0, 1 or 3 bytes in a buffer of 3; three routes that come, go and move | nothing lost, doubled, swapped or left behind; routes that stay are shown once |
| `web` | `WebDemo_safety.cfg` | six boards, one measurement of every kind, a queue that may be full | three invariants and one liveness property hold |
| `node` | `MCNode.cfg` | Net-UART, the network, the simple demo and the dust sensor under their disturbances | three invariants and five liveness properties hold |
| `sleepy_safety` | `VerySleepy_safety.cfg` | two durations, two intervals, a queue of two that others may fill | three properties hold |
| `broker` | `XBeeBroker_exchanges.cfg` | three exchanges on each server, bytes are lost, the sketch's buffer holds one | three properties hold |
| `radio` | `XBeeRadio_config.cfg` | all five rates, three faults (commands lost or refused, answers lost or late), three packets | four properties hold |
| `room` | `Home_room.cfg` | two rows, three items, two tasks, spoken commands; two exchanges with the lamps | four properties hold |

The type invariants of the modules are not part of the runs. Those of `MqttClient`, `VerySleepy`, `HttpdPages`, `NetUart`,
`XBeeRadio`, `XBeeBroker`, `DeviceList` and `Home` are part of invariants that are proved (6), the others state the ranges of the variables and hold on the same instances.

What the properties say (each is commented where it is defined):

* `MqttClient`. `ConnAgrees` relates the state to the library's connection, which
  change in different handlers. `AttemptsCounted` relates `connect_attempt` to the
  number of `mqtt_connect` calls since its last reset: extra passes (button, stale timer events) never lose or repeat one.
  `NoStall`: in every state but ERROR and CONFIG_ERROR the client has a timer, a poll, an event or a request under way
  whose flag promises one, or (`forsaken`) the request that stopped its timer ended without the event.
  `PublishingSubscribed`: a registered client that publishes subscribed on this connection.
  `GivesUpAfterAll` and `Settles` are about where it ends up. `AcceptedConfigIsActedOn`: a configuration whose event is
  queued gets into use: the client ID is built from it and the client starts anew (`Adopted`), unless a connection
  attempt is still under way, which is finding 2.
  `IsReconnector`: whatever interrupts what, each round is one of `Reconnector`'s: it makes no attempt
  more than it has, ends without a try only where it may, and goes on whenever it is the client's turn.
* `HttpdPost`. `ParserIsOwned`: two bodies never meet in the buffers.
  `AnswerMatchesBody`: the machine, fed in any pieces, accepts exactly the pairs of
  `Meaning(body)` and answers 302 exactly for an acceptable body, if nothing comes behind it. `AnnouncedAtEnd`: also a
  body that is answered 400 announces what it changed, and so does the request that follows one which was lost; only an
  event that found the queue full (`dropped`) leaves accepted pairs unannounced.
* `HttpdPages`. `StreamIntact`, `DeliveredAtClose`: the bytes that arrive are those that were formatted.
  `IndexPage`. `ShowsEachRouteOnce` bounds what a change of the table during a wait can do.
* `WebDemo`. `EveryChipScheduled`, `SampledForEver`: no order of errors, presses and
  switches makes a chip drop out. `OffShowsNothing`: a measurement under way does not
  bring a switched-off reading back. `SettingsAreSaved`: flags and flash differ only for the reasons it names.
* `NetUart`. `SendsWhereConfigured`, `HeardIfEnabled`: two pairs of variables that different events change agree, but for the
  exceptions they name. `RunsAsSaved`: what runs is what a restart finds, unless an event is pending or something failed.
* `NodeNetwork`. `ReportsFollowRoot`, `RssiFollowsRoute`: once the network settles, client and RSSI settle on it, whatever came
  before. `BlinksWithoutAddress`: also a node that lost its address blinks, though its own timer is not set.
* `Cc26xxDemo`. `ReadsGoOn`. `DustSensor`. `PrintsOn`: the sketch recovers exactly if lost and added bytes cancel out.
* `VerySleepy`. `MacKeptOn`, `StintLasts`, `NotifiesInTime` relate timers that
  different handlers set. The bound of `NotifiesInTime` (`Gap`) is exact, and is looked at every second, also in the one in
  which a pass is due: `interval + 1`, or `duration + 2` if the interval is not the longer period.
* `XBeeBroker`. `ThreadsAccounted` is the balance of blocked threads, skipped bytes,
  requests and answers: one lost byte costs one thread for ever. `StarvesOnlyByTheft`.
  `LastCommandWins`: a lost byte harms its own output only.
* `XBeeRadio`. `Configured`: a command that `init` takes for successful was carried out, unless it is `doubtful`; no other
  mixture of losses, refusals, late answers and packets deceives it. `SetUp`: the set-up is complete unless one command met
  a fault in each of its attempts. `SearchEnds`, `InitEnds`.
* `DeviceList`. `BelievesWhatItSends`: the last command for a device, through whichever
  row and however late, is what the application believes, unless it was spoken. `OneListener`, `ShowsBelief`.
* `Home`. `LampsFollow`: at rest, a lamp is as its item says, if the last PUT for it succeeded and no byte of it got lost.

Deadlock is checked except in the broker run, the radio run and the node run, whose programs may stop: a finite number of exchanges, a sketch's `setup()`,
a dust sensor's sketch that waits for a lost byte.

## 4. Bounds and why they are enough

* `MqttClient`: `RECONNECT_ATTEMPTS = 3` (first, middle and last attempt differ),
  `MaxUser = 3` acts of the user (open a POST, send a key, and one act in between or a restart),
  `MaxQueue = 2` (an event behind another). Passes, callbacks, address changes and timer expiries are unbounded.
  The theorems hold for all values. The event at the end of a request is dropped when the queue is full, or at any moment,
  since other processes fill the queue, too (`forsaken`; also `dropped` in `HttpdPost`, `missed` in `WebDemo` and
  `VerySleepy`, `spoilt` in `NetUart`). The client's other events wait until there is room.
* `HttpdPost`: `CONNS = 2` (one holds, one wants), `PARSE_POST_MAX_POS = 1` (two
  bytes fit, three do not). All bodies of up to three bytes, and nine of up to nine bytes with two pairs,
  a bad second pair, an unknown key, an empty value and overflow. Behind the body one more byte, or enough to end the
  last pair and begin and end another.
* `HttpdPages`: a buffer of 3 and chunks of 0, 1 and 3: fits, fits exactly, is split, is empty.
  `IndexPage`: three routes (before, at and behind the pointer) and `MaxRows = 5`, so that routes can be shown twice.
* `WebDemo`: each board has the chips that share code paths, `MaxBoots = 2`; chips do
  not influence one another except through the button, the form and the flash.
* `VerySleepy`: durations {2, 5}, intervals {4, 6}: shorter, longer and between; `MaxQuiet = 10` is
  above the largest bound `NotifiesInTime` allows, 7.
* `NetUart`: two addresses and ports; a queue of two, so that it is full with one event behind another (Contiki's has 32). `NodeNetwork`: two roots, two routers.
  `Cc26xxDemo`: the thermometer and two other chips, two starts. `DustSensor`: frames of three bytes, four lost and four added: more than a frame of each.
* `XBeeBroker`: three exchanges: a reader, one that takes its byte, and a third that
  suffers. LEDs 4, 5 and 7: two of a room and one of another. A buffer of one byte (the Arduino's has 64) is full with two commands.
  More exchanges with liveness take minutes and show nothing new.
* `XBeeRadio`: `Tries = 2` of the code's 5 attempts, so that three faults exhaust them; all five rates. A late success
  and a failing frame behind it are two faults, so that `doubtful` commands occur, with and without foreign packets.
* `DeviceList`: two rows for three items, so that rows are recycled; two tasks that wait: a command behind
  another, or behind a reading. `Home`: two exchanges, so that a later PUT can meet an earlier one at the port and on the radio;
  each switch has a row of its own there.

## 5. Fairness

* Contiki's scheduler runs every process that has a poll or an event, and its timers expire:
  weak fairness on `PollProcess`, `TimerExpires` and the handlers of `MqttClient`, and on the timers and chips of `WebDemo`.
* TCP and the MQTT engine end every connection attempt and every disconnection (`MqttConnected` or
  `MqttDisconnected` while `conn` is connecting or disconnecting): the engine has time-outs. Nothing forces an
  established connection to end.
* The web server closes a connection that is silent for ten seconds, so a POST ends or is lost.
* Java threads that can read do read, and the Arduino's loop runs (`XBeeBroker`).
* Timers expire and their events are delivered (`NodeNetwork`, `Cc26xxDemo`); among infinitely many echo requests to the same router some
  are answered (strong fairness on `EchoReplyHandler`), which a link does that RPL keeps as its default route.
* The sketch runs on (`XBeeRadio`, `DustSensor`), and the dust sensor answers a command it got; faults and packets are limited by their bounds and never forced.
* The drivers of a chip that was activated announce a measurement (`ChipIsReady`); this is the drivers'
  promise, external to the repository.
* No fairness is assumed of users, of the network or of the radio.

## 6. Proofs

`MqttClient_proofs`, for every `RECONNECT_ATTEMPTS` from 1 to 254, every number of user acts and every
length of the queue (`ConstantsAssumption`):

* The inductive invariant is `Inv == TypeOK /\ ConnAgrees /\ AttemptsCounted /\ LiveCounted`.
  No part is inductive by itself. `TypeOK` bounds `connect_attempt` by `RECONNECT_ATTEMPTS`, which needs that in REGISTERED the
  attempt was counted once (`AttemptsCounted`); `AttemptsCounted` needs that REGISTERED never finds a
  connection under way (`ConnAgrees`); and a late CONNECTED that takes the client out of NEWCONFIG
  arrives in a state in which `AttemptsCounted` says nothing, so `LiveCounted` keeps the count
  for every connection the library still works on.
* `InvAlways`, with one lemma per group of actions: the state machine (one step per case), the process, the callbacks,
  the keys, the other acts of the user, the restart.
  `TypeCorrect`, `ConnectionAgrees`, `EveryAttemptCounted` follow. `GivesUpOnlyAfterAll` is the action property from the same invariant.
* `NeverStalls` is inductive relative to `Inv`: a pass re-arms the timer it consumed (`PassRearms`), an event stays queued
  until it is handled (`QueuedKept`), a key that stops the timer sets the flag, and the end of its request posts the event
  or sets `forsaken` (`EndNoStall`). `SubscribesFirst` relative to `Inv` likewise.
* `ImplementsReconnector`: every behaviour is one of `Reconnector!SafeSpec` under `Phase` and `Round`. It needs `Inv` and
  `UnderWay`, that an attempt under way was counted in this round also in NEWCONFIG. Each group of actions maps to named
  steps of `Reconnector` (`StateMachineRefines`, `NewNetConfigRefines`, `ConnectedRefines`, `DisconnectedRefines`,
  `TriggerRefines`), the others stand still. The fairness part of `IsReconnector` is left to the run `mqtt`.

`HttpdPost_proofs`, for every number of connections, every set of bodies and every buffer size:

* `ParserHasOneOwner`: `OwnerInv`, types of `phase` and `lock` with `ParserIsOwned`. The lock is only
  taken when free or one's own, and only its owner gives it up.
* `AcceptedPairsAnnounced`: `FlagInv`, that an accepted pair no event announced has left `config_ok` set, or the event
  that should have was dropped; every end of a request then announces it, or drops the event.
* `AnswersMatch`: the machine computes `Meaning` and `Acceptable` of every body, of any length and cut in any way. `HasRead(p, b, n)`
  says where the machine is after `n` bytes of `b`: between two fields, in the key or the value of the field that starts at `i`,
  or past the byte that makes this field bad; `AcceptedBefore` says that the pairs accepted so far are those of the fields before.
  `Fine` says byte by byte when a field is good (`GoodIs`, `PairIs`), so that each byte can be judged as it comes (`KeyStep`, `ValStep`,
  `LostStep`, put together in `ByteStep`); the last byte, or an error before it, gives the verdict, and the verdict is the meaning
  (`VerdictMeans`). A chunk is an induction over its bytes (`ChunkStep`), by way of a least counterexample (`Least`, `EveryNat`).
  `ParserInv` says `HasRead` of whoever reads a body; with `OwnerInv` it is inductive, since nobody else touches the parser.

`VerySleepy_proofs`, for all durations not below `NORMAL_OP_DURATION_MIN`, all intervals and every period of the MAC's lock:

* The inductive invariant is `Inv == TypeOK /\ MacKeptOn /\ OneTimer /\ StintCounted /\ TimersFit /\ QuietCounted`.
  `NotifiesInTime` and `StintLasts` compare a history with a configured period; what is inductive compares it with the
  soft timer that is left. `StintCounted`: the seconds awake and those still to come are at least the minimum.
  `QuietCounted`: once no configuration waits in the queue and none lost its event, the silence and what is left of the
  timers are within the `Gap`, with a second more where one has passed that the process has not seen. `OneTimer`: a
  queued second is the queue's head, so that none is seen twice. `TimersFit`: the timers are within their periods.
* One lemma for each action, and for a pass one for each event and mode (`ButtonPass` to `NormalPass`).
  `SleepyTypes`, `MacIsKeptOn`, `ObserversHearInTime` and `StintsLast` (an action property) follow.

`HttpdPages_proofs`, for every size of the buffer and every answer:

* The inductive invariant is `Inv == TypeOK /\ Waits /\ StreamIntact`. `TypeOK` gives `enqueue_chunk` the room it
  counts on; `Waits` (a segment waits only while an item is made) keeps an acknowledgement from finding nothing to go on with.
* `CopyKeeps`: what is copied and what is left over are the old buffer and the chunk, in this order (`Split`), each
  within its buffer. `BuffersHold` and `StreamsIntact` follow.
* `NothingLeftBehind` (`DeliveredAtClose`), from `FlushInv`: what is left of an answer still has its end, which flushes, in it, or has only direct sends
  in it and finds the buffer empty (`Flushes`); a connection closes only when nothing is left (`ClosesLast`).
* `ShownOnce` (`ShowsEachRouteOnce`), for every set of routes and every limit of rows, from `IndexInv`: unless the pointer went `astray`, a route that
  stayed was shown exactly once if it is behind the pointer and not at all otherwise (`Walks`). Each change of the table is a lemma: adding, removing or
  moving a route leaves the order of the others as it was (`Before`).

`SerialLines_proofs`, `NetUart` for all addresses and ports and every length of Contiki's queue, and `XBeeRadio` for every number of attempts,
rates, faults and packets:

* `UartInv` is `UartTypeOK` and the three promises; no further strengthening is needed, since each exception is part of
  its promise. The events carry the argument: one that is queued stays until it is delivered (`PostKeeps`, `TailKeeps`),
  one that is posted is queued unless the queue was full (`PostAdds`), which `spoilt` notes.
* `RadioInv == TypeOK /\ (sent => at \in Frames) /\ Trusts /\ VRAnswered /\ SettingUp`: while `init` runs the modem hears the
  sketch, and a command that is waited for, was not carried out and is not `doubtful` has no success to come (`Trusts`); a modem that
  answered `VR` is in API mode (`VRAnswered`); the set-up has lost a command only if each of its attempts met a fault (`SettingUp`).
  Whatever arrives, in time, late or from another node, is one lemma (`ArrivesInv`).
  `AlwaysConfigured` and `AlwaysSetUp` follow.

`XBeeBroker_proofs`, for every set of exchanges, modes and LEDs and every size of the sketch's buffer:

* `BrokerInv == TypeOK /\ outputs \subseteq Reachable /\ Follows /\ ThreadsAccounted`. `LastCommandWins` looks at an idle wire; inductive is that the last
  byte for an output on the wire or, without one, the output itself is as commanded (`Follows`, with `LastSays` and its lemmas for a byte that is
  written, taken or lost). That a byte belongs to one output is a fact about the resources' alphabets (`LedsReachable` and the lemmas before it).
* `AlwaysLastCommandWins` and `AlwaysThreadsAccounted` follow.

`WebDemo_proofs`, for all boards, readings and numbers of restarts:

* `Inv` adds to the three promises that only chips of the board are busy or ready: the reading of any other chip would
  overwrite an N/A. `BootInv` (what a boot begins with, from whatever flash), `ReadKeepsOff`, `StartKeepsScheduled` and
  `SaveConfigInv` carry the steps.

`Home_proofs`, `DeviceList` for all rows and items and every length of the queue of tasks, and its composition with the broker:

* `OneListener` needs that an item with a listener is in `heard` (`ListenersHeard`). `ShowsBelief` looks at rows on the screen;
  inductive is what holds of a row off the screen, too (`RowsAgree`), with the answers on their way (`AnswersAgree`).
  `NeverTwoListeners` and `AlwaysShowsBelief` follow.
* `AlwaysBelievesWhatItSends`: inductive is `Believes`, that the last task for a device in the queue, or the last command sent if there is none,
  is what the item believes. A listener sends as it changes `mCheck`, so the two go together through recycled rows as well.
* `AlwaysLampsFollow`, of `HomeSpec`: `HomeInv` adds to both the request under way (`AtHead`) and what the broker was told (`Told`). The broker's invariant and its lemmas
  are cited through `BrokerProofs == INSTANCE XBeeBroker_proofs`, with the switches as the LEDs of server 1: every step of the whole is a step of the list,
  of the broker or of both.

Only model-checked:

* all liveness properties, since fairness and ENABLED are outside the prover's reach: `Settles`, `AcceptedConfigIsActedOn` and the fairness of `IsReconnector`;
  `StarvesOnlyByTheft`; `SampledForEver`; `SearchEnds` and `InitEnds`; `ReportsFollowRoot`, `RssiFollowsRoute` and `BlinksWithoutAddress`; `ReadsGoOn`; `PrintsOn`.
  These are all that the run of `NodeNetwork`, `Cc26xxDemo` and `DustSensor` asks, so that these modules have no theorem.
* the formulas of 7, which do not hold.

## 7. What does not hold

### 7.1 Findings (runs that expect a violation)

1. **A restarted client connects under the wrong client ID** (`mqtt_boot`, `ConnectsAsConfigured`).
   The client process builds client ID and topics from the defaults before the saved configuration is
   loaded, and nothing builds them again. `README.md:144-146` of the web demo says that the configuration persists across restarts.
2. **A new configuration does not stop an attempt under way** (`mqtt_stale`, `NewConfigDisconnects`).
   The comment at `mqtt-client.c:160-161` says that the client disconnects from the current broker. `mqtt_disconnect` leaves
   an attempt alone; its CONNECTED takes the client out of NEWCONFIG and back to the old broker, and the
   configuration that was accepted is never made the running one.
3. **The POST lock outlives its connection** (`post_lock`, `LockIsHeld`). The comment at `httpd-simple.c:107-109`
   says that it points to a connection that has it. A connection that closes in mid-body leaves it set; POSTs on other records are answered
   503 until the same record serves a POST to its end.

### 7.2 Formulas TLC refutes that no run of the project checks

They are defined in their modules, each with the text it is taken from. To see one fail, name it as
INVARIANT or PROPERTY in the configuration given.

| Formula | Configuration | What happens |
|---|---|---|
| `MqttClient!LoginBeforeConnect` | `MqttClient_stale.cfg` | a registered account without a token goes to ERROR, and a press of the trigger connects from there without a login |
| `MqttClient!NewConfigNotified` | `MqttClient_protocol.cfg` | a POST that is lost after a key leaves the client in NEWCONFIG |
| `MqttClient!BacksOff` | `MqttClient_stale.cfg` | a press runs the state machine in REGISTERED before the back-off timer expires |
| `XBeeBroker!GetIsAnswered` | `XBeeBroker_exchanges.cfg` with `Exchanges = {1}`, `Modes = {1}` | SERVER1 has no answer to a request byte, so a GET waits for ever |
| `XBeeBroker!Error1MeansNoNode` | `XBeeBroker_exchanges.cfg` | a thread takes another resource's answer |
| `VerySleepy!NotifiesEveryInterval` | `VerySleepy_safety.cfg` | `very-sleepy-demo/README.md:16-17` and `46-47` have observers notified every `interval` seconds. With `mode=0` nobody is notified again; in very sleepy mode with `duration` not below `interval` (5 and 4) the node falls asleep at 5, wakes up at 6 and notifies at 7: every `duration + 2` seconds (`Gap` of `NotifiesInTime`) |
| `VerySleepy!ModeOffWakes` | `VerySleepy_safety.cfg` with `MaxQueue = 1` | `mode=0` while asleep keeps the node asleep until the interval ends |
| `WebDemo!PublishesChangesOnly` | `WebDemo_safety.cfg` | readings without a change are published, too |
| `HttpdPages!HitsArePages` | `HttpdPages_stream.cfg` | the counter goes up once per poll during an unacknowledged segment |

### 7.3 Further observations made while reading

* `get_light_reading` does not look at the light's publish flag (excepted in `OffShowsNothing`); the motion sensor's error path
  formats the last value again.
* `sendAndCheck` and `init` of `XbeeRadio.cpp` have paths without a `return`; the callers ignore
  the results there. `initialize_xbee_module` leaves the modem at 38400 baud and `Serial` at the rate it found.
  A modem already in API mode at another rate than the first is never found: `SearchEnds` is about modems in text mode.
* `sendAtCommand` believes any answer that reports success: after a late answer, or a foreign packet read in place of one, the
  next command is taken for done although its own frame was lost or refused (`doubtful` in `Configured`). `setChannel` returns true
  whatever its answer is (`XbeeRadio.cpp:376-379`), so that `Configured` says nothing of the channel.
* `setup_command` gives up a command after five attempts and the set-up goes on: the modem may be left in text mode, or at
  its old rate (`failed` in `SetUp`).
* A request whose key stopped the MQTT client's timer (`mqtt-client.c:170-173`) and that ends without its event (the connection is lost,
  the value was too long and no other key was good, or `process_post` at `httpd-simple.c:1237` found the queue full) leaves the client in
  NEWCONFIG until a user acts. If an attempt under way still comes through (`mqtt-client.c:441-446`), the client stays in CONNECTED and publishes
  nothing while the connection lasts. `forsaken` in `NoStall` is true exactly then.
* The dropped event of `httpd-simple.c:1237` also leaves settings that are in use but not saved (`missed` in `SettingsAreSaved`,
  `dropped` in `AnnouncedAtEnd`), and that of `very-sleepy-demo.c:256` timers that run by the old periods (`missed` in `NotifiesInTime`).
* A client that sends more than its Content-Length (a line end behind the body is enough) gets `content_length` below zero: no byte is the last
  one, so that a last pair that only the end would complete is not handled, and the answer is 400 or, if the connection ends, none
  (`ReadBeyond`; `AnswerMatchesBody` leaves these requests out, the other properties do not).
* `OneListener` and `BelievesWhatItSends` hold, but a row that is recycled sends the old item's command when
  `setChecked` draws the new one; `ShowsBelief` is therefore about rows that were not recycled.
* The sketch SERVER3 does not compile as written (braces at lines 54 to 57); the model has its evident intention.
* Net-UART's defaults set `enable` and do not call `keep_uart_on`: a UART that was off stays deaf until a form or a restart
  (`unheard` in `HeardIfEnabled`).
* The yard's resource of broker mode 3 is made as a window (bytes `H`, `L`), which SERVER3 does not know (`Reachable` in `LastCommandWins`).
* In the cc26xx demo the infrared thermometer is not read again after one error, although the readings are meant to be updated
  "in a staggered fashion every SENSOR_READING_PERIOD ticks" (`cc26xx-demo.c:126-129`); `tmpFailed` in `ReadsGoOn`.
* The index page shows routes twice or leaves some out when RPL removes or moves the route it waits at (`astray`; `ShowsEachRouteOnce` says
  nothing of such a page).
* The dust sensor's sketch stops for ever after one lost byte, and never prints again after one added byte.
* A spoken command leaves `mCheck` as it was, so that the list shows the old position (`spoken` in `BelievesWhatItSends`).
* `ping_parent` without a default route passes NULL as the destination. The defaults do not restore the interval of the pings (`def_rt_ping_interval`).

## 8. What is not modelled, and why

* Broker mode 0, a prototype without a sketch; the opening of the serial port, once at start.
* Servo angles, pins and delays of the sketches.
* MQTT topics and payload text, received commands (one LED, one buzzer), wording of web pages.
* The application's table of phrases, its editor, and the speech itself.
* The radio library's data path and `getReadyForProgramming`, which nothing calls.
* Proxies (Californium's example and a servlet that greets), the Android mock server, the layout code of the application, the
  set-up scripts, the stand-alone sensor sketches without state.
* External and modelled from their use: Contiki's queue and timers, its MQTT library, uIP, the chips' drivers, the XBee modem
  and the radio link, Android's `ListView` and `Switch`. SERVER sketches are in the repository and modelled from it.
* The neighbours and settings on pages while they change; routes are (`IndexPage`), and neighbours are walked along in the same way.
* Overflow of Contiki's event queue by events other than the announcements of forms and configurations, and `NetUart`'s.

## 9. Plan

Modelled first were the parts where handlers interleave over shared state: the MQTT client and the POST path; then the web pages, the
sleepy node, the broker, the radio library and the lists; then the small programs of the node, the refinement of `Reconnector` and the
way from the list to the lamp. What is left, in order:

1. `OnePostAtATime`, the abstract request server, implemented by `HttpdPost` outside lost connections.
2. `SensorCycle` (idle, measuring, read, for ever), implemented by `WebDemo` and by `Cc26xxDemo`.
3. `Home` with a second telephone, and with the windows of server 2.
4. Proofs: all invariants and action properties of the runs are proved; next are the two refinements above, step by step, and the safety
   part of `SampledForEver` and `ReadsGoOn` (a chip is always due, measuring or announced).
