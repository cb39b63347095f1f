--------------------------------- MODULE Home ---------------------------------
(***************************************************************************)
(* From the finger to the lamp: a list of the Android application          *)
(* (DeviceList), whose switches are the lamps of server 1, and the broker  *)
(* with its radio and its Arduino (XBeeBroker). A PUT that runs is a CoAP  *)
(* request, which a thread of the broker handles some time later; the task *)
(* waits for the answer, and with it all tasks behind.                     *)
(***************************************************************************)
EXTENDS DeviceList

CONSTANTS
    Exchanges,   \* the requests that reach the broker in a behaviour
    BUFFER_SIZE  \* bytes that the Arduino's software serial port keeps

ASSUME LampsAssumption == Switches \subseteq 1 .. 9
ASSUME ExchangesAssumption == IsFiniteSet(Exchanges) /\ None \notin Exchanges
ASSUME BufferAssumption == BUFFER_SIZE \in Nat

VARIABLES
    mode, step, kind, answer, wire, inbox, outputs, commanded, unanswerable,
    skipped, lost,   \* the broker's, see XBeeBroker
    requests,  \* PUTs on their way to the broker
    pending,   \* the exchange of the task that runs, or None
    refused    \* history: the items whose last PUT never came or failed

Broker == INSTANCE XBeeBroker WITH Modes <- {1}, Leds <- Switches

brokerVars == <<mode, step, kind, answer, wire, inbox, outputs, commanded,
                unanswerable, skipped, lost>>
homeVars == <<vars, brokerVars, requests, pending, refused>>

HomeTypeOK ==
    /\ TypeOK
    /\ Broker!TypeOK
    /\ requests \subseteq [item : Items, on : BOOLEAN]
    /\ pending \in Exchanges \cup {None}
    /\ refused \subseteq Items

HomeInit ==
    /\ Init
    /\ Broker!Init
    /\ requests = {}
    /\ pending = None
    /\ refused = {}

(* What the user does to the list, and a GET: none of it is the broker's.  *)
UsesList ==
    /\ \/ \E r \in Rows, i \in Items : GetView(r, i)
       \/ \E r \in Rows : ScrollsOff(r) \/ Toggle(r) \/ Touch(r)
       \/ Say
       \/ tasks # <<>> /\ Head(tasks).kind = "GET" /\ RunTask
    /\ UNCHANGED <<brokerVars, requests, pending, refused>>

(* Mutant: client.put does not wait for the answer.                        *)
SendPutAtOnce ==
    /\ tasks # <<>> /\ Head(tasks).kind # "GET"
    /\ requests' = requests \cup {[item |-> Head(tasks).item,
                                   on |-> Head(tasks).kind = "ON"]}
    /\ RunTask
    /\ UNCHANGED <<brokerVars, pending, refused>>

(* CoapPostTask: client.put sends its request, and waits.                  *)
SendPut ==
    /\ tasks # <<>> /\ Head(tasks).kind # "GET"
    /\ requests = {} /\ pending = None
    /\ requests' = {[item |-> Head(tasks).item, on |-> Head(tasks).kind = "ON"]}
    /\ UNCHANGED <<vars, brokerVars, pending, refused>>

(* A thread of the broker handles a request.                               *)
HandlePut(e) ==
    \E q \in requests :
       /\ q.item \in Switches
       /\ Broker!PutTo(e, Broker!Led(q.item), q.on)
       /\ requests' = requests \ {q}
       /\ pending' = e
       /\ UNCHANGED <<vars, refused>>

(* client.put returns null: the request never came to the broker, and never*)
(* will. Nor does a PUT for a reading, which the listener of a row that is *)
(* used again may send: the address is no lamp's.                          *)
PutIsLost ==
    \E q \in requests :
       /\ RunTask
       /\ requests' = requests \ {q}
       /\ refused' = refused \cup {q.item}
       /\ UNCHANGED <<brokerVars, pending>>

(* client.put returns the broker's answer, whatever it says, or null after *)
(* all if the answer gets lost: the task is done.                          *)
PutReturns ==
    /\ pending # None
    /\ step[pending] = "answered"
    /\ RunTask
    /\ refused' = IF answer[pending] = "CHANGED" THEN refused \ {Head(tasks).item}
                  ELSE refused \cup {Head(tasks).item}
    /\ pending' = None
    /\ UNCHANGED <<brokerVars, requests>>

BrokerGoesOn ==
    /\ \/ \E e \in Exchanges : Broker!PutAnswers(e)
       \/ Broker!ArduinoLoop
       \/ Broker!RadioLoses
    /\ UNCHANGED <<vars, requests, pending, refused>>

HomeNext ==
    \/ UsesList
    \/ SendPut \/ PutIsLost \/ PutReturns
    \/ \E e \in Exchanges : HandlePut(e)
    \/ BrokerGoesOn

HomeSpec == HomeInit /\ [][HomeNext]_homeVars
-------------------------------------------------------------------------------
(* When nothing is on its way any more, each lamp is as its item in the    *)
(* application says, from whichever rows and in whatever order it was      *)
(* switched, while tasks, threads and bytes were still busy with earlier   *)
(* commands; unless its last command was spoken, or failed, or a byte for  *)
(* it got lost behind the broker.                                          *)
LampsFollow ==
    tasks = <<>> /\ requests = {} /\ wire = <<>> =>
       \A i \in Switches \ (spoken \cup refused) :
          LET lamp == <<Broker!LedRoom[i], i>>
          IN  lamp \notin lost => (i \in mCheck <=> lamp \in outputs)
===============================================================================
