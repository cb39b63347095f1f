------------------------------- MODULE MCNode -------------------------------
(* NetUart, NodeNetwork, Cc26xxDemo and DustSensor for TLC. They share no  *)
(* variable and no event (the last two are other programs), so that their  *)
(* interleavings tell nothing: a behaviour shows one of them, while the    *)
(* others rest, where nothing is left to do: a network with an address,    *)
(* neither a root nor a route, and no timer set yet; a demo on a board     *)
(* without chips; a dust sensor that never got its command.                *)
EXTENDS NetUart, NodeNetwork, Cc26xxDemo, DustSensor

VARIABLE part

NetworkRests ==
    /\ address = TRUE
    /\ root = None /\ route = None
    /\ full = FALSE
    /\ client_conn = None
    /\ running = {} /\ fired = {}
    /\ led = FALSE
    /\ echoes = {} /\ rssi = None

DustRests ==
    /\ waiting = TRUE
    /\ Receive_Buff = <<>> /\ line = <<>>
    /\ asked = 0
    /\ added = 0 /\ missing = FRAME
    /\ fresh = FALSE

Init ==
    /\ UartInit
    /\ DemoInit
    /\ \/ part = "uart" /\ NetworkRests /\ fitted = {} /\ DustRests
       \/ part = "network" /\ NetworkInit /\ fitted = {} /\ DustRests
       \/ part = "demo" /\ NetworkRests /\ DustRests
       \/ part = "dust" /\ NetworkRests /\ fitted = {} /\ DustInit

Next ==
    \/ /\ part = "uart" /\ UartNext
       /\ UNCHANGED <<networkVars, demoVars, dustVars, part>>
    \/ /\ part = "network" /\ NetworkNext
       /\ UNCHANGED <<uartVars, demoVars, dustVars, part>>
    \/ /\ part = "demo" /\ DemoNext
       /\ UNCHANGED <<uartVars, networkVars, dustVars, part>>
    \/ /\ part = "dust" /\ DustNext
       /\ UNCHANGED <<uartVars, networkVars, demoVars, part>>

Spec ==
    /\ Init /\ [][Next]_<<uartVars, networkVars, demoVars, dustVars, part>>
    /\ NetworkFairness /\ DemoFairness /\ DustFairness
=============================================================================
