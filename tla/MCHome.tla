-------------------------------- MODULE MCHome --------------------------------
(* DeviceList and Home for TLC. A behaviour shows either a list alone, with*)
(* all its rows and items and no broker to reach, or the way to the lamps, *)
(* with a list that shows a switch only in the row that is its own.        *)
EXTENDS Home

VARIABLE part

Places == CHOOSE f \in [Rows -> Switches] : \A q, r \in Rows : q # r => f[q] # f[r]

MCInit == HomeInit /\ part \in {"list", "home"}

MCNext ==
    \/ /\ part = "list" /\ Next
       /\ refused' = Switches
       /\ UNCHANGED <<brokerVars, requests, pending, part>>
    \/ /\ part = "home" /\ HomeNext
       /\ \A r \in Rows : shown'[r] \in {shown[r], Places[r]} \cup Readings
       /\ UNCHANGED part

MCSpec == MCInit /\ [][MCNext]_<<homeVars, part>>
===============================================================================
