---------------------------- MODULE MCRealtimeLink ----------------------------
(***************************************************************************)
(* Two browsers at a gateway that takes two connections: enough for one    *)
(* to come back before its own dropped connection is reaped.               *)
(***************************************************************************)
EXTENDS RealtimeLink

CONSTANTS c1, c2, taskRoom, userRoom

TwoClients == {c1, c2}

OneClient == {c1}

Rooms == {taskRoom, userRoom}

NoneHeld == {}
===============================================================================
