---------------------------- MODULE ConnectionLife ----------------------------
(***************************************************************************)
(* What the rest of the editor may rely on when it looks at                *)
(* RemoteClient::connection_state(): which status can follow which.  A     *)
(* remote project that is disconnected stays so.                           *)
(***************************************************************************)
VARIABLE status

Init == status = "Connecting"

Establish == status = "Connecting" /\ status' = "Connected"

MissHeartbeat == status = "Connected" /\ status' = "HeartbeatMissed"

Recover == status = "HeartbeatMissed" /\ status' = "Connected"

LoseConnection ==
    /\ status \in {"Connected", "HeartbeatMissed"}
    /\ status' = "Reconnecting"

RegainConnection == status = "Reconnecting" /\ status' = "Connected"

GiveUp == status # "Disconnected" /\ status' = "Disconnected"

Next ==
    \/ Establish
    \/ MissHeartbeat
    \/ Recover
    \/ LoseConnection
    \/ RegainConnection
    \/ GiveUp

Spec == Init /\ [][Next]_status
=============================================================================
