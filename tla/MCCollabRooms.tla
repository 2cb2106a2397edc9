---------------------------- MODULE MCCollabRooms ----------------------------
(***************************************************************************)
(* Instances of CollabRooms for TLC: Anna with two connections, one after  *)
(* the other or together, Ben with one and Cleo, who is never connected.   *)
(***************************************************************************)
EXTENDS CollabRooms, TLC

CONSTANTS anna, ben, cleo, a1, a2, b1, room1

TwoUsers == {anna, ben}
ThreeUsers == {anna, ben, cleo}
OneRoom == {room1}
ThreeConnections == {a1, a2, b1}
AnnaTwice == a1 :> anna @@ a2 :> anna @@ b1 :> ben

BothBuilds == {"test", "production"}
TestBuild == {"test"}
ProductionBuild == {"production"}

(* Bound: only Ben rings.  Anna, with her two connections, is the callee.   *)
BenCalls == ringing[a1] = None /\ ringing[a2] = None

(* Bound: the server restarts only if Ben has never connected.              *)
RestartsWithoutBen == restarts > 0 => conn[b1] = "unused"

(* view is written but never read, so that a run whose properties do not    *)
(* speak of it need not tell apart states that differ in it alone.          *)
WithoutView == <<build, dbVars, conn, task, ringing, holder, startVars, clientVars>>
=============================================================================
