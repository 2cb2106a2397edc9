------------------------------ MODULE MCRpcPeer ------------------------------
(***************************************************************************)
(* Instances of RpcPeer for TLC: two requests one way, so that their       *)
(* responses could be mistaken, and a notice the other way.                *)
(***************************************************************************)
EXTENDS RpcPeer, TLC

CONSTANTS client, server, ask1, ask2, note

TwoEnds == {client, server}
Opposite == client :> server @@ server :> client
TwoRequests == {ask1, ask2}
OneNotice == {note}
Senders == ask1 :> client @@ ask2 :> client @@ note :> server
=============================================================================
