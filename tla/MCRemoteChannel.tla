--------------------------- MODULE MCRemoteChannel ---------------------------
(***************************************************************************)
(* Small instances of RemoteChannel for TLC.                               *)
(***************************************************************************)
EXTENDS RemoteChannel

(* Every send on the main thread.                                           *)
NoBackground == [e \in Endpoint |-> {}]

(* The editor also sends from one background thread.                        *)
ClientBackground == [e \in Endpoint |-> IF e = "client" THEN {"bg"} ELSE {}]

(* Bounds on the sends of each end; the editor's boot ping comes on top.    *)
OneEach == [e \in Endpoint |-> 1]

TwoFromClient == [e \in Endpoint |-> IF e = "client" THEN 2 ELSE 1]

TwoFromClientOnly == [e \in Endpoint |-> IF e = "client" THEN 2 ELSE 0]
=============================================================================
