---------------------------- MODULE MCRemoteClient ----------------------------
(***************************************************************************)
(* Instances of RemoteClient for TLC, with the limits of the source.       *)
(***************************************************************************)
EXTENDS RemoteClient

(* The argument of the debug action SimulateTimeout                         *)
(* (zed/src/zed/remote_debug.rs), which forgets failed attempts; its sister *)
(* SimulateTimeoutExhausted pretends that all of them have failed.          *)
SimulateTimeout == {0}

NoDebugActions == {}
=============================================================================
