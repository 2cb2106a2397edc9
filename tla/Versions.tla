------------------------------- MODULE Versions -------------------------------
(***************************************************************************)
(* Lamport timestamps and version vectors (crates/clock/src/clock.rs).     *)
(*                                                                         *)
(* A timestamp is a counter value and the replica that drew it.  A version *)
(* gives, for each replica, the greatest value of that replica that has    *)
(* been observed, 0 for none: clock.rs keeps it as a vector that is never  *)
(* longer than its last entry above 0, so that comparing lengths and then  *)
(* entries is comparing functions.  A value is a u32 that starts at 1 and  *)
(* grows by one or two a keystroke; its overflow is not modelled.          *)
(***************************************************************************)
EXTENDS Integers

Timestamp(replica, value) == [replica |-> replica, value |-> value]

(* The order of Lamport: by value, ties broken by replica.                  *)
Before(t, u) ==
    \/ t.value < u.value
    \/ t.value = u.value /\ t.replica < u.replica

(* The counter after it has observed a timestamp of another replica.        *)
Advance(value, t) == IF value < t.value THEN t.value + 1 ELSE value + 1

Observed(version, t) == version[t.replica] >= t.value

Observe(version, t) ==
    [version EXCEPT ![t.replica] = IF @ < t.value THEN t.value ELSE @]

ObservedAll(version, other) == \A r \in DOMAIN other : version[r] >= other[r]
=============================================================================
