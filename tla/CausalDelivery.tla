---------------------------- MODULE CausalDelivery ----------------------------
(***************************************************************************)
(* What replicas that exchange operations promise: each applies every      *)
(* operation at most once, and never before the operations its author had  *)
(* applied when it was issued.                                             *)
(***************************************************************************)
CONSTANT Replicas

VARIABLES
    issued,   \* set of [id, after]: the operations, and the ids applied before
    applied   \* applied[r]: the ids of the operations replica r has applied

vars == <<issued, applied>>

Ids == {o.id : o \in issued}

Init ==
    /\ issued = {}
    /\ applied = [r \in Replicas |-> {}]

Issue(r) ==
    \E o \in issued' :
        /\ o.id \notin Ids
        /\ o.after = applied[r]
        /\ issued' = issued \cup {o}
        /\ applied' = [applied EXCEPT ![r] = @ \cup {o.id}]

Apply(r) ==
    \E o \in issued :
        /\ o.id \notin applied[r]
        /\ o.after \subseteq applied[r]
        /\ applied' = [applied EXCEPT ![r] = @ \cup {o.id}]
        /\ UNCHANGED issued

Next == \E r \in Replicas : Issue(r) \/ Apply(r)

Spec == Init /\ [][Next]_vars
=============================================================================
