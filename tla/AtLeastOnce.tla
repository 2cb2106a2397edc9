----------------------------- MODULE AtLeastOnce -----------------------------
(***************************************************************************)
(* What the message channel promises the two applications that talk over   *)
(* it: what one end sends, and nothing else, reaches the other, at least   *)
(* once.  The order of arrival and repetitions are left open.              *)
(***************************************************************************)
CONSTANT End   \* the two ends

VARIABLES
    sent,      \* sent[e]: the set of messages end e has sent
    received   \* received[e]: the set of messages that have reached end e

Other(e) == CHOOSE f \in End : f # e

Init ==
    /\ sent = [e \in End |-> {}]
    /\ received = [e \in End |-> {}]

Send(e) ==
    /\ \E m \in sent'[e] : sent' = [sent EXCEPT ![e] = @ \cup {m}]
    /\ UNCHANGED received

Receive(e) ==
    /\ \E m \in sent[Other(e)] \ received[e] :
           received' = [received EXCEPT ![e] = @ \cup {m}]
    /\ UNCHANGED sent

Next == \E e \in End : Send(e) \/ Receive(e)

Spec == Init /\ [][Next]_<<sent, received>>

FairSpec == Spec /\ \A e \in End : WF_<<sent, received>>(Receive(e))
=============================================================================
