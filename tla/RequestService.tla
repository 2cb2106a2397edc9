---------------------------- MODULE RequestService ----------------------------
(***************************************************************************)
(* What a caller of Peer::request may rely on: a request is answered once, *)
(* by an answer that its receiver gave to it, or it fails, and then        *)
(* because the caller's end of the connection is no more.                  *)
(***************************************************************************)
CONSTANTS Ends, Requests, From

VARIABLES
    outcome,  \* of each request
    replied,  \* the requests that their receivers have answered
    up        \* the ends whose connection has not ended

vars == <<outcome, replied, up>>

Init ==
    /\ outcome = [r \in Requests |-> "unasked"]
    /\ replied = {}
    /\ up = Ends

Become(r, old, new) == outcome[r] = old /\ outcome' = [outcome EXCEPT ![r] = new]

Ask(r) == Become(r, "unasked", "asked") /\ UNCHANGED <<replied, up>>

Reply(r) ==
    /\ outcome[r] # "unasked"
    /\ r \notin replied
    /\ replied' = replied \cup {r}
    /\ UNCHANGED <<outcome, up>>

Answer(r) ==
    /\ r \in replied
    /\ Become(r, "asked", "answered")
    /\ UNCHANGED <<replied, up>>

Fail(r) ==
    /\ From[r] \notin up
    /\ Become(r, "asked", "failed")
    /\ UNCHANGED <<replied, up>>

(* ... or is not even made, then.                                           *)
Refuse(r) ==
    /\ From[r] \notin up
    /\ Become(r, "unasked", "failed")
    /\ UNCHANGED <<replied, up>>

Abandon(r) == Become(r, "asked", "dropped") /\ UNCHANGED <<replied, up>>

End(e) == e \in up /\ up' = up \ {e} /\ UNCHANGED <<outcome, replied>>

Next ==
    \/ \E r \in Requests :
           Ask(r) \/ Refuse(r) \/ Reply(r) \/ Answer(r) \/ Fail(r) \/ Abandon(r)
    \/ \E e \in Ends : End(e)

Spec == Init /\ [][Next]_vars
=============================================================================
