----------------------------- MODULE NiRequests -----------------------------
(* What becomes of the network's location requests, whoever holds them:     *)
(* a request is decided on at once or shown to the user, one at a time but  *)
(* for an emergency, and a request that was shown is answered or freed.     *)
CONSTANTS SuplRequests, EsRequests

VARIABLE fate

Requests == SuplRequests \cup EsRequests

Init == fate = [r \in Requests |-> "unknown"]

Becomes(r, from, to) ==
    /\ fate[r] = from
    /\ \E f \in to : fate' = [fate EXCEPT ![r] = f]

Arrives(r) == Becomes(r, "unknown", {"pending"})

\* denied, accepted, ignored, or forgotten where nobody listens
Decided(r) == Becomes(r, "pending", {"answered", "freed", "dropped"})

Shows(r) ==
    /\ \A q \in Requests : fate[q] = "shown" => q \in SuplRequests /\ r \in EsRequests
    /\ Becomes(r, "pending", {"shown"})

Ends(r) == Becomes(r, "shown", {"ending", "freed"})

Answered(r) == Becomes(r, "ending", {"answered"})

Next == \E r \in Requests : Arrives(r) \/ Decided(r) \/ Shows(r) \/ Ends(r) \/ Answered(r)

Spec == Init /\ [][Next]_fate
=============================================================================
