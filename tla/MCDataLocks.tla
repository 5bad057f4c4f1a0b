------------------------------ MODULE MCDataLocks ------------------------------
(***************************************************************************)
(* Requests for three hands, two of which share a stripe.                  *)
(***************************************************************************)
EXTENDS DataLocks, TLC

CONSTANTS r1, r2, r3, a, b, c

CONSTANT Crowd  \* BOUND: the handlers of which all the requests may run at once

MCStripeOf == (a :> 1) @@ (b :> 1) @@ (c :> 2)

Symmetry == Permutations(Requests) \cup Permutations({a, b})

\* All requests are for handlers of the crowd ...
CrowdInit == Init /\ \A r \in Requests : IsFor(r, Crowd)

\* ... or the others are for any, and one has listed the hands and ended.
ListCall == CHOOSE call \in Calls : call.kind = "list"

RestInit ==
    \E gone \in Requests :
        /\ request \in {q \in [Requests -> Calls] : q[gone] = ListCall}
        /\ stage = [r \in Requests |->
                        IF r = gone THEN "ended" ELSE FirstGate(request[r].kind)]
        /\ cancelled = {}
        /\ flock = [r \in Requests |-> "none"]
        /\ todo = [r \in Requests |-> IF r = gone THEN <<>> ELSE request[r].plan]
        /\ held = [r \in Requests |-> 0]

MixedSpec == (CrowdInit \/ RestInit) /\ [][Next]_vars
=============================================================================
