--------------------------- MODULE RequestService ---------------------------
(***************************************************************************)
(* What the server cluster promises a client, whatever tiers stand in      *)
(* between: a request is refused at once, or it waits for its one answer.  *)
(* It is executed against the database at most once, it is answered        *)
(* "served" only after it was executed, and one that is reported dropped   *)
(* was never executed and never will be.                                   *)
(***************************************************************************)
CONSTANT Requests

VARIABLE state      \* of each request

States == {"new", "failed", "waiting", "executed", "served", "dropped"}

Init == state = [r \in Requests |-> "new"]

Move(r, from, to) ==
    /\ state[r] = from
    /\ state' = [state EXCEPT ![r] = to]

Refuse(r)  == Move(r, "new", "failed")
Accept(r)  == Move(r, "new", "waiting")
Execute(r) == Move(r, "waiting", "executed")
Serve(r)   == Move(r, "executed", "served")
Drop(r)    == Move(r, "waiting", "dropped")

Next == \E r \in Requests :
            Refuse(r) \/ Accept(r) \/ Execute(r) \/ Serve(r) \/ Drop(r)

Spec == Init /\ [][Next]_state
=============================================================================
