--------------------------- MODULE ServerRegistry ---------------------------
(***************************************************************************)
(* What the master's registry promises the servers, whatever threads work  *)
(* on it: a server is entered under one tier, once; it learns that tier    *)
(* and no other, and keeps it; its entry is removed only after that, and   *)
(* for good.                                                               *)
(***************************************************************************)
CONSTANTS Servers, Tiers, NoTier, Removed

VARIABLES
    entry,      \* the tier of each server; NoTier before it is entered
    role        \* the tier each server has learned

Init ==
    /\ entry = [v \in Servers |-> NoTier]
    /\ role  = [v \in Servers |-> NoTier]

Enter(v) ==
    /\ entry[v] = NoTier
    /\ \E t \in Tiers : entry' = [entry EXCEPT ![v] = t]
    /\ UNCHANGED role

Learn(v) ==
    /\ entry[v] \in Tiers /\ role[v] = NoTier
    /\ role' = [role EXCEPT ![v] = entry[v]]
    /\ UNCHANGED entry

Remove(v) ==
    /\ entry[v] \in Tiers /\ role[v] = entry[v]
    /\ entry' = [entry EXCEPT ![v] = Removed]
    /\ UNCHANGED role

Next == \E v \in Servers : Enter(v) \/ Learn(v) \/ Remove(v)

Spec == Init /\ [][Next]_<<entry, role>>
=============================================================================
