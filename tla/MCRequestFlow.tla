---------------------------- MODULE MCRequestFlow ----------------------------
(***************************************************************************)
(* Small instances of RequestFlow.  Servers and requests are model values; *)
(* requests are interchangeable, and so are the servers of a tier that     *)
(* masterHandler does not start itself.                                    *)
(***************************************************************************)
EXTENDS RequestFlow, TLC

Symmetry == Permutations(Requests) \cup Permutations(MoreMids)
            \cup Permutations(MoreFronts)
=============================================================================
