---------------------------- MODULE MidTierPolls ----------------------------
(***************************************************************************)
(* MidTier with a history of the empty polls of each server, which says    *)
(* what a server has seen of the queue when it leaves.  The history watches *)
(* the steps of midRoutine and changes none of them.                       *)
(***************************************************************************)
EXTENDS MidTier

\* Servers that polled in vain since they last processed a request.
VARIABLE polledNull

pollVars == <<vars, polledNull>>

InitPolls == Init /\ polledNull = {}

\* PollNull alone leads from the decision back to the start of the routine;
\* a request that was processed, or a new process, begins anew.
NotePolls ==
    polledNull' =
        {m \in Slots :
            \/ pc[m] = "decide" /\ pc'[m] = "count"
            \/ m \in polledNull /\ pc'[m] # "off" /\ ~(pc[m] = "process" /\ pc'[m] = "count")}

NextPolls == Next /\ NotePolls

SpecPolls == InitPolls /\ [][NextPolls]_pollVars

(* Write_Up section 4.2 (README.md:31): "If the mid-tier server keep       *)
(* getting null request for allowedIdleCycle ms" it is shut down, where    *)
(* "getting null request means that the master request queue is empty":    *)
(* a server leaves only if it polled in vain since its last request.       *)
LeavesOnlyAfterNulls ==
    [][\A m \in Slots : ScaleIn(m) => m \in polledNull]_pollVars
=============================================================================
