---------------------------- MODULE BalancerProofs ----------------------------
(***************************************************************************)
(* More about RequestFlow, on top of the invariant of RequestFlowProofs:   *)
(* the load balancer's list never runs empty once the master has entered   *)
(* it, so that clients are refused in a few situations only.               *)
(***************************************************************************)
EXTENDS RequestFlowProofs

(* The master enters the list when it starts and stays in it, unless its   *)
(* call to the balancer fails.                                             *)
MasterListed ==
    pc[Master] # "init" /\ failures = 0 => \E i \in 1 .. Len(lb) : lb[i] = Master

-----------------------------------------------------------------------------
(* Failures are counted, and never forgotten.                              *)
LEMMA FailuresGrow ==
    ASSUME TypeOK, Next
    PROVE  failures' = failures \/ failures' = failures + 1
<1> USE DEF failVars, historyVars, allButPc, Fail
<1>1. ASSUME NEW r \in Requests, ClientStep(r) PROVE failures' = failures
  BY <1>1 DEF ClientStep, NextFE, QueueRequest
<1>2. CASE MasterStep
  BY <1>2 DEF MasterStep, MasterHandler, CallRegister, MasterRoutine, HandleBootingCheck,
     HandleBooting, BootFetch, GetNextRequest, BootDropHead, MasterMayAddFront
<1>3. ASSUME NEW f \in Fronts, FrontStep(f)
      PROVE  failures' = failures \/ failures' = failures + 1
  BY <1>3 DEF FrontStep, RegisterFrontend, CallRegister, FrontReadCount, FrontScaleIn, Fetch,
     GetNextRequest, AddRequest
<1>4. ASSUME NEW m \in Mids, Boot(m) \/ MidStep(m) PROVE failures' = failures
  BY <1>4 DEF Boot, MidStep, MidReadCount, MidReadLength, MidScaleIn, PollRequest,
     DropFastRequest, MidScaleOut, MidServe
<1>5. ASSUME NEW s \in Servers, AnswerStep(s)
      PROVE  failures' = failures \/ failures' = failures + 1
  BY <1>5 DEF AnswerStep, Process, ReplyServed, ReplyDropped, CallSendReply
<1>6. ASSUME NEW s \in Servers, ShutDownStep(s)
      PROVE  failures' = failures \/ failures' = failures + 1
  BY <1>6 DEF ShutDownStep, Unregister, Unexport, DeleteVMFromMap
<1>7. ASSUME NEW s \in Servers, FailureStep(s)
      PROVE  failures' = failures \/ failures' = failures + 1
  BY <1>7 DEF FailureStep, ServerStops, ProcessFails, BootFetchNull
<1> QED
  BY <1>1, <1>2, <1>3, <1>4, <1>5, <1>6, <1>7, StepsByRole

(* Until masterHandler has run, the master is alone and nothing else moves *)
(* but clients.                                                            *)
LEMMA MasterFirst ==
    ASSUME PositionInv, Next, pc[Master] = "init"
    PROVE  MasterHandler \/ pc'[Master] = "init"
<1> USE Roles DEF PositionInv, PositionType
<1>0. \A s \in Servers \ {Master} : pc[s] = "off"
  BY DEF AloneInv
<1>1. ASSUME NEW r \in Requests, ClientStep(r) PROVE pc'[Master] = "init"
  BY <1>1 DEF ClientStep, NextFE, QueueRequest
<1>2. CASE MasterStep
  BY <1>2 DEF MasterStep, MasterRoutine, HandleBootingCheck, HandleBooting, BootFetch,
     BootDropHead, MasterMayAddFront
<1>3. ASSUME NEW f \in Fronts, FrontStep(f) PROVE FALSE
  <2>1. pc[f] \in {"init", "off"}
    BY <1>0
  <2> QED
    BY <1>3, <2>1 DEF FrontStep, RegisterFrontend, FrontReadCount, FrontScaleIn, Fetch, AddRequest
<1>4. ASSUME NEW m \in Mids, Boot(m) \/ MidStep(m) PROVE FALSE
  <2>1. pc[m] = "off"
    BY <1>0
  <2> QED
    BY <1>4, <2>1 DEF Boot, MidStep, MidReadCount, MidReadLength, MidScaleIn, PollRequest,
       DropFastRequest, MidScaleOut, MidServe
<1>5. ASSUME NEW s \in Servers, AnswerStep(s) \/ ShutDownStep(s) \/ FailureStep(s) PROVE FALSE
  <2>1. pc[s] \in {"init", "off"}
    BY <1>0
  <2>2. pc[s] \notin MayStop(s)
    BY <1>0 DEF MayStop
  <2> QED
    BY <1>5, <2>1, <2>2 DEF AnswerStep, Process, ReplyServed, ReplyDropped, ShutDownStep,
       Unregister, Unexport, DeleteVMFromMap, FailureStep, ServerStops, ProcessFails,
       BootFetchNull
<1> QED
  BY <1>1, <1>2, <1>3, <1>4, <1>5, StepsByRole

-----------------------------------------------------------------------------
(* A step that keeps the master's entry where it is or moves it.           *)
LEMMA MasterListedStep ==
    ASSUME IInv, MasterListed, [Next]_vars
    PROVE  MasterListed'
<1> USE Roles
<1>1. /\ TypeOK /\ PositionInv /\ lb \in Seq(Fronts) /\ Len(lb) \in Nat
      /\ failures \in Nat
  <2>1. failures \in 0 .. MaxFailures /\ MaxFailures \in Nat /\ lb \in Seq(Fronts)
    BY FlowAssumption, Zenon DEF IInv, Shape, TypeOK
  <2> QED
    BY <2>1 DEF IInv, Shape
<1>2. CASE UNCHANGED vars
  BY <1>2 DEF MasterListed, vars, allButPc, edgeVars, clientVars, historyVars, failVars
<1>3. CASE Next
  <2>1. failures' = 0 => failures = 0
    BY <1>1, <1>3, FailuresGrow
  <2>2. CASE MasterHandler
    <3>1. CASE lb' = Append(lb, Master)
      <4>1. Len(lb) + 1 \in 1 .. Len(lb') /\ lb'[Len(lb) + 1] = Master
        BY <1>1, <3>1
      <4> QED
        BY <4>1 DEF MasterListed
    <3>2. CASE failures' = failures + 1
      BY <1>1, <3>2 DEF MasterListed
    <3> QED
      BY <2>2, <3>1, <3>2 DEF MasterHandler, CallRegister, Fail
  <2>3. CASE ~MasterHandler /\ (pc'[Master] = "init" \/ failures' # 0)
    BY <2>3 DEF MasterListed
  <2>4. CASE ~MasterHandler /\ pc'[Master] # "init" /\ failures' = 0
    <3>1. pc[Master] # "init"
      BY <1>1, <1>3, <2>4, MasterFirst
    <3>2. PICK k \in 1 .. Len(lb) : lb[k] = Master
      BY <2>1, <2>4, <3>1 DEF MasterListed
    <3>3. CASE UNCHANGED lb
      BY <3>2, <3>3 DEF MasterListed
    <3>4. ASSUME NEW r \in Requests, NextFE(r) PROVE MasterListed'
      <4>1. lb # << >>
        BY <1>1, <3>2
      <4>2. lb' = Append(Tail(lb), Head(lb))
        BY <3>4, <4>1 DEF NextFE
      <4>3. /\ Len(lb') = Len(lb)
            /\ \A i \in 1 .. Len(lb) : lb'[i] = lb[IF i < Len(lb) THEN i + 1 ELSE 1]
        BY <1>1, <4>1, <4>2
      <4>4. CASE k = 1
        <5>1. Len(lb) \in 1 .. Len(lb') /\ lb'[Len(lb)] = lb[1]
          BY <1>1, <3>2, <4>3
        <5> QED
          BY <3>2, <4>4, <5>1 DEF MasterListed
      <4>5. CASE k # 1
        <5>1. k - 1 \in 1 .. Len(lb') /\ lb'[k - 1] = lb[k]
          BY <1>1, <3>2, <4>3, <4>5
        <5> QED
          BY <3>2, <5>1 DEF MasterListed
      <4> QED
        BY <4>4, <4>5
    <3>5. ASSUME NEW f \in Fronts, RegisterFrontend(f) PROVE MasterListed'
      <4>1. lb' = Append(lb, f) \/ lb' = lb
        BY <3>5 DEF RegisterFrontend, CallRegister
      <4>2. k \in 1 .. Len(lb') /\ lb'[k] = Master
        BY <1>1, <3>2, <4>1
      <4> QED
        BY <4>2 DEF MasterListed
    <3>6. ASSUME NEW s \in Servers, Unregister(s) PROVE MasterListed'
      <4>1. s # Master
        BY <1>1, <3>6 DEF Unregister, PositionInv, RoleInv, RolePC
      <4>2. failures' # failures + 1
        BY <1>1, <2>1, <2>4
      <4>3. DelFE(s)
        BY <3>6, <4>2 DEF Unregister, Fail
      <4>4. ASSUME NEW i \in 1 .. Len(lb), lb[i] = s,
                   lb' = [j \in 1 .. Len(lb) - 1 |-> IF j < i THEN lb[j] ELSE lb[j + 1]]
            PROVE  MasterListed'
        <5>1. /\ Len(lb') = Len(lb) - 1
              /\ \A j \in 1 .. Len(lb) - 1 : lb'[j] = IF j < i THEN lb[j] ELSE lb[j + 1]
          BY <1>1, <4>4, EntryRemoved
        <5>2. k # i
          BY <3>2, <4>1, <4>4
        <5>3. CASE k < i
          <6>1. k \in 1 .. Len(lb') /\ lb'[k] = lb[k]
            BY <1>1, <5>1, <5>3
          <6> QED
            BY <3>2, <6>1 DEF MasterListed
        <5>4. CASE k > i
          <6>1. k - 1 \in 1 .. Len(lb') /\ lb'[k - 1] = lb[k]
            BY <1>1, <5>1, <5>4
          <6> QED
            BY <3>2, <6>1 DEF MasterListed
        <5> QED
          BY <1>1, <5>2, <5>3, <5>4
      <4> QED
        BY <3>3, <4>3, <4>4 DEF DelFE
    <3> QED
      BY <1>3, <2>4, <3>3, <3>4, <3>5, <3>6, ListSteps
  <2> QED
    BY <2>2, <2>3, <2>4
<1> QED
  BY <1>2, <1>3

-----------------------------------------------------------------------------
(* Once masterHandler has run, the balancer always has a front server for  *)
(* a client, and refuses one only after a failed call or if the server it  *)
(* picked has left since (lines 103, 377).                                 *)
THEOREM RefusedInGapOnly == Spec => RefusedOnlyInGap
<1>1. Init => MasterListed
  BY Roles DEF Init, MasterListed
<1>2. ASSUME IInv, MasterListed, [Next]_vars, NEW r \in Requests,
             outcome[r] = "none", outcome'[r] = "failed"
      PROVE  pc[Master] = "init" \/ failures > 0 \/ target[r] \in dead
  <2>1. /\ PositionInv /\ failures \in Nat
        /\ outcome \in [Requests -> {"none", "failed", "served", "dropped"}]
    <3>1. failures \in 0 .. MaxFailures /\ MaxFailures \in Nat
      BY <1>2, FlowAssumption, Zenon DEF IInv, Shape, TypeOK
    <3>2. outcome \in [Requests -> {"none", "failed", "served", "dropped"}]
      BY <1>2 DEF IInv, Shape, TypeOK
    <3> QED
      BY <1>2, <3>1, <3>2 DEF IInv, Shape
  <2>2. outcome' # outcome
    BY <1>2
  <2>3. ASSUME NEW x \in Requests, NextFE(x)
        PROVE  lb = << >>
    BY <2>2, <2>3 DEF NextFE
  <2>4. ASSUME NEW x \in Requests, QueueRequest(x)
        PROVE  target[r] \in dead
    BY <1>2, <2>1, <2>2, <2>4 DEF QueueRequest
  <2>5. ASSUME NEW s \in Servers, ReplyServed(s) \/ ReplyDropped(s)
        PROVE  FALSE
    BY <1>2, <2>1, <2>5 DEF ReplyServed, ReplyDropped, CallSendReply, Reply, cloudVars
  <2>6. lb = << >> => pc[Master] = "init" \/ failures > 0
    BY <1>2, <2>1 DEF MasterListed
  <2>7. ~UNCHANGED vars
    BY <2>2 DEF vars, allButPc, edgeVars, cloudVars
  <2> QED
    BY <1>2, <2>1, <2>2, <2>3, <2>4, <2>5, <2>6, <2>7, AnswerChanges
    DEF Quiet, Process, ServerStops, ProcessFails, edgeVars, cloudVars
<1>3. IInv /\ MasterListed /\ [Next]_vars
        => [\A r \in Requests : outcome[r] = "none" /\ outcome'[r] = "failed"
               => pc[Master] = "init" \/ failures > 0 \/ target[r] \in dead]_vars
  BY <1>2
<1>4. MasterListed /\ IInv /\ [Next]_vars => MasterListed'
  BY MasterListedStep
<1> QED
  BY <1>1, <1>3, <1>4, InductiveInvariant, PTL DEF Spec, RefusedOnlyInGap
=============================================================================
