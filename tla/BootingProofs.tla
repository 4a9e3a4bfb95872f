---------------------------- MODULE BootingProofs ----------------------------
(***************************************************************************)
(* The safety invariants of Booting, proved for every setting of the       *)
(* thresholds and limits, and for any length of the boot.                  *)
(***************************************************************************)
EXTENDS Booting, TLAPS

(* Every request in the queue has arrived.                                 *)
QueueInv == queueLen <= arrived

(* Between the comparison with the limit and the end of the service there  *)
(* is room for one request more.                                           *)
LimitInv == pc \in {"get", "process"} => masterProcessCount < allowedMasterProcess

(* As long as the rate check is armed it has started nothing.              *)
ArmedInv == masterStartTime = 1 => midCount = 1

(* Once a request was served although VM 2 was running, the master is past *)
(* the branch that serves: the next look at the status sees "Running".     *)
LateInv ==
    /\ late \in {0, 1}
    /\ late = 1 => /\ vmStatus = "Running"
                   /\ pc \in {"fast", "dropFast", "loop", "next", "scale"}

\* Front servers started by masterRoutine; two were there, a burst adds one.
Added == frontCount - 2 - (IF masterStartTime = Never THEN 1 ELSE 0)

(* The last front server was added late enough for all of them; before the *)
(* first look at the queue there is none.                                  *)
SpacedInv == Added <= 0 \/ Added * (AddFrontInterval + 1) < lastAddFrontTime

IInv == TypeOK /\ QueueInv /\ LimitInv /\ ArmedInv /\ LateInv /\ ScalesOnceWhileBooting

-----------------------------------------------------------------------------
(* The initial states satisfy the invariant.                               *)
LEMMA InitIInv == Init => IInv
  BY BootingAssumption
  DEF Init, IInv, TypeOK, QueueInv, LimitInv, ArmedInv, LateInv,
      ScalesOnceWhileBooting, PC, Never

(* Every step keeps the invariant: time and the load balancer change what  *)
(* the master will read, its own actions the rest.                         *)
LEMMA StepIInv == IInv /\ [Next]_vars => IInv'
<1> SUFFICES ASSUME IInv, [Next]_vars PROVE IInv'
  OBVIOUS
<1> USE BootingAssumption
    DEF IInv, TypeOK, QueueInv, LimitInv, ArmedInv, LateInv,
        ScalesOnceWhileBooting, PC, Never, envVars, bootVars, rateVars,
        tierVars, histVars
<1>1. CASE Tick
  BY <1>1 DEF Tick
<1>2. CASE Arrive
  BY <1>2 DEF Arrive
<1>3. CASE VM2
  BY <1>3 DEF VM2
<1>4. CASE MasterRoutine
  BY <1>4 DEF MasterRoutine
<1>5. CASE CheckRate
  BY <1>5 DEF CheckRate
<1>6. CASE UnderLimit
  BY <1>6 DEF UnderLimit
<1>7. CASE GetNextRequest
  BY <1>7 DEF GetNextRequest
<1>8. CASE ProcessRequest
  BY <1>8 DEF ProcessRequest
<1>9. CASE CheckFast
  BY <1>9 DEF CheckFast
<1>10. CASE DropHead
  BY <1>10 DEF DropHead
<1>11. CASE AddFront
  BY <1>11 DEF AddFront
<1>12. CASE UNCHANGED vars
  BY <1>12 DEF vars
<1> QED
  BY <1>1, <1>2, <1>3, <1>4, <1>5, <1>6, <1>7, <1>8, <1>9, <1>10, <1>11, <1>12
  DEF Next, MasterStep

-----------------------------------------------------------------------------
(* The spacing of the front servers.  The products are taken apart here.   *)
LEMMA OneMore ==
    ASSUME NEW n \in Int, NEW k \in Nat
    PROVE  /\ (n + 1) * k = n * k + k
           /\ (n - 1) * k = n * k - k
           /\ n <= 0 => n * k <= 0
  OBVIOUS

LEMMA InitSpaced == Init => SpacedInv
  BY BootingAssumption DEF Init, SpacedInv, Added, Never

LEMMA SpacedStep ==
    ASSUME IInv, SpacedInv, [Next]_vars
    PROVE  SpacedInv'
<1> DEFINE k == AddFrontInterval + 1
<1>0. /\ AddFrontInterval \in Nat /\ k \in Nat /\ Added \in Int
      /\ clock \in Nat /\ now \in Nat /\ now >= 1 /\ lastAddFrontTime \in Nat
      /\ masterStartTime \in {1, Never} /\ frontCount \in Nat /\ Never # 1
  BY BootingAssumption DEF IInv, TypeOK, Added, Never
<1>1. CASE CheckRate
  <2>1. lastAddFrontTime' = lastAddFrontTime /\ (Added' = Added \/ Added' = Added - 1)
    <3>1. CASE UNCHANGED <<rateVars, tierVars>>
      BY <1>1, <3>1 DEF CheckRate, Added, rateVars, tierVars
    <3>2. CASE now - masterStartTime > RateDelay
      <4>1. masterStartTime = 1
        BY <1>0, <3>2, BootingAssumption DEF IInv, TypeOK, Never
      <4>2. /\ masterStartTime' = Never /\ lastAddFrontTime' = lastAddFrontTime
            /\ frontCount' = frontCount + 1 \/ frontCount' = frontCount
        BY <1>0, <1>1, <3>2, BootingAssumption DEF CheckRate, tierVars
      <4> QED
        BY <1>0, <4>1, <4>2 DEF Added
    <3> QED
      BY <1>0, <1>1, <3>1, <3>2, BootingAssumption DEF CheckRate
  <2>2. (Added - 1) * k = Added * k - k
    BY <1>0, OneMore
  <2>3. Added' * k <= Added * k
    BY <1>0, <2>1, <2>2
  <2> QED
    BY <1>0, <2>1, <2>3 DEF SpacedInv
<1>2. CASE AddFront
  <2> DEFINE last == IF lastAddFrontTime = 0 THEN now ELSE lastAddFrontTime
  <2> DEFINE add  == /\ now - last > AddFrontInterval
                     /\ 10 * queueLen > FrontFactor * frontCount
  <2>1. /\ masterStartTime' = masterStartTime
        /\ lastAddFrontTime' = IF add THEN now ELSE last
        /\ frontCount' = IF add THEN frontCount + 1 ELSE frontCount
    BY <1>2 DEF AddFront, rateVars
  <2>2. last \in Nat /\ last >= lastAddFrontTime
    BY <1>0
  <2>3. CASE add
    <3>1. last = lastAddFrontTime /\ now >= lastAddFrontTime + k
      BY <1>0, <2>3
    <3>2. Added' = Added + 1 /\ lastAddFrontTime' = now
      BY <1>0, <2>1, <2>3 DEF Added
    <3>3. (Added + 1) * k = Added * k + k /\ (Added <= 0 => Added * k <= 0)
      BY <1>0, OneMore
    <3>4. lastAddFrontTime > 0
      BY <1>0, <2>3
    <3> QED
      BY <1>0, <3>1, <3>2, <3>3, <3>4 DEF SpacedInv
  <2>4. CASE ~add
    <3>1. Added' = Added /\ lastAddFrontTime' = last
      BY <2>1, <2>4 DEF Added
    <3>2. Added' * k = Added * k
      BY <3>1
    <3> HIDE DEF last, add, k
    <3> QED
      BY <1>0, <2>2, <3>1, <3>2 DEF SpacedInv, k
  <2> QED
    BY <2>3, <2>4
<1>3. CASE UNCHANGED <<frontCount, masterStartTime, lastAddFrontTime>>
  BY <1>3 DEF SpacedInv, Added
<1> QED
  BY <1>1, <1>2, <1>3, Zenon
  DEF Next, MasterStep, Tick, Arrive, VM2, MasterRoutine, UnderLimit, GetNextRequest,
      ProcessRequest, CheckFast, DropHead, vars, envVars, rateVars, tierVars

-----------------------------------------------------------------------------
(* The invariant holds in every reachable state.                           *)
THEOREM InductiveInvariant == Spec => []IInv
  BY InitIInv, StepIInv, PTL DEF Spec

(* Types; the master serves no more requests than are allowed, however     *)
(* long VM 2 boots (line 276).                                             *)
THEOREM TypeCorrect == Spec => []TypeOK
<1>1. IInv => TypeOK
  BY DEF IInv
<1> QED
  BY <1>1, InductiveInvariant, PTL

(* handleBooting decides on a scale-out once: the assignment of line 275   *)
(* disarms the check for good.                                             *)
THEOREM ScalesOnce == Spec => []ScalesOnceWhileBooting
<1>1. IInv => ScalesOnceWhileBooting
  BY DEF IInv
<1> QED
  BY <1>1, InductiveInvariant, PTL

(* The old status of VM 2 costs at most one request that the master serves *)
(* instead of a mid server.                                                *)
THEOREM AtMostOneLate == Spec => []OneLateRequest
<1>1. IInv => OneLateRequest
  BY DEF IInv, LateInv, OneLateRequest
<1> QED
  BY <1>1, InductiveInvariant, PTL

(* masterRoutine (lines 205-212) spaces the front servers it starts by     *)
(* more than AddFrontInterval, whatever the queue is.                      *)
THEOREM FrontsAreSpacedOut == Spec => []FrontsSpacedOut
<1>1. IInv /\ SpacedInv => FrontsSpacedOut
  <2> SUFFICES ASSUME IInv, SpacedInv PROVE FrontsSpacedOut
    OBVIOUS
  <2> DEFINE k == AddFrontInterval + 1
  <2>1. /\ k \in Nat /\ k >= 1 /\ frontCount \in Nat /\ Added \in Int
        /\ lastAddFrontTime \in Nat /\ lastAddFrontTime <= clock /\ clock \in Nat /\ clock >= 1
    BY BootingAssumption DEF IInv, TypeOK, Added
  <2>2. frontCount - 3 = Added \/ frontCount - 3 = Added - 1
    BY <2>1 DEF Added
  <2>3. (Added - 1) * k = Added * k - k /\ (Added <= 0 => Added * k <= 0)
    BY <2>1, OneMore
  <2>4. Added * k < clock
    BY <2>1, <2>3 DEF SpacedInv
  <2>5. (frontCount - 3) * k < clock
    <3>1. CASE frontCount - 3 = Added
      BY <2>4, <3>1
    <3>2. CASE frontCount - 3 = Added - 1
      <4>1. (frontCount - 3) * k = Added * k - k
        BY <2>3, <3>2
      <4> HIDE DEF k
      <4> QED
        BY <2>1, <2>4, <4>1
    <3> QED
      BY <2>2, <3>1, <3>2
  <2> QED
    BY <2>5 DEF FrontsSpacedOut
<1>2. IInv /\ SpacedInv /\ [Next]_vars => (IInv /\ SpacedInv)'
  BY StepIInv, SpacedStep
<1> QED
  BY <1>1, <1>2, InitIInv, InitSpaced, PTL DEF Spec

(* While a request waits, every step of the master takes the head of its   *)
(* queue or comes closer to it (lines 196-216, 243-287).                   *)
THEOREM ComesCloser == Spec => HeadComesCloser
<1>1. IInv /\ [Next]_vars
        => [queueLen > 0 /\ pc' # pc
               => queueLen' < queueLen \/ StepsToHead[pc'] < StepsToHead[pc]]_vars
  <2> SUFFICES ASSUME IInv, [Next]_vars, queueLen > 0, pc' # pc
               PROVE  queueLen' < queueLen \/ StepsToHead[pc'] < StepsToHead[pc]
    OBVIOUS
  <2>1. pc \in PC /\ queueLen \in Nat
    BY BootingAssumption DEF IInv, TypeOK
  <2>2. /\ pc \in {"get", "next", "dropFast", "drop"} => queueLen' = queueLen - 1
        /\ pc = "loop" => pc' \in {"rate", "next"}
        /\ pc = "rate" => pc' = "limit"
        /\ pc = "limit" => pc' \in {"get", "drop"}
        /\ pc = "process" => pc' = "fast"
        /\ pc = "fast" => pc' \in {"dropFast", "loop"}
        /\ pc = "scale" => pc' = "loop"
    BY <2>1 DEF Next, MasterStep, Tick, Arrive, VM2, MasterRoutine, CheckRate, UnderLimit,
                GetNextRequest, ProcessRequest, CheckFast, DropHead, AddFront, vars
  <2> QED
    BY <2>1, <2>2 DEF StepsToHead, PC
<1> QED
  BY <1>1, InductiveInvariant, PTL DEF Spec, HeadComesCloser
=============================================================================
