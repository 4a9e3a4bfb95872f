-------------------------- MODULE RequestFlowProofs --------------------------
(***************************************************************************)
(* Machine-checked theorems about RequestFlow, for any numbers of requests *)
(* and servers, any thresholds and any number of failing calls: a request  *)
(* is in one place, the balancer lists servers that are reachable, and the *)
(* tiers together implement the service that RequestService specifies.     *)
(***************************************************************************)
EXTENDS RequestFlow, TLAPS, FiniteSetTheorems

-----------------------------------------------------------------------------
(* The positions of the servers.                                           *)

ExitPC == LeavingPC \cup {"stopped"}

\* The positions of a server in the loop of its role.
RolePC(s) ==
    IF s = Master THEN {"init", "loop", "boot", "bootFetch", "bootDrop", "scale",
                        "fetch", "forward", "process", "reply", "drop", "stopped"}
    ELSE IF s \in Fronts THEN {"off", "booting", "scaleIn", "short", "fetch",
                               "forward"} \cup ExitPC
    ELSE {"off", "created", "booting", "count", "length", "decide", "have",
          "process", "reply", "drop"} \cup ExitPC

PositionType ==
    /\ pc \in [Servers -> PC]
    /\ hand \in [Servers -> Requests \cup {NoRequest}]

RoleInv == \A s \in Servers : pc[s] \in RolePC(s)

(* A server that works on a request holds one.                             *)
HandInv ==
    \A s \in Servers :
        hand[s] # NoRequest <=> pc[s] \in {"forward", "have", "process", "reply", "drop"}

(* Until the master has started the first servers, it is alone.            *)
AloneInv == pc[Master] = "init" => \A s \in Servers \ {Master} : pc[s] = "off"

PositionInv == PositionType /\ RoleInv /\ HandInv /\ AloneInv

(* The booting master fetches a request to serve only while it may.        *)
ServingPC == {"bootFetch", "process", "reply"}

BootInv == pc[Master] \in ServingPC => masterProcessCount < allowedMasterProcess

Shape == TypeOK /\ PositionInv /\ BootInv

-----------------------------------------------------------------------------
(* The load balancer's list.                                               *)

\* Before registering with the load balancer, and after unexporting.
FreshPC == {"init", "off", "booting"}
GonePC  == {"delete", "gone", "stopped"}

(* A server that is unexported left the list first, or failed to.          *)
ListInv ==
    /\ \A s \in dead : pc[s] \in GonePC
    /\ \A i \in 1 .. Len(lb) :
          /\ pc[lb[i]] \notin FreshPC
          /\ pc[lb[i]] = "unexport" => lb[i] \in stale
          /\ lb[i] \in dead => lb[i] \in stale
    /\ \A i, j \in 1 .. Len(lb) : lb[i] = lb[j] => i = j

-----------------------------------------------------------------------------
(* The whereabouts of a request.                                           *)

Owed == outstanding \ lost

(* No request is in two places, and only one that is owed is in one.       *)
Distinct ==
    /\ \A f \in Fronts : \A i \in 1 .. Len(queue[f]) :
          /\ queue[f][i] \in Owed
          /\ \A g \in Fronts : \A j \in 1 .. Len(queue[g]) :
                queue[f][i] = queue[g][j] => f = g /\ i = j
          /\ \A j \in 1 .. Len(requestQueue) : queue[f][i] # requestQueue[j]
          /\ \A s \in Servers : queue[f][i] # hand[s]
    /\ \A i \in 1 .. Len(requestQueue) :
          /\ requestQueue[i] \in Owed
          /\ \A j \in 1 .. Len(requestQueue) : requestQueue[i] = requestQueue[j] => i = j
          /\ \A s \in Servers : requestQueue[i] # hand[s]
    /\ \A s \in Servers : hand[s] # NoRequest =>
          /\ hand[s] \in Owed
          /\ \A t \in Servers : hand[s] = hand[t] => s = t

(* One that is owed is somewhere.                                          *)
Placed ==
    \A r \in Owed :
        \/ \E f \in Fronts : \E i \in 1 .. Len(queue[f]) : queue[f][i] = r
        \/ \E i \in 1 .. Len(requestQueue) : requestQueue[i] = r
        \/ \E s \in Servers : hand[s] = r

-----------------------------------------------------------------------------
(* What the database and the client saw of a request.                      *)

(* Only a request that waits for its reply was executed and is not         *)
(* answered, unless its answer got lost.                                   *)
AnswerInv ==
    /\ lost \subseteq outstanding
    /\ \A r \in Requests :
          /\ executed[r] \in {0, 1}
          /\ r \in outstanding => outcome[r] = "none" /\ target[r] # NoFront
          /\ r \notin outstanding =>
                executed[r] = (IF outcome[r] = "served" THEN 1 ELSE 0)
          /\ r \in Owed =>
                (executed[r] = 1 <=> \E s \in Servers : hand[s] = r /\ pc[s] = "reply")

IInv == Shape /\ ListInv /\ Distinct /\ Placed /\ AnswerInv

-----------------------------------------------------------------------------
(* Which servers there are.                                                *)
LEMMA Roles ==
    /\ Master \in Fronts /\ FirstFront \in Fronts /\ FirstMid \in Mids
    /\ Master # FirstFront /\ NoRequest \notin Requests
    /\ Fronts \subseteq Servers /\ Mids \subseteq Servers
    /\ \A s \in Servers : s \in Mids <=> s \notin Fronts
BY FlowAssumption DEF Mids, Fronts, Servers

(* Taking the head of a sequence, and putting it at its end.               *)
LEMMA HeadAndTail ==
    ASSUME NEW S, NEW q \in Seq(S), q # << >>
    PROVE  /\ Head(q) \in S /\ Tail(q) \in Seq(S)
           /\ Append(Tail(q), Head(q)) \in Seq(S)
OBVIOUS

(* Taking one entry out of a sequence.                                     *)
LEMMA EntryRemoved ==
    ASSUME NEW S, NEW q \in Seq(S), NEW i \in 1 .. Len(q), NEW p,
           p = [j \in 1 .. Len(q) - 1 |-> IF j < i THEN q[j] ELSE q[j + 1]]
    PROVE  /\ p \in Seq(S) /\ Len(p) = Len(q) - 1
           /\ \A j \in 1 .. Len(q) - 1 : p[j] = IF j < i THEN q[j] ELSE q[j + 1]
<1>1. \A j \in 1 .. Len(q) - 1 : p[j] \in S
  OBVIOUS
<1> QED
  BY <1>1

(* The steps, by the role of the server that takes them.                   *)
LEMMA StepsByRole ==
    ASSUME Next
    PROVE  \/ \E r \in Requests : ClientStep(r)
           \/ MasterStep
           \/ \E f \in Fronts : FrontStep(f)
           \/ \E m \in Mids : Boot(m) \/ MidStep(m)
           \/ \E s \in Servers : AnswerStep(s)
           \/ \E s \in Servers \ {Master} : ShutDownStep(s)
           \/ \E s \in Servers : FailureStep(s)
BY DEF Next, ServerStep

-----------------------------------------------------------------------------
(* Every step keeps the servers in their roles, with a request in hand     *)
(* where they work on one.                                                 *)
LEMMA PositionStep ==
    ASSUME PositionInv, [Next]_vars,
           \A f \in Fronts : queue[f] \in Seq(Requests), requestQueue \in Seq(Requests)
    PROVE  PositionInv'
<1> USE Roles DEF PositionInv, PositionType, RoleInv, HandInv, AloneInv, RolePC,
                  ExitPC, LeavingPC, PC, allButPc, Goto, Hold
<1>1. ASSUME NEW r \in Requests, ClientStep(r)
      PROVE  PositionInv'
  BY <1>1 DEF ClientStep, NextFE, QueueRequest
<1>2. CASE MasterStep
  <2>1. CASE MasterHandler
    <3>1. pc' = [x \in Servers |-> IF x \in {FirstMid, FirstFront}
                                    THEN IF x = FirstMid THEN "created" ELSE "booting"
                                    ELSE IF x = Master THEN "loop" ELSE pc[x]]
      BY <2>1 DEF MasterHandler, ScaleOutAndGoto
    <3>2. pc[Master] = "init" /\ hand' = hand /\ hand[Master] = NoRequest
      BY <2>1 DEF MasterHandler
    <3>3. \A s \in Servers \ {Master} : pc[s] = "off" /\ hand[s] = NoRequest
      BY <3>2
    <3> QED
      BY <3>1, <3>2
  <2>2. CASE MasterRoutine
    BY <2>2 DEF MasterRoutine
  <2>3. CASE HandleBootingCheck
    BY <2>3 DEF HandleBootingCheck, ScaleOutAndGoto, Off
  <2>4. CASE HandleBooting
    BY <2>4 DEF HandleBooting
  <2>5. CASE BootFetch
    BY <2>5 DEF BootFetch, GetNextRequest
  <2>6. CASE BootDropHead
    <3>1. CASE queue[Master] = << >>
      BY <2>6, <3>1 DEF BootDropHead, GetNextRequest
    <3>2. CASE queue[Master] # << >>
      <4>1. Head(queue[Master]) \in Requests
        BY <3>2, HeadAndTail
      <4>2. pc[Master] = "bootDrop" /\ Goto(Master, "drop")
            /\ Hold(Master, Head(queue[Master]))
        BY <2>6, <3>2 DEF BootDropHead, GetNextRequest
      <4> QED
        BY <4>1, <4>2
    <3> QED
      BY <3>1, <3>2
  <2>7. CASE MasterMayAddFront
    <3>1. CASE Goto(Master, "loop")
      BY <2>7, <3>1 DEF MasterMayAddFront
    <3>2. ASSUME NEW f \in Off(Fronts), ScaleOutAndGoto({f}, Master, "loop")
          PROVE  PositionInv'
      BY <2>7, <3>2 DEF MasterMayAddFront, ScaleOutAndGoto, Off
    <3> QED
      BY <2>7, <3>1, <3>2 DEF MasterMayAddFront
  <2> QED
    BY <1>2, <2>1, <2>2, <2>3, <2>4, <2>5, <2>6, <2>7 DEF MasterStep
<1>3. ASSUME NEW f \in Fronts, FrontStep(f)
      PROVE  PositionInv'
  <2>1. CASE RegisterFrontend(f)
    BY <2>1 DEF RegisterFrontend
  <2>2. CASE FrontReadCount(f)
    BY <2>2 DEF FrontReadCount
  <2>3. CASE FrontScaleIn(f)
    BY <2>3 DEF FrontScaleIn
  <2>4. CASE Fetch(f)
    BY <2>4 DEF Fetch, GetNextRequest
  <2>5. CASE AddRequest(f)
    BY <2>5 DEF AddRequest
  <2> QED
    BY <1>3, <2>1, <2>2, <2>3, <2>4, <2>5 DEF FrontStep
<1>4. ASSUME NEW m \in Mids, Boot(m) \/ MidStep(m)
      PROVE  PositionInv'
  <2>1. CASE Boot(m)
    BY <2>1 DEF Boot
  <2>2. CASE MidReadCount(m)
    BY <2>2 DEF MidReadCount
  <2>3. CASE MidReadLength(m)
    BY <2>3 DEF MidReadLength
  <2>4. CASE MidScaleIn(m)
    BY <2>4 DEF MidScaleIn
  <2>5. CASE PollRequest(m)
    <3>1. CASE requestQueue = << >>
      BY <2>5, <3>1 DEF PollRequest
    <3>2. CASE requestQueue # << >>
      <4>1. Head(requestQueue) \in Requests
        BY <3>2, HeadAndTail
      <4> QED
        BY <2>5, <3>2, <4>1 DEF PollRequest
    <3> QED
      BY <3>1, <3>2
  <2>6. CASE DropFastRequest(m)
    BY <2>6 DEF DropFastRequest
  <2>7. CASE MidScaleOut(m)
    BY <2>7 DEF MidScaleOut, ScaleOutAndGoto, Off
  <2>8. CASE MidServe(m)
    BY <2>8 DEF MidServe
  <2> QED
    BY <1>4, <2>1, <2>2, <2>3, <2>4, <2>5, <2>6, <2>7, <2>8 DEF MidStep
<1>5. ASSUME NEW s \in Servers, AnswerStep(s)
      PROVE  PositionInv'
  <2>1. CASE Process(s)
    BY <2>1 DEF Process
  <2>2. CASE ReplyServed(s)
    BY <2>2 DEF ReplyServed, Processed
  <2>3. CASE ReplyDropped(s)
    BY <2>3 DEF ReplyDropped
  <2> QED
    BY <1>5, <2>1, <2>2, <2>3 DEF AnswerStep
<1>6. ASSUME NEW s \in Servers \ {Master}, ShutDownStep(s)
      PROVE  PositionInv'
  BY <1>6 DEF ShutDownStep, Unregister, Unexport, DeleteVMFromMap
<1>7. ASSUME NEW s \in Servers, FailureStep(s)
      PROVE  PositionInv'
  <2>1. CASE ServerStops(s)
    BY <2>1 DEF ServerStops, MayStop
  <2>2. CASE ProcessFails(s)
    BY <2>2 DEF ProcessFails, Processed
  <2>3. CASE BootFetchNull
    BY <2>3 DEF BootFetchNull, Processed
  <2> QED
    BY <1>7, <2>1, <2>2, <2>3 DEF FailureStep
<1>8. CASE UNCHANGED vars
  BY <1>8 DEF vars
<1> QED
  BY <1>1, <1>2, <1>3, <1>4, <1>5, <1>6, <1>7, <1>8, StepsByRole

-----------------------------------------------------------------------------
(* The moves of a request, from tier to tier.                              *)

Enter(r, f) ==
    /\ r \notin Owed /\ Owed' = Owed \cup {r}
    /\ queue' = [queue EXCEPT ![f] = Append(queue[f], r)]
    /\ UNCHANGED <<requestQueue, hand>>

Take(f) ==
    /\ hand[f] = NoRequest /\ queue[f] # << >>
    /\ hand' = [hand EXCEPT ![f] = Head(queue[f])]
    /\ queue' = [queue EXCEPT ![f] = Tail(queue[f])]
    /\ requestQueue' = requestQueue /\ Owed' = Owed

Pass(f) ==
    /\ hand[f] # NoRequest
    /\ requestQueue' = Append(requestQueue, hand[f])
    /\ hand' = [hand EXCEPT ![f] = NoRequest]
    /\ queue' = queue /\ Owed' = Owed

Poll(m) ==
    /\ hand[m] = NoRequest /\ requestQueue # << >>
    /\ hand' = [hand EXCEPT ![m] = Head(requestQueue)]
    /\ requestQueue' = Tail(requestQueue)
    /\ queue' = queue /\ Owed' = Owed

Release(s) ==
    /\ hand' = [hand EXCEPT ![s] = NoRequest]
    /\ Owed' = Owed \ {hand[s]}
    /\ queue' = queue /\ requestQueue' = requestQueue

Stay == UNCHANGED <<queue, requestQueue, hand>> /\ Owed' = Owed

(* Every step moves one request, or none.                                  *)
LEMMA Moves ==
    ASSUME TypeOK, PositionInv, lost \subseteq outstanding, Next
    PROVE  \/ Stay
           \/ \E r \in Requests, f \in Fronts : Enter(r, f)
           \/ \E f \in Fronts : Take(f) \/ Pass(f)
           \/ \E m \in Mids : Poll(m)
           \/ \E s \in Servers : Release(s)
<1>1. ASSUME NEW r \in Requests, ClientStep(r)
      PROVE  Stay \/ \E f \in Fronts : Enter(r, f)
  <2>1. CASE NextFE(r)
    BY <2>1 DEF NextFE, Stay, Owed, historyVars, failVars
  <2>2. CASE QueueRequest(r) /\ target[r] \in dead
    BY <2>2 DEF QueueRequest, Stay, Owed, historyVars, failVars
  <2>3. CASE QueueRequest(r) /\ target[r] \notin dead
    <3>1. target[r] \in Fronts
      BY <2>3 DEF QueueRequest, TypeOK
    <3>2. Enter(r, target[r])
      BY <2>3 DEF QueueRequest, Enter, Owed, historyVars, failVars
    <3> QED
      BY <3>1, <3>2
  <2> QED
    BY <1>1, <2>1, <2>2, <2>3 DEF ClientStep
<1>2. ASSUME NEW f \in Fronts, NEW l, GetNextRequest(f, l), pc[f] \in {"fetch", "bootFetch", "bootDrop"}
      PROVE  Take(f)
  BY <1>2, Roles DEF GetNextRequest, Hold, Take, Owed, PositionInv, PositionType, HandInv,
     cloudVars, historyVars, failVars
<1>3. ASSUME NEW f \in Fronts, FrontStep(f)
      PROVE  Stay \/ Take(f) \/ Pass(f)
  <2>1. CASE Fetch(f)
    BY <1>2, <2>1 DEF Fetch
  <2>2. CASE AddRequest(f)
    <3>1. hand[f] # NoRequest
      BY <2>2, Roles DEF AddRequest, PositionInv, HandInv
    <3> QED
      BY <2>2, <3>1 DEF AddRequest, Hold, Pass, Owed, edgeVars, cloudVars, historyVars, failVars
  <2>3. CASE RegisterFrontend(f)
    BY <2>3 DEF RegisterFrontend, CallRegister, Stay, Owed, cloudVars, failVars
  <2> QED
    BY <1>3, <2>1, <2>2, <2>3 DEF FrontStep, FrontReadCount, FrontScaleIn, Stay, Owed,
       edgeVars, cloudVars, historyVars, failVars
<1>4. CASE MasterStep
  <2>1. CASE BootFetch
    BY <1>2, <2>1, Roles DEF BootFetch
  <2>2. CASE BootDropHead
    BY <1>2, <2>2, Roles DEF BootDropHead, Stay, Owed, allButPc, edgeVars, cloudVars,
       historyVars, failVars
  <2>3. CASE MasterHandler
    BY <2>3 DEF MasterHandler, CallRegister, Stay, Owed, cloudVars, failVars
  <2>4. CASE MasterRoutine
    BY <2>4 DEF MasterRoutine, Stay, Owed, edgeVars, cloudVars, failVars
  <2> QED
    BY <1>4, <2>1, <2>2, <2>3, <2>4 DEF MasterStep, HandleBootingCheck, HandleBooting,
       MasterMayAddFront, Stay, Owed, allButPc, edgeVars, cloudVars, historyVars, failVars
<1>5. ASSUME NEW m \in Mids, Boot(m) \/ MidStep(m)
      PROVE  Stay \/ Poll(m)
  <2>1. CASE PollRequest(m)
    <3>1. hand[m] = NoRequest
      BY <2>1, Roles DEF PollRequest, PositionInv, HandInv
    <3> QED
      BY <2>1, <3>1 DEF PollRequest, Hold, Poll, Stay, Owed, edgeVars, cloudVars,
         historyVars, failVars
  <2> QED
    BY <1>5, <2>1 DEF Boot, MidStep, MidReadCount, MidReadLength, MidScaleIn,
       DropFastRequest, MidScaleOut, MidServe, Stay, Owed, allButPc, edgeVars, cloudVars,
       historyVars, failVars
<1>6. ASSUME NEW s \in Servers, AnswerStep(s)
      PROVE  Stay \/ Release(s)
  <2>1. CASE Process(s)
    BY <2>1 DEF Process, Stay, Owed, edgeVars, cloudVars, failVars
  <2>2. ASSUME NEW a, CallSendReply(s, a), hand[s] \in Requests
        PROVE  Owed' = Owed \ {hand[s]}
    BY <2>2 DEF CallSendReply, Reply, Lose, Owed, cloudVars, failVars
  <2>3. pc[s] \in {"reply", "drop"} => hand[s] \in Requests
    BY DEF PositionInv, PositionType, HandInv
  <2>4. CASE ReplyServed(s)
    BY <2>2, <2>3, <2>4 DEF ReplyServed, Processed, Hold, Release
  <2>5. CASE ReplyDropped(s)
    BY <2>2, <2>3, <2>5 DEF ReplyDropped, Hold, Release
  <2> QED
    BY <1>6, <2>1, <2>4, <2>5 DEF AnswerStep
<1>7. ASSUME NEW s \in Servers, ShutDownStep(s)
      PROVE  Stay
  BY <1>7 DEF ShutDownStep, Unregister, Unexport, DeleteVMFromMap, Stay, Owed, edgeVars,
     cloudVars, historyVars, failVars
<1>8. ASSUME NEW s \in Servers, FailureStep(s)
      PROVE  Release(s)
  <2>1. CASE ServerStops(s)
    BY <2>1 DEF ServerStops, Lose, Hold, Release, Owed, edgeVars, cloudVars, TypeOK
  <2>2. CASE ProcessFails(s)
    BY <2>2 DEF ProcessFails, Processed, Lose, Hold, Release, Owed, cloudVars, TypeOK
  <2>3. CASE s = Master /\ BootFetchNull
    <3>1. hand[s] = NoRequest
      BY <2>3 DEF BootFetchNull, PositionInv, HandInv
    <3> QED
      BY <2>3, <3>1, Roles DEF BootFetchNull, Processed, Hold, Release, Owed, cloudVars, TypeOK
  <2> QED
    BY <1>8, <2>1, <2>2, <2>3 DEF FailureStep
<1> QED
  BY <1>1, <1>3, <1>4, <1>5, <1>6, <1>7, <1>8, Roles, StepsByRole

-----------------------------------------------------------------------------
(* Every step keeps the types, and the booting master's count below its    *)
(* limit.  Each group of variables is changed by a few steps only.         *)
LEMMA ListSteps ==
    ASSUME Next
    PROVE  \/ UNCHANGED lb
           \/ \E r \in Requests : NextFE(r)
           \/ \E f \in Fronts : RegisterFrontend(f)
           \/ MasterHandler
           \/ \E s \in Servers : Unregister(s)
BY DEF Next, ClientStep, ServerStep, MasterStep, FrontStep, MidStep,
   AnswerStep, ShutDownStep, FailureStep, QueueRequest, Boot, FrontReadCount,
   FrontScaleIn, Fetch, GetNextRequest, AddRequest, MasterRoutine, HandleBootingCheck,
   HandleBooting, BootFetch, BootDropHead, MasterMayAddFront, ReplyServed, ReplyDropped,
   Process, Processed, MidReadCount, MidReadLength, MidScaleIn, PollRequest,
   DropFastRequest, MidScaleOut, MidServe, Unexport, DeleteVMFromMap, ServerStops,
   ProcessFails, BootFetchNull, clientVars, edgeVars, allButPc

LEMMA ListTypeStep ==
    ASSUME TypeOK, Next
    PROVE  lb' \in Seq(Fronts) /\ target' \in [Requests -> Fronts \cup {NoFront}]
<1>1. lb \in Seq(Fronts) /\ target \in [Requests -> Fronts \cup {NoFront}]
  BY DEF TypeOK
<1>2. UNCHANGED target \/ \E r \in Requests : NextFE(r)
  BY DEF Next, ClientStep, ServerStep, MasterStep, FrontStep, MidStep,
     AnswerStep, ShutDownStep, FailureStep, QueueRequest, Boot, FrontReadCount,
     FrontScaleIn, Fetch, GetNextRequest, AddRequest, MasterRoutine, HandleBootingCheck,
     HandleBooting, BootFetch, BootDropHead, MasterMayAddFront, ReplyServed, ReplyDropped,
     Process, Processed, MidReadCount, MidReadLength, MidScaleIn, PollRequest,
     DropFastRequest, MidScaleOut, MidServe, Unexport, DeleteVMFromMap, ServerStops,
     Unregister, RegisterFrontend, MasterHandler, ProcessFails, BootFetchNull, clientVars, edgeVars, allButPc
<1>3. ASSUME NEW r \in Requests, NextFE(r)
      PROVE  lb' \in Seq(Fronts) /\ target' \in [Requests -> Fronts \cup {NoFront}]
  <2>1. CASE lb = << >>
    BY <1>1, <1>3, <2>1 DEF NextFE, clientVars
  <2>2. CASE lb # << >>
    BY <1>1, <1>3, <2>2, HeadAndTail DEF NextFE, clientVars
  <2> QED
    BY <2>1, <2>2
<1>4. ASSUME NEW f \in Fronts, CallRegister(f) \/ DelFE(f)
      PROVE  lb' \in Seq(Fronts)
  BY <1>1, <1>4, EntryRemoved DEF CallRegister, DelFE
<1>5. ASSUME NEW s \in Servers, Unregister(s)
      PROVE  lb' \in Seq(Fronts)
  <2>1. DelFE(s) \/ UNCHANGED lb
    BY <1>5 DEF Unregister
  <2>2. CASE s \notin Fronts
    <3>1. \A i \in 1 .. Len(lb) : lb[i] # s
      BY <1>1, <2>2
    <3> QED
      BY <1>1, <2>1, <3>1 DEF DelFE
  <2> QED
    BY <1>1, <1>4, <2>1, <2>2
<1>6. ASSUME NEW f \in Fronts, RegisterFrontend(f)
      PROVE  lb' \in Seq(Fronts)
  BY <1>4, <1>6 DEF RegisterFrontend
<1>7. ASSUME MasterHandler
      PROVE  lb' \in Seq(Fronts)
  BY <1>4, <1>7, Roles DEF MasterHandler
<1> QED
  BY <1>1, <1>2, <1>3, <1>5, <1>6, <1>7, ListSteps

LEMMA QueueTypeStep ==
    ASSUME TypeOK, PositionInv, lost \subseteq outstanding, Next
    PROVE  queue' \in [Fronts -> Seq(Requests)] /\ requestQueue' \in Seq(Requests)
<1>1. /\ queue \in [Fronts -> Seq(Requests)] /\ requestQueue \in Seq(Requests)
      /\ hand \in [Servers -> Requests \cup {NoRequest}]
  BY DEF TypeOK
<1>2. ASSUME NEW r \in Requests, NEW f \in Fronts, Enter(r, f)
      PROVE  queue' \in [Fronts -> Seq(Requests)] /\ requestQueue' = requestQueue
  <2>1. Append(queue[f], r) \in Seq(Requests)
    BY <1>1
  <2> QED
    BY <1>1, <1>2, <2>1 DEF Enter
<1>3. ASSUME NEW f \in Fronts, Take(f)
      PROVE  queue' \in [Fronts -> Seq(Requests)] /\ requestQueue' = requestQueue
  <2>1. Tail(queue[f]) \in Seq(Requests)
    BY <1>1, <1>3, HeadAndTail DEF Take
  <2> QED
    BY <1>1, <1>3, <2>1 DEF Take
<1>4. ASSUME NEW f \in Fronts, Pass(f)
      PROVE  queue' = queue /\ requestQueue' \in Seq(Requests)
  BY <1>1, <1>4, Roles DEF Pass
<1>5. ASSUME NEW m \in Mids, Poll(m)
      PROVE  queue' = queue /\ requestQueue' \in Seq(Requests)
  BY <1>1, <1>5, HeadAndTail DEF Poll
<1> QED
  BY <1>1, <1>2, <1>3, <1>4, <1>5, Moves DEF Stay, Release

LEMMA CloudTypeStep ==
    ASSUME TypeOK, PositionInv, Next
    PROVE  /\ outstanding' \subseteq Requests
           /\ outcome' \in [Requests -> {"none", "failed", "served", "dropped"}]
           /\ dead' \subseteq Servers \ {Master}
           /\ lost' \subseteq Requests /\ stale' \subseteq Servers
           /\ failures' \in 0 .. MaxFailures
<1>1. /\ outstanding \subseteq Requests
      /\ outcome \in [Requests -> {"none", "failed", "served", "dropped"}]
      /\ dead \subseteq Servers \ {Master}
      /\ lost \subseteq Requests /\ stale \subseteq Servers
      /\ failures \in 0 .. MaxFailures
  BY DEF TypeOK
<1>2. /\ outstanding' \subseteq Requests
      /\ outcome' \in [Requests -> {"none", "failed", "served", "dropped"}]
  <2>1. \/ UNCHANGED cloudVars
        \/ \E r \in Requests : NextFE(r) \/ QueueRequest(r)
        \/ \E s \in Servers : Reply(hand[s], "served") \/ Reply(hand[s], "dropped")
    BY DEF Next, ClientStep, ServerStep, MasterStep, FrontStep, MidStep,
       AnswerStep, ShutDownStep, FailureStep, Boot, RegisterFrontend,
       FrontReadCount, FrontScaleIn, Fetch, GetNextRequest, AddRequest,
       MasterHandler, MasterRoutine, HandleBootingCheck, HandleBooting, BootFetch,
       BootDropHead, MasterMayAddFront, Process, ReplyServed, ReplyDropped,
       CallSendReply, MidReadCount, MidReadLength, MidScaleIn, PollRequest,
       DropFastRequest, MidScaleOut, MidServe, Unregister, Unexport, DeleteVMFromMap,
       ServerStops, ProcessFails, BootFetchNull, edgeVars, allButPc
  <2>2. ASSUME NEW r \in Requests, NextFE(r) \/ QueueRequest(r)
        PROVE  /\ outstanding' \subseteq Requests
               /\ outcome' \in [Requests -> {"none", "failed", "served", "dropped"}]
    BY <1>1, <2>2 DEF NextFE, QueueRequest
  <2> QED
    BY <1>1, <2>1, <2>2 DEF Reply, cloudVars
<1>3. UNCHANGED dead \/ \E s \in Servers \ {Master} : Unexport(s)
  BY DEF Next, ClientStep, ServerStep, MasterStep, FrontStep, MidStep, NextFE,
     QueueRequest, AnswerStep, ShutDownStep, FailureStep, Boot, RegisterFrontend,
     FrontReadCount, FrontScaleIn, Fetch, GetNextRequest, AddRequest,
     MasterHandler, MasterRoutine, HandleBootingCheck, HandleBooting, BootFetch,
     BootDropHead, MasterMayAddFront, Process, ReplyServed, ReplyDropped,
     MidReadCount, MidReadLength, MidScaleIn, PollRequest, Processed,
     DropFastRequest, MidScaleOut, MidServe, Unregister, DeleteVMFromMap,
     ServerStops, ProcessFails, BootFetchNull, edgeVars, allButPc
<1>4. /\ UNCHANGED lost \/ \E s \in Servers : Lose({hand[s]})
      /\ UNCHANGED stale \/ \E s \in Servers : stale' = stale \cup {s}
  BY DEF Next, ClientStep, ServerStep, MasterStep, FrontStep, MidStep, NextFE,
     QueueRequest, AnswerStep, ShutDownStep, FailureStep, Boot, RegisterFrontend,
     FrontReadCount, FrontScaleIn, Fetch, GetNextRequest, AddRequest,
     MasterHandler, MasterRoutine, HandleBootingCheck, HandleBooting, BootFetch,
     BootDropHead, MasterMayAddFront, Process, ReplyServed, ReplyDropped, CallRegister,
     CallSendReply, MidReadCount, MidReadLength, MidScaleIn, PollRequest, Processed,
     DropFastRequest, MidScaleOut, MidServe, Unregister, Unexport, DeleteVMFromMap,
     ServerStops, ProcessFails, BootFetchNull, edgeVars, allButPc, historyVars, failVars
<1>5. UNCHANGED failures \/ Fail
  BY DEF Next, ClientStep, ServerStep, MasterStep, FrontStep, MidStep, NextFE,
     QueueRequest, AnswerStep, ShutDownStep, FailureStep, Boot, RegisterFrontend,
     FrontReadCount, FrontScaleIn, Fetch, GetNextRequest, AddRequest,
     MasterHandler, MasterRoutine, HandleBootingCheck, HandleBooting, BootFetch,
     BootDropHead, MasterMayAddFront, Process, ReplyServed, ReplyDropped, CallRegister,
     CallSendReply, MidReadCount, MidReadLength, MidScaleIn, PollRequest, Processed,
     DropFastRequest, MidScaleOut, MidServe, Unregister, Unexport, DeleteVMFromMap,
     ServerStops, ProcessFails, BootFetchNull, edgeVars, allButPc, historyVars, failVars
<1>6. dead' \subseteq Servers \ {Master}
  BY <1>1, <1>3 DEF Unexport
<1>7. lost' \subseteq Requests /\ stale' \subseteq Servers
  BY <1>1, <1>4 DEF Lose
<1>8. failures' \in 0 .. MaxFailures
  BY <1>1, <1>5, FlowAssumption DEF Fail
<1> QED
  BY <1>2, <1>6, <1>7, <1>8

LEMMA ReadingTypeStep ==
    ASSUME TypeOK, PositionInv, Next
    PROVE  /\ registered' \subseteq Servers /\ clocked' \subseteq Mids
           /\ cnt' \in [Servers -> Nat] /\ len' \in [Servers -> Nat]
           /\ shortQueueCount' \in [Fronts -> 0 .. ShortLimit + 1]
<1>1. /\ registered \subseteq Servers /\ clocked \subseteq Mids
      /\ cnt \in [Servers -> Nat] /\ len \in [Servers -> Nat]
      /\ shortQueueCount \in [Fronts -> 0 .. ShortLimit + 1]
  BY DEF TypeOK
<1>2. registered' \subseteq Servers
  <2>1. \/ UNCHANGED registered
        \/ MasterHandler \/ HandleBootingCheck \/ MasterMayAddFront
        \/ \E m \in Mids : MidScaleOut(m)
        \/ \E s \in Servers : DeleteVMFromMap(s)
    BY DEF Next, ClientStep, ServerStep, MasterStep, FrontStep,
       MidStep, AnswerStep, ShutDownStep, FailureStep, NextFE, QueueRequest, Boot,
       RegisterFrontend, FrontReadCount, FrontScaleIn, Fetch, GetNextRequest,
       AddRequest, MasterRoutine, HandleBooting, BootFetch, BootDropHead, Process,
       ReplyServed, ReplyDropped, Processed, MidReadCount, MidReadLength,
       MidScaleIn, PollRequest, DropFastRequest, MidServe, Unregister, Unexport,
       ServerStops, ProcessFails, BootFetchNull, allButPc
  <2>2. ASSUME MasterHandler
        PROVE  \E S \in SUBSET Servers : registered' = registered \cup S
    BY <2>2, Roles DEF MasterHandler, ScaleOutAndGoto
  <2>3. ASSUME HandleBootingCheck
        PROVE  \E S \in SUBSET Servers : registered' = registered \cup S
    <3>1. PICK S \in SUBSET Servers : ScaleOutAndGoto(S, Master, "boot")
      <4>1. \A f \in Off(Fronts) : {f} \cup Off(Mids) \in SUBSET Servers
        BY Roles DEF Off
      <4>2. \A m \in Off(Mids) : {m} \in SUBSET Servers
        BY Roles DEF Off
      <4> QED
        BY <2>3, <4>1, <4>2 DEF HandleBootingCheck
    <3> QED
      BY <3>1 DEF ScaleOutAndGoto
  <2>4. ASSUME NEW m \in Mids, MidScaleOut(m)
        PROVE  \E S \in SUBSET Servers : registered' = registered \cup S
    <3>1. PICK S \in SUBSET Servers : ScaleOutAndGoto(S, m, "drop")
      BY <2>4, Roles DEF MidScaleOut, Off
    <3> QED
      BY <3>1 DEF ScaleOutAndGoto
  <2>5. ASSUME MasterMayAddFront
        PROVE  \E S \in SUBSET Servers : registered' = registered \cup S
    <3>1. \/ UNCHANGED registered
          \/ \E S \in SUBSET Servers : ScaleOutAndGoto(S, Master, "loop")
      BY <2>5, Roles DEF MasterMayAddFront, Off
    <3> QED
      BY <1>1, <3>1 DEF ScaleOutAndGoto
  <2> QED
    BY <1>1, <2>1, <2>2, <2>3, <2>4, <2>5 DEF DeleteVMFromMap
<1>3. clocked' \subseteq Mids
  <2>1. \/ UNCHANGED clocked
        \/ \E s \in Servers : pc[s] \in {"process", "reply"} /\ Processed(s)
        \/ BootFetchNull
        \/ \E m \in Mids : PollRequest(m)
    BY DEF Next, ClientStep, ServerStep, MasterStep, FrontStep, MidStep,
       AnswerStep, ShutDownStep, FailureStep, NextFE, QueueRequest, Boot,
       RegisterFrontend, FrontReadCount, FrontScaleIn, Fetch, GetNextRequest,
       AddRequest, MasterHandler, MasterRoutine, HandleBootingCheck, HandleBooting,
       BootFetch, BootDropHead, MasterMayAddFront, Process, ReplyServed,
       ReplyDropped, MidReadCount, MidReadLength, MidScaleIn, DropFastRequest,
       MidScaleOut, MidServe, Unregister, Unexport, DeleteVMFromMap, ServerStops,
       ProcessFails, localVars, staticVars, allButPc
  <2>2. ASSUME NEW s \in Servers, pc[s] \in {"process", "reply"}, Processed(s)
        PROVE  clocked' \subseteq Mids
    BY <1>1, <2>2, Roles DEF Processed, PositionInv, RoleInv, RolePC, ExitPC, LeavingPC
  <2> QED
    BY <1>1, <2>1, <2>2 DEF BootFetchNull, Processed, PollRequest
<1>4. cnt' \in [Servers -> Nat] /\ len' \in [Servers -> Nat]
  <2>1. \/ UNCHANGED <<cnt, len>>
        \/ \E s \in Servers : Forget(s)
        \/ \E f \in Fronts : FrontReadCount(f)
        \/ \E m \in Mids : MidReadCount(m) \/ MidReadLength(m)
    <3>1. ASSUME NEW r \in Requests, ClientStep(r)
          PROVE  UNCHANGED <<cnt, len>>
      BY <3>1 DEF ClientStep, NextFE, QueueRequest, localVars
    <3>2. ASSUME MasterStep
          PROVE  UNCHANGED <<cnt, len>>
      BY <3>2 DEF MasterStep, MasterHandler, MasterRoutine, HandleBootingCheck,
         HandleBooting, BootFetch, BootDropHead, GetNextRequest, MasterMayAddFront,
         localVars, allButPc
    <3>3. ASSUME NEW f \in Fronts, FrontStep(f)
          PROVE  UNCHANGED <<cnt, len>> \/ Forget(f) \/ FrontReadCount(f)
      BY <3>3 DEF FrontStep, RegisterFrontend, FrontScaleIn, Fetch, GetNextRequest,
         AddRequest, localVars
    <3>4. ASSUME NEW m \in Mids, Boot(m) \/ MidStep(m)
          PROVE  \/ UNCHANGED <<cnt, len>>
                 \/ Forget(m) \/ MidReadCount(m) \/ MidReadLength(m)
      BY <3>4 DEF Boot, MidStep, MidScaleIn, PollRequest, DropFastRequest, MidScaleOut,
         MidServe, localVars, allButPc
    <3>5. ASSUME NEW s \in Servers, AnswerStep(s) \/ ShutDownStep(s)
          PROVE  UNCHANGED <<cnt, len>>
      BY <3>5 DEF AnswerStep, Process, ReplyServed, ReplyDropped, Processed, ShutDownStep,
         Unregister, Unexport, DeleteVMFromMap, localVars
    <3>6. ASSUME NEW s \in Servers, FailureStep(s)
          PROVE  UNCHANGED <<cnt, len>> \/ Forget(s)
      BY <3>6 DEF FailureStep, ServerStops, ProcessFails, BootFetchNull, Processed
    <3> QED
      BY <3>1, <3>2, <3>3, <3>4, <3>5, <3>6, StepsByRole, Roles
  <2>2. VMCount(Fronts) \in Nat /\ VMCount(Mids) \in Nat /\ Len(requestQueue) \in Nat
    <3>1. IsFiniteSet(registered \cap Fronts) /\ IsFiniteSet(registered \cap Mids)
      BY <1>1, FlowAssumption, FS_Subset
    <3> QED
      BY <3>1, FS_CardinalityType DEF VMCount, TypeOK
  <2>3. \A s \in Servers : \A n \in Nat :
           /\ [cnt EXCEPT ![s] = n] \in [Servers -> Nat]
           /\ [len EXCEPT ![s] = n] \in [Servers -> Nat]
    BY <1>1
  <2>4. ASSUME NEW s \in Servers, Forget(s)
        PROVE  cnt' \in [Servers -> Nat] /\ len' \in [Servers -> Nat]
    BY <2>3, <2>4 DEF Forget
  <2>5. ASSUME NEW f \in Fronts, FrontReadCount(f)
        PROVE  cnt' \in [Servers -> Nat] /\ len' \in [Servers -> Nat]
    BY <1>1, <2>2, <2>3, <2>5, Roles DEF FrontReadCount
  <2>6. ASSUME NEW m \in Mids, MidReadCount(m) \/ MidReadLength(m)
        PROVE  cnt' \in [Servers -> Nat] /\ len' \in [Servers -> Nat]
    <3>1. m \in Servers
      BY Roles
    <3>2. /\ cnt' \in {cnt, [cnt EXCEPT ![m] = VMCount(Mids)]}
          /\ len' \in {len, [len EXCEPT ![m] = Len(requestQueue)]}
      BY <2>6 DEF MidReadCount, MidReadLength
    <3> QED
      BY <1>1, <2>2, <2>3, <3>1, <3>2
  <2> QED
    BY <1>1, <2>1, <2>4, <2>5, <2>6
<1>5. shortQueueCount' \in [Fronts -> 0 .. ShortLimit + 1]
  <2>1. UNCHANGED shortQueueCount \/ \E f \in Fronts : FrontScaleIn(f)
    BY DEF Next, ClientStep, ServerStep, MasterStep, FrontStep, MidStep,
       AnswerStep, ShutDownStep, FailureStep, NextFE, QueueRequest, Boot,
       RegisterFrontend, FrontReadCount, Fetch, GetNextRequest, Processed,
       AddRequest, MasterHandler, MasterRoutine, HandleBootingCheck, HandleBooting,
       BootFetch, BootDropHead, MasterMayAddFront, Process, ReplyServed, PollRequest,
       ReplyDropped, MidReadCount, MidReadLength, MidScaleIn, DropFastRequest,
       MidScaleOut, MidServe, Unregister, Unexport, DeleteVMFromMap, ServerStops,
       ProcessFails, BootFetchNull, localVars, staticVars, allButPc
  <2>2. ASSUME NEW f \in Fronts, FrontScaleIn(f)
        PROVE  shortQueueCount' \in [Fronts -> 0 .. ShortLimit + 1]
    <3>1. ShortLimit \in Nat /\ shortQueueCount[f] \in 0 .. ShortLimit + 1
      BY <1>1, FlowAssumption
    <3>2. PICK c : /\ shortQueueCount' = [shortQueueCount EXCEPT ![f] = c]
                   /\ c = IF Len(requestQueue) < 2
                            THEN IF shortQueueCount[f] > ShortLimit
                                   THEN shortQueueCount[f] ELSE shortQueueCount[f] + 1
                            ELSE 0
      BY <2>2 DEF FrontScaleIn
    <3>3. c \in 0 .. ShortLimit + 1
      BY <3>1, <3>2
    <3> QED
      BY <1>1, <3>2, <3>3
  <2> QED
    BY <1>1, <2>1, <2>2
<1> QED
  BY <1>2, <1>3, <1>4, <1>5

(* How the booting master's count and its limit change.                    *)
LEMMA BootChanges ==
    ASSUME PositionInv, Next
    PROVE  \/ UNCHANGED bootVars /\ (pc'[Master] \in ServingPC => pc[Master] \in ServingPC)
           \/ HandleBooting
           \/ HandleBootingCheck /\ pc'[Master] = "boot"
           \/ /\ pc[Master] \in ServingPC /\ Processed(Master)
              /\ pc'[Master] \in {"loop", "bootDrop"}
<1> USE Roles DEF PositionInv, PositionType, RoleInv, RolePC, ServingPC, Goto,
                  localVars, staticVars, bootVars, allButPc, vars
<1> DEFINE Kept == /\ UNCHANGED bootVars
                   /\ pc'[Master] \in ServingPC => pc[Master] \in ServingPC
<1>1. ASSUME NEW r \in Requests, ClientStep(r) PROVE Kept
  BY <1>1 DEF ClientStep, NextFE, QueueRequest
<1>2. CASE MasterStep
  <2>1. CASE MasterHandler \/ MasterRoutine
    BY <2>1 DEF MasterHandler, MasterRoutine, ScaleOutAndGoto
  <2>2. CASE HandleBootingCheck
    BY <2>2 DEF HandleBootingCheck, ScaleOutAndGoto, Off
  <2>3. CASE BootFetch
    BY <2>3 DEF BootFetch, GetNextRequest
  <2>4. CASE BootDropHead
    BY <2>4 DEF BootDropHead, GetNextRequest
  <2>5. CASE MasterMayAddFront
    BY <2>5 DEF MasterMayAddFront, ScaleOutAndGoto, Off
  <2> QED
    BY <1>2, <2>1, <2>2, <2>3, <2>4, <2>5 DEF MasterStep
<1>3. ASSUME NEW f \in Fronts, FrontStep(f) PROVE Kept
  <2>1. CASE Fetch(f)
    BY <2>1 DEF Fetch, GetNextRequest
  <2> QED
    BY <1>3, <2>1 DEF FrontStep, RegisterFrontend, FrontReadCount, FrontScaleIn,
       AddRequest
<1>4. ASSUME NEW m \in Mids, Boot(m) \/ MidStep(m) PROVE Kept
  <2>1. CASE MidScaleOut(m)
    BY <2>1 DEF MidScaleOut, ScaleOutAndGoto, Off
  <2>2. CASE PollRequest(m)
    BY <2>2 DEF PollRequest
  <2> QED
    BY <1>4, <2>1, <2>2 DEF MidStep, Boot, MidReadCount, MidReadLength, MidScaleIn,
       DropFastRequest, MidServe
<1>5. ASSUME NEW s \in Servers, AnswerStep(s)
      PROVE  \/ Kept
             \/ /\ pc[Master] \in ServingPC /\ Processed(Master)
                /\ pc'[Master] \in {"loop", "bootDrop"}
  <2>1. CASE Process(s)
    BY <2>1 DEF Process
  <2>2. CASE ReplyServed(s)
    <3>1. CASE s = Master
      BY <2>2, <3>1 DEF ReplyServed, Processed
    <3>2. CASE s # Master
      BY <2>2, <3>2 DEF ReplyServed, Processed
    <3> QED
      BY <3>1, <3>2
  <2>3. CASE ReplyDropped(s)
    BY <2>3 DEF ReplyDropped
  <2> QED
    BY <1>5, <2>1, <2>2, <2>3 DEF AnswerStep
<1>6. ASSUME NEW s \in Servers \ {Master}, ShutDownStep(s) PROVE Kept
  BY <1>6 DEF ShutDownStep, Unregister, Unexport, DeleteVMFromMap
<1>7. ASSUME NEW s \in Servers, FailureStep(s)
      PROVE  \/ Kept
             \/ /\ pc[Master] \in ServingPC /\ Processed(Master)
                /\ pc'[Master] \in {"loop", "bootDrop"}
  <2>1. CASE ServerStops(s)
    BY <2>1 DEF ServerStops
  <2>2. CASE ProcessFails(s)
    <3>1. CASE s = Master
      BY <2>2, <3>1 DEF ProcessFails, Processed
    <3>2. CASE s # Master
      BY <2>2, <3>2 DEF ProcessFails, Processed
    <3> QED
      BY <3>1, <3>2
  <2>3. CASE BootFetchNull
    BY <2>3 DEF BootFetchNull, Processed
  <2> QED
    BY <1>7, <2>1, <2>2, <2>3 DEF FailureStep
<1> QED
  BY <1>1, <1>2, <1>3, <1>4, <1>5, <1>6, <1>7, StepsByRole

(* The booting master never serves a request too many.                     *)
LEMMA BootStep ==
    ASSUME TypeOK, PositionInv, BootInv, Next
    PROVE  /\ allowedMasterProcess' \in {Allowed, AllowedInBurst}
           /\ masterProcessCount' \in 0 .. allowedMasterProcess'
           /\ rateChecked' \in BOOLEAN
           /\ BootInv'
<1> USE FlowAssumption DEF BootInv
<1>1. /\ allowedMasterProcess \in {Allowed, AllowedInBurst}
      /\ masterProcessCount \in 0 .. allowedMasterProcess
      /\ rateChecked \in BOOLEAN /\ allowedMasterProcess \in Nat
  BY DEF TypeOK
<1>2. CASE /\ UNCHANGED bootVars
           /\ pc'[Master] \in ServingPC => pc[Master] \in ServingPC
  BY <1>1, <1>2 DEF bootVars
<1>3. CASE HandleBooting
  BY <1>1, <1>3, Roles DEF HandleBooting, Goto, allButPc, localVars, staticVars, bootVars,
     PositionInv, PositionType, ServingPC
<1>4. CASE HandleBootingCheck /\ pc'[Master] = "boot"
  BY <1>1, <1>4 DEF HandleBootingCheck, ServingPC
<1>5. CASE /\ pc[Master] \in ServingPC /\ Processed(Master)
           /\ pc'[Master] \in {"loop", "bootDrop"}
  BY <1>1, <1>5 DEF Processed, ServingPC
<1> QED
  BY <1>2, <1>3, <1>4, <1>5, BootChanges

(* A request is executed by a server that holds it.                        *)
LEMMA ExecutedChanges ==
    ASSUME Next
    PROVE  UNCHANGED executed \/ \E s \in Servers : Process(s)
BY DEF Next, ClientStep, ServerStep, MasterStep, FrontStep, MidStep,
   AnswerStep, ShutDownStep, FailureStep, NextFE, QueueRequest, Boot,
   RegisterFrontend, FrontReadCount, FrontScaleIn, Fetch, GetNextRequest,
   AddRequest, MasterHandler, MasterRoutine, HandleBootingCheck, HandleBooting,
   BootFetch, BootDropHead, MasterMayAddFront, ReplyServed, ReplyDropped,
   MidReadCount, MidReadLength, MidScaleIn, PollRequest, DropFastRequest,
   MidScaleOut, MidServe, Unregister, Unexport, DeleteVMFromMap, ServerStops,
   ProcessFails, BootFetchNull, historyVars, allButPc

(* Every step keeps the shape of the state.                                *)
LEMMA ShapeStep ==
    ASSUME Shape, lost \subseteq outstanding, [Next]_vars
    PROVE  Shape'
<1> USE DEF Shape
<1>1. PositionInv'
  BY PositionStep DEF TypeOK
<1>2. CASE Next
  <2>1. executed' \in [Requests -> Nat]
    <3>1. ASSUME NEW s \in Servers, Process(s)
          PROVE  executed' \in [Requests -> Nat]
      <4>1. hand[s] \in Requests
        BY <3>1 DEF Process, PositionInv, PositionType, HandInv
      <4> QED
        BY <3>1, <4>1 DEF Process, TypeOK
    <3> QED
      BY <1>2, <3>1, ExecutedChanges DEF TypeOK
  <2>2. pc' \in [Servers -> PC] /\ hand' \in [Servers -> Requests \cup {NoRequest}]
    BY <1>1 DEF PositionInv, PositionType
  <2>3. TypeOK'
    BY <1>2, <2>1, <2>2, ListTypeStep, QueueTypeStep, CloudTypeStep, ReadingTypeStep,
       BootStep DEF TypeOK
  <2> QED
    BY <1>1, <1>2, <2>3, BootStep
<1>3. CASE UNCHANGED vars
  <2>1. TypeOK'
    BY <1>3 DEF vars, allButPc, edgeVars, clientVars, cloudVars, localVars, staticVars,
       bootVars, historyVars, failVars, TypeOK
  <2>2. BootInv'
    BY <1>3 DEF vars, allButPc, localVars, staticVars, bootVars, BootInv
  <2> QED
    BY <1>1, <2>1, <2>2
<1> QED
  BY <1>2, <1>3

-----------------------------------------------------------------------------
(* A server leaves for good, and through shutDown.                         *)
LEMMA ExitChanges ==
    ASSUME PositionInv, [Next]_vars, NEW x \in Servers
    PROVE  /\ pc[x] \in GonePC => pc'[x] \in GonePC
           /\ x \in Fronts /\ pc[x] \notin FreshPC
                => pc'[x] \notin FreshPC
           /\ pc'[x] = "unexport" => pc[x] = "unexport" \/ Unregister(x)
<1> USE Roles DEF PositionInv, PositionType, RoleInv, RolePC, Goto, allButPc, vars,
                  GonePC, FreshPC
<1> DEFINE Goal == /\ pc[x] \in GonePC
                         => pc'[x] \in GonePC
                   /\ x \in Fronts /\ pc[x] \notin FreshPC
                         => pc'[x] \notin FreshPC
                   /\ pc'[x] = "unexport" => pc[x] = "unexport" \/ Unregister(x)
<1>1. ASSUME NEW r \in Requests, ClientStep(r) PROVE Goal
  BY <1>1 DEF ClientStep, NextFE, QueueRequest
<1>2. CASE MasterStep
  <2>1. CASE MasterHandler
    BY <2>1 DEF MasterHandler, ScaleOutAndGoto, AloneInv
  <2>2. CASE HandleBootingCheck
    BY <2>2 DEF HandleBootingCheck, ScaleOutAndGoto, Off
  <2>3. CASE BootFetch
    BY <2>3 DEF BootFetch, GetNextRequest
  <2>4. CASE BootDropHead
    BY <2>4 DEF BootDropHead, GetNextRequest
  <2>5. CASE MasterMayAddFront
    BY <2>5 DEF MasterMayAddFront, ScaleOutAndGoto, Off
  <2> QED
    BY <1>2, <2>1, <2>2, <2>3, <2>4, <2>5 DEF MasterStep, MasterRoutine, HandleBooting
<1>3. ASSUME NEW f \in Fronts, FrontStep(f) PROVE Goal
  <2>1. CASE Fetch(f)
    BY <2>1 DEF Fetch, GetNextRequest
  <2>2. CASE FrontScaleIn(f)
    BY <2>2 DEF FrontScaleIn
  <2> QED
    BY <1>3, <2>1, <2>2 DEF FrontStep, RegisterFrontend, FrontReadCount, AddRequest
<1>4. ASSUME NEW m \in Mids, Boot(m) \/ MidStep(m) PROVE Goal
  <2>1. CASE MidScaleOut(m)
    BY <2>1 DEF MidScaleOut, ScaleOutAndGoto, Off
  <2>2. CASE PollRequest(m)
    BY <2>2 DEF PollRequest
  <2>3. CASE Boot(m)
    BY <2>3 DEF Boot
  <2> QED
    BY <1>4, <2>1, <2>2, <2>3 DEF MidStep, MidReadCount, MidReadLength, MidScaleIn,
       DropFastRequest, MidServe
<1>5. ASSUME NEW s \in Servers, AnswerStep(s) PROVE Goal
  <2>1. CASE Process(s)
    BY <2>1 DEF Process
  <2>2. CASE ReplyServed(s)
    BY <2>2 DEF ReplyServed, Processed
  <2>3. CASE ReplyDropped(s)
    BY <2>3 DEF ReplyDropped
  <2> QED
    BY <1>5, <2>1, <2>2, <2>3 DEF AnswerStep
<1>6. ASSUME NEW s \in Servers \ {Master}, ShutDownStep(s) PROVE Goal
  <2>1. CASE Unregister(s)
    BY <2>1 DEF Unregister
  <2>2. CASE Unexport(s) \/ DeleteVMFromMap(s)
    BY <2>2 DEF Unexport, DeleteVMFromMap
  <2> QED
    BY <1>6, <2>1, <2>2 DEF ShutDownStep
<1>7. ASSUME NEW s \in Servers, FailureStep(s) PROVE Goal
  <2>1. CASE ServerStops(s)
    BY <2>1 DEF ServerStops
  <2>2. CASE ProcessFails(s)
    BY <2>2 DEF ProcessFails, Processed
  <2>3. CASE BootFetchNull
    BY <2>3 DEF BootFetchNull, Processed
  <2> QED
    BY <1>7, <2>1, <2>2, <2>3 DEF FailureStep
<1>8. CASE UNCHANGED vars
  BY <1>8
<1> QED
  BY <1>1, <1>2, <1>3, <1>4, <1>5, <1>6, <1>7, <1>8, StepsByRole

(* Who changes the balancer's list, and what it is compared with.          *)
LEMMA ListChanges ==
    ASSUME Next
    PROVE  \/ UNCHANGED <<lb, dead, stale>>
           \/ UNCHANGED <<dead, stale>> /\ \E r \in Requests : NextFE(r)
           \/ UNCHANGED <<dead, stale>> /\ \E f \in Fronts : RegisterFrontend(f)
           \/ UNCHANGED <<dead, stale>> /\ MasterHandler
           \/ \E s \in Servers : Unregister(s) \/ Unexport(s)
<1>1. UNCHANGED dead \/ \E s \in Servers : Unexport(s)
  BY DEF Next, ClientStep, ServerStep, MasterStep, FrontStep, MidStep,
     AnswerStep, ShutDownStep, FailureStep, NextFE, QueueRequest, Boot, 
     RegisterFrontend, FrontReadCount, FrontScaleIn, Fetch, GetNextRequest,
     AddRequest, MasterHandler, MasterRoutine, HandleBootingCheck, HandleBooting,
     BootFetch, BootDropHead, MasterMayAddFront, ReplyServed, ReplyDropped, Process,
     Processed, MidReadCount, MidReadLength, MidScaleIn, PollRequest,
     DropFastRequest, MidScaleOut, MidServe, Unregister, DeleteVMFromMap,
     ServerStops,
     ProcessFails, BootFetchNull, edgeVars, allButPc
<1>2. UNCHANGED stale \/ \E s \in Servers : Unregister(s)
  BY DEF Next, ClientStep, ServerStep, MasterStep, FrontStep, MidStep,
     AnswerStep, ShutDownStep, FailureStep, NextFE, QueueRequest, Boot, CallRegister,
     RegisterFrontend, FrontReadCount, FrontScaleIn, Fetch, GetNextRequest,
     AddRequest, MasterHandler, MasterRoutine, HandleBootingCheck, HandleBooting,
     BootFetch, BootDropHead, MasterMayAddFront, ReplyServed, ReplyDropped, Process,
     CallSendReply, Processed, MidReadCount, MidReadLength, MidScaleIn, PollRequest,
     DropFastRequest, MidScaleOut, MidServe, Unexport, DeleteVMFromMap,
     ServerStops,
     ProcessFails, BootFetchNull, edgeVars, failVars, historyVars, allButPc
<1> QED
  BY <1>1, <1>2, ListSteps

(* The balancer keeps listing each front server once, and no unexported    *)
(* one that did not fail to leave the list.                                *)
LEMMA ListStep ==
    ASSUME Shape, ListInv, [Next]_vars
    PROVE  ListInv'
<1> USE Roles DEF ListInv
<1>1. /\ lb \in Seq(Fronts) /\ pc \in [Servers -> PC]
      /\ dead \subseteq Servers
  BY DEF Shape, TypeOK
<1>2. /\ \A s \in Servers : pc[s] \in GonePC => pc'[s] \in GonePC
      /\ \A f \in Fronts : pc[f] \notin FreshPC => pc'[f] \notin FreshPC
      /\ \A s \in Servers : pc'[s] = "unexport" => pc[s] = "unexport" \/ Unregister(s)
  BY ExitChanges DEF Shape
<1>3. \A i \in 1 .. Len(lb) : lb[i] \in Fronts /\ lb[i] \in Servers
  BY <1>1
<1>4. \A s \in dead : pc'[s] \in GonePC
  BY <1>1, <1>2
<1>5. \A i \in 1 .. Len(lb) : pc'[lb[i]] \notin FreshPC
  BY <1>2, <1>3
<1>6. CASE UNCHANGED <<lb, dead, stale>>
  <2>1. \A s \in Servers : Unregister(s) => s \in stale' \/ \A i \in 1 .. Len(lb) : lb[i] # s
    BY <1>1, <1>6 DEF Unregister, DelFE
  <2> QED
    BY <1>2, <1>3, <1>4, <1>5, <1>6, <2>1
<1>7. ASSUME UNCHANGED <<dead, stale>>, NEW r \in Requests, NextFE(r)
      PROVE  ListInv'
  <2>1. CASE lb = << >>
    BY <1>6, <1>7, <2>1 DEF NextFE, clientVars
  <2>2. CASE lb # << >>
    <3>1. lb' = Append(Tail(lb), Head(lb)) /\ pc' = pc
      BY <1>7, <2>2 DEF NextFE
    <3>2. /\ lb' \in Seq(Fronts) /\ Len(lb') = Len(lb)
          /\ \A i \in 1 .. Len(lb) : lb'[i] = lb[IF i < Len(lb) THEN i + 1 ELSE 1]
      BY <1>1, <2>2, <3>1
    <3>3. Len(lb) \in Nat
      BY <1>1
    <3>4. \A i \in 1 .. Len(lb) : (IF i < Len(lb) THEN i + 1 ELSE 1) \in 1 .. Len(lb)
      BY <3>3
    <3>5. \A i \in 1 .. Len(lb') : \E k \in 1 .. Len(lb) : lb'[i] = lb[k]
      BY <3>2, <3>4
    <3>6. \A i, j \in 1 .. Len(lb') : lb'[i] = lb'[j] => i = j
      <4> SUFFICES ASSUME NEW i \in 1 .. Len(lb), NEW j \in 1 .. Len(lb), lb'[i] = lb'[j]
                   PROVE  i = j
        BY <3>2
      <4>1. (IF i < Len(lb) THEN i + 1 ELSE 1) = (IF j < Len(lb) THEN j + 1 ELSE 1)
        BY <3>2, <3>4
      <4> QED
        BY <3>3, <4>1
    <3>7. ASSUME NEW i \in 1 .. Len(lb')
          PROVE  /\ pc'[lb'[i]] \notin FreshPC
                 /\ pc'[lb'[i]] = "unexport" => lb'[i] \in stale'
                 /\ lb'[i] \in dead' => lb'[i] \in stale'
      <4>1. PICK k \in 1 .. Len(lb) : lb'[i] = lb[k]
        BY <3>5
      <4> QED
        BY <1>7, <3>1, <4>1
    <3> QED
      BY <1>4, <1>7, <3>6, <3>7
  <2> QED
    BY <2>1, <2>2
<1>8. ASSUME UNCHANGED <<dead, stale>>, NEW f \in Fronts, lb' = Append(lb, f),
             pc[f] \in FreshPC, pc'[f] \notin FreshPC,
             \A x \in Servers : pc'[x] = "unexport" => pc[x] = "unexport"
      PROVE  ListInv'
  <2>1. /\ Len(lb') = Len(lb) + 1 /\ lb'[Len(lb) + 1] = f /\ Len(lb) \in Nat
        /\ \A i \in 1 .. Len(lb) : lb'[i] = lb[i]
    BY <1>1, <1>8
  <2>2. f \notin dead /\ pc[f] # "unexport" /\ \A i \in 1 .. Len(lb) : lb[i] # f
    BY <1>1, <1>8 DEF FreshPC, GonePC
  <2>3. \A i \in 1 .. Len(lb') : i \in 1 .. Len(lb) \/ i = Len(lb) + 1
    BY <2>1
  <2>4. ASSUME NEW i \in 1 .. Len(lb')
        PROVE  /\ lb'[i] \in Servers /\ pc'[lb'[i]] \notin FreshPC
               /\ pc'[lb'[i]] = "unexport" => lb'[i] \in stale
               /\ lb'[i] \in dead => lb'[i] \in stale
    BY <1>3, <1>5, <1>8, <2>1, <2>2, <2>3, Roles
  <2>5. \A i, j \in 1 .. Len(lb') : lb'[i] = lb'[j] => i = j
    BY <2>1, <2>2, <2>3
  <2> QED
    BY <1>4, <1>8, <2>4, <2>5
<1>9. ASSUME UNCHANGED <<dead, stale>>, NEW f \in Fronts, RegisterFrontend(f)
      PROVE  ListInv'
  <2>1. /\ pc[f] \in FreshPC /\ pc'[f] \notin FreshPC
        /\ \A x \in Servers : pc'[x] = "unexport" => pc[x] = "unexport"
    BY <1>1, <1>9, Roles DEF RegisterFrontend, Goto, FreshPC
  <2>2. lb' = Append(lb, f) \/ lb' = lb
    BY <1>9 DEF RegisterFrontend, CallRegister
  <2> QED
    BY <1>6, <1>8, <1>9, <2>1, <2>2
<1>10. ASSUME UNCHANGED <<dead, stale>>, MasterHandler
       PROVE  ListInv'
  <2>1. pc' = [x \in Servers |-> IF x \in {FirstMid, FirstFront}
                                  THEN IF x = FirstMid THEN "created" ELSE "booting"
                                  ELSE IF x = Master THEN "loop" ELSE pc[x]]
    BY <1>10 DEF MasterHandler, ScaleOutAndGoto
  <2>2. pc[Master] = "init" /\ (lb' = Append(lb, Master) \/ lb' = lb)
    BY <1>10 DEF MasterHandler, CallRegister
  <2>3. /\ pc[Master] \in FreshPC /\ pc'[Master] \notin FreshPC
        /\ \A x \in Servers : pc'[x] = "unexport" => pc[x] = "unexport"
    BY <2>1, <2>2, Roles DEF FreshPC
  <2> QED
    BY <1>6, <1>8, <1>10, <2>2, <2>3, Roles
<1>11. ASSUME NEW s \in Servers, Unregister(s)
       PROVE  ListInv'
  <2>1. /\ dead' = dead /\ pc[s] = "leave" /\ pc' = [pc EXCEPT ![s] = "unexport"]
    BY <1>11 DEF Unregister, Goto
  <2>2. CASE stale' = stale \cup {s} /\ lb' = lb
    BY <1>2, <1>3, <1>4, <1>5, <2>1, <2>2
  <2>3. CASE stale' = stale /\ lb' = lb /\ \A i \in 1 .. Len(lb) : lb[i] # s
    BY <1>2, <1>3, <1>4, <1>5, <2>1, <2>3
  <2>4. ASSUME stale' = stale, NEW i \in 1 .. Len(lb), lb[i] = s,
               lb' = [j \in 1 .. Len(lb) - 1 |-> IF j < i THEN lb[j] ELSE lb[j + 1]]
        PROVE  ListInv'
    <3>1. /\ Len(lb') = Len(lb) - 1 /\ Len(lb) \in Nat
          /\ \A j \in 1 .. Len(lb) - 1 : lb'[j] = IF j < i THEN lb[j] ELSE lb[j + 1]
      BY <1>1, <2>4, EntryRemoved
    <3>2. ASSUME NEW j \in 1 .. Len(lb')
          PROVE  \E k \in 1 .. Len(lb) : lb'[j] = lb[k] /\ k # i /\ k = IF j < i THEN j ELSE j + 1
      <4>1. (IF j < i THEN j ELSE j + 1) \in 1 .. Len(lb)
        BY <3>1
      <4> QED
        BY <3>1, <4>1
    <3>3. \A j, k \in 1 .. Len(lb') : lb'[j] = lb'[k] => j = k
      <4> SUFFICES ASSUME NEW j \in 1 .. Len(lb'), NEW k \in 1 .. Len(lb'), lb'[j] = lb'[k]
                   PROVE  j = k
        OBVIOUS
      <4>1. PICK m \in 1 .. Len(lb) : lb'[j] = lb[m] /\ m = IF j < i THEN j ELSE j + 1
        BY <3>2
      <4>2. PICK n \in 1 .. Len(lb) : lb'[k] = lb[n] /\ n = IF k < i THEN k ELSE k + 1
        BY <3>2
      <4>3. m = n
        BY <4>1, <4>2
      <4> QED
        BY <3>1, <4>1, <4>2, <4>3
    <3>4. ASSUME NEW j \in 1 .. Len(lb')
          PROVE  /\ pc'[lb'[j]] \notin FreshPC
                 /\ pc'[lb'[j]] = "unexport" => lb'[j] \in stale'
                 /\ lb'[j] \in dead' => lb'[j] \in stale'
      <4>1. PICK k \in 1 .. Len(lb) : lb'[j] = lb[k] /\ k # i
        BY <3>2
      <4>2. lb[k] # s
        BY <2>4, <4>1
      <4> QED
        BY <1>1, <1>3, <1>5, <2>1, <2>4, <4>1, <4>2
    <3> QED
      BY <1>4, <2>1, <3>3, <3>4
  <2> QED
    BY <1>11, <2>2, <2>3, <2>4 DEF Unregister, DelFE, failVars
<1>12. ASSUME NEW s \in Servers, Unexport(s)
       PROVE  ListInv'
  <2>1. /\ lb' = lb /\ stale' = stale /\ dead' = dead \cup {s}
        /\ pc[s] = "unexport" /\ pc' = [pc EXCEPT ![s] = "delete"]
    BY <1>12 DEF Unexport, Goto, clientVars, historyVars, failVars
  <2>2. \A x \in dead' : pc'[x] \in GonePC
    BY <1>1, <1>4, <2>1 DEF GonePC
  <2> QED
    BY <1>1, <1>3, <1>5, <2>1, <2>2
<1> QED
  BY <1>6, <1>7, <1>9, <1>10, <1>11, <1>12, ListChanges DEF vars, allButPc, edgeVars,
     clientVars, historyVars, failVars

-----------------------------------------------------------------------------
(* The entries of the queues after a move.                                 *)
LEMMA Appended ==
    ASSUME NEW S, NEW q \in Seq(S), NEW e \in S
    PROVE  /\ Len(Append(q, e)) = Len(q) + 1 /\ Len(q) \in Nat
           /\ Append(q, e)[Len(q) + 1] = e
           /\ \A i \in 1 .. Len(q) : Append(q, e)[i] = q[i]
           /\ \A i \in 1 .. Len(q) + 1 : i \in 1 .. Len(q) \/ i = Len(q) + 1
OBVIOUS

LEMMA HeadTaken ==
    ASSUME NEW S, NEW q \in Seq(S), q # << >>
    PROVE  /\ Len(Tail(q)) = Len(q) - 1 /\ Len(q) \in Nat \ {0}
           /\ Head(q) = q[1] /\ 1 \in 1 .. Len(q) /\ Head(q) \in S
           /\ \A i \in 1 .. Len(q) - 1 : /\ Tail(q)[i] = q[i + 1]
                                         /\ i + 1 \in 1 .. Len(q) /\ i + 1 # 1
           /\ \A i \in 1 .. Len(q) : i = 1 \/ \E j \in 1 .. Len(q) - 1 : i = j + 1
OBVIOUS

(* No move puts a request into a second place.                             *)
LEMMA DistinctStep ==
    ASSUME TypeOK, PositionInv, lost \subseteq outstanding, Distinct, [Next]_vars
    PROVE  Distinct'
<1>1. /\ queue \in [Fronts -> Seq(Requests)] /\ requestQueue \in Seq(Requests)
      /\ hand \in [Servers -> Requests \cup {NoRequest}]
      /\ Owed \subseteq Requests
  BY DEF TypeOK, Owed
<1>2. CASE Stay
  BY <1>2 DEF Stay, Distinct
<1>3. ASSUME NEW r \in Requests, NEW f \in Fronts, Enter(r, f)
      PROVE  Distinct'
  <2> DEFINE q == queue[f]
  <2>1. /\ \A g \in Fronts \ {f} : queue'[g] = queue[g]
        /\ Len(queue'[f]) = Len(q) + 1 /\ queue'[f][Len(q) + 1] = r
        /\ \A i \in 1 .. Len(q) : queue'[f][i] = q[i]
        /\ \A i \in 1 .. Len(q) + 1 : i \in 1 .. Len(q) \/ i = Len(q) + 1
    BY <1>1, <1>3, Appended DEF Enter
  <2>2. /\ \A g \in Fronts : \A i \in 1 .. Len(queue[g]) : queue[g][i] # r
        /\ \A i \in 1 .. Len(requestQueue) : requestQueue[i] # r
        /\ \A s \in Servers : hand[s] # r
    BY <1>3, Roles DEF Enter, Distinct
  <2> QED
    BY <1>3, <2>1, <2>2 DEF Enter, Distinct
<1>4. ASSUME NEW f \in Fronts, Take(f)
      PROVE  Distinct'
  <2> DEFINE q == queue[f]
  <2>1. /\ \A g \in Fronts \ {f} : queue'[g] = queue[g]
        /\ Len(queue'[f]) = Len(q) - 1 /\ 1 \in 1 .. Len(q)
        /\ \A i \in 1 .. Len(q) - 1 : /\ queue'[f][i] = q[i + 1]
                                      /\ i + 1 \in 1 .. Len(q) /\ i + 1 # 1
    BY <1>1, <1>4, HeadTaken DEF Take
  <2>2. hand'[f] = q[1] /\ \A s \in Servers \ {f} : hand'[s] = hand[s]
    BY <1>1, <1>4, HeadTaken, Roles DEF Take
  <2> QED
    BY <1>4, <2>1, <2>2 DEF Take, Distinct
<1>5. ASSUME NEW f \in Fronts, Pass(f)
      PROVE  Distinct'
  <2> DEFINE q == requestQueue
  <2>1. /\ Len(q') = Len(q) + 1 /\ q'[Len(q) + 1] = hand[f]
        /\ \A i \in 1 .. Len(q) : q'[i] = q[i]
        /\ \A i \in 1 .. Len(q) + 1 : i \in 1 .. Len(q) \/ i = Len(q) + 1
    BY <1>1, <1>5, Appended, Roles DEF Pass
  <2>2. hand'[f] = NoRequest /\ \A s \in Servers \ {f} : hand'[s] = hand[s]
    BY <1>1, <1>5, Roles DEF Pass
  <2> QED
    BY <1>1, <1>5, <2>1, <2>2, Roles DEF Pass, Distinct
<1>6. ASSUME NEW m \in Mids, Poll(m)
      PROVE  Distinct'
  <2> DEFINE q == requestQueue
  <2>1. /\ Len(q') = Len(q) - 1 /\ 1 \in 1 .. Len(q)
        /\ \A i \in 1 .. Len(q) - 1 : /\ q'[i] = q[i + 1]
                                      /\ i + 1 \in 1 .. Len(q) /\ i + 1 # 1
    BY <1>1, <1>6, HeadTaken DEF Poll
  <2>2. hand'[m] = q[1] /\ \A s \in Servers \ {m} : hand'[s] = hand[s]
    BY <1>1, <1>6, HeadTaken, Roles DEF Poll
  <2> QED
    BY <1>6, <2>1, <2>2 DEF Poll, Distinct
<1>7. ASSUME NEW s \in Servers, Release(s)
      PROVE  Distinct'
  <2>1. hand'[s] = NoRequest /\ \A t \in Servers \ {s} : hand'[t] = hand[t]
    BY <1>1, <1>7 DEF Release
  <2> QED
    BY <1>1, <1>7, <2>1, Roles DEF Release, Distinct
<1>8. CASE UNCHANGED vars
  BY <1>2, <1>8 DEF vars, allButPc, edgeVars, cloudVars, historyVars, failVars, Stay, Owed
<1> QED
  BY <1>2, <1>3, <1>4, <1>5, <1>6, <1>7, <1>8, Moves

(* No move loses a request that is owed.                                   *)
LEMMA PlacedStep ==
    ASSUME TypeOK, PositionInv, lost \subseteq outstanding, Placed, [Next]_vars
    PROVE  Placed'
<1>1. /\ queue \in [Fronts -> Seq(Requests)] /\ requestQueue \in Seq(Requests)
      /\ hand \in [Servers -> Requests \cup {NoRequest}]
      /\ Owed \subseteq Requests
  BY DEF TypeOK, Owed
<1> DEFINE InQueue(x) == \E f \in Fronts : \E i \in 1 .. Len(queue[f]) : queue[f][i] = x
           InMaster(x) == \E i \in 1 .. Len(requestQueue) : requestQueue[i] = x
           InHand(x) == \E s \in Servers : hand[s] = x
<1>2. \A x \in Owed : InQueue(x) \/ InMaster(x) \/ InHand(x)
  BY DEF Placed
<1>3. ASSUME \A x \in Owed' : InQueue(x)' \/ InMaster(x)' \/ InHand(x)'
      PROVE  Placed'
  BY <1>3 DEF Placed
<1> HIDE DEF InQueue, InMaster, InHand
<1>4. CASE Stay
  BY <1>4 DEF Stay, Placed
<1>5. ASSUME NEW r \in Requests, NEW f \in Fronts, Enter(r, f)
      PROVE  Placed'
  <2>1. /\ \A g \in Fronts \ {f} : queue'[g] = queue[g]
        /\ Len(queue'[f]) = Len(queue[f]) + 1 /\ queue'[f][Len(queue[f]) + 1] = r
        /\ Len(queue[f]) \in Nat
        /\ \A i \in 1 .. Len(queue[f]) : queue'[f][i] = queue[f][i]
    BY <1>1, <1>5, Appended DEF Enter
  <2>2. \A x : InQueue(x) => InQueue(x)'
    BY <2>1 DEF InQueue
  <2>3. InQueue(r)'
    BY <2>1 DEF InQueue
  <2>4. \A x : (InMaster(x) => InMaster(x)') /\ (InHand(x) => InHand(x)')
    BY <1>5 DEF Enter, InMaster, InHand
  <2> QED
    BY <1>2, <1>3, <1>5, <2>2, <2>3, <2>4 DEF Enter
<1>6. ASSUME NEW f \in Fronts, Take(f)
      PROVE  Placed'
  <2>1. /\ \A g \in Fronts \ {f} : queue'[g] = queue[g]
        /\ Len(queue'[f]) = Len(queue[f]) - 1
        /\ \A i \in 1 .. Len(queue[f]) - 1 : queue'[f][i] = queue[f][i + 1]
        /\ \A i \in 1 .. Len(queue[f]) : i = 1 \/ \E j \in 1 .. Len(queue[f]) - 1 : i = j + 1
    BY <1>1, <1>6, HeadTaken DEF Take
  <2>2. hand'[f] = queue[f][1] /\ \A s \in Servers \ {f} : hand'[s] = hand[s]
    BY <1>1, <1>6, HeadTaken, Roles DEF Take
  <2>3. \A x : InQueue(x) => InQueue(x)' \/ InHand(x)'
    <3> SUFFICES ASSUME NEW x, NEW g \in Fronts, NEW i \in 1 .. Len(queue[g]),
                        queue[g][i] = x
                 PROVE  InQueue(x)' \/ InHand(x)'
      BY DEF InQueue
    <3>1. CASE g # f
      BY <2>1, <3>1 DEF InQueue
    <3>2. CASE g = f /\ i = 1
      BY <2>2, <3>2, Roles DEF InHand
    <3>3. CASE g = f /\ i # 1
      <4>1. PICK j \in 1 .. Len(queue[f]) - 1 : i = j + 1
        BY <2>1, <3>3
      <4> QED
        BY <2>1, <3>3, <4>1 DEF InQueue
    <3> QED
      BY <3>1, <3>2, <3>3
  <2>4. \A x \in Requests : InHand(x) => InHand(x)'
    BY <1>6, <2>2, Roles DEF Take, InHand
  <2>5. \A x : InMaster(x) => InMaster(x)'
    BY <1>6 DEF Take, InMaster
  <2> QED
    BY <1>1, <1>2, <1>3, <1>6, <2>3, <2>4, <2>5 DEF Take
<1>7. ASSUME NEW f \in Fronts, Pass(f)
      PROVE  Placed'
  <2>1. /\ Len(requestQueue') = Len(requestQueue) + 1
        /\ requestQueue'[Len(requestQueue) + 1] = hand[f]
        /\ Len(requestQueue) \in Nat
        /\ \A i \in 1 .. Len(requestQueue) : requestQueue'[i] = requestQueue[i]
    BY <1>1, <1>7, Appended, Roles DEF Pass
  <2>2. \A s \in Servers \ {f} : hand'[s] = hand[s]
    BY <1>1, <1>7, Roles DEF Pass
  <2>3. \A x : InMaster(x) => InMaster(x)'
    BY <2>1 DEF InMaster
  <2>4. \A x : InHand(x) => InHand(x)' \/ x = hand[f]
    BY <2>2 DEF InHand
  <2>5. \A x : InQueue(x) => InQueue(x)'
    BY <1>7 DEF Pass, InQueue
  <2>6. \A x : x = hand[f] => InMaster(x)'
    BY <2>1, <1>7 DEF InMaster
  <2> QED
    BY <1>2, <1>3, <1>7, <2>3, <2>4, <2>5, <2>6 DEF Pass
<1>8. ASSUME NEW m \in Mids, Poll(m)
      PROVE  Placed'
  <2>1. /\ Len(requestQueue') = Len(requestQueue) - 1
        /\ \A i \in 1 .. Len(requestQueue) - 1 : requestQueue'[i] = requestQueue[i + 1]
        /\ \A i \in 1 .. Len(requestQueue) :
              i = 1 \/ \E j \in 1 .. Len(requestQueue) - 1 : i = j + 1
    BY <1>1, <1>8, HeadTaken DEF Poll
  <2>2. hand'[m] = requestQueue[1] /\ \A s \in Servers \ {m} : hand'[s] = hand[s]
    BY <1>1, <1>8, HeadTaken, Roles DEF Poll
  <2>3. \A x : InMaster(x) => InMaster(x)' \/ InHand(x)'
    <3> SUFFICES ASSUME NEW x, NEW i \in 1 .. Len(requestQueue), requestQueue[i] = x
                 PROVE  InMaster(x)' \/ InHand(x)'
      BY DEF InMaster
    <3>1. CASE i = 1
      BY <2>2, <3>1, Roles DEF InHand
    <3>2. CASE i # 1
      <4>1. PICK j \in 1 .. Len(requestQueue) - 1 : i = j + 1
        BY <2>1, <3>2
      <4> QED
        BY <2>1, <4>1 DEF InMaster
    <3> QED
      BY <3>1, <3>2
  <2>4. \A x \in Requests : InHand(x) => InHand(x)'
    BY <1>8, <2>2, Roles DEF Poll, InHand
  <2>5. \A x : InQueue(x) => InQueue(x)'
    BY <1>8 DEF Poll, InQueue
  <2> QED
    BY <1>1, <1>2, <1>3, <1>8, <2>3, <2>4, <2>5 DEF Poll
<1>9. ASSUME NEW s \in Servers, Release(s)
      PROVE  Placed'
  <2>1. \A t \in Servers \ {s} : hand'[t] = hand[t]
    BY <1>1, <1>9 DEF Release
  <2>2. \A x \in Owed' : InHand(x) => InHand(x)'
    BY <1>9, <2>1 DEF Release, InHand
  <2>3. \A x : (InQueue(x) => InQueue(x)') /\ (InMaster(x) => InMaster(x)')
    BY <1>9 DEF Release, InQueue, InMaster
  <2> QED
    BY <1>2, <1>3, <1>9, <2>2, <2>3 DEF Release
<1>10. CASE UNCHANGED vars
  BY <1>4, <1>10 DEF vars, allButPc, edgeVars, cloudVars, historyVars, failVars, Stay, Owed
<1> QED
  BY <1>4, <1>5, <1>6, <1>7, <1>8, <1>9, <1>10, Moves

-----------------------------------------------------------------------------
(* What was executed and what was answered.                                *)

\* Nothing changes of it, and the servers that are about to reply still are.
Quiet ==
    /\ UNCHANGED <<executed, outstanding, outcome, target, lost>>
    /\ \A s \in Servers :
          /\ pc'[s] = "reply" <=> pc[s] = "reply"
          /\ pc[s] = "reply" => hand'[s] = hand[s]

LEMMA AnswerChanges ==
    ASSUME PositionInv, Next
    PROVE  \/ Quiet
           \/ \E r \in Requests : NextFE(r) \/ QueueRequest(r)
           \/ \E s \in Servers : Process(s) \/ ReplyServed(s) \/ ReplyDropped(s)
           \/ \E s \in Servers : ServerStops(s) \/ ProcessFails(s)
<1> USE Roles DEF PositionInv, PositionType, RoleInv, RolePC, ExitPC, LeavingPC, Quiet,
                  Goto, Hold, allButPc, edgeVars, clientVars, cloudVars, historyVars, failVars
<1>1. CASE MasterStep
  <2>1. CASE MasterHandler
    <3>1. pc' = [x \in Servers |-> IF x \in {FirstMid, FirstFront}
                                    THEN IF x = FirstMid THEN "created" ELSE "booting"
                                    ELSE IF x = Master THEN "loop" ELSE pc[x]]
      BY <2>1 DEF MasterHandler, ScaleOutAndGoto
    <3>2. /\ UNCHANGED <<executed, outstanding, outcome, target, lost>> /\ hand' = hand
          /\ pc[Master] = "init"
      BY <2>1 DEF MasterHandler, CallRegister
    <3>3. \A s \in Servers : pc[s] # "reply"
      BY <3>2 DEF AloneInv
    <3>4. \A s \in Servers : pc'[s] # "reply"
      BY <3>1, <3>3
    <3> QED
      BY <3>2, <3>3, <3>4
  <2>2. CASE MasterRoutine \/ HandleBooting
    BY <2>2 DEF MasterRoutine, HandleBooting
  <2>3. CASE HandleBootingCheck
    BY <2>3 DEF HandleBootingCheck, ScaleOutAndGoto, Off
  <2>4. CASE BootFetch
    BY <2>4 DEF BootFetch, GetNextRequest
  <2>5. CASE BootDropHead
    BY <2>5 DEF BootDropHead, GetNextRequest
  <2>6. CASE MasterMayAddFront
    BY <2>6 DEF MasterMayAddFront, ScaleOutAndGoto, Off
  <2> QED
    BY <1>1, <2>1, <2>2, <2>3, <2>4, <2>5, <2>6 DEF MasterStep
<1>2. ASSUME NEW f \in Fronts, FrontStep(f)
      PROVE  Quiet
  <2>1. CASE Fetch(f)
    BY <2>1 DEF Fetch, GetNextRequest
  <2>2. CASE AddRequest(f)
    BY <2>2 DEF AddRequest
  <2> QED
    BY <1>2, <2>1, <2>2 DEF FrontStep, RegisterFrontend, CallRegister, FrontReadCount,
       FrontScaleIn
<1>3. ASSUME NEW m \in Mids, Boot(m) \/ MidStep(m)
      PROVE  Quiet
  <2>1. CASE MidScaleOut(m)
    BY <2>1 DEF MidScaleOut, ScaleOutAndGoto, Off
  <2>2. CASE PollRequest(m)
    BY <2>2 DEF PollRequest
  <2>3. CASE Boot(m)
    BY <2>3 DEF Boot
  <2> QED
    BY <1>3, <2>1, <2>2, <2>3 DEF MidStep, MidReadCount, MidReadLength, MidScaleIn,
       DropFastRequest, MidServe
<1>4. ASSUME NEW s \in Servers \ {Master}, ShutDownStep(s)
      PROVE  Quiet
  BY <1>4 DEF ShutDownStep, Unregister, Unexport, DeleteVMFromMap
<1>5. CASE BootFetchNull
  BY <1>5 DEF BootFetchNull, Processed
<1> HIDE DEF Quiet, PositionInv
<1> QED
  <2>1. CASE \E r \in Requests : ClientStep(r)
    BY <2>1 DEF ClientStep
  <2>2. CASE \E s \in Servers : AnswerStep(s)
    BY <2>2 DEF AnswerStep
  <2>3. CASE \E s \in Servers : FailureStep(s)
    BY <1>5, <2>3 DEF FailureStep
  <2> QED
    BY <1>1, <1>2, <1>3, <1>4, <2>1, <2>2, <2>3, StepsByRole

(* The steps keep every answer true: a request is executed once, by the    *)
(* server that holds it, and answered "served" only by that server.        *)
LEMMA AnswerStepKeeps ==
    ASSUME TypeOK, PositionInv, Distinct, AnswerInv, [Next]_vars
    PROVE  AnswerInv'
<1>1. /\ outcome \in [Requests -> {"none", "failed", "served", "dropped"}]
      /\ target \in [Requests -> Fronts \cup {NoFront}]
      /\ executed \in [Requests -> Nat]
      /\ pc \in [Servers -> PC] /\ hand \in [Servers -> Requests \cup {NoRequest}]
      /\ outstanding \subseteq Requests /\ lb \in Seq(Fronts)
  BY DEF TypeOK
<1>2. \A s \in Servers : hand[s] # NoRequest =>
         /\ hand[s] \in Requests /\ hand[s] \in outstanding /\ hand[s] \notin lost
         /\ \A t \in Servers : hand[s] = hand[t] => s = t
  BY <1>1 DEF Distinct, Owed
<1>3. CASE Quiet
  BY <1>1, <1>3 DEF Quiet, AnswerInv, Owed
<1>4. ASSUME NEW r \in Requests, NextFE(r)
      PROVE  AnswerInv'
  <2>1. UNCHANGED <<executed, outstanding, lost, pc, hand>>
    BY <1>4 DEF NextFE, historyVars, failVars
  <2>2. r \notin outstanding
    BY <1>4 DEF NextFE, AnswerInv
  <2>3. CASE lb = << >>
    BY <1>1, <1>4, <2>1, <2>2, <2>3 DEF NextFE, AnswerInv, Owed, clientVars
  <2>4. CASE lb # << >>
    <3>1. UNCHANGED outcome /\ \A x \in outstanding : target'[x] = target[x]
      BY <1>1, <1>4, <2>2, <2>4 DEF NextFE
    <3> QED
      BY <2>1, <3>1 DEF AnswerInv, Owed
  <2> QED
    BY <2>3, <2>4
<1>5. ASSUME NEW r \in Requests, QueueRequest(r)
      PROVE  AnswerInv'
  <2>1. UNCHANGED <<executed, target, lost, pc, hand>>
    BY <1>5 DEF QueueRequest, clientVars, historyVars, failVars
  <2>2. /\ outcome[r] = "none" /\ target[r] # NoFront /\ r \notin outstanding
        /\ executed[r] = 0 /\ r \notin lost
    BY <1>5 DEF QueueRequest, AnswerInv
  <2>3. \A s \in Servers : hand[s] # r
    BY <1>2, <2>2, Roles
  <2>4. CASE target[r] \in dead
    BY <1>1, <1>5, <2>1, <2>2, <2>4 DEF QueueRequest, AnswerInv, Owed
  <2>5. CASE target[r] \notin dead
    <3>1. outstanding' = outstanding \cup {r} /\ outcome' = outcome
      BY <1>5, <2>5 DEF QueueRequest
    <3> QED
      BY <2>1, <2>2, <2>3, <3>1 DEF AnswerInv, Owed
  <2> QED
    BY <2>4, <2>5
<1>6. ASSUME NEW s \in Servers, Process(s)
      PROVE  AnswerInv'
  <2>1. /\ UNCHANGED <<outstanding, outcome, target, lost, hand>>
        /\ pc[s] = "process" /\ pc' = [pc EXCEPT ![s] = "reply"]
        /\ executed' = [executed EXCEPT ![hand[s]] = @ + 1]
    BY <1>6 DEF Process, edgeVars, clientVars, cloudVars, failVars, Goto
  <2>2. hand[s] # NoRequest
    BY <2>1 DEF PositionInv, HandInv
  <2>3. executed[hand[s]] = 0
    BY <1>2, <2>1, <2>2 DEF AnswerInv, Owed
  <2>4. /\ executed'[hand[s]] = 1
        /\ \A x \in Requests \ {hand[s]} : executed'[x] = executed[x]
    BY <1>1, <2>1, <2>3, <1>2, <2>2
  <2>5. pc'[s] = "reply" /\ \A t \in Servers \ {s} : pc'[t] = pc[t]
    BY <1>1, <2>1
  <2>6. ASSUME NEW x \in Requests
        PROVE  /\ executed'[x] \in {0, 1}
               /\ x \in outstanding => outcome[x] = "none" /\ target[x] # NoFront
               /\ x \notin outstanding =>
                     executed'[x] = (IF outcome[x] = "served" THEN 1 ELSE 0)
               /\ x \in Owed =>
                     (executed'[x] = 1 <=> \E t \in Servers : hand[t] = x /\ pc'[t] = "reply")
    <3>1. CASE x = hand[s]
      BY <1>2, <2>2, <2>4, <2>5, <3>1 DEF AnswerInv
    <3>2. CASE x # hand[s]
      BY <2>4, <2>5, <3>2 DEF AnswerInv
    <3> QED
      BY <3>1, <3>2
  <2>7. lost \subseteq outstanding /\ Owed' = Owed
    BY <2>1 DEF AnswerInv, Owed
  <2> QED
    BY <2>1, <2>6, <2>7 DEF AnswerInv
<1>7. ASSUME NEW s \in Servers, hand[s] # NoRequest, executed' = executed, target' = target,
             \A t \in Servers \ {s} : pc'[t] = pc[t] /\ hand'[t] = hand[t],
             \/ /\ outstanding' = outstanding \ {hand[s]} /\ lost' = lost
                /\ outcome'[hand[s]] \in {"served", "dropped"}
                /\ outcome'[hand[s]] = "served" <=> pc[s] = "reply"
                /\ \A x \in Requests \ {hand[s]} : outcome'[x] = outcome[x]
             \/ /\ outstanding' = outstanding /\ outcome' = outcome
                /\ lost' = lost \cup {hand[s]},
             hand'[s] = NoRequest
      PROVE  AnswerInv'
  <2>1. executed[hand[s]] = IF pc[s] = "reply" THEN 1 ELSE 0
    BY <1>2, <1>7 DEF AnswerInv, Owed
  <2>2. lost' \subseteq outstanding' /\ Owed' = Owed \ {hand[s]}
    BY <1>2, <1>7 DEF AnswerInv, Owed
  <2>3. ASSUME NEW x \in Requests
        PROVE  /\ executed[x] \in {0, 1}
               /\ x \in outstanding' => outcome'[x] = "none" /\ target[x] # NoFront
               /\ x \notin outstanding' =>
                     executed[x] = (IF outcome'[x] = "served" THEN 1 ELSE 0)
               /\ x \in Owed' =>
                     (executed[x] = 1 <=> \E t \in Servers : hand'[t] = x /\ pc'[t] = "reply")
    <3>1. CASE x = hand[s]
      BY <1>2, <1>7, <2>1, <2>2, <3>1 DEF AnswerInv
    <3>2. CASE x # hand[s]
      BY <1>7, <2>2, <3>2, Roles DEF AnswerInv
    <3> QED
      BY <3>1, <3>2
  <2> QED
    BY <1>7, <2>2, <2>3 DEF AnswerInv
<1>8. ASSUME NEW s \in Servers, ReplyServed(s) \/ ReplyDropped(s)
      PROVE  AnswerInv'
  <2>1. pc[s] \in {"reply", "drop"} /\ hand[s] # NoRequest
    BY <1>8 DEF ReplyServed, ReplyDropped, PositionInv, HandInv
  <2>2. hand[s] \in outstanding
    BY <1>2, <2>1
  <2>3. CASE ReplyServed(s)
    <3>1. /\ executed' = executed /\ target' = target
          /\ hand' = [hand EXCEPT ![s] = NoRequest]
          /\ \E l : pc' = [pc EXCEPT ![s] = l]
          /\ pc[s] = "reply" /\ CallSendReply(s, "served")
      BY <2>3 DEF ReplyServed, Processed, Goto, Hold, clientVars
    <3>2. /\ \A t \in Servers \ {s} : pc'[t] = pc[t] /\ hand'[t] = hand[t]
          /\ hand'[s] = NoRequest
      BY <1>1, <3>1
    <3>3. \/ /\ outstanding' = outstanding \ {hand[s]} /\ lost' = lost
             /\ outcome' = [outcome EXCEPT ![hand[s]] = "served"]
          \/ /\ outstanding' = outstanding /\ outcome' = outcome
             /\ lost' = lost \cup {hand[s]}
      BY <1>2, <2>1, <2>2, <3>1 DEF CallSendReply, Reply, Lose, cloudVars, failVars
    <3> QED
      BY <1>1, <1>2, <1>7, <2>1, <3>1, <3>2, <3>3
  <2>4. CASE ReplyDropped(s)
    <3>1. /\ executed' = executed /\ target' = target
          /\ hand' = [hand EXCEPT ![s] = NoRequest]
          /\ \E l : pc' = [pc EXCEPT ![s] = l]
          /\ pc[s] = "drop" /\ CallSendReply(s, "dropped")
      BY <2>4 DEF ReplyDropped, Goto, Hold, clientVars
    <3>2. /\ \A t \in Servers \ {s} : pc'[t] = pc[t] /\ hand'[t] = hand[t]
          /\ hand'[s] = NoRequest
      BY <1>1, <3>1
    <3>3. \/ /\ outstanding' = outstanding \ {hand[s]} /\ lost' = lost
             /\ outcome' = [outcome EXCEPT ![hand[s]] = "dropped"]
          \/ /\ outstanding' = outstanding /\ outcome' = outcome
             /\ lost' = lost \cup {hand[s]}
      BY <1>2, <2>1, <2>2, <3>1 DEF CallSendReply, Reply, Lose, cloudVars, failVars
    <3> QED
      BY <1>1, <1>2, <1>7, <2>1, <3>1, <3>2, <3>3
  <2> QED
    BY <1>8, <2>3, <2>4
<1>9. ASSUME NEW s \in Servers, ServerStops(s) \/ ProcessFails(s)
      PROVE  AnswerInv'
  <2>1. /\ executed' = executed /\ target' = target /\ UNCHANGED cloudVars
        /\ hand' = [hand EXCEPT ![s] = NoRequest]
        /\ \E l : l # "reply" /\ pc' = [pc EXCEPT ![s] = l]
        /\ Lose({hand[s]}) /\ pc[s] # "reply"
    BY <1>9 DEF ServerStops, ProcessFails, MayStop, Processed, Goto, Hold, edgeVars, clientVars
  <2>2. CASE hand[s] = NoRequest
    <3>1. lost' = lost /\ hand' = hand
      BY <1>1, <2>1, <2>2, Roles DEF Lose
    <3> QED
      BY <1>1, <1>3, <2>1, <3>1 DEF Quiet, cloudVars
  <2>3. CASE hand[s] # NoRequest
    <3>1. lost' = lost \cup {hand[s]}
      BY <1>2, <2>1, <2>3 DEF Lose
    <3>2. /\ \A t \in Servers \ {s} : pc'[t] = pc[t] /\ hand'[t] = hand[t]
          /\ hand'[s] = NoRequest
      BY <1>1, <2>1
    <3> QED
      BY <1>7, <2>1, <2>3, <3>1, <3>2 DEF cloudVars
  <2> QED
    BY <2>2, <2>3
<1>10. CASE UNCHANGED vars
  BY <1>3, <1>10 DEF vars, allButPc, edgeVars, clientVars, cloudVars, historyVars, failVars,
     Quiet
<1> QED
  BY <1>3, <1>4, <1>5, <1>6, <1>8, <1>9, <1>10, AnswerChanges

-----------------------------------------------------------------------------
(* The theorems.                                                           *)
LEMMA InitShape ==
    ASSUME Init
    PROVE  Shape
<1> USE FlowAssumption, Roles
<1>1. /\ lb \in Seq(Fronts) /\ queue \in [Fronts -> Seq(Requests)]
      /\ requestQueue \in Seq(Requests)
  BY DEF Init
<1>2. /\ target \in [Requests -> Fronts \cup {NoFront}]
      /\ outcome \in [Requests -> {"none", "failed", "served", "dropped"}]
      /\ outstanding \subseteq Requests /\ dead \subseteq Servers \ {Master}
  BY DEF Init
<1>3. PositionInv
  BY DEF Init, PositionInv, PositionType, RoleInv, HandInv, AloneInv, RolePC, PC
<1>4. /\ cnt \in [Servers -> Nat] /\ len \in [Servers -> Nat]
      /\ clocked \subseteq Mids /\ executed \in [Requests -> Nat]
      /\ lost \subseteq Requests /\ stale \subseteq Servers
      /\ registered \subseteq Servers
  BY DEF Init
<1>5. shortQueueCount \in [Fronts -> 0 .. ShortLimit + 1]
  BY DEF Init
<1>6. /\ allowedMasterProcess \in {Allowed, AllowedInBurst}
      /\ masterProcessCount \in 0 .. allowedMasterProcess
      /\ rateChecked \in BOOLEAN /\ failures \in 0 .. MaxFailures
  <2>1. /\ allowedMasterProcess = Allowed /\ masterProcessCount = 0
        /\ rateChecked = FALSE /\ failures = 0
    BY DEF Init
  <2>2. 0 \in 0 .. Allowed /\ 0 \in 0 .. MaxFailures
    OBVIOUS
  <2>3. masterProcessCount \in 0 .. allowedMasterProcess
    BY <2>1, <2>2
  <2> QED
    BY <2>1, <2>2, <2>3
<1>7. BootInv
  BY DEF Init, BootInv, ServingPC
<1>8. TypeOK
  BY <1>1, <1>2, <1>3, <1>4, <1>5, <1>6 DEF TypeOK, PositionInv, PositionType
<1> QED
  BY <1>3, <1>7, <1>8 DEF Shape

(* The inductive invariant: it holds at first, and every step keeps it.    *)
THEOREM InductiveInvariant == Spec => []IInv
<1>1. Init => IInv
  <2> SUFFICES ASSUME Init PROVE IInv
    OBVIOUS
  <2>1. ListInv
    BY DEF Init, ListInv
  <2>2. Distinct
    BY Roles DEF Init, Distinct
  <2>3. Placed
    BY DEF Init, Placed, Owed
  <2>4. AnswerInv
    BY DEF Init, AnswerInv, Owed
  <2> QED
    BY <2>1, <2>2, <2>3, <2>4, InitShape DEF IInv
<1>2. IInv /\ [Next]_vars => IInv'
  <2> SUFFICES ASSUME IInv, [Next]_vars PROVE IInv'
    OBVIOUS
  <2>1. lost \subseteq outstanding /\ TypeOK /\ PositionInv
    BY DEF IInv, AnswerInv, Shape
  <2>2. Shape'
    BY <2>1, ShapeStep DEF IInv
  <2>3. ListInv'
    BY ListStep DEF IInv
  <2>4. Distinct' /\ Placed' /\ AnswerInv'
    BY <2>1, DistinctStep, PlacedStep, AnswerStepKeeps DEF IInv
  <2> QED
    BY <2>2, <2>3, <2>4 DEF IInv
<1> QED
  BY <1>1, <1>2, PTL DEF Spec

(* Every variable keeps its type; the requests that the booting master     *)
(* serves and the failing calls stay within their limits.                  *)
THEOREM TypeCorrect == Spec => []TypeOK
<1>1. IInv => TypeOK
  BY DEF IInv, Shape
<1> QED
  BY <1>1, InductiveInvariant, PTL

(* The balancer lists no front server twice, and none whose InputQueue is  *)
(* unexported unless its call to leave the list failed (lines 375-386).    *)
THEOREM ListsLive == Spec => []BalancerListsLive
<1>1. IInv => BalancerListsLive
  <2> SUFFICES ASSUME IInv, NEW i \in 1 .. Len(lb)
               PROVE  /\ lb[i] \notin dead \ stale
                      /\ \A j \in 1 .. Len(lb) : lb[i] = lb[j] => i = j
    BY DEF BalancerListsLive
  <2> QED
    BY DEF IInv, ListInv
<1> QED
  BY <1>1, InductiveInvariant, PTL

(* A request that is owed an answer is in exactly one place, and any other *)
(* in none (lines 172, 200, 224, and the failures that lose it).           *)
THEOREM InOnePlace == Spec => []OnePlace
<1>1. IInv => OnePlace
  <2> SUFFICES ASSUME IInv, NEW r \in Requests
               PROVE  Cardinality(Places(r)) = IF r \in Owed THEN 1 ELSE 0
    BY DEF OnePlace, Owed
  <2> DEFINE AtFront(p) == \E f \in Fronts : \E i \in 1 .. Len(queue[f]) :
                              queue[f][i] = r /\ p = <<f, i>>
             AtMaster(p) == \E i \in 1 .. Len(requestQueue) :
                              requestQueue[i] = r /\ p = <<"requestQueue", i>>
             AtHand(p) == \E s \in Servers : hand[s] = r /\ p = <<"hand", s>>
  <2>1. \A p : p \in Places(r) <=> AtFront(p) \/ AtMaster(p) \/ AtHand(p)
    <3> DEFINE F == UNION {{f} \X QueuePlaces(queue[f], r) : f \in Fronts}
               M == {"requestQueue"} \X QueuePlaces(requestQueue, r)
               H == {"hand"} \X {s \in Servers : hand[s] = r}
    <3>1. \A p : p \in F <=> AtFront(p)
      BY DEF QueuePlaces
    <3>2. \A p : p \in M <=> AtMaster(p)
      BY DEF QueuePlaces
    <3>3. \A p : p \in H <=> AtHand(p)
      OBVIOUS
    <3>4. Places(r) = F \cup M \cup H
      BY DEF Places
    <3> HIDE DEF AtFront, AtMaster, AtHand, F, M, H
    <3> QED
      BY <3>1, <3>2, <3>3, <3>4
  <2>2. ASSUME NEW p \in Places(r), NEW o \in Places(r)
        PROVE  p = o /\ r \in Owed
    <3>1. /\ AtFront(p) \/ AtMaster(p) \/ AtHand(p)
          /\ AtFront(o) \/ AtMaster(o) \/ AtHand(o)
      BY <2>1
    <3>2. Distinct /\ r # NoRequest
      BY Roles DEF IInv
    <3>3. CASE AtFront(p)
      BY <3>1, <3>2, <3>3 DEF Distinct
    <3>4. CASE AtMaster(p)
      BY <3>1, <3>2, <3>4 DEF Distinct
    <3>5. CASE AtHand(p)
      BY <3>1, <3>2, <3>5 DEF Distinct
    <3> QED
      BY <3>1, <3>3, <3>4, <3>5
  <2>3. CASE r \in Owed
    <3>1. \E p : AtFront(p) \/ AtMaster(p) \/ AtHand(p)
      BY <2>3 DEF IInv, Placed
    <3>2. PICK p : p \in Places(r)
      BY <2>1, <3>1
    <3>3. Places(r) = {p}
      BY <2>2, <3>2
    <3> QED
      BY <2>3, <3>3, FS_Singleton
  <2>4. CASE r \notin Owed
    <3>1. Places(r) = {}
      BY <2>2, <2>4
    <3> QED
      BY <2>4, <3>1, FS_EmptySet
  <2> QED
    BY <2>3, <2>4
<1> QED
  BY <1>1, InductiveInvariant, PTL

-----------------------------------------------------------------------------
(* The refinement: the state a client sees.                                *)
LEMMA StateSeen ==
    ASSUME AnswerInv, outstanding \subseteq Requests, NEW r \in Requests
    PROVE  serviceState[r] =
              IF r \in outstanding THEN IF executed[r] = 0 THEN "waiting" ELSE "executed"
              ELSE IF outcome[r] = "none" THEN "new" ELSE outcome[r]
<1>1. CASE r \in outstanding
  BY <1>1 DEF serviceState, AnswerInv
<1>2. CASE r \notin outstanding
  <2>1. executed[r] = (IF outcome[r] = "served" THEN 1 ELSE 0)
    BY <1>2 DEF AnswerInv
  <2> QED
    BY <1>2, <2>1 DEF serviceState
<1> QED
  BY <1>1, <1>2

(* A step that changes what is seen of one request is a move of that one.  *)
LEMMA OneMoves ==
    ASSUME NEW r \in Requests, NEW from, NEW to,
           serviceState[r] = from, serviceState'[r] = to,
           \A x \in Requests \ {r} : serviceState'[x] = serviceState[x]
    PROVE  Service!Move(r, from, to)
<1>1. serviceState' = [serviceState EXCEPT ![r] = to]
  <2>1. /\ DOMAIN serviceState = Requests /\ DOMAIN serviceState' = Requests
        /\ serviceState = [x \in Requests |-> serviceState[x]]
        /\ serviceState' = [x \in Requests |-> serviceState'[x]]
    BY DEF serviceState
  <2> QED
    BY <2>1
<1> QED
  BY <1>1 DEF Service!Move

(* Every step of the cluster is a step of the service, or not seen.        *)
LEMMA ServiceStep ==
    ASSUME IInv, IInv', [Next]_vars
    PROVE  [Service!Next]_serviceState
<1> DEFINE Seen(x) == IF x \in outstanding
                        THEN IF executed[x] = 0 THEN "waiting" ELSE "executed"
                        ELSE IF outcome[x] = "none" THEN "new" ELSE outcome[x]
<1>1. /\ \A x \in Requests : serviceState[x] = Seen(x)
      /\ \A x \in Requests : serviceState'[x] = Seen(x)'
  <2>1. /\ AnswerInv /\ AnswerInv'
        /\ outstanding \subseteq Requests /\ outstanding' \subseteq Requests
    BY DEF IInv, Shape, TypeOK
  <2>2. \A x \in Requests : serviceState[x] = Seen(x)
    BY <2>1, StateSeen
  <2>3. ASSUME NEW x \in Requests
        PROVE  serviceState'[x] = Seen(x)'
    <3>1. CASE x \in outstanding'
      BY <2>1, <3>1 DEF serviceState, AnswerInv
    <3>2. CASE x \notin outstanding'
      <4>1. executed'[x] = (IF outcome'[x] = "served" THEN 1 ELSE 0)
        BY <2>1, <3>2 DEF AnswerInv
      <4> QED
        BY <3>2, <4>1 DEF serviceState
    <3> QED
      BY <3>1, <3>2
  <2> QED
    BY <2>2, <2>3
<1>2. /\ outcome \in [Requests -> {"none", "failed", "served", "dropped"}]
      /\ executed \in [Requests -> Nat] /\ outstanding \subseteq Requests
      /\ PositionInv /\ Distinct /\ AnswerInv
  BY DEF IInv, Shape, TypeOK
<1>3. \A s \in Servers : hand[s] # NoRequest =>
         /\ hand[s] \in Requests /\ hand[s] \in Owed /\ hand[s] \in outstanding
         /\ \A t \in Servers : hand[s] = hand[t] => s = t
  BY <1>2 DEF Distinct, Owed
<1>4. CASE UNCHANGED <<executed, outstanding, outcome>>
  BY <1>4 DEF serviceState
<1>5. ASSUME NEW r \in Requests, NextFE(r) \/ QueueRequest(r)
      PROVE  [Service!Next]_serviceState
  <2>1. CASE UNCHANGED <<outstanding, outcome>>
    BY <1>4, <1>5, <2>1 DEF NextFE, QueueRequest, historyVars
  <2>2. CASE outcome' = [outcome EXCEPT ![r] = "failed"] /\ outstanding' = outstanding
    <3>1. r \notin outstanding /\ outcome[r] = "none" /\ executed' = executed
      BY <1>2, <1>5 DEF NextFE, QueueRequest, AnswerInv, historyVars
    <3>2. outcome'[r] = "failed" /\ \A x \in Requests \ {r} : outcome'[x] = outcome[x]
      BY <1>2, <2>2
    <3>3. /\ Seen(r) = "new" /\ Seen(r)' = "failed"
          /\ \A x \in Requests \ {r} : Seen(x)' = Seen(x)
      BY <2>2, <3>1, <3>2
    <3>4. Service!Move(r, "new", "failed")
      BY <1>1, <3>3, OneMoves
    <3> QED
      BY <3>4 DEF Service!Next, Service!Refuse
  <2>3. CASE outcome' = outcome /\ outstanding' = outstanding \cup {r}
    <3>1. outcome[r] = "none" /\ executed' = executed
      BY <1>5 DEF NextFE, QueueRequest, historyVars
    <3>2. CASE r \in outstanding
      <4>1. outstanding' = outstanding
        BY <2>3, <3>2
      <4> QED
        BY <1>4, <2>3, <3>1, <4>1
    <3>3. CASE r \notin outstanding
      <4>1. executed[r] = 0
        BY <1>2, <3>1, <3>3 DEF AnswerInv
      <4>2. /\ Seen(r) = "new" /\ Seen(r)' = "waiting"
            /\ \A x \in Requests \ {r} : Seen(x)' = Seen(x)
        BY <2>3, <3>1, <3>3, <4>1
      <4>3. Service!Move(r, "new", "waiting")
        BY <1>1, <4>2, OneMoves
      <4> QED
        BY <4>3 DEF Service!Next, Service!Accept
    <3> QED
      BY <3>2, <3>3
  <2> QED
    BY <1>5, <2>1, <2>2, <2>3 DEF NextFE, QueueRequest
<1>6. ASSUME NEW s \in Servers, Process(s)
      PROVE  [Service!Next]_serviceState
  <2>1. /\ UNCHANGED <<outstanding, outcome>> /\ pc[s] = "process"
        /\ executed' = [executed EXCEPT ![hand[s]] = @ + 1]
    BY <1>6 DEF Process, edgeVars, cloudVars
  <2>2. PICK r \in Requests : hand[s] = r /\ r \in Owed /\ r \in outstanding
    BY <1>2, <1>3, <2>1 DEF PositionInv, HandInv
  <2>3. executed[r] = 0
    BY <1>2, <1>3, <2>1, <2>2, Roles DEF AnswerInv
  <2>4. executed'[r] = 1 /\ \A x \in Requests \ {r} : executed'[x] = executed[x]
    BY <1>2, <2>1, <2>2, <2>3
  <2>5. /\ Seen(r) = "waiting" /\ Seen(r)' = "executed"
        /\ \A x \in Requests \ {r} : Seen(x)' = Seen(x)
    BY <2>1, <2>2, <2>3, <2>4
  <2>6. Service!Move(r, "waiting", "executed")
    BY <1>1, <2>5, OneMoves
  <2> QED
    BY <2>6 DEF Service!Next, Service!Execute
<1>7. ASSUME NEW s \in Servers, NEW r \in Requests, NEW a \in {"served", "dropped"},
             hand[s] = r, r \in Owed, r \in outstanding, CallSendReply(s, a),
             executed' = executed, executed[r] = IF a = "served" THEN 1 ELSE 0
      PROVE  [Service!Next]_serviceState
  <2>1. CASE UNCHANGED cloudVars
    BY <1>4, <1>7, <2>1 DEF cloudVars
  <2>2. CASE Reply(r, a)
    <3>1. /\ outstanding' = outstanding \ {r}
          /\ outcome'[r] = a /\ \A x \in Requests \ {r} : outcome'[x] = outcome[x]
      BY <1>2, <1>7, <2>2 DEF Reply
    <3>2. /\ Seen(r) = IF a = "served" THEN "executed" ELSE "waiting"
          /\ Seen(r)' = a
          /\ \A x \in Requests \ {r} : Seen(x)' = Seen(x)
      BY <1>7, <3>1
    <3>3. Service!Move(r, IF a = "served" THEN "executed" ELSE "waiting", a)
      BY <1>1, <3>2, OneMoves
    <3> QED
      BY <3>3 DEF Service!Next, Service!Serve, Service!Drop
  <2> QED
    BY <1>7, <2>1, <2>2 DEF CallSendReply
<1>8. ASSUME NEW s \in Servers, ReplyServed(s) \/ ReplyDropped(s)
      PROVE  [Service!Next]_serviceState
  <2>1. executed' = executed /\ pc[s] \in {"reply", "drop"}
    BY <1>8 DEF ReplyServed, ReplyDropped
  <2>2. PICK r \in Requests : hand[s] = r /\ r \in Owed /\ r \in outstanding
    BY <1>2, <1>3, <2>1 DEF PositionInv, HandInv
  <2>3. executed[r] = IF pc[s] = "reply" THEN 1 ELSE 0
    BY <1>2, <1>3, <2>2, Roles DEF AnswerInv
  <2>4. CASE ReplyServed(s)
    BY <1>7, <2>1, <2>2, <2>3, <2>4 DEF ReplyServed
  <2>5. CASE ReplyDropped(s)
    BY <1>7, <2>1, <2>2, <2>3, <2>5 DEF ReplyDropped
  <2> QED
    BY <1>8, <2>4, <2>5
<1>9. ASSUME NEW s \in Servers, ServerStops(s) \/ ProcessFails(s)
      PROVE  [Service!Next]_serviceState
  BY <1>4, <1>9 DEF ServerStops, ProcessFails, edgeVars, cloudVars
<1>10. CASE UNCHANGED vars
  BY <1>4, <1>10 DEF vars, allButPc, edgeVars, cloudVars, historyVars
<1> QED
  BY <1>2, <1>4, <1>5, <1>6, <1>8, <1>9, <1>10, AnswerChanges DEF Quiet

(* The tiers together implement the service a client sees: never refused   *)
(* after being accepted, executed at most once, served only after it was   *)
(* executed and dropped only if it was not, also when calls fail.          *)
THEOREM Implements == Spec => ImplementsService
<1>1. Init => Service!Init
  BY DEF Init, Service!Init, serviceState
<1>2. IInv /\ IInv' /\ [Next]_vars => [Service!Next]_serviceState
  BY ServiceStep
<1> QED
  BY <1>1, <1>2, InductiveInvariant, PTL DEF Spec, ImplementsService, Service!Spec

(* Once every mid server has left or stopped, no step starts one (lines    *)
(* 178, 196-198, 266-272).                                                 *)
THEOREM MidTierStaysGone == Spec => MidTierNeverReturns
<1>1. ASSUME IInv, MidTierGone, [Next]_vars
      PROVE  MidTierGone'
  <2> USE Roles DEF MidTierGone, LeavingPC, Goto, allButPc
  <2>1. /\ pc[Master] \notin {"init", "boot"} /\ PositionInv /\ pc \in [Servers -> PC]
        /\ \A m \in Mids : pc[m] \in {"leave", "unexport", "delete", "gone", "off", "stopped"}
    BY <1>1 DEF IInv, Shape, PositionInv, PositionType
  <2>2. ASSUME NEW r \in Requests, ClientStep(r) PROVE MidTierGone'
    BY <2>1, <2>2 DEF ClientStep, NextFE, QueueRequest
  <2>3. CASE MasterStep
    <3>1. ~MasterHandler /\ ~HandleBootingCheck /\ ~HandleBooting
      BY <2>1 DEF MasterHandler, HandleBootingCheck, HandleBooting
    <3>2. CASE MasterRoutine
      BY <2>1, <3>2 DEF MasterRoutine
    <3>3. CASE BootFetch
      BY <2>1, <3>3 DEF BootFetch, GetNextRequest
    <3>4. CASE BootDropHead
      BY <2>1, <3>4 DEF BootDropHead, GetNextRequest
    <3>5. CASE MasterMayAddFront
      BY <2>1, <3>5 DEF MasterMayAddFront, ScaleOutAndGoto, Off
    <3> QED
      BY <2>3, <3>1, <3>2, <3>3, <3>4, <3>5 DEF MasterStep
  <2>4. ASSUME NEW f \in Fronts, FrontStep(f) PROVE MidTierGone'
    <3>1. \A x \in Servers \ {f} : pc'[x] = pc[x]
      BY <2>1, <2>4 DEF FrontStep, RegisterFrontend, FrontReadCount, FrontScaleIn, Fetch,
         GetNextRequest, AddRequest
    <3>2. pc'[Master] \notin {"init", "boot"}
      BY <2>1, <2>4, <3>1 DEF FrontStep, RegisterFrontend, FrontReadCount, FrontScaleIn,
         Fetch, GetNextRequest, AddRequest
    <3> QED
      BY <2>1, <3>1, <3>2
  <2>5. ASSUME NEW m \in Mids, Boot(m) \/ MidStep(m) PROVE MidTierGone'
    BY <2>1, <2>5 DEF Boot, MidStep, MidReadCount, MidReadLength, MidScaleIn, PollRequest,
       DropFastRequest, MidScaleOut, MidServe
  <2>6. ASSUME NEW s \in Servers, AnswerStep(s) PROVE MidTierGone'
    <3>1. s = Master
      BY <2>1, <2>6 DEF AnswerStep, Process, ReplyServed, ReplyDropped, PositionInv, RoleInv,
         RolePC, ExitPC
    <3>2. \A x \in Servers \ {Master} : pc'[x] = pc[x]
      BY <2>1, <2>6, <3>1 DEF AnswerStep, Process, ReplyServed, Processed, ReplyDropped
    <3>3. pc'[Master] \notin {"init", "boot"}
      BY <2>1, <2>6, <3>1 DEF AnswerStep, Process, ReplyServed, Processed, ReplyDropped
    <3> QED
      BY <2>1, <3>2, <3>3
  <2>7. ASSUME NEW s \in Servers \ {Master}, ShutDownStep(s) PROVE MidTierGone'
    BY <2>1, <2>7 DEF ShutDownStep, Unregister, Unexport, DeleteVMFromMap
  <2>8. ASSUME NEW s \in Servers, FailureStep(s) PROVE MidTierGone'
    <3>1. CASE ServerStops(s)
      BY <2>1, <3>1 DEF ServerStops
    <3>2. CASE ProcessFails(s)
      <4>1. s = Master
        BY <2>1, <3>2 DEF ProcessFails, PositionInv, RoleInv, RolePC, ExitPC
      <4> QED
        BY <2>1, <3>2, <4>1 DEF ProcessFails, Processed
    <3>3. CASE BootFetchNull
      BY <2>1, <3>3 DEF BootFetchNull, Processed
    <3> QED
      BY <2>8, <3>1, <3>2, <3>3 DEF FailureStep
  <2>9. CASE UNCHANGED vars
    BY <2>1, <2>9 DEF vars
  <2> QED
    BY <1>1, <2>2, <2>3, <2>4, <2>5, <2>6, <2>7, <2>8, <2>9, StepsByRole
<1>2. IInv /\ [Next]_vars => [MidTierGone => MidTierGone']_vars
  BY <1>1
<1> QED
  BY <1>2, InductiveInvariant, PTL DEF Spec, MidTierNeverReturns
=============================================================================
