------------------------------- MODULE Booting -------------------------------
(***************************************************************************)
(* The master's main loop with its clock (Server.java, masterRoutine and   *)
(* handleBooting): what it does with the requests of its own InputQueue    *)
(* while VM 2, the first mid server, boots, and after that.                *)
(*                                                                         *)
(* Time passes between any two steps; now is the value the code read at    *)
(* the top of the routine, which may be old when it is used.  The unit of  *)
(* the clock and all thresholds are constants.  Which request is which     *)
(* makes no difference here (RequestFlow follows them): the InputQueue is  *)
(* its length.  Departures of front servers, which lower frontCount, are   *)
(* left out (Cluster has them).                                            *)
(***************************************************************************)
EXTENDS Integers

CONSTANTS
    Horizon,            \* bound: the last moment
    MaxArrivals,        \* bound: requests that the load balancer sends here
    RateDelay,          \* the rate is looked at once after this time (1000 ms)
    BurstInterval,      \* below this time per request, a burst (185 ms)
    FastInterval,       \* below this, one mid server more (250 ms)
    DropInterval,       \* two requests served within it: drop one (800 ms)
    AddFrontInterval,   \* time between two new front servers (3000 ms)
    Allowed,            \* requests the master serves (15)
    AllowedInBurst,     \* ... after a burst (25)
    BurstMids,          \* mid servers that a burst starts (4)
    FrontFactor         \* tenths of a queued request per front server (29)

ASSUME BootingAssumption ==
    /\ {Horizon, MaxArrivals, RateDelay, BurstInterval, FastInterval,
        DropInterval, AddFrontInterval, Allowed, AllowedInBurst, BurstMids,
        FrontFactor} \subseteq Nat
    /\ Horizon >= 1
    /\ BurstInterval <= FastInterval
    /\ Allowed <= AllowedInBurst

Never == Horizon + 1        \* masterStartTime = Long.MAX_VALUE

VARIABLES
    clock, arrived,
    vmStatus,               \* getStatusVM(2)
    queueLen,               \* requests in the master's InputQueue
    pc, now,
    masterStartTime, masterProcessCount, allowedMasterProcess,
    lastProcessTime, lastAddFrontTime, frontCount, midCount,
    served, gap, late       \* history: when a request was last served, the time
                            \* between the last two, and how many were served
                            \* although VM 2 was running

envVars   == <<clock, arrived, vmStatus>>
bootVars  == <<masterProcessCount, lastProcessTime>>
rateVars  == <<masterStartTime, allowedMasterProcess>>
tierVars  == <<frontCount, midCount>>
histVars  == <<served, gap, late>>
vars == <<envVars, queueLen, pc, now, bootVars, rateVars, lastAddFrontTime,
          tierVars, histVars>>

PC == {"loop", "rate", "limit", "get", "process", "fast", "dropFast", "drop",
       "next", "scale"}

\* masterHandler has registered the master and started VM 2 and VM 3.
Init ==
    /\ clock = 1 /\ arrived = 0
    /\ vmStatus = "NonExistent"
    /\ queueLen = 0
    /\ pc = "loop" /\ now = 1
    /\ masterStartTime = 1
    /\ masterProcessCount = 0 /\ allowedMasterProcess = Allowed
    /\ lastProcessTime = 0 /\ lastAddFrontTime = 0
    /\ frontCount = 2 /\ midCount = 1
    /\ served = 0 /\ gap = 0 /\ late = 0

-----------------------------------------------------------------------------
(* Time, the load balancer and the cloud.                                  *)

Tick ==
    /\ clock < Horizon
    /\ clock' = clock + 1
    /\ UNCHANGED <<arrived, vmStatus, queueLen, pc, now, bootVars, rateVars,
                   lastAddFrontTime, tierVars, histVars>>

Arrive ==
    /\ arrived < MaxArrivals
    /\ arrived' = arrived + 1
    /\ queueLen' = queueLen + 1
    /\ UNCHANGED <<clock, vmStatus, pc, now, bootVars, rateVars,
                   lastAddFrontTime, tierVars, histVars>>

VM2 ==
    /\ \/ vmStatus = "NonExistent" /\ vmStatus' = "Booting"
       \/ vmStatus = "Booting" /\ vmStatus' = "Running"
    /\ UNCHANGED <<clock, arrived, queueLen, pc, now, bootVars, rateVars,
                   lastAddFrontTime, tierVars, histVars>>

-----------------------------------------------------------------------------
(* The master's thread.                                                    *)

MasterRoutine ==
    /\ pc = "loop"
    /\ pc' = IF vmStatus = "Booting" THEN "rate" ELSE "next"
    /\ now' = IF vmStatus = "Booting" THEN clock ELSE now
    /\ UNCHANGED <<envVars, queueLen, bootVars, rateVars, lastAddFrontTime,
                   tierVars, histVars>>

\* The one look at the rate, and what it leads to: nothing, one mid server, or
\* a burst of servers.  Integer division, as in the code.
RateTooHigh(diff) == queueLen # 0 /\ diff \div queueLen < BurstInterval
RateHigh(diff)    == queueLen # 0 /\ diff \div queueLen < FastInterval

\* Fault: masterStartTime is not set, so the rate is looked at in every cycle.
CheckRateAgain ==
    /\ pc = "rate"
    /\ LET diff == now - masterStartTime
           burst == diff > RateDelay /\ RateTooHigh(diff)
       IN  /\ frontCount' = IF burst THEN frontCount + 1 ELSE frontCount
           /\ midCount' = IF burst THEN midCount + BurstMids ELSE midCount
           /\ allowedMasterProcess' =
                  IF burst THEN AllowedInBurst ELSE allowedMasterProcess
    /\ pc' = "limit"
    /\ UNCHANGED <<envVars, queueLen, now, bootVars, masterStartTime,
                   lastAddFrontTime, histVars>>

CheckRate ==
    /\ pc = "rate"
    /\ pc' = "limit"
    /\ LET diff == now - masterStartTime
       IN  \/ /\ diff <= RateDelay
              /\ UNCHANGED <<rateVars, tierVars>>
           \/ /\ diff > RateDelay
              /\ masterStartTime' = Never
              /\ \/ /\ RateTooHigh(diff)
                    /\ frontCount' = frontCount + 1
                    /\ midCount' = midCount + BurstMids
                    /\ allowedMasterProcess' = AllowedInBurst
                 \/ /\ RateHigh(diff) /\ ~RateTooHigh(diff)
                    /\ midCount' = midCount + 1
                    /\ UNCHANGED <<frontCount, allowedMasterProcess>>
                 \/ /\ ~RateHigh(diff)
                    /\ UNCHANGED <<tierVars, allowedMasterProcess>>
    /\ UNCHANGED <<envVars, queueLen, now, bootVars, lastAddFrontTime, histVars>>

\* Fault: <= for <.
UnderLimitOrEqual ==
    /\ pc = "limit"
    /\ pc' = IF masterProcessCount <= allowedMasterProcess THEN "get" ELSE "drop"
    /\ UNCHANGED <<envVars, queueLen, now, bootVars, rateVars, lastAddFrontTime,
                   tierVars, histVars>>

\* Fault: over the limit, requests are left in the queue until VM 2 is up.
UnderLimitNoDrop ==
    /\ pc = "limit"
    /\ pc' = IF masterProcessCount < allowedMasterProcess THEN "get" ELSE "loop"
    /\ UNCHANGED <<envVars, queueLen, now, bootVars, rateVars, lastAddFrontTime,
                   tierVars, histVars>>

UnderLimit ==
    /\ pc = "limit"
    /\ pc' = IF masterProcessCount < allowedMasterProcess THEN "get" ELSE "drop"
    /\ UNCHANGED <<envVars, queueLen, now, bootVars, rateVars, lastAddFrontTime,
                   tierVars, histVars>>

\* getNextRequest waits for a request: in handleBooting to serve it, otherwise
\* to hand it to requestQueue.
GetNextRequest ==
    /\ pc \in {"get", "next"} /\ queueLen > 0
    /\ queueLen' = queueLen - 1
    /\ pc' = IF pc = "get" THEN "process" ELSE "scale"
    /\ now' = IF pc = "get" THEN now ELSE clock
    /\ UNCHANGED <<envVars, bootVars, rateVars, lastAddFrontTime, tierVars, histVars>>

ProcessRequest ==
    /\ pc = "process"
    /\ pc' = "fast"
    /\ masterProcessCount' = masterProcessCount + 1
    /\ served' = clock
    /\ gap' = clock - served
    /\ late' = late + (IF vmStatus = "Running" THEN 1 ELSE 0)
    /\ UNCHANGED <<envVars, queueLen, now, lastProcessTime, rateVars,
                   lastAddFrontTime, tierVars>>

\* Fault: back to serving without another look at the status of VM 2.
CheckFastStays ==
    /\ pc = "fast"
    /\ pc' = IF masterProcessCount < allowedMasterProcess THEN "get" ELSE "drop"
    /\ lastProcessTime' = now
    /\ UNCHANGED <<envVars, queueLen, now, masterProcessCount, rateVars,
                   lastAddFrontTime, tierVars, histVars>>

\* Drop the next head if the routines that served the last two requests began
\* within DropInterval.
CheckFast ==
    /\ pc = "fast"
    /\ pc' = IF lastProcessTime # 0 /\ now - lastProcessTime < DropInterval
               THEN "dropFast" ELSE "loop"
    /\ lastProcessTime' = now
    /\ UNCHANGED <<envVars, queueLen, now, masterProcessCount, rateVars,
                   lastAddFrontTime, tierVars, histVars>>

\* dropHead: nothing to do if the queue is empty.
DropHead ==
    /\ pc \in {"dropFast", "drop"}
    /\ queueLen' = IF queueLen > 0 THEN queueLen - 1 ELSE 0
    /\ pc' = "loop"
    /\ UNCHANGED <<envVars, now, bootVars, rateVars, lastAddFrontTime, tierVars,
                   histVars>>

\* Fault: lastAddFrontTime keeps the time of the first look.
AddFrontNoReset ==
    /\ pc = "scale"
    /\ pc' = "loop"
    /\ LET last == IF lastAddFrontTime = 0 THEN now ELSE lastAddFrontTime
           add == /\ now - last > AddFrontInterval
                  /\ 10 * queueLen > FrontFactor * frontCount
       IN  /\ lastAddFrontTime' = last
           /\ frontCount' = IF add THEN frontCount + 1 ELSE frontCount
    /\ UNCHANGED <<envVars, queueLen, now, bootVars, rateVars, midCount, histVars>>

\* After a request was handed over: a front server more if the queue is long
\* and the last one was started long enough ago.
AddFront ==
    /\ pc = "scale"
    /\ pc' = "loop"
    /\ LET last == IF lastAddFrontTime = 0 THEN now ELSE lastAddFrontTime
           add == /\ now - last > AddFrontInterval
                  /\ 10 * queueLen > FrontFactor * frontCount
       IN  /\ lastAddFrontTime' = IF add THEN now ELSE last
           /\ frontCount' = IF add THEN frontCount + 1 ELSE frontCount
    /\ UNCHANGED <<envVars, queueLen, now, bootVars, rateVars, midCount, histVars>>

MasterStep ==
    \/ MasterRoutine \/ CheckRate \/ UnderLimit \/ GetNextRequest
    \/ ProcessRequest \/ CheckFast \/ DropHead \/ AddFront

Next == Tick \/ Arrive \/ VM2 \/ MasterStep

Spec == Init /\ [][Next]_vars

(* Only the master's thread has to go on; VM 2 may boot for ever.          *)
FairSpec == Spec /\ WF_vars(MasterStep)

-----------------------------------------------------------------------------
(* Properties.                                                             *)

(* Type invariant; the master serves no more requests than are allowed.    *)
TypeOK ==
    /\ clock \in 1 .. Horizon /\ arrived \in 0 .. MaxArrivals
    /\ vmStatus \in {"NonExistent", "Booting", "Running"}
    /\ queueLen \in 0 .. MaxArrivals
    /\ pc \in PC /\ now \in 1 .. clock
    /\ masterStartTime \in {1, Never}
    /\ allowedMasterProcess \in {Allowed, AllowedInBurst}
    /\ masterProcessCount \in 0 .. allowedMasterProcess
    /\ lastProcessTime \in 0 .. clock /\ lastAddFrontTime \in 0 .. clock
    /\ frontCount \in Nat /\ midCount \in Nat
    /\ served \in 0 .. clock /\ gap \in 0 .. clock /\ late \in Nat

(* However long VM 2 boots and however many requests wait, handleBooting   *)
(* starts one mid server or one burst in all: the check disarms itself by  *)
(* masterStartTime = Long.MAX_VALUE (line 275).                            *)
ScalesOnceWhileBooting == midCount - 1 \in {0, 1, BurstMids}

(* The status of VM 2 may be out of date when the master acts on it, by    *)
(* one request: blocked in getNextRequest (line 278) it still serves the   *)
(* next request itself, and then looks again.                              *)
OneLateRequest == late <= 1

(* However long the queue stays, the master's routine spaces the front     *)
(* servers it starts by more than AddFrontInterval (lines 205-212); two    *)
(* front servers were there at the start and one burst may add one.        *)
FrontsSpacedOut == (frontCount - 3) * (AddFrontInterval + 1) < clock

(* The master's way to the next head of its InputQueue, in steps.          *)
StepsToHead ==
    [p \in PC |->
        CASE p \in {"get", "next", "drop", "dropFast"} -> 0
          [] p = "limit" -> 1
          [] p = "rate"  -> 2
          [] p = "loop"  -> 3
          [] p \in {"fast", "scale"} -> 4
          [] p = "process" -> 5]

(* While a request waits, every step of the master takes the head of the   *)
(* queue or comes closer to doing so, whatever VM 2, the clock and the     *)
(* rate are: no branch of masterRoutine and handleBooting (lines 195-216,  *)
(* 256-288) goes round the queue.                                          *)
HeadComesCloser ==
    [][queueLen > 0 /\ pc' # pc
        => queueLen' < queueLen \/ StepsToHead[pc'] < StepsToHead[pc]]_vars

(* The requests of the master's InputQueue are served, dropped or handed   *)
(* over even if VM 2 never comes up: over the limit the head is dropped    *)
(* (line 286), and no wait in the loop is for anything but a request.      *)
QueueDrains == queueLen > 0 ~> queueLen = 0

(* README.md:27 and Server.java:252-253 "when process interval is smaller  *)
(* than 800 ms, drop the first request in the serverLib queue".            *)
FastMeansDrop ==
    [][pc = "fast" /\ masterProcessCount > 1 /\ gap < DropInterval
        => pc' \in {"fast", "dropFast"}]_vars
=============================================================================
