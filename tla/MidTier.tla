------------------------------- MODULE MidTier -------------------------------
(***************************************************************************)
(* How the mid tier grows and shrinks (Server.java, midRoutine): each mid  *)
(* server reads the count and the length of the master's queue by two RMI  *)
(* calls and decides on them later, while the others do the same, and each *)
(* has its own idle timer, lastProcessTime.                                *)
(*                                                                         *)
(* Time is local to a server and is told apart only as far as the code     *)
(* does: whether more than allowedIdleCycle (2000 ms) lies between two     *)
(* moments.  It may pass between any two steps.  A machine that was        *)
(* started boots into a free slot; a slot is used again when its server    *)
(* has left.  The queue is its length.  midCount is a plain int: its ++,   *)
(* in the master's main thread and in the RMI thread of each scaleOut, is a *)
(* read and a write under no lock, its -- the same under the monitor of    *)
(* deleteVMFromMap.  The 21st fast request in a row is any request of a    *)
(* server that has processed or missed one before.                         *)
(***************************************************************************)
EXTENDS Integers, FiniteSets

CONSTANTS
    Slots,      \* places for mid servers that run at the same time
    MaxQueue,   \* bound: the longest queue
    MidFactor,  \* tenths of a queued request per mid server (33)
    BurstMids,  \* mid servers handleBooting may start (4)
    Master,     \* the master's main thread
    MaxOverlaps,    \* bound: how often a thread reads midCount for an update
                    \* while another one is between its read and its write
    BootOutlasts    \* TRUE: a VM boots (5 s) longer than its starter needs
                    \* to finish scaleOutCore; FALSE: no timing is assumed

ASSUME MidTierAssumption ==
    /\ IsFiniteSet(Slots) /\ Master \notin Slots
    /\ MaxQueue \in Nat /\ BurstMids \in Nat /\ MaxOverlaps \in Nat
    /\ MidFactor \in Nat /\ MidFactor > 0
    /\ BootOutlasts \in BOOLEAN

Threads == Slots \cup {Master}

VARIABLES
    queueLen,           \* requests in the master's requestQueue
    midCount,
    starting,           \* mid servers that were started and are not up yet
    burst,              \* how many of them handleBooting started
    pc,                 \* of each server, with its RMI thread, and of Master
    reg,                \* the value of midCount a thread has read to change it
    cnt, len,           \* of each server: what midRoutine last read
    idle,               \* servers whose now - lastProcessTime (165, 168) is
                        \* too long
    nowAge,             \* is the routine's now (165) out of date by more than 2 s
    lastProcessTime,    \* "zero", or how long ago it is
    peak,               \* history: the longest queue so far
    lost,               \* history: ++ of midCount that were overwritten
    overlaps            \* history: see MaxOverlaps

raceVars   == <<reg, lost, overlaps>>
tierVars   == <<midCount, starting, burst, raceVars>>
readVars   == <<cnt, len>>
timeVars   == <<idle, nowAge, lastProcessTime>>
vars == <<queueLen, tierVars, pc, readVars, timeVars, peak>>

IncrementPC == {"readInc", "writeInc"}
PC == {"off", "loop", "count", "length", "decide", "have", "process", "leave"}
      \cup IncrementPC \cup {"writeDec"}

\* masterHandler has started the first mid server.
Init ==
    /\ queueLen = 0
    /\ midCount = 1 /\ starting = 1 /\ burst = 0
    /\ pc = [t \in Threads |-> IF t = Master THEN "loop" ELSE "off"]
    /\ reg = [t \in Threads |-> 0]
    /\ cnt = [m \in Slots |-> 0]
    /\ len = [m \in Slots |-> 0]
    /\ idle = {}
    /\ nowAge = [m \in Slots |-> "recent"]
    /\ lastProcessTime = [m \in Slots |-> "zero"]
    /\ peak = 0
    /\ lost = 0 /\ overlaps = 0

Goto(m, label) == pc' = [pc EXCEPT ![m] = label]

\* The numbers read, and the outcome of line 168, are not looked at again.
Forget(m) ==
    /\ cnt' = [cnt EXCEPT ![m] = 0]
    /\ len' = [len EXCEPT ![m] = 0]
    /\ idle' = idle \ {m}

ForgetTime(m) == nowAge' = [nowAge EXCEPT ![m] = "recent"]

\* midRoutine returns; its locals are gone.
Return(m) == Goto(m, "count") /\ Forget(m) /\ ForgetTime(m)

-----------------------------------------------------------------------------
(* The updates of midCount.                                                *)

\* Threads that have started a machine and not yet counted it.
Incrementing == {t \in Threads : pc[t] \in IncrementPC}

\* A thread reads midCount to change it.
ReadMidCount(t) ==
    /\ reg' = [reg EXCEPT ![t] = midCount]
    /\ \/ /\ \A u \in Threads : pc[u] \notin {"writeInc", "writeDec"}
          /\ UNCHANGED overlaps
       \/ /\ \E u \in Threads : pc[u] \in {"writeInc", "writeDec"}
          /\ overlaps < MaxOverlaps
          /\ overlaps' = overlaps + 1

\* It writes n; what others have added to midCount since it read is lost.
WriteMidCount(t, n) ==
    /\ midCount' = n
    /\ lost' = lost + (IF midCount > reg[t] THEN midCount - reg[t] ELSE 0)
    /\ reg' = [reg EXCEPT ![t] = 0]

ReadIncrement(t) ==
    /\ pc[t] = "readInc"
    /\ ReadMidCount(t)
    /\ Goto(t, "writeInc")
    /\ UNCHANGED <<queueLen, midCount, starting, burst, lost, readVars, timeVars, peak>>

\* With that the call of scaleOut ends; the mid server drops the request
\* (lines 179-180) and its routine returns.
WriteIncrement(t) ==
    /\ pc[t] = "writeInc"
    /\ WriteMidCount(t, reg[t] + 1)
    /\ Goto(t, IF t = Master THEN "loop" ELSE "count")
    /\ UNCHANGED <<queueLen, starting, burst, overlaps, readVars, timeVars, peak>>

Increment(t) == ReadIncrement(t) \/ WriteIncrement(t)

-----------------------------------------------------------------------------
(* Around the mid tier: requests, the booting master, machines, time.      *)

\* A front server adds a request to the master's queue.
AddRequest ==
    /\ queueLen < MaxQueue
    /\ queueLen' = queueLen + 1
    /\ peak' = IF queueLen' > peak THEN queueLen' ELSE peak
    /\ UNCHANGED <<tierVars, pc, readVars, timeVars>>

\* handleBooting's masterScaleOut(1): scaleOutCore up to its ++.
MasterScaleOut ==
    /\ pc[Master] = "loop"
    /\ burst < BurstMids
    /\ burst' = burst + 1
    /\ starting' = starting + 1
    /\ Goto(Master, "readInc")
    /\ UNCHANGED <<queueLen, midCount, raceVars, readVars, timeVars, peak>>

\* A machine is up: static fields are zero, midHandler begins its loop.
Boot(m) ==
    /\ pc[m] = "off"
    /\ starting > (IF BootOutlasts THEN Cardinality(Incrementing) ELSE 0)
    /\ starting' = starting - 1
    /\ Return(m)
    /\ lastProcessTime' = [lastProcessTime EXCEPT ![m] = "zero"]
    /\ UNCHANGED <<queueLen, midCount, burst, raceVars, peak>>

\* More than 2 s have gone by since lastProcessTime, or since the routine's now,
\* which is never the older of the two.
TimePasses(m) ==
    /\ pc[m] # "off"
    /\ \/ /\ lastProcessTime[m] = "recent"
          /\ UNCHANGED nowAge
       \/ /\ pc[m] \in {"length", "decide", "have", "process"} /\ nowAge[m] = "recent"
          /\ nowAge' = [nowAge EXCEPT ![m] = "old"]
    /\ lastProcessTime' = [lastProcessTime EXCEPT ![m] =
                             IF @ = "zero" THEN "zero" ELSE "old"]
    /\ UNCHANGED <<queueLen, tierVars, pc, readVars, idle, peak>>

-----------------------------------------------------------------------------
(* midRoutine, call by call.                                               *)

\* Lines 165-166: the time, then the count.
ReadCount(m) ==
    /\ pc[m] = "count"
    /\ Goto(m, "length")
    /\ cnt' = [cnt EXCEPT ![m] = midCount]
    /\ idle' = IF lastProcessTime[m] = "old" THEN idle \cup {m} ELSE idle \ {m}
    /\ UNCHANGED <<queueLen, tierVars, len, nowAge, lastProcessTime, peak>>

ReadLength(m) ==
    /\ pc[m] = "length"
    /\ Goto(m, "decide")
    /\ len' = [len EXCEPT ![m] = queueLen]
    /\ UNCHANGED <<queueLen, tierVars, cnt, timeVars, peak>>

\* Line 168: leave if idle for too long and, by the count read, not alone.
MayLeave(m) == m \in idle /\ cnt[m] > 1

ScaleIn(m) ==
    /\ pc[m] = "decide" /\ MayLeave(m)
    /\ Goto(m, "leave") /\ Forget(m) /\ ForgetTime(m)
    /\ UNCHANGED <<queueLen, tierVars, lastProcessTime, peak>>

\* Fault: the length read before decides whether there is a request.
PollRequestByLength(m) ==
    /\ pc[m] = "decide" /\ ~MayLeave(m)
    /\ len[m] > 0
    /\ queueLen' = queueLen - 1
    /\ Goto(m, "have")
    /\ idle' = idle \ {m}
    /\ UNCHANGED <<tierVars, readVars, nowAge, lastProcessTime, peak>>

PollRequest(m) ==
    /\ pc[m] = "decide" /\ ~MayLeave(m)
    /\ queueLen > 0
    /\ queueLen' = queueLen - 1
    /\ Goto(m, "have")
    /\ idle' = idle \ {m}
    /\ UNCHANGED <<tierVars, readVars, nowAge, lastProcessTime, peak>>

\* The age the routine's now has when it is assigned.
SetLastProcessTime(m) ==
    lastProcessTime' = [lastProcessTime EXCEPT ![m] = nowAge[m]]

\* Fault: lastProcessTime stays zero until a request was processed.
PollNullNoClock(m) ==
    /\ pc[m] = "decide" /\ ~MayLeave(m)
    /\ queueLen = 0
    /\ Return(m)
    /\ UNCHANGED <<queueLen, tierVars, lastProcessTime, peak>>

\* Lines 185-189: no request; the idle timer starts if it never did.
PollNull(m) ==
    /\ pc[m] = "decide" /\ ~MayLeave(m)
    /\ queueLen = 0
    /\ IF lastProcessTime[m] = "zero"
         THEN SetLastProcessTime(m) ELSE UNCHANGED lastProcessTime
    /\ Return(m)
    /\ UNCHANGED <<queueLen, tierVars, peak>>

\* dropFastRequest: only if lastProcessTime is a moment ago.
DropFastRequest(m) ==
    /\ pc[m] = "have" /\ lastProcessTime[m] = "recent"
    /\ Return(m)
    /\ UNCHANGED <<queueLen, tierVars, lastProcessTime, peak>>

\* Fault: the length is not compared with the count, but with midFactor alone.
QueueIsLongForOne(m) == 10 * len[m] > MidFactor

QueueIsLong(m) == 10 * len[m] > MidFactor * cnt[m]

\* Lines 177-178: one server more, for the price of the request in hand; its
\* scaleOutCore in the master up to the ++.
ScaleOut(m) ==
    /\ pc[m] = "have" /\ QueueIsLong(m)
    /\ starting' = starting + 1
    /\ Goto(m, "readInc") /\ Forget(m) /\ ForgetTime(m)
    /\ UNCHANGED <<queueLen, midCount, burst, raceVars, lastProcessTime, peak>>

StartProcessing(m) ==
    /\ pc[m] = "have" /\ ~QueueIsLong(m)
    /\ Goto(m, "process") /\ Forget(m)
    /\ UNCHANGED <<queueLen, tierVars, nowAge, lastProcessTime, peak>>

\* Lines 182-183: the request is done, the timer is set to the routine's now.
ProcessRequest(m) ==
    /\ pc[m] = "process"
    /\ SetLastProcessTime(m)
    /\ Return(m)
    /\ UNCHANGED <<queueLen, tierVars, peak>>

\* shutDown: deleteVMFromMap enters the master's monitor and begins its --,
DeleteVMFromMap(m) ==
    /\ pc[m] = "leave"
    /\ \A n \in Slots : pc[n] # "writeDec"
    /\ ReadMidCount(m)
    /\ Goto(m, "writeDec")
    /\ UNCHANGED <<queueLen, midCount, starting, burst, lost, readVars, timeVars, peak>>

\* ... writes it and leaves the monitor; the process exits.
ShutDown(m) ==
    /\ pc[m] = "writeDec"
    /\ WriteMidCount(m, reg[m] - 1)
    /\ Goto(m, "off")
    /\ lastProcessTime' = [lastProcessTime EXCEPT ![m] = "zero"]
    /\ UNCHANGED <<queueLen, starting, burst, overlaps, readVars, idle, nowAge, peak>>

MidStep(m) ==
    \/ ReadCount(m) \/ ReadLength(m) \/ ScaleIn(m) \/ PollRequest(m) \/ PollNull(m)
    \/ DropFastRequest(m) \/ ScaleOut(m) \/ StartProcessing(m)
    \/ ProcessRequest(m) \/ DeleteVMFromMap(m) \/ ShutDown(m)

-----------------------------------------------------------------------------
Next ==
    \/ AddRequest \/ MasterScaleOut
    \/ \E t \in Threads : Increment(t)
    \/ \E m \in Slots : Boot(m) \/ TimePasses(m) \/ MidStep(m)

Spec == Init /\ [][Next]_vars

(* Started machines boot, server threads go on and time goes on; neither   *)
(* requests nor the master's burst have to come.                           *)
FairSpec ==
    /\ Spec
    /\ WF_vars(\E m \in Slots : Boot(m))
    /\ \A t \in Threads : WF_vars(Increment(t))
    /\ \A m \in Slots : WF_vars(MidStep(m)) /\ WF_vars(TimePasses(m))

-----------------------------------------------------------------------------
(* Properties.                                                             *)

(* Type invariant; the length of the queue and the number of machines are  *)
(* not negative.  midCount may be: servers that a lost ++ has left          *)
(* uncounted may leave all the same (line 168).                            *)
TypeOK ==
    /\ queueLen \in 0 .. MaxQueue /\ peak \in 0 .. MaxQueue
    /\ midCount \in Int /\ starting \in Nat /\ burst \in 0 .. BurstMids
    /\ pc \in [Threads -> PC] /\ reg \in [Threads -> Int]
    /\ cnt \in [Slots -> Int] /\ len \in [Slots -> 0 .. MaxQueue]
    /\ idle \subseteq Slots
    /\ nowAge \in [Slots -> {"recent", "old"}]
    /\ lastProcessTime \in [Slots -> {"zero", "recent", "old"}]
    /\ lost \in Nat /\ overlaps \in 0 .. MaxOverlaps

\* The servers whose process is up.
Running == {m \in Slots : pc[m] # "off"}

\* The mid servers there are, those that still boot included.
TierSize == Cardinality(Running) + starting

(* The herd: servers that read the same old count each start another one   *)
(* (lines 166, 177-178).  Take any number c of servers for which the       *)
(* longest queue so far was not too long.  If booting outlasts scaleOutCore*)
(* the tier never grows to twice c, apart from the servers that the booting*)
(* master started and from two for each ++ of midCount (line 410) that was *)
(* overwritten: one that nobody counts, and one that it starts.            *)
Enough(c) == MidFactor * c >= 10 * peak

HerdBounded ==
    BootOutlasts =>
        \A c \in 1 .. 10 * MaxQueue + 1 :
            Enough(c) => TierSize < 2 * c + burst + 2 * lost

(* Scale-in works without help from new requests: either requests keep     *)
(* coming to the master's queue or the tier shrinks to at most one server, *)
(* since a server that never gets a request starts its idle timer with its *)
(* first empty poll (lines 186-188).  Servers whose ++ was lost (line 410) *)
(* stay: the count is then too low for anybody to leave (line 168).        *)
TierShrinks == []<>(queueLen > 0) \/ <>[](TierSize <= 1 + lost)
=============================================================================
