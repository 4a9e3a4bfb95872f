---------------------------- MODULE MidTierProofs ----------------------------
(***************************************************************************)
(* Machine-checked theorems about MidTier, for any number of servers, any  *)
(* bound on the queue, any threshold and any overlaps of updates: the herd *)
(* of mid servers that act on an old count is bounded, by what midCount    *)
(* has lost.                                                               *)
(***************************************************************************)
EXTENDS MidTier, TLAPS, FiniteSetTheorems

\* The servers that may still scale out on the strength of a count below c.
Deciding(c) == {m \in Slots : pc[m] \in {"length", "decide", "have"} /\ cnt[m] < c}

\* The master's main thread is in scaleOutCore only for the burst.
MasterInv ==
    /\ pc[Master] \in {"loop"} \cup IncrementPC
    /\ pc[Master] \in IncrementPC => burst >= 1

(* The machines that no thread is about to count are counted, but for the  *)
(* ++ that were lost.                                                      *)
LostInv == TierSize <= midCount + Cardinality(Incrementing) + lost

\* A machine that is not counted yet is not up yet.
UncountedBoots == BootOutlasts => Cardinality(Incrementing) <= starting

(* No length that was read exceeds the longest queue.                      *)
PeakInv == queueLen <= peak /\ \A m \in Slots : len[m] <= peak

(* Even if every server that may still scale out does so, the tier stays   *)
(* below twice any number of servers that is enough for the longest queue, *)
(* apart from the burst and what lost updates cost.                        *)
HerdInv ==
    BootOutlasts =>
        \A c \in Nat \ {0} :
            Enough(c) => TierSize + Cardinality(Deciding(c)) < 2 * c + burst + 2 * lost

IInv == TypeOK /\ MasterInv /\ LostInv /\ UncountedBoots /\ PeakInv /\ HerdInv

-----------------------------------------------------------------------------
(* The sets that are counted are finite.                                   *)
LEMMA FiniteSets ==
    /\ IsFiniteSet(Running) /\ Cardinality(Running) \in Nat
    /\ IsFiniteSet(Incrementing) /\ Cardinality(Incrementing) \in Nat
    /\ \A c : /\ IsFiniteSet(Deciding(c)) /\ Cardinality(Deciding(c)) \in Nat
              /\ Deciding(c) \subseteq Running
<1>1. IsFiniteSet(Slots) /\ Running \subseteq Slots
  BY MidTierAssumption DEF Running
<1>2. \A c : Deciding(c) \subseteq Running
  BY DEF Deciding, Running
<1>3. IsFiniteSet(Running)
  BY <1>1, FS_Subset
<1>4. IsFiniteSet(Threads) /\ Incrementing \subseteq Threads
  BY <1>1, FS_AddElement DEF Threads, Incrementing
<1>5. IsFiniteSet(Incrementing)
  BY <1>4, FS_Subset
<1> QED
  BY <1>2, <1>3, <1>5, FS_Subset, FS_CardinalityType

(* The same of the next state.                                             *)
LEMMA FiniteSetsNext ==
    /\ IsFiniteSet(Running') /\ Cardinality(Running') \in Nat
    /\ IsFiniteSet(Incrementing') /\ Cardinality(Incrementing') \in Nat
    /\ \A c : /\ IsFiniteSet(Deciding(c)') /\ Cardinality(Deciding(c)') \in Nat
              /\ Deciding(c)' \subseteq Running'
<1>1. IsFiniteSet(Slots) /\ Running' \subseteq Slots
  BY MidTierAssumption DEF Running
<1>2. \A c : Deciding(c)' \subseteq Running'
  BY DEF Deciding, Running
<1>3. IsFiniteSet(Running')
  BY <1>1, FS_Subset
<1>4. IsFiniteSet(Threads) /\ Incrementing' \subseteq Threads
  BY <1>1, FS_AddElement DEF Threads, Incrementing
<1>5. IsFiniteSet(Incrementing')
  BY <1>4, FS_Subset
<1> QED
  BY <1>2, <1>3, <1>5, FS_Subset, FS_CardinalityType

(* A server acts on its two numbers (line 177) only if the count it read   *)
(* is below any number of servers that is enough for the longest queue.    *)
LEMMA LongOnlyBelowEnough ==
    ASSUME TypeOK, PeakInv, NEW m \in Slots, NEW c \in Nat, Enough(c), QueueIsLong(m)
    PROVE  cnt[m] < c
<1>1. /\ cnt[m] \in Int /\ len[m] \in Nat /\ peak \in Nat /\ len[m] <= peak
      /\ MidFactor \in Nat
  BY MidTierAssumption DEF TypeOK, PeakInv
<1> SUFFICES ASSUME c <= cnt[m] PROVE FALSE
  BY <1>1
<1>2. cnt[m] \in Nat
  BY <1>1
<1>3. MidFactor * cnt[m] < MidFactor * c
  <2>1. MidFactor * cnt[m] \in Nat /\ MidFactor * c \in Nat
    BY <1>1, <1>2
  <2>2. 10 * len[m] <= 10 * peak
    BY <1>1
  <2> QED
    BY <1>1, <2>1, <2>2 DEF Enough, QueueIsLong
<1>4. \A a, b, d \in Nat : d <= b => a * d <= a * b
  OBVIOUS
<1> QED
  BY <1>1, <1>2, <1>3, <1>4

-----------------------------------------------------------------------------
(* Every step keeps the types.                                             *)
LEMMA TypeStep ==
    ASSUME TypeOK, [Next]_vars
    PROVE  TypeOK'
<1> USE MidTierAssumption DEF TypeOK, PC, Goto, Forget, ForgetTime, Return, tierVars,
                              raceVars, readVars, timeVars, IncrementPC, Threads
<1>1. CASE AddRequest
  BY <1>1 DEF AddRequest
<1>2. CASE MasterScaleOut
  BY <1>2 DEF MasterScaleOut
<1>3. ASSUME NEW m \in Slots, Boot(m)
      PROVE  TypeOK'
  <2>1. starting - 1 \in Nat
    BY <1>3, FiniteSets DEF Boot
  <2> QED
    BY <1>3, <2>1 DEF Boot
<1>4. ASSUME NEW m \in Slots, TimePasses(m)
      PROVE  TypeOK'
  BY <1>4 DEF TimePasses
<1>5. ASSUME NEW m \in Slots, MidStep(m)
      PROVE  TypeOK'
  <2>1. CASE ReadCount(m)
    BY <2>1 DEF ReadCount
  <2>2. CASE ReadLength(m)
    BY <2>2 DEF ReadLength
  <2>3. CASE ScaleIn(m)
    BY <2>3 DEF ScaleIn
  <2>4. CASE PollRequest(m)
    BY <2>4 DEF PollRequest
  <2>5. CASE PollNull(m)
    BY <2>5 DEF PollNull, SetLastProcessTime
  <2>6. CASE DropFastRequest(m)
    BY <2>6 DEF DropFastRequest
  <2>7. CASE ScaleOut(m)
    BY <2>7 DEF ScaleOut
  <2>8. CASE StartProcessing(m)
    BY <2>8 DEF StartProcessing
  <2>9. CASE ProcessRequest(m)
    BY <2>9 DEF ProcessRequest, SetLastProcessTime
  <2>10. CASE DeleteVMFromMap(m)
    BY <2>10 DEF DeleteVMFromMap, ReadMidCount
  <2>11. CASE ShutDown(m)
    BY <2>11 DEF ShutDown, WriteMidCount
  <2> QED
    BY <1>5, <2>1, <2>2, <2>3, <2>4, <2>5, <2>6, <2>7, <2>8, <2>9, <2>10, <2>11, Zenon
       DEF MidStep
<1>6. ASSUME NEW t \in Threads, Increment(t)
      PROVE  TypeOK'
  BY <1>6 DEF Increment, ReadIncrement, WriteIncrement, ReadMidCount, WriteMidCount
<1>7. CASE UNCHANGED vars
  BY <1>7 DEF vars
<1> QED
  BY <1>1, <1>2, <1>3, <1>4, <1>5, <1>6, <1>7 DEF Next

(* Every step keeps what was read below the longest queue.                 *)
LEMMA PeakStep ==
    ASSUME TypeOK, PeakInv, [Next]_vars
    PROVE  PeakInv'
<1> USE MidTierAssumption
<1>1. CASE AddRequest
  BY <1>1 DEF AddRequest, PeakInv, TypeOK, readVars
<1>2. CASE MasterScaleOut
  BY <1>2 DEF MasterScaleOut, PeakInv, readVars
<1>3. ASSUME NEW m \in Slots, Boot(m) \/ TimePasses(m) \/ MidStep(m)
      PROVE  PeakInv'
  <2>1. peak' = peak /\ (queueLen' = queueLen \/ queueLen' = queueLen - 1)
    BY <1>3, Zenon DEF Boot, TimePasses, MidStep, ReadCount, ReadLength, ScaleIn, PollRequest,
                PollNull, DropFastRequest, ScaleOut, StartProcessing, ProcessRequest,
                DeleteVMFromMap, ShutDown
  <2>2. \/ len' = len \/ len' = [len EXCEPT ![m] = 0] \/ len' = [len EXCEPT ![m] = queueLen]
    BY <1>3, Zenon DEF Boot, TimePasses, MidStep, ReadCount, ReadLength, ScaleIn, PollRequest,
                PollNull, DropFastRequest, ScaleOut, StartProcessing, ProcessRequest,
                DeleteVMFromMap, ShutDown, Return, Forget, readVars
  <2>3. \A x \in Slots : len'[x] \in {len[x], 0, queueLen}
    BY <2>2 DEF TypeOK
  <2>4. /\ queueLen \in Nat /\ peak \in Nat
        /\ \A x \in Slots : len[x] \in Nat
    BY DEF TypeOK
  <2> QED
    BY <2>1, <2>3, <2>4 DEF PeakInv
<1>5. ASSUME NEW t \in Threads, Increment(t)
      PROVE  PeakInv'
  BY <1>5 DEF Increment, ReadIncrement, WriteIncrement, PeakInv, readVars
<1>4. CASE UNCHANGED vars
  BY <1>4 DEF vars, readVars, PeakInv
<1> QED
  BY <1>1, <1>2, <1>3, <1>4, <1>5, Zenon DEF Next

-----------------------------------------------------------------------------
(* Every step moves one thread at most; a mid server's thread never gets   *)
(* where only the master's main thread is.                                 *)
LEMMA MasterInvStep ==
    ASSUME TypeOK, MasterInv, [Next]_vars
    PROVE  MasterInv'
<1> USE MidTierAssumption DEF MasterInv, IncrementPC, Goto, Threads
<1>1. CASE AddRequest
  BY <1>1 DEF AddRequest, tierVars
<1>2. CASE MasterScaleOut
  BY <1>2 DEF MasterScaleOut, TypeOK
<1>3. ASSUME NEW m \in Slots, Boot(m) \/ TimePasses(m) \/ MidStep(m)
      PROVE  MasterInv'
  <2>1. m # Master
    OBVIOUS
  <2>2. burst' = burst /\ pc'[Master] = pc[Master]
    BY <1>3, <2>1 DEF Boot, TimePasses, MidStep, ReadCount, ReadLength, ScaleIn, PollRequest,
       PollNull, DropFastRequest, ScaleOut, StartProcessing, ProcessRequest, DeleteVMFromMap,
       ShutDown, Return, tierVars, TypeOK
  <2> QED
    BY <2>2
<1>4. ASSUME NEW t \in Threads, Increment(t)
      PROVE  MasterInv'
  BY <1>4 DEF Increment, ReadIncrement, WriteIncrement, TypeOK
<1>5. CASE UNCHANGED vars
  BY <1>5 DEF vars, tierVars
<1> QED
  BY <1>1, <1>2, <1>3, <1>4, <1>5 DEF Next

\* What a write of a thread's register loses.
Loss(t) == IF midCount > reg[t] THEN midCount - reg[t] ELSE 0

\* How the machines, the updates under way and the counter change together.
Started ==
    /\ TierSize' = TierSize + 1 /\ starting' = starting + 1
    /\ Cardinality(Incrementing') = Cardinality(Incrementing) + 1
    /\ midCount' = midCount /\ lost' = lost

Counted ==
    /\ TierSize' = TierSize /\ starting' = starting
    /\ Cardinality(Incrementing') = Cardinality(Incrementing) - 1
    /\ \E t \in Threads : midCount' = reg[t] + 1 /\ lost' = lost + Loss(t)

Left ==
    /\ TierSize' = TierSize - 1 /\ starting' = starting
    /\ Cardinality(Incrementing') = Cardinality(Incrementing)
    /\ \E t \in Threads : midCount' = reg[t] - 1 /\ lost' = lost + Loss(t)

Booted ==
    /\ TierSize' = TierSize /\ starting' = starting - 1
    /\ BootOutlasts => starting > Cardinality(Incrementing)
    /\ Incrementing' = Incrementing
    /\ midCount' = midCount /\ lost' = lost

Uncounted ==
    /\ TierSize' = TierSize /\ starting' = starting
    /\ Incrementing' = Incrementing
    /\ midCount' = midCount /\ lost' = lost

(* A thread that moves within midRoutine changes none of it.               *)
LEMMA ThreadMoves ==
    ASSUME TypeOK, NEW t \in Threads, NEW l \in PC, pc' = [pc EXCEPT ![t] = l],
           t = Master \/ (pc[t] # "off" /\ l # "off"),
           starting' = starting
    PROVE  /\ TierSize' = TierSize
           /\ pc[t] \notin IncrementPC /\ l \notin IncrementPC
                => Incrementing' = Incrementing
           /\ pc[t] \in IncrementPC /\ l \in IncrementPC
                => Incrementing' = Incrementing
           /\ pc[t] \in IncrementPC /\ l \notin IncrementPC
                => Incrementing' = Incrementing \ {t} /\ t \in Incrementing
<1>1. Running' = Running
  BY MidTierAssumption DEF Running, TypeOK, Threads
<1> QED
  BY <1>1 DEF TierSize, Incrementing, TypeOK

(* Every step is of one of these kinds.                                    *)
LEMMA Accounts ==
    ASSUME TypeOK, MasterInv, [Next]_vars
    PROVE  Started \/ Counted \/ Left \/ Booted \/ Uncounted
<1> USE MidTierAssumption
<1>1. CASE AddRequest
  BY <1>1, Zenon DEF AddRequest, tierVars, raceVars, Uncounted, TierSize, Running, Incrementing
<1>2. ASSUME NEW t \in Threads, pc' = [pc EXCEPT ![t] = "readInc"], starting' = starting + 1,
             pc[t] \notin IncrementPC \cup {"off"}, midCount' = midCount, lost' = lost
      PROVE  Started
  <2>1. Running' = Running
    BY <1>2 DEF Running, TypeOK, Threads
  <2>2. Incrementing' = Incrementing \cup {t} /\ t \notin Incrementing
    BY <1>2 DEF Incrementing, IncrementPC, TypeOK
  <2>3. Cardinality(Incrementing') = Cardinality(Incrementing) + 1
    BY <2>2, FiniteSets, FS_AddElement
  <2>4. TierSize' = TierSize + 1
    BY <1>2, <2>1, FiniteSets DEF TierSize, TypeOK
  <2> QED
    BY <1>2, <2>3, <2>4 DEF Started
<1>3. CASE MasterScaleOut
  <2>1. Master \in Threads /\ pc[Master] \notin IncrementPC \cup {"off"}
    BY <1>3 DEF MasterScaleOut, Threads, IncrementPC
  <2> QED
    BY <1>2, <1>3, <2>1 DEF MasterScaleOut, Goto, raceVars
<1>4. ASSUME NEW m \in Slots, Boot(m)
      PROVE  Booted
  <2>1. /\ pc[m] = "off" /\ pc' = [pc EXCEPT ![m] = "count"]
        /\ starting' = starting - 1
        /\ midCount' = midCount /\ lost' = lost
    BY <1>4 DEF Boot, Return, Goto, raceVars
  <2>2. Running' = Running \cup {m} /\ m \notin Running
    BY <2>1 DEF Running, TypeOK, Threads
  <2>3. Cardinality(Running') = Cardinality(Running) + 1
    BY <2>2, FiniteSets, FS_AddElement
  <2>4. Incrementing' = Incrementing
    BY <2>1 DEF Incrementing, IncrementPC, TypeOK, Threads
  <2>5. TierSize' = TierSize
    BY <2>1, <2>3, FiniteSets DEF TierSize, TypeOK
  <2> QED
    BY <1>4, <2>1, <2>4, <2>5 DEF Booted, Boot
<1>5. ASSUME NEW m \in Slots, TimePasses(m)
      PROVE  Uncounted
  BY <1>5, Zenon DEF TimePasses, tierVars, raceVars, Uncounted, TierSize, Running, Incrementing
<1>6. ASSUME NEW m \in Slots, ScaleOut(m)
      PROVE  Started
  <2>1. m \in Threads /\ pc[m] \notin IncrementPC \cup {"off"}
    BY <1>6 DEF ScaleOut, Threads, IncrementPC
  <2> QED
    BY <1>2, <1>6, <2>1 DEF ScaleOut, Goto, raceVars
<1>7. ASSUME NEW m \in Slots, ShutDown(m)
      PROVE  Left
  <2>1. /\ pc[m] = "writeDec" /\ pc' = [pc EXCEPT ![m] = "off"]
        /\ starting' = starting /\ midCount' = reg[m] - 1 /\ lost' = lost + Loss(m)
        /\ m \in Threads
    BY <1>7 DEF ShutDown, WriteMidCount, Goto, Loss, Threads
  <2>2. Running' = Running \ {m} /\ m \in Running
    BY <2>1 DEF Running, TypeOK, Threads
  <2>3. Cardinality(Running') = Cardinality(Running) - 1
    BY <2>2, FiniteSets, FS_RemoveElement
  <2>4. Incrementing' = Incrementing
    BY <2>1 DEF Incrementing, IncrementPC, TypeOK, Threads
  <2>5. TierSize' = TierSize - 1
    BY <2>1, <2>3, FiniteSets DEF TierSize, TypeOK
  <2> QED
    BY <2>1, <2>4, <2>5 DEF Left
<1>8. ASSUME NEW m \in Slots, MidStep(m), ~ScaleOut(m), ~ShutDown(m)
      PROVE  Uncounted
  <2>1. /\ pc[m] \in PC \ ({"off"} \cup IncrementPC)
        /\ \E l \in PC \ ({"off"} \cup IncrementPC) : pc' = [pc EXCEPT ![m] = l]
    BY <1>8 DEF MidStep, ReadCount, ReadLength, ScaleIn, PollRequest, PollNull,
       DropFastRequest, StartProcessing, ProcessRequest, DeleteVMFromMap, Return, Goto, PC,
       IncrementPC
  <2>2. starting' = starting /\ midCount' = midCount /\ lost' = lost
    BY <1>8, Zenon DEF MidStep, ReadCount, ReadLength, ScaleIn, PollRequest, PollNull,
       DropFastRequest, StartProcessing, ProcessRequest, DeleteVMFromMap, tierVars, raceVars
  <2> QED
    BY <2>1, <2>2, ThreadMoves DEF Uncounted, Threads
<1>9. ASSUME NEW t \in Threads, ReadIncrement(t)
      PROVE  Uncounted
  <2>1. /\ pc[t] = "readInc" /\ pc' = [pc EXCEPT ![t] = "writeInc"]
        /\ starting' = starting /\ midCount' = midCount /\ lost' = lost
    BY <1>9 DEF ReadIncrement, Goto
  <2> QED
    BY <2>1, ThreadMoves DEF Uncounted, IncrementPC, PC
<1>10. ASSUME NEW t \in Threads, WriteIncrement(t)
       PROVE  Counted
  <2>1. /\ pc[t] = "writeInc"
        /\ \E l \in {"loop", "count"} : pc' = [pc EXCEPT ![t] = l]
        /\ starting' = starting /\ midCount' = reg[t] + 1 /\ lost' = lost + Loss(t)
    BY <1>10 DEF WriteIncrement, WriteMidCount, Goto, Loss
  <2>2. /\ TierSize' = TierSize
        /\ Incrementing' = Incrementing \ {t} /\ t \in Incrementing
    BY <2>1, ThreadMoves DEF IncrementPC, PC
  <2>3. Cardinality(Incrementing') = Cardinality(Incrementing) - 1
    BY <2>2, FiniteSets, FS_RemoveElement
  <2> QED
    BY <2>1, <2>2, <2>3 DEF Counted
<1>11. CASE UNCHANGED vars
  BY <1>11, Zenon DEF vars, tierVars, raceVars, Uncounted, TierSize, Running, Incrementing
<1> QED
  BY <1>1, <1>3, <1>4, <1>5, <1>6, <1>7, <1>8, <1>9, <1>10, <1>11 DEF Next, Increment

(* A lost update is accounted for by the write that loses it.              *)
LEMMA LostStep ==
    ASSUME TypeOK, MasterInv, LostInv, UncountedBoots, [Next]_vars
    PROVE  LostInv' /\ UncountedBoots'
<1>1. /\ \A t \in Threads : reg[t] \in Int
      /\ midCount \in Int /\ lost \in Nat /\ starting \in Nat /\ TierSize \in Nat
      /\ Cardinality(Incrementing) \in Nat
      /\ BootOutlasts' = BootOutlasts
  BY FiniteSets DEF TypeOK, TierSize
<1> QED
  BY <1>1, Accounts, FiniteSetsNext
  DEF LostInv, UncountedBoots, Started, Counted, Left, Booted, Uncounted, Loss

-----------------------------------------------------------------------------
(* A step after which no more servers may scale out, and after which the   *)
(* tier is not larger, keeps the bound.                                    *)
LEMMA HerdFrame ==
    ASSUME TypeOK, TypeOK', HerdInv, peak' = peak, burst' = burst, TierSize' <= TierSize,
           lost <= lost', \A c \in Nat : Deciding(c)' \subseteq Deciding(c)
    PROVE  HerdInv'
<1> SUFFICES ASSUME BootOutlasts, NEW c \in Nat \ {0}, Enough(c)'
             PROVE  TierSize' + Cardinality(Deciding(c)') < 2 * c + burst' + 2 * lost'
  BY DEF HerdInv
<1>1. TierSize + Cardinality(Deciding(c)) < 2 * c + burst + 2 * lost
  BY DEF HerdInv, Enough
<1>2. Cardinality(Deciding(c)') <= Cardinality(Deciding(c))
  BY FiniteSets, FS_Subset
<1> QED
  BY <1>1, <1>2, FiniteSets, FiniteSetsNext, MidTierAssumption DEF TypeOK, TierSize

(* A server that reads a count below c joins those that may scale out.  All*)
(* of them run, and so do the mid servers whose ++ is under way, but not   *)
(* the machines these have started.                                        *)
LEMMA HerdJoins ==
    ASSUME TypeOK, MasterInv, LostInv, UncountedBoots, BootOutlasts,
           NEW m \in Slots, ReadCount(m), NEW c \in Nat \ {0}, midCount < c
    PROVE  TierSize + Cardinality(Deciding(c)') < 2 * c + burst + 2 * lost
<1> USE MidTierAssumption
<1> DEFINE D == Deciding(c)'
           I == Incrementing \ {Master}
<1>1. pc[m] = "count" /\ pc' = [pc EXCEPT ![m] = "length"]
  BY DEF ReadCount, Goto
<1>2. /\ D \subseteq Running /\ I \subseteq Running /\ D \cap I = {}
  BY <1>1 DEF Deciding, Incrementing, Running, IncrementPC, TypeOK, Threads
<1>3. /\ IsFiniteSet(D) /\ IsFiniteSet(I)
      /\ Cardinality(D) \in Nat /\ Cardinality(I) \in Nat
  BY FiniteSetsNext, FiniteSets, FS_RemoveElement, FS_CardinalityType
<1>4. Cardinality(D) + Cardinality(I) <= Cardinality(Running)
  <2>1. Cardinality(D \cup I) = Cardinality(D) + Cardinality(I) - Cardinality(D \cap I)
    BY <1>3, FS_Union
  <2>2. Cardinality(D \cup I) <= Cardinality(Running)
    BY <1>2, FiniteSets, FS_Subset
  <2>3. Cardinality(D \cap I) = 0
    BY <1>2, FS_EmptySet
  <2> QED
    BY <1>3, <2>1, <2>2, <2>3
<1>5. Cardinality(Incrementing) <= Cardinality(I) + burst
  <2>1. CASE Master \in Incrementing
    <3>1. burst >= 1
      BY <2>1 DEF Incrementing, MasterInv
    <3>2. Cardinality(I) = Cardinality(Incrementing) - 1
      BY <2>1, FiniteSets, FS_RemoveElement
    <3> QED
      BY <1>3, <3>1, <3>2, FiniteSets DEF TypeOK
  <2>2. CASE Master \notin Incrementing
    <3>1. I = Incrementing
      BY <2>2
    <3>2. Cardinality(I) = Cardinality(Incrementing)
      BY <3>1
    <3>3. burst \in Nat
      BY DEF TypeOK
    <3> QED
      BY <1>3, <3>2, <3>3
  <2> QED
    BY <2>1, <2>2
<1> HIDE DEF D, I
<1>6. /\ midCount \in Int /\ lost \in Nat /\ starting \in Nat /\ burst \in Nat
      /\ TierSize = Cardinality(Running) + starting
      /\ TierSize <= midCount + Cardinality(Incrementing) + lost
      /\ Cardinality(Incrementing) <= starting
      /\ Cardinality(Running) \in Nat /\ Cardinality(Incrementing) \in Nat
  BY FiniteSets DEF TypeOK, TierSize, LostInv, UncountedBoots
<1>7. TierSize + Cardinality(D) < 2 * c + burst + 2 * lost
  BY <1>3, <1>4, <1>5, <1>6
<1> QED
  BY <1>7 DEF D

(* Every step keeps the bound on the herd.                                 *)
LEMMA HerdStep ==
    ASSUME TypeOK, MasterInv, LostInv, UncountedBoots, PeakInv, HerdInv, TypeOK', [Next]_vars
    PROVE  HerdInv'
<1> USE MidTierAssumption
<1>0. /\ lost <= lost' /\ TierSize \in Nat /\ TierSize' \in Nat
      /\ TierSize' <= TierSize \/ Started
  <2>1. TierSize \in Nat /\ TierSize' \in Nat /\ lost \in Nat /\ lost' \in Nat
        /\ midCount \in Int /\ \A t \in Threads : reg[t] \in Int
    BY FiniteSets, FiniteSetsNext DEF TypeOK, TierSize
  <2>2. \A t \in Threads : Loss(t) \in Nat
    BY <2>1 DEF Loss
  <2> QED
    BY <2>1, <2>2, Accounts DEF Started, Counted, Left, Booted, Uncounted
<1>1. CASE AddRequest \/ MasterScaleOut
  <2> SUFFICES ASSUME BootOutlasts, NEW c \in Nat \ {0}, Enough(c)'
               PROVE  TierSize' + Cardinality(Deciding(c)') < 2 * c + burst' + 2 * lost'
    BY DEF HerdInv
  <2>1. Deciding(c)' = Deciding(c)
    BY <1>1 DEF AddRequest, MasterScaleOut, readVars, Deciding, Goto, TypeOK, Threads
  <2>2. peak <= peak'
    BY <1>1 DEF AddRequest, MasterScaleOut, TypeOK
  <2>3. Enough(c)
    <3>1. MidFactor * c \in Nat /\ peak \in Nat /\ peak' \in Nat
      BY DEF TypeOK
    <3>2. MidFactor * c >= 10 * peak'
      BY Zenon DEF Enough
    <3>3. \A a, b, d \in Nat : d >= 10 * b /\ a <= b => d >= 10 * a
      OBVIOUS
    <3>4. MidFactor * c >= 10 * peak
      BY <2>2, <3>1, <3>2, <3>3
    <3> QED
      BY <3>4 DEF Enough
  <2>4. TierSize + Cardinality(Deciding(c)) < 2 * c + burst + 2 * lost
    BY <2>3 DEF HerdInv
  <2>5. \/ TierSize' = TierSize /\ burst' = burst /\ lost' = lost
        \/ TierSize' = TierSize + 1 /\ burst' = burst + 1 /\ lost' = lost
    <3>1. CASE AddRequest
      BY <3>1, Zenon DEF AddRequest, tierVars, raceVars, TierSize, Running
    <3>2. CASE MasterScaleOut
      <4>1. Running' = Running
        BY <3>2 DEF MasterScaleOut, Goto, Running, TypeOK, Threads
      <4>2. starting' = starting + 1 /\ burst' = burst + 1 /\ lost' = lost
        BY <3>2 DEF MasterScaleOut, raceVars
      <4> QED
        BY <4>1, <4>2, FiniteSets DEF TierSize, TypeOK
    <3> QED
      BY <1>1, <3>1, <3>2
  <2> QED
    BY <2>1, <2>4, <2>5, <1>0, FiniteSets DEF TypeOK
<1>2. ASSUME NEW m \in Slots, Boot(m)
      PROVE  HerdInv'
  <2>1. /\ pc[m] = "off" /\ pc' = [pc EXCEPT ![m] = "count"] /\ cnt' = [cnt EXCEPT ![m] = 0]
        /\ peak' = peak /\ burst' = burst /\ starting' = starting - 1
    BY <1>2 DEF Boot, Return, Goto, Forget
  <2>2. \A c \in Nat : Deciding(c)' \subseteq Deciding(c)
    BY <2>1 DEF Deciding, TypeOK, Threads
  <2>3. ~Started
    BY <2>1 DEF Started, TypeOK
  <2> QED
    BY <1>0, <2>1, <2>2, <2>3, HerdFrame
<1>3. ASSUME NEW m \in Slots, TimePasses(m)
      PROVE  HerdInv'
  <2>1. UNCHANGED <<pc, cnt, peak, burst, starting>>
    BY <1>3, Zenon DEF TimePasses, tierVars, readVars
  <2>2. TierSize' = TierSize /\ \A c \in Nat : Deciding(c)' \subseteq Deciding(c)
    BY <2>1 DEF Deciding, TierSize, Running
  <2> QED
    BY <1>0, <2>1, <2>2, HerdFrame
<1>4. ASSUME NEW m \in Slots, ReadCount(m)
      PROVE  HerdInv'
  <2> SUFFICES ASSUME BootOutlasts, NEW c \in Nat \ {0}, Enough(c)'
               PROVE  TierSize' + Cardinality(Deciding(c)') < 2 * c + burst' + 2 * lost'
    BY DEF HerdInv
  <2>1. /\ pc[m] = "count"
        /\ pc' = [pc EXCEPT ![m] = "length"] /\ cnt' = [cnt EXCEPT ![m] = midCount]
        /\ UNCHANGED <<peak, burst, midCount, starting, lost>>
    BY <1>4, Zenon DEF ReadCount, Goto, tierVars, raceVars
  <2>2. TierSize' = TierSize
    BY <2>1 DEF TierSize, Running, TypeOK, Threads
  <2>3. CASE midCount < c
    BY <1>4, <2>1, <2>2, <2>3, HerdJoins
  <2>4. CASE midCount >= c
    <3>1. Deciding(c)' \subseteq Deciding(c)
      BY <2>1, <2>4 DEF Deciding, TypeOK, Threads
    <3>2. Cardinality(Deciding(c)') <= Cardinality(Deciding(c))
      BY <3>1, FiniteSets, FS_Subset
    <3>3. TierSize + Cardinality(Deciding(c)) < 2 * c + burst + 2 * lost
      BY <2>1 DEF HerdInv, Enough
    <3> QED
      BY <1>0, <2>1, <2>2, <3>2, <3>3, FiniteSets, FiniteSetsNext DEF TypeOK
  <2> QED
    BY <2>3, <2>4 DEF TypeOK
<1>5. ASSUME NEW m \in Slots, ScaleOut(m)
      PROVE  HerdInv'
  <2> SUFFICES ASSUME BootOutlasts, NEW c \in Nat \ {0}, Enough(c)'
               PROVE  TierSize' + Cardinality(Deciding(c)') < 2 * c + burst' + 2 * lost'
    BY DEF HerdInv
  <2>1. /\ pc[m] = "have" /\ QueueIsLong(m)
        /\ pc' = [pc EXCEPT ![m] = "readInc"] /\ cnt' = [cnt EXCEPT ![m] = 0]
        /\ starting' = starting + 1
        /\ UNCHANGED <<peak, burst, lost>>
    BY <1>5, Zenon DEF ScaleOut, Goto, Forget, raceVars
  <2>2. Enough(c)
    BY <2>1 DEF Enough
  <2>3. cnt[m] < c
    BY <2>1, <2>2, LongOnlyBelowEnough
  <2>4. m \in Deciding(c) /\ Deciding(c)' = Deciding(c) \ {m}
    BY <2>1, <2>3 DEF Deciding, TypeOK, Threads
  <2>5. Cardinality(Deciding(c)') = Cardinality(Deciding(c)) - 1
    <3>1. IsFiniteSet(Deciding(c))
      BY FiniteSets
    <3>2. Cardinality(Deciding(c) \ {m}) = Cardinality(Deciding(c)) - 1
      BY <2>4, <3>1, FS_RemoveElement
    <3> QED
      BY <2>4, <3>2
  <2>6. TierSize + Cardinality(Deciding(c)) < 2 * c + burst + 2 * lost
    BY <2>2 DEF HerdInv
  <2>7. TierSize' = TierSize + 1
    <3>1. Running' = Running
      BY <2>1 DEF Running, TypeOK, Threads
    <3> QED
      BY <2>1, <3>1, FiniteSets DEF TierSize, TypeOK
  <2> QED
    BY <1>0, <2>1, <2>5, <2>6, <2>7, FiniteSets DEF TypeOK
<1>6. ASSUME NEW m \in Slots, MidStep(m), ~ReadCount(m), ~ScaleOut(m)
      PROVE  HerdInv'
  <2>1. peak' = peak /\ burst' = burst /\ starting' = starting
    BY <1>6, Zenon DEF MidStep, ReadLength, ScaleIn, PollRequest, PollNull, DropFastRequest,
       StartProcessing, ProcessRequest, DeleteVMFromMap, ShutDown, tierVars
  <2>2. \/ pc[m] \in {"length", "decide"} /\ cnt' = cnt
        \/ (cnt' = [cnt EXCEPT ![m] = 0] \/ cnt' = cnt)
           /\ \E l \in PC \ {"length", "decide", "have"} : pc' = [pc EXCEPT ![m] = l]
    BY <1>6 DEF MidStep, ReadLength, ScaleIn, PollRequest, PollNull, DropFastRequest,
       StartProcessing, ProcessRequest, DeleteVMFromMap, ShutDown, Return, Goto, Forget,
       PC, IncrementPC, readVars
  <2>3. \E l \in PC : pc' = [pc EXCEPT ![m] = l]
    BY <1>6 DEF MidStep, ReadLength, ScaleIn, PollRequest, PollNull, DropFastRequest,
       StartProcessing, ProcessRequest, DeleteVMFromMap, ShutDown, Return, Goto, PC, IncrementPC
  <2>4. \A c \in Nat : Deciding(c)' \subseteq Deciding(c)
    BY <2>2, <2>3 DEF Deciding, TypeOK, Threads
  <2>5. ~Started
    BY <2>1 DEF Started, TypeOK
  <2> QED
    BY <1>0, <2>1, <2>4, <2>5, HerdFrame
<1>7. ASSUME NEW t \in Threads, Increment(t)
      PROVE  HerdInv'
  <2>1. /\ peak' = peak /\ burst' = burst /\ starting' = starting /\ cnt' = cnt
        /\ \E l \in {"writeInc", "loop", "count"} : pc' = [pc EXCEPT ![t] = l]
    BY <1>7 DEF Increment, ReadIncrement, WriteIncrement, Goto, readVars
  <2>2. \A c \in Nat : Deciding(c)' \subseteq Deciding(c)
    BY <2>1 DEF Deciding, TypeOK, Threads
  <2>3. ~Started
    BY <2>1 DEF Started, TypeOK
  <2> QED
    BY <1>0, <2>1, <2>2, <2>3, HerdFrame
<1>8. CASE UNCHANGED vars
  <2>1. UNCHANGED <<pc, cnt, peak, burst, starting>>
    BY <1>8, Zenon DEF vars, tierVars, readVars
  <2>2. TierSize' = TierSize /\ \A c \in Nat : Deciding(c)' \subseteq Deciding(c)
    BY <2>1 DEF Deciding, TierSize, Running
  <2> QED
    BY <1>0, <2>1, <2>2, HerdFrame
<1> QED
  BY <1>1, <1>2, <1>3, <1>4, <1>5, <1>6, <1>7, <1>8, Zenon DEF Next

-----------------------------------------------------------------------------
(* The invariant holds initially: the machine that boots is counted.       *)
LEMMA InitIInv == Init => IInv
<1> SUFFICES ASSUME Init PROVE IInv
  OBVIOUS
<1>1. TypeOK
  BY MidTierAssumption DEF Init, TypeOK, PC, Threads
<1>2. Running = {} /\ Incrementing = {} /\ \A c : Deciding(c) = {}
  BY MidTierAssumption DEF Init, Running, Incrementing, Deciding, IncrementPC, Threads
<1>3. Cardinality(Running) = 0 /\ Cardinality(Incrementing) = 0
      /\ \A c : Cardinality(Deciding(c)) = 0
  BY <1>2, FS_EmptySet
<1>4. LostInv /\ UncountedBoots /\ HerdInv
  BY <1>3 DEF Init, LostInv, UncountedBoots, HerdInv, TierSize
<1>5. PeakInv /\ MasterInv
  BY DEF Init, PeakInv, MasterInv, IncrementPC, Threads
<1> QED
  BY <1>1, <1>4, <1>5 DEF IInv

(* Every behaviour of the mid tier satisfies the inductive invariant.      *)
THEOREM InductiveInvariant == Spec => []IInv
<1>1. IInv /\ [Next]_vars => IInv'
  <2> SUFFICES ASSUME IInv, [Next]_vars PROVE IInv'
    OBVIOUS
  <2>1. TypeOK' /\ MasterInv' /\ LostInv' /\ UncountedBoots' /\ PeakInv'
    BY TypeStep, MasterInvStep, LostStep, PeakStep DEF IInv
  <2>2. HerdInv'
    BY <2>1, HerdStep DEF IInv
  <2> QED
    BY <2>1, <2>2 DEF IInv
<1> QED
  BY InitIInv, <1>1, PTL DEF Spec

(* Type correctness; machines that boot (starting) are never negative,     *)
(* whatever midCount (line 24) is.                                         *)
THEOREM TypeCorrect == Spec => []TypeOK
BY InductiveInvariant, PTL DEF IInv

(* However many servers read the same old count (lines 166, 177), and      *)
(* however often an update of midCount is lost (line 410), the tier stays  *)
(* below twice what is enough, plus what the booting master started, plus  *)
(* two servers for each ++ that was lost.                                  *)
THEOREM HerdIsBounded == Spec => []HerdBounded
<1>1. IInv => HerdBounded
  <2> SUFFICES ASSUME IInv, BootOutlasts, NEW c \in 1 .. 10 * MaxQueue + 1, Enough(c)
               PROVE  TierSize < 2 * c + burst + 2 * lost
    BY DEF HerdBounded
  <2>1. c \in Nat \ {0}
    BY MidTierAssumption
  <2>2. TierSize + Cardinality(Deciding(c)) < 2 * c + burst + 2 * lost
    BY <2>1 DEF IInv, HerdInv
  <2> QED
    BY <2>1, <2>2, FiniteSets, MidTierAssumption DEF IInv, TypeOK, TierSize
<1> QED
  BY InductiveInvariant, <1>1, PTL
=============================================================================
