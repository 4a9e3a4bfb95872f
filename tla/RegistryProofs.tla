---------------------------- MODULE RegistryProofs ----------------------------
(***************************************************************************)
(* More about Cluster, on top of the invariant of ClusterProofs: no        *)
(* started machine is forgotten, none that boots slowly asks too early,    *)
(* what it takes for frontCount to lose an update, and the refinement of   *)
(* ServerRegistry.                                                         *)
(***************************************************************************)
EXTENDS ClusterProofs

(* If booting outlasts scaleOutCore, a machine asks for its tier when it   *)
(* is in the map, unless the answer of its startVM was lost.               *)
AskInv ==
    BootOutlasts => \A v \in VMs \ orphans :
                       /\ pc[v] # "unknown"
                       /\ pc[v] = "lookup" => id2TierMap[v] # NoTier

\* A machine that has not asked yet knows no tier.
FreshInv == \A v \in Slaves : pc[v] \in {"off", "lookup"} => role[v] = NoTier

\* A front server has gone through deleteVMFromMap, or past its failed call.
FrontLeft == \E v \in Slaves : role[v] = FRONT /\ pc[v] \in LeftPC

(* A slave starts mid servers only, and departs from the tier it served;   *)
(* the master's register is up to date unless a front server has left.     *)
FrontInv ==
    /\ \A v \in Slaves :
          /\ pc[v] \in ScaleOutPC => todo[v] = <<MID>>
          /\ pc[v] \in {"readDec", "writeDec"} => todo[v] = <<role[v]>>
    /\ pc[Master] = "writeInc" /\ Head(todo[Master]) = FRONT
          => reg[Master] = count[FRONT] \/ FrontLeft
    /\ FrontRaceNeedsDeparture

-----------------------------------------------------------------------------
(* Who left stays away, so that a departure is never undone.               *)
LEMMA LeftForGood ==
    ASSUME TypeOK, StructInv, [Next]_vars, NEW v \in Slaves, pc[v] \in LeftPC
    PROVE  pc'[v] \in LeftPC /\ role'[v] = role[v]
<1> USE VMFacts DEF Goto, LeftPC, TypeOK
<1>1. CASE MasterStep
  BY <1>1 DEF MasterStep, MasterHandler, MasterRoutine, HandleBootingCheck,
              MasterMayAddFront, MasterLoopEnd, CallScaleOut
<1>2. ASSUME NEW w \in Slaves, BootVM(w) \/ RunVM(w) PROVE pc'[v] \in LeftPC /\ role'[v] = role[v]
  BY <1>2 DEF BootVM, RunVM, threadVars, StructInv, BootInv
<1>3. ASSUME NEW w \in Slaves, SlaveStep(w) PROVE pc'[v] \in LeftPC /\ role'[v] = role[v]
  BY <1>3 DEF SlaveStep, GetTier, GetVMCount, ScaleIn, ScaleOut, Serve, DeleteVMFromMap,
              ReadDecrement, WriteDecrement, Exit, CallScaleOut
<1>4. ASSUME NEW w \in VMs, ScaleOutStep(w) PROVE pc'[v] \in LeftPC /\ role'[v] = role[v]
  BY <1>4 DEF ScaleOutStep, StartVM, AddVM2Map, ReadIncrement, WriteIncrement
<1>5. ASSUME NEW w \in VMs, FailedCall(w) PROVE pc'[v] \in LeftPC /\ role'[v] = role[v]
  BY <1>5 DEF FailedCall, StartVMFails, StartVMAnswerLost, ServerStops, DeleteVMFromMapFails
<1>6. CASE UNCHANGED vars
  BY <1>6 DEF vars
<1> QED
  BY <1>1, <1>2, <1>3, <1>4, <1>5, <1>6 DEF Next

(* Only a lost answer of startVM makes an orphan, and none is unmade.      *)
LEMMA OrphansGrow ==
    ASSUME [Next]_vars
    PROVE  orphans \subseteq orphans'
<1>1. CASE UNCHANGED failVars
  BY <1>1 DEF failVars
<1>2. ASSUME NEW v \in VMs, AddVM2Map(v) PROVE orphans' = orphans
  BY <1>2, Zenon DEF AddVM2Map
<1>3. ASSUME NEW v \in VMs, FailedCall(v)
      PROVE  orphans' = orphans \/ orphans' = orphans \cup {nextVM}
  BY <1>3, Zenon DEF FailedCall, StartVMFails, StartVMAnswerLost, ServerStops,
                     DeleteVMFromMapFails
<1>4. CASE MasterStep
  BY <1>1, <1>4, Zenon DEF MasterStep, MasterHandler, MasterRoutine, HandleBootingCheck,
                           MasterMayAddFront, MasterLoopEnd
<1>5. ASSUME NEW v \in Slaves, BootVM(v) \/ RunVM(v) PROVE UNCHANGED failVars
  BY <1>5, Zenon DEF BootVM, RunVM
<1>6. ASSUME NEW v \in Slaves, SlaveStep(v) PROVE UNCHANGED failVars
  BY <1>6, Zenon DEF SlaveStep, GetTier, GetVMCount, ScaleIn, ScaleOut, Serve,
                     DeleteVMFromMap, ReadDecrement, WriteDecrement, Exit
<1>7. ASSUME NEW v \in VMs, StartVM(v) \/ ReadIncrement(v) \/ WriteIncrement(v)
      PROVE  UNCHANGED failVars
  BY <1>7, Zenon DEF StartVM, ReadIncrement, WriteIncrement
<1>8. CASE UNCHANGED vars
  BY <1>1, <1>8 DEF vars, failVars
<1> QED
  BY <1>1, <1>2, <1>3, <1>4, <1>5, <1>6, <1>7, <1>8 DEF Next, ScaleOutStep

(* A step that leaves the map alone, gives out no id and is not that of a  *)
(* thread about to register a machine forgets nobody.                      *)
LEMMA NobodyForgotten ==
    ASSUME TypeOK, StructInv, StartedIsRegistered, [Next]_vars,
           UNCHANGED <<nextVM, id2TierMap>>,
           \A w \in VMs : pc[w] = "addVM" => pc'[w] = "addVM" /\ newVM'[w] = newVM[w]
    PROVE  StartedIsRegistered'
  BY LeftForGood, OrphansGrow, VMFacts DEF StartedIsRegistered

LEMMA StartedStep ==
    ASSUME TypeOK, StructInv, StartedIsRegistered, [Next]_vars
    PROVE  StartedIsRegistered'
<1> USE VMFacts DEF Goto, TypeOK
<1>0. orphans \subseteq orphans'
  BY OrphansGrow
<1>1. CASE MasterStep
  <2>1. CASE MasterHandler
    <3>1. /\ pc[Master] = "init" /\ pc' = [pc EXCEPT ![Master] = "startVM"]
          /\ id2TierMap' = [id2TierMap EXCEPT ![Master] = FRONT]
          /\ newVM' = newVM /\ nextVM' = nextVM
      BY <2>1 DEF MasterHandler, CallScaleOut, cloudVars
    <3> QED
      BY <1>0, <3>1, LeftForGood DEF StartedIsRegistered
  <2>2. CASE MasterRoutine \/ HandleBootingCheck \/ MasterMayAddFront \/ MasterLoopEnd
    <3>1. /\ pc[Master] \in {"loop", "booting", "routine"}
          /\ \E l \in PC : pc' = [pc EXCEPT ![Master] = l]
          /\ newVM' = newVM /\ nextVM' = nextVM /\ id2TierMap' = id2TierMap
      BY <2>2 DEF MasterRoutine, HandleBootingCheck, MasterMayAddFront, MasterLoopEnd,
                  CallScaleOut, cloudVars, PC, ScaleOutPC
    <3> QED
      BY <3>1, NobodyForgotten
  <2> QED
    BY <1>1, <2>1, <2>2 DEF MasterStep
<1>2. ASSUME NEW w \in Slaves, BootVM(w) \/ RunVM(w) PROVE StartedIsRegistered'
  <2>1. CASE BootVM(w)
    BY <2>1, NobodyForgotten DEF BootVM, threadVars
  <2>2. CASE RunVM(w)
    <3>1. pc[w] = "off"
      BY <2>2 DEF RunVM, StructInv, BootInv
    <3> QED
      BY <2>2, <3>1, NobodyForgotten DEF RunVM
  <2> QED
    BY <1>2, <2>1, <2>2
<1>3. ASSUME NEW w \in Slaves, SlaveStep(w) PROVE StartedIsRegistered'
  <2>1. CASE DeleteVMFromMap(w)
    <3>1. /\ pc[w] = "delete" /\ pc'[w] \in LeftPC
          /\ \A v \in VMs \ {w} : pc'[v] = pc[v] /\ id2TierMap'[v] = id2TierMap[v]
          /\ newVM' = newVM /\ nextVM' = nextVM
      BY <2>1 DEF DeleteVMFromMap, cloudVars, LeftPC
    <3> QED
      BY <1>0, <3>1 DEF StartedIsRegistered
  <2>2. CASE ~DeleteVMFromMap(w)
    <3>1. /\ pc[w] \notin ScaleOutPC
          /\ \E l \in PC : pc' = [pc EXCEPT ![w] = l]
          /\ newVM' = newVM /\ nextVM' = nextVM /\ id2TierMap' = id2TierMap
      BY <1>3, <2>2
      DEF SlaveStep, GetTier, GetVMCount, ScaleIn, ScaleOut, Serve, ReadDecrement,
          WriteDecrement, Exit, CallScaleOut, cloudVars, PC, ScaleOutPC, DeletePC
    <3> QED
      BY <3>1, NobodyForgotten DEF ScaleOutPC
  <2> QED
    BY <2>1, <2>2
<1>4. ASSUME NEW w \in VMs, ScaleOutStep(w) PROVE StartedIsRegistered'
  <2>1. CASE StartVM(w)
    <3>1. /\ pc[w] = "startVM" /\ pc' = [pc EXCEPT ![w] = "addVM"]
          /\ newVM' = [newVM EXCEPT ![w] = nextVM] /\ nextVM' = nextVM + 1
          /\ id2TierMap' = id2TierMap
      BY <2>1 DEF StartVM
    <3>2. ASSUME NEW v \in Slaves, v = nextVM
          PROVE  pc'[w] = "addVM" /\ newVM'[w] = v
      BY <3>1, <3>2
    <3>3. ASSUME NEW v \in Slaves \ orphans', v < nextVM
          PROVE  \/ id2TierMap'[v] # NoTier
                 \/ \E u \in VMs : pc'[u] = "addVM" /\ newVM'[u] = v
                 \/ pc'[v] \in LeftPC
      <4>1. \A u \in VMs : pc[u] = "addVM" => pc'[u] = "addVM" /\ newVM'[u] = newVM[u]
        BY <3>1
      <4> QED
        BY <1>0, <3>1, <3>3, <4>1, LeftForGood DEF StartedIsRegistered
    <3>4. \A v \in Slaves : v < nextVM' => v = nextVM \/ v < nextVM
      BY <3>1
    <3> QED
      BY <3>2, <3>3, <3>4 DEF StartedIsRegistered
  <2>2. CASE AddVM2Map(w)
    <3>1. /\ pc[w] = "addVM" /\ pc' = [pc EXCEPT ![w] = "readInc"]
          /\ newVM' = newVM /\ nextVM' = nextVM
      BY <2>2 DEF AddVM2Map, cloudVars
    <3>2. Head(todo[w]) # NoTier
      <4>1. todo[w] \in Seq(Tiers) /\ todo[w] # << >>
        BY <3>1 DEF StructInv, WorkInv, ScaleOutPC
      <4>2. Head(todo[w]) \in Tiers
        BY <4>1, TierList
      <4> QED
        BY <4>2 DEF Tiers, FRONT, MID, NoTier
    <3>3. \A v \in Slaves : /\ id2TierMap[v] # NoTier => id2TierMap'[v] # NoTier
                            /\ newVM[w] = v => id2TierMap'[v] # NoTier
      <4>1. CASE newVM[w] = FailedVM
        BY <2>2, <4>1 DEF AddVM2Map, Slaves, FailedVM
      <4>2. CASE newVM[w] # FailedVM
        <5>1. newVM[w] \in VMs
          BY <3>1, <4>2 DEF StructInv, WorkInv
        <5>2. id2TierMap' = IF id2TierMap[newVM[w]] = NoTier
                             THEN [id2TierMap EXCEPT ![newVM[w]] = Head(todo[w])]
                             ELSE id2TierMap
          BY <2>2, <4>2 DEF AddVM2Map
        <5> QED
          BY <3>2, <5>1, <5>2
      <4> QED
        BY <4>1, <4>2
    <3> QED
      BY <1>0, <3>1, <3>3, LeftForGood DEF StartedIsRegistered
  <2>3. CASE ReadIncrement(w) \/ WriteIncrement(w)
    <3>1. /\ pc[w] \in {"readInc", "writeInc"}
          /\ \A v \in VMs \ {w} : pc'[v] = pc[v] /\ newVM'[v] = newVM[v]
          /\ nextVM' = nextVM /\ id2TierMap' = id2TierMap
      BY <2>3 DEF ReadIncrement, WriteIncrement, cloudVars
    <3> QED
      BY <3>1, NobodyForgotten
  <2> QED
    BY <1>4, <2>1, <2>2, <2>3 DEF ScaleOutStep
<1>5. ASSUME NEW w \in VMs, FailedCall(w) PROVE StartedIsRegistered'
  <2>1. CASE StartVMAnswerLost(w)
    <3>1. /\ pc[w] = "startVM" /\ nextVM' = nextVM + 1 /\ orphans' = orphans \cup {nextVM}
          /\ id2TierMap' = id2TierMap
          /\ \A v \in VMs \ {w} : pc'[v] = pc[v] /\ newVM'[v] = newVM[v]
      BY <2>1 DEF StartVMAnswerLost
    <3>2. \A v \in Slaves \ orphans' : v < nextVM' => v < nextVM
      BY <3>1
    <3>3. \A u \in VMs : pc[u] = "addVM" => pc'[u] = "addVM" /\ newVM'[u] = newVM[u]
      BY <3>1
    <3>4. ASSUME NEW v \in Slaves \ orphans', v < nextVM
          PROVE  \/ id2TierMap'[v] # NoTier
                 \/ \E u \in VMs : pc'[u] = "addVM" /\ newVM'[u] = v
                 \/ pc'[v] \in LeftPC
      BY <1>0, <3>1, <3>3, <3>4, LeftForGood DEF StartedIsRegistered
    <3> QED
      BY <3>2, <3>4 DEF StartedIsRegistered
  <2>2. CASE ~StartVMAnswerLost(w)
    <3>1. /\ pc[w] # "addVM"
          /\ \A v \in VMs \ {w} : pc'[v] = pc[v] /\ newVM'[v] = newVM[v]
          /\ nextVM' = nextVM /\ id2TierMap' = id2TierMap
      BY <1>5, <2>2 DEF FailedCall, StartVMFails, ServerStops, DeleteVMFromMapFails, cloudVars
    <3> QED
      BY <3>1, NobodyForgotten
  <2> QED
    BY <2>1, <2>2
<1>6. CASE UNCHANGED vars
  BY <1>6, NobodyForgotten DEF vars
<1> QED
  BY <1>1, <1>2, <1>3, <1>4, <1>5, <1>6 DEF Next

-----------------------------------------------------------------------------
(* A machine asks only when it runs, and nobody but itself removes it.     *)
LEMMA AskStep ==
    ASSUME TypeOK, StructInv, StartedIsRegistered, AskInv, FreshInv, [Next]_vars
    PROVE  AskInv' /\ FreshInv'
<1> USE VMFacts DEF Goto, TypeOK
<1> DEFINE Quiet ==
        /\ \A v \in VMs : /\ pc'[v] \in {"off", "lookup", "unknown"} => pc'[v] = pc[v]
                          /\ pc'[v] = "lookup" /\ id2TierMap[v] # NoTier
                               => id2TierMap'[v] # NoTier
        /\ role' = role
<1>0. orphans \subseteq orphans'
  BY OrphansGrow
<1>1. ASSUME MasterStep PROVE Quiet
  <2>1. CASE MasterHandler
    BY <2>1 DEF MasterHandler, CallScaleOut, FRONT, NoTier
  <2>2. CASE MasterRoutine \/ HandleBootingCheck \/ MasterMayAddFront \/ MasterLoopEnd
    BY <2>2 DEF MasterRoutine, HandleBootingCheck, MasterMayAddFront, MasterLoopEnd, CallScaleOut
  <2> QED
    BY <1>1, <2>1, <2>2 DEF MasterStep
<1>2. ASSUME NEW w \in Slaves, BootVM(w) PROVE Quiet
  BY <1>2 DEF BootVM, threadVars
<1>3. ASSUME NEW w \in Slaves, RunVM(w) PROVE AskInv' /\ FreshInv'
  <2>1. /\ status[w] = "Booting" /\ pc' = [pc EXCEPT ![w] = "lookup"]
        /\ id2TierMap' = id2TierMap /\ role' = role
        /\ BootOutlasts => \A u \in VMs : newVM[u] # w
    BY <1>3 DEF RunVM
  <2>2. pc[w] = "off" /\ w < nextVM
    <3>1. status[w] # "NonExistent"
      BY <2>1
    <3>2. ~(w >= nextVM)
      BY <3>1 DEF StructInv, BootInv
    <3> QED
      BY <2>1, <3>2 DEF StructInv, BootInv
  <2>3. BootOutlasts => id2TierMap[w] # NoTier \/ w \in orphans
    BY <2>1, <2>2 DEF StartedIsRegistered, LeftPC
  <2>4. \A v \in VMs \ {w} : pc'[v] = pc[v]
    BY <2>1
  <2>5. pc'[w] = "lookup"
    BY <2>1
  <2> QED
    BY <1>0, <2>1, <2>2, <2>3, <2>4, <2>5 DEF AskInv, FreshInv
<1>4. ASSUME NEW w \in Slaves, GetTier(w) PROVE AskInv' /\ FreshInv'
  <2>1. /\ pc[w] = "lookup" /\ id2TierMap' = id2TierMap
        /\ pc'[w] = IF id2TierMap[w] = NoTier THEN "unknown" ELSE "loop"
        /\ \A v \in VMs \ {w} : pc'[v] = pc[v] /\ role'[v] = role[v]
    BY <1>4 DEF GetTier
  <2> QED
    BY <1>0, <2>1 DEF AskInv, FreshInv
<1>5. ASSUME NEW w \in Slaves, DeleteVMFromMap(w) PROVE Quiet
  BY <1>5 DEF DeleteVMFromMap
<1>6. ASSUME NEW w \in Slaves,
             \/ GetVMCount(w) \/ ScaleIn(w) \/ ScaleOut(w) \/ Serve(w)
             \/ ReadDecrement(w) \/ WriteDecrement(w) \/ Exit(w)
      PROVE  Quiet
  BY <1>6 DEF GetVMCount, ScaleIn, ScaleOut, Serve, ReadDecrement, WriteDecrement, Exit, CallScaleOut
<1>7. ASSUME NEW w \in VMs, ScaleOutStep(w) PROVE Quiet
  <2>1. CASE AddVM2Map(w)
    BY <2>1 DEF AddVM2Map
  <2>2. CASE StartVM(w) \/ ReadIncrement(w) \/ WriteIncrement(w)
    BY <2>2 DEF StartVM, ReadIncrement, WriteIncrement
  <2> QED
    BY <1>7, <2>1, <2>2 DEF ScaleOutStep
<1>8. ASSUME NEW w \in VMs, FailedCall(w) PROVE Quiet
  BY <1>8 DEF FailedCall, StartVMFails, StartVMAnswerLost, ServerStops, DeleteVMFromMapFails
<1>9. ASSUME UNCHANGED vars PROVE Quiet
  BY <1>9 DEF vars
<1>10. ASSUME Quiet PROVE AskInv' /\ FreshInv'
  BY <1>0, <1>10 DEF AskInv, FreshInv
<1> QED
  BY <1>10, <1>1, <1>2, <1>3, <1>4, <1>5, <1>6, <1>7, <1>8, <1>9 DEF Next, SlaveStep

-----------------------------------------------------------------------------
(* A front server that has left does not come back.                        *)
LEMMA FrontStaysLeft ==
    ASSUME TypeOK, StructInv, [Next]_vars, FrontLeft
    PROVE  FrontLeft'
  BY LeftForGood DEF FrontLeft

(* A step that writes no counter, begins no scaleOutCore on a slave and no *)
(* departure, and reads no counter for the master's ++.                    *)
LEMMA FrontFrame ==
    ASSUME TypeOK, StructInv, FrontInv, [Next]_vars,
           UNCHANGED <<count, raced>>,
           \A v \in Slaves :
              /\ pc'[v] \in ScaleOutPC => pc[v] \in ScaleOutPC /\ todo'[v] = todo[v]
              /\ pc'[v] \in {"readDec", "writeDec"}
                    => /\ pc[v] \in {"readDec", "writeDec"}
                       /\ todo'[v] = todo[v] /\ role'[v] = role[v],
           pc'[Master] = "writeInc"
              => pc[Master] = "writeInc" /\ todo'[Master] = todo[Master] /\ reg'[Master] = reg[Master]
    PROVE  FrontInv'
<1>1. FrontLeft => FrontLeft'
  BY FrontStaysLeft
<1>2. FrontRaceNeedsDeparture'
  BY <1>1 DEF FrontInv, FrontRaceNeedsDeparture, FrontLeft
<1> QED
  BY <1>1, <1>2 DEF FrontInv

(* Only the master counts front servers up, and only departures of front   *)
(* servers count them down.                                                *)
LEMMA FrontStep ==
    ASSUME TypeOK, StructInv, FrontInv, [Next]_vars
    PROVE  FrontInv'
<1> USE VMFacts DEF Goto, TypeOK
<1>1. CASE MasterHandler
  <2>1. /\ pc[Master] = "init" /\ pc' = [pc EXCEPT ![Master] = "startVM"]
        /\ todo' = [todo EXCEPT ![Master] = <<MID, FRONT>>]
        /\ raced' = raced /\ role' = role
    BY <1>1 DEF MasterHandler, CallScaleOut
  <2>2. FrontLeft => FrontLeft'
    BY FrontStaysLeft
  <2>3. FrontRaceNeedsDeparture'
    BY <2>1, <2>2 DEF FrontInv, FrontRaceNeedsDeparture, FrontLeft
  <2> QED
    BY <2>1, <2>3 DEF FrontInv, ScaleOutPC
<1>2. CASE MasterRoutine \/ HandleBootingCheck \/ MasterMayAddFront \/ MasterLoopEnd
  <2>1. /\ \E l \in PC \ {"writeInc"} : pc' = [pc EXCEPT ![Master] = l]
        /\ todo' = todo \/ \E s : todo' = [todo EXCEPT ![Master] = s]
        /\ UNCHANGED <<count, raced, role>>
    BY <1>2, Zenon DEF MasterRoutine, HandleBootingCheck, MasterMayAddFront, MasterLoopEnd,
                CallScaleOut, PC, ScaleOutPC
  <2> QED
    BY <2>1, FrontFrame
<1>3. ASSUME NEW w \in Slaves, BootVM(w) \/ RunVM(w) PROVE FrontInv'
  <2>1. CASE BootVM(w)
    BY <2>1, FrontFrame DEF BootVM, threadVars
  <2>2. CASE RunVM(w)
    BY <2>2, FrontFrame DEF RunVM, ScaleOutPC
  <2> QED
    BY <1>3, <2>1, <2>2
<1>4. ASSUME NEW w \in Slaves,
             GetTier(w) \/ GetVMCount(w) \/ ScaleIn(w) \/ Serve(w) \/ ReadDecrement(w) \/ Exit(w)
      PROVE  FrontInv'
  <2>1. /\ UNCHANGED <<count, raced, todo>>
        /\ \A v \in VMs \ {w} : pc'[v] = pc[v] /\ reg'[v] = reg[v] /\ role'[v] = role[v]
        /\ pc'[w] \in {"unknown", "loop", "decide", "delete", "writeDec", "gone"}
        /\ pc'[w] = "writeDec" => pc[w] = "readDec" /\ role'[w] = role[w]
    BY <1>4 DEF GetTier, GetVMCount, ScaleIn, Serve, ReadDecrement, Exit
  <2> QED
    BY <2>1, FrontFrame DEF ScaleOutPC
<1>5. ASSUME NEW w \in Slaves, ScaleOut(w) PROVE FrontInv'
  <2>1. /\ UNCHANGED <<count, raced, role>>
        /\ todo' = [todo EXCEPT ![w] = <<MID>>] /\ pc' = [pc EXCEPT ![w] = "startVM"]
        /\ reg' = [reg EXCEPT ![w] = 0]
    BY <1>5, Zenon DEF ScaleOut, CallScaleOut
  <2>2. /\ pc'[w] = "startVM" /\ todo'[w] = <<MID>>
        /\ \A v \in VMs \ {w} : pc'[v] = pc[v] /\ todo'[v] = todo[v] /\ reg'[v] = reg[v]
    <3>1. <<MID>> \in Seq(Tiers)
      BY DEF Tiers
    <3> QED
      BY <2>1, <3>1
  <2>3. FrontLeft => FrontLeft'
    BY FrontStaysLeft
  <2>4. FrontRaceNeedsDeparture'
    BY <2>1, <2>3 DEF FrontInv, FrontRaceNeedsDeparture, FrontLeft
  <2> QED
    BY <2>1, <2>2, <2>3, <2>4 DEF FrontInv
<1>6. ASSUME NEW w \in Slaves, DeleteVMFromMap(w) PROVE FrontInv'
  <2>1. pc[w] = "delete" /\ id2TierMap[w] = role[w] /\ role[w] # NoTier
    BY <1>6 DEF DeleteVMFromMap, StructInv, ServingInv, ServingPC, Tiers, FRONT, MID, NoTier
  <2>2. /\ UNCHANGED <<count, raced, role, reg>>
        /\ todo' = [todo EXCEPT ![w] = <<role[w]>>] /\ pc' = [pc EXCEPT ![w] = "readDec"]
    BY <1>6, <2>1 DEF DeleteVMFromMap
  <2>3. /\ pc'[w] = "readDec" /\ todo'[w] = <<role[w]>>
        /\ \A v \in VMs \ {w} : pc'[v] = pc[v] /\ todo'[v] = todo[v]
    BY <2>2
  <2>4. FrontLeft => FrontLeft'
    BY FrontStaysLeft
  <2>5. FrontRaceNeedsDeparture'
    BY <2>2, <2>4 DEF FrontInv, FrontRaceNeedsDeparture, FrontLeft
  <2> QED
    BY <2>2, <2>3, <2>4, <2>5 DEF FrontInv, ScaleOutPC
<1>7. ASSUME NEW w \in Slaves, WriteDecrement(w) PROVE FrontInv'
  <2>1. pc[w] = "writeDec" /\ todo[w] = <<role[w]>> /\ Head(todo[w]) = role[w] /\ role[w] \in Tiers
    <3>1. pc[w] = "writeDec" /\ todo[w] = <<role[w]>>
      BY <1>7 DEF WriteDecrement, FrontInv
    <3>2. Head(todo[w]) \in Tiers
      BY <3>1, TierList DEF StructInv, WorkInv
    <3> QED
      BY <3>1, <3>2
  <2>2. /\ count' = [count EXCEPT ![role[w]] = reg[w] - 1]
        /\ raced' = raced \cup (IF reg[w] = count[role[w]] THEN {} ELSE {role[w]})
        /\ pc'[w] = "exit" /\ role' = role
        /\ \A v \in VMs \ {w} : pc'[v] = pc[v] /\ todo'[v] = todo[v] /\ reg'[v] = reg[v]
    BY <1>7, <2>1 DEF WriteDecrement, NoteRace
  <2>3. FrontLeft => FrontLeft'
    BY FrontStaysLeft
  <2>4. role[w] = FRONT => FrontLeft'
    BY <2>1, <2>3 DEF FrontLeft, LeftPC
  <2>5. role[w] # FRONT => count'[FRONT] = count[FRONT] /\ (FRONT \in raced' => FRONT \in raced)
    BY <2>1, <2>2 DEF Tiers
  <2>6. FrontRaceNeedsDeparture'
    BY <2>3, <2>4, <2>5 DEF FrontInv, FrontRaceNeedsDeparture, FrontLeft
  <2> QED
    BY <2>2, <2>3, <2>4, <2>5, <2>6 DEF FrontInv, ScaleOutPC
<1>8. ASSUME NEW w \in VMs, StartVM(w) \/ AddVM2Map(w) PROVE FrontInv'
  <2>1. /\ UNCHANGED <<count, raced, todo, reg, role>>
        /\ pc[w] \in ScaleOutPC /\ pc'[w] \in {"addVM", "readInc"}
        /\ \A v \in VMs \ {w} : pc'[v] = pc[v]
    BY <1>8 DEF StartVM, AddVM2Map, ScaleOutPC
  <2> QED
    BY <2>1, FrontFrame
<1>9. ASSUME NEW w \in VMs, ReadIncrement(w) PROVE FrontInv'
  <2>1. /\ UNCHANGED <<count, raced, todo, role>>
        /\ pc[w] = "readInc" /\ pc'[w] = "writeInc"
        /\ reg'[w] = count[Head(todo[w])]
        /\ \A v \in VMs \ {w} : pc'[v] = pc[v] /\ reg'[v] = reg[v]
    BY <1>9 DEF ReadIncrement
  <2>2. FrontLeft => FrontLeft'
    BY FrontStaysLeft
  <2>3. FrontRaceNeedsDeparture'
    BY <2>1, <2>2 DEF FrontInv, FrontRaceNeedsDeparture, FrontLeft
  <2> QED
    BY <2>1, <2>2, <2>3 DEF FrontInv, ScaleOutPC
<1>10. ASSUME NEW w \in VMs, WriteIncrement(w) PROVE FrontInv'
  <2>1. pc[w] = "writeInc" /\ todo[w] \in Seq(Tiers) /\ todo[w] # << >>
    BY <1>10 DEF WriteIncrement, StructInv, WorkInv, ScaleOutPC
  <2>2. Head(todo[w]) \in Tiers /\ Tail(todo[w]) \in Seq(Tiers)
    BY <2>1, TierList
  <2>3. /\ count' = [count EXCEPT ![Head(todo[w])] = reg[w] + 1]
        /\ raced' = raced \cup (IF reg[w] = count[Head(todo[w])] THEN {} ELSE {Head(todo[w])})
        /\ pc'[w] = IF Tail(todo[w]) = << >> THEN "loop" ELSE "startVM"
        /\ role' = role
        /\ \A v \in VMs \ {w} : pc'[v] = pc[v] /\ todo'[v] = todo[v] /\ reg'[v] = reg[v]
    BY <1>10, <2>2 DEF WriteIncrement, NoteRace
  <2>4. FrontLeft => FrontLeft'
    BY FrontStaysLeft
  <2>5. CASE w = Master
    <3>1. FRONT \in raced' => FRONT \in raced \/ FrontLeft'
      BY <2>1, <2>3, <2>4, <2>5 DEF FrontInv
    <3>2. FrontRaceNeedsDeparture'
      BY <2>3, <2>4, <3>1 DEF FrontInv, FrontRaceNeedsDeparture, FrontLeft
    <3>3. pc'[Master] # "writeInc"
      BY <2>3, <2>5
    <3> QED
      BY <2>3, <2>5, <3>2, <3>3 DEF FrontInv
  <2>6. CASE w \in Slaves
    <3>1. Head(todo[w]) = MID /\ Tail(todo[w]) = << >>
      <4>1. todo[w] = <<MID>>
        BY <2>1, <2>6 DEF FrontInv, ScaleOutPC
      <4> QED
        BY ONLY <4>1
    <3>2. count'[FRONT] = count[FRONT] /\ (FRONT \in raced' => FRONT \in raced)
      BY <2>2, <2>3, <3>1 DEF Tiers, FRONT, MID
    <3>3. pc'[w] = "loop"
      BY <2>3, <3>1
    <3>4. FrontRaceNeedsDeparture'
      BY <2>4, <3>2 DEF FrontInv, FrontRaceNeedsDeparture, FrontLeft
    <3> QED
      BY <2>3, <2>4, <2>6, <3>2, <3>3, <3>4 DEF FrontInv, ScaleOutPC
  <2> QED
    BY <2>5, <2>6
<1>11. ASSUME NEW w \in VMs, FailedCall(w) PROVE FrontInv'
  <2>1. /\ UNCHANGED <<count, raced, todo, role>>
        /\ pc'[w] \in {"addVM", "stopped", "exit"}
        /\ pc'[w] = "addVM" => pc[w] = "startVM"
        /\ \A v \in VMs \ {w} : pc'[v] = pc[v] /\ reg'[v] = reg[v]
    BY <1>11 DEF FailedCall, StartVMFails, StartVMAnswerLost, ServerStops, DeleteVMFromMapFails
  <2> QED
    BY <2>1, FrontFrame DEF ScaleOutPC
<1>12. CASE UNCHANGED vars
  BY <1>12, FrontFrame DEF vars
<1> QED
  BY <1>1, <1>2, <1>3, <1>4, <1>5, <1>6, <1>7, <1>8, <1>9, <1>10, <1>11, <1>12
     DEF Next, MasterStep, SlaveStep, ScaleOutStep

-----------------------------------------------------------------------------
(* The registry as the servers see it, step by step.                       *)

\* A step that changes no entry and no tier learned.
LEMMA RegistrySame ==
    ASSUME TypeOK, StructInv, [Next]_vars,
           \A v \in Slaves : /\ id2TierMap'[v] = id2TierMap[v] /\ role'[v] = role[v]
                             /\ pc'[v] \in LeftPC => pc[v] \in LeftPC \/ id2TierMap[v] # NoTier
    PROVE  UNCHANGED <<registryEntry, registryRole>>
  BY LeftForGood DEF registryEntry, registryRole

\* A step that changes the entry, or the tier learned, of one server.
LEMMA OneServer ==
    ASSUME TypeOK, StructInv, [Next]_vars, NEW w \in Slaves,
           \A v \in Slaves \ {w} : /\ id2TierMap'[v] = id2TierMap[v] /\ role'[v] = role[v]
                                   /\ pc'[v] \in LeftPC <=> pc[v] \in LeftPC
    PROVE  /\ registryEntry' = [registryEntry EXCEPT ![w] = registryEntry'[w]]
           /\ registryRole' = [registryRole EXCEPT ![w] = role'[w]]
  BY DEF registryEntry, registryRole

LEMMA RegistryInit == Init => Registry!Init
  BY VMFacts DEF Init, Registry!Init, registryEntry, registryRole, LeftPC

LEMMA RegistryStep ==
    ASSUME IInv, FreshInv, [Next]_vars
    PROVE  [Registry!Next]_<<registryEntry, registryRole>>
<1> USE VMFacts DEF Goto, TypeOK
<1>0. TypeOK /\ StructInv /\ LeftInv
  BY DEF IInv
<1> DEFINE Same ==
        \A v \in Slaves : /\ id2TierMap'[v] = id2TierMap[v] /\ role'[v] = role[v]
                          /\ pc'[v] \in LeftPC => pc[v] \in LeftPC \/ id2TierMap[v] # NoTier
<1>1. ASSUME MasterStep PROVE Same
  <2>1. CASE MasterHandler
    BY <1>0, <2>1 DEF MasterHandler, CallScaleOut, LeftPC
  <2>2. CASE MasterRoutine \/ HandleBootingCheck \/ MasterMayAddFront \/ MasterLoopEnd
    BY <1>0, <2>2 DEF MasterRoutine, HandleBootingCheck, MasterMayAddFront, MasterLoopEnd,
                      CallScaleOut
  <2> QED
    BY <1>1, <2>1, <2>2 DEF MasterStep
<1>2. ASSUME NEW w \in Slaves, BootVM(w) \/ RunVM(w) PROVE Same
  BY <1>0, <1>2 DEF BootVM, RunVM, threadVars, LeftPC
<1>3. ASSUME NEW w \in Slaves, GetTier(w) PROVE Same \/ Registry!Learn(w)
  <2>1. /\ pc[w] = "lookup" /\ role[w] = NoTier /\ id2TierMap' = id2TierMap
        /\ role'[w] = id2TierMap[w] /\ pc'[w] \notin LeftPC
        /\ \A v \in VMs \ {w} : pc'[v] = pc[v] /\ role'[v] = role[v]
    BY <1>0, <1>3 DEF GetTier, FreshInv, LeftPC
  <2>2. CASE id2TierMap[w] = NoTier
    BY <2>1, <2>2
  <2>3. CASE id2TierMap[w] # NoTier
    <3>1. pc[w] \notin LeftPC
      BY <2>1 DEF LeftPC
    <3>2. /\ registryEntry[w] = id2TierMap[w] /\ registryEntry'[w] = id2TierMap[w]
          /\ registryRole[w] = NoTier
      BY <2>1, <2>3 DEF registryEntry, registryRole
    <3>3. id2TierMap[w] \in Tiers
      BY <1>0, <2>3
    <3>4. /\ registryEntry' = [registryEntry EXCEPT ![w] = registryEntry'[w]]
          /\ registryRole' = [registryRole EXCEPT ![w] = role'[w]]
      BY <1>0, <2>1, OneServer
    <3>5. registryEntry' = registryEntry
      BY <3>2, <3>4 DEF registryEntry
    <3> QED
      BY <2>1, <3>2, <3>3, <3>4, <3>5 DEF Registry!Learn
  <2> QED
    BY <2>2, <2>3
<1>4. ASSUME NEW w \in Slaves, DeleteVMFromMap(w) PROVE Registry!Remove(w)
  <2>1. pc[w] = "delete" /\ id2TierMap[w] = role[w] /\ role[w] \in Tiers /\ role[w] # NoTier
    BY <1>0, <1>4 DEF DeleteVMFromMap, StructInv, ServingInv, ServingPC, Tiers, FRONT, MID, NoTier
  <2>2. /\ id2TierMap' = [id2TierMap EXCEPT ![w] = NoTier]
        /\ pc' = [pc EXCEPT ![w] = "readDec"] /\ role' = role
    BY <1>4, <2>1 DEF DeleteVMFromMap
  <2>3. registryEntry[w] = role[w] /\ registryEntry'[w] = Removed /\ registryRole[w] = role[w]
    BY <1>0, <2>1, <2>2 DEF registryEntry, registryRole, LeftPC
  <2>4. /\ registryEntry' = [registryEntry EXCEPT ![w] = registryEntry'[w]]
        /\ registryRole' = registryRole
    <3>1. registryEntry' = [registryEntry EXCEPT ![w] = registryEntry'[w]]
      BY <1>0, <2>2, OneServer
    <3> QED
      BY <2>2, <3>1 DEF registryRole
  <2> QED
    BY <2>1, <2>3, <2>4 DEF Registry!Remove
<1>5. ASSUME NEW w \in Slaves,
             \/ GetVMCount(w) \/ ScaleIn(w) \/ ScaleOut(w) \/ Serve(w)
             \/ ReadDecrement(w) \/ WriteDecrement(w) \/ Exit(w)
      PROVE  Same
  BY <1>0, <1>5
  DEF GetVMCount, ScaleIn, ScaleOut, Serve, ReadDecrement, WriteDecrement, Exit, CallScaleOut, LeftPC
<1>6. ASSUME NEW u \in VMs, AddVM2Map(u)
      PROVE  Same \/ \E w \in Slaves : Registry!Enter(w)
  <2>1. /\ pc[u] = "addVM" /\ pc' = [pc EXCEPT ![u] = "readInc"] /\ role' = role
    BY <1>6 DEF AddVM2Map
  <2>2. \A v \in VMs : pc'[v] \in LeftPC <=> pc[v] \in LeftPC
    BY <1>0, <2>1 DEF LeftPC
  <2>3. CASE newVM[u] = FailedVM
    BY <1>6, <2>1, <2>2, <2>3 DEF AddVM2Map
  <2>4. CASE newVM[u] # FailedVM
    <3> DEFINE w == newVM[u]
    <3>1. w \in Slaves /\ id2TierMap[w] = NoTier /\ pc[w] \notin LeftPC
      BY <1>0, <2>1, <2>4 DEF StructInv, WorkInv, AddInv, LeftInv
    <3>2. Head(todo[u]) \in Tiers
      <4>1. todo[u] \in Seq(Tiers) /\ todo[u] # << >>
        BY <1>0, <2>1 DEF StructInv, WorkInv, ScaleOutPC
      <4> QED
        BY <4>1, TierList
    <3>3. id2TierMap' = [id2TierMap EXCEPT ![w] = Head(todo[u])]
      BY <1>6, <2>4, <3>1 DEF AddVM2Map
    <3>4. registryEntry[w] = NoTier /\ registryEntry'[w] = Head(todo[u])
      BY <1>0, <2>2, <3>1, <3>3 DEF registryEntry
    <3>5. registryEntry' = [registryEntry EXCEPT ![w] = registryEntry'[w]]
      BY <1>0, <2>1, <2>2, <3>1, <3>3, OneServer
    <3>6. registryRole' = registryRole
      BY <2>1 DEF registryRole
    <3>7. Registry!Enter(w)
      BY <3>2, <3>4, <3>5, <3>6 DEF Registry!Enter
    <3> QED
      BY <3>1, <3>7
  <2> QED
    BY <2>3, <2>4
<1>7. ASSUME NEW u \in VMs, StartVM(u) \/ ReadIncrement(u) \/ WriteIncrement(u) PROVE Same
  BY <1>0, <1>7 DEF StartVM, ReadIncrement, WriteIncrement, LeftPC
<1>8. ASSUME NEW u \in VMs, FailedCall(u) PROVE Same
  <2>1. CASE DeleteVMFromMapFails(u)
    <3>1. pc[u] = "delete" /\ id2TierMap' = id2TierMap /\ role' = role
          /\ \A v \in VMs \ {u} : pc'[v] = pc[v]
      BY <1>0, <2>1 DEF DeleteVMFromMapFails
    <3>2. u \in Slaves => id2TierMap[u] # NoTier
      <4>1. u \in Slaves => id2TierMap[u] \in Tiers
        BY <1>0, <3>1 DEF StructInv, ServingInv, ServingPC
      <4> QED
        BY <4>1 DEF Tiers, FRONT, MID, NoTier
    <3> QED
      BY <3>1, <3>2
  <2>2. CASE StartVMFails(u) \/ StartVMAnswerLost(u) \/ ServerStops(u)
    BY <1>0, <2>2 DEF StartVMFails, StartVMAnswerLost, ServerStops, LeftPC
  <2> QED
    BY <1>8, <2>1, <2>2 DEF FailedCall
<1>9. ASSUME UNCHANGED vars PROVE Same
  BY <1>9 DEF vars
<1>10. Same => UNCHANGED <<registryEntry, registryRole>>
  BY <1>0, RegistrySame
<1>11. Same \/ \E w \in Slaves : Registry!Enter(w) \/ Registry!Learn(w) \/ Registry!Remove(w)
  BY <1>1, <1>2, <1>3, <1>4, <1>5, <1>6, <1>7, <1>8, <1>9 DEF Next, SlaveStep, ScaleOutStep
<1> QED
  BY <1>10, <1>11 DEF Registry!Next

-----------------------------------------------------------------------------
(* The strengthened invariant.                                             *)
RegInv == IInv /\ StartedIsRegistered /\ AskInv /\ FreshInv /\ FrontInv

LEMMA InitRegInv == Init => RegInv
<1> SUFFICES ASSUME Init PROVE RegInv
  OBVIOUS
<1>1. IInv
  BY InitIInv
<1>2. StartedIsRegistered
  BY VMFacts, MaxVMAssumption DEF Init, StartedIsRegistered, Slaves
<1>3. AskInv /\ FreshInv
  BY VMFacts DEF Init, AskInv, FreshInv
<1>4. FrontInv
  BY VMFacts DEF Init, FrontInv, FrontRaceNeedsDeparture, ScaleOutPC
<1> QED
  BY <1>1, <1>2, <1>3, <1>4 DEF RegInv

THEOREM RegistryInvariant == Spec => []RegInv
<1>1. IInv /\ [Next]_vars => IInv'
  BY TypeStep, StructStep, CountStep, LeftStep, SecondStep, Zenon DEF IInv
<1>2. RegInv /\ [Next]_vars => RegInv'
  BY <1>1, StartedStep, AskStep, FrontStep DEF RegInv, IInv
<1> QED
  BY InitRegInv, <1>2, PTL DEF Spec

(* No started machine is forgotten (lines 405-406, 455-465): unless the    *)
(* answer of its own startVM was lost, its id is in id2TierMap, about to   *)
(* be put there, or its server has deleted it, whatever other calls fail.  *)
THEOREM StartedRegistered == Spec => []StartedIsRegistered
<1>1. RegInv => StartedIsRegistered
  BY DEF RegInv
<1> QED
  BY RegistryInvariant, <1>1, PTL

(* getTier (lines 474-477) answers -1 to a machine that boots longer than  *)
(* its starter is in scaleOutCore only if the answer of its own startVM    *)
(* was lost.                                                               *)
THEOREM AskersKnown == Spec => []KnownWhenAsked
<1>1. RegInv => KnownWhenAsked
  BY DEF RegInv, AskInv, KnownWhenAsked
<1> QED
  BY RegistryInvariant, <1>1, PTL

(* frontCount (lines 408, 460) loses no update before the first departure  *)
(* of a front server.                                                      *)
THEOREM FrontRaces == Spec => []FrontRaceNeedsDeparture
<1>1. RegInv => FrontRaceNeedsDeparture
  BY DEF RegInv, FrontInv
<1> QED
  BY RegistryInvariant, <1>1, PTL

(* The threads of Cluster implement the registry: one entry for each       *)
(* server, one tier learned, removal last (lines 394-398, 455-465, 474).   *)
THEOREM RegistryImplemented == Spec => ImplementsRegistry
<1>1. RegInv /\ [Next]_vars => [Registry!Next]_<<registryEntry, registryRole>>
  BY RegistryStep DEF RegInv
<1> QED
  BY RegistryInit, RegistryInvariant, <1>1, PTL DEF Spec, ImplementsRegistry, Registry!Spec
=============================================================================
