---------------------------- MODULE ClusterProofs ----------------------------
(***************************************************************************)
(* Machine-checked theorems about Cluster, for every MaxVM, every Burst    *)
(* and with or without the timing assumption BootOutlasts.                 *)
(***************************************************************************)
EXTENDS Cluster, TLAPS, FiniteSetTheorems

(* A machine that has not run yet has no thread of its own, and an id that *)
(* was not handed out yet is unknown to the cloud and to the registry.     *)
BootInv ==
    \A v \in Slaves :
        /\ status[v] \in {"NonExistent", "Booting"} => pc[v] = "off"
        /\ v >= nextVM => status[v] = "NonExistent" /\ id2TierMap[v] = NoTier

(* A thread inside scaleOutCore or deleteVMFromMap has a tier to work on,  *)
(* and one about to register a machine has its id.                         *)
WorkInv ==
    \A v \in VMs :
        /\ pc[v] \in ScaleOutPC \cup {"readDec", "writeDec"} => todo[v] # << >>
        /\ pc[v] = "addVM" => newVM[v] \in Slaves \cup {FailedVM}

(* A thread about to register a machine, if startVM did not fail, is the   *)
(* only one to do so, and the machine is not registered.                   *)
AddInv ==
    /\ \A v \in VMs : pc[v] = "addVM" /\ newVM[v] # FailedVM
                       => /\ newVM[v] < nextVM
                          /\ id2TierMap[newVM[v]] = NoTier
    /\ \A v, w \in VMs :
          /\ pc[v] = "addVM" /\ pc[w] = "addVM"
          /\ newVM[v] = newVM[w] /\ newVM[v] # FailedVM
          => v = w

(* A serving slave knows its tier and is registered under it.              *)
ServingInv ==
    \A v \in Slaves :
        pc[v] \in ServingPC => role[v] \in Tiers /\ id2TierMap[v] = role[v]

(* The thread between removal and the end of -- holds the master's monitor.*)
LockInv == \A v \in VMs : pc[v] \in {"readDec", "writeDec"} => masterLock = v

(* Before masterHandler runs the master is not registered, and it never    *)
(* calls deleteVMFromMap.                                                  *)
MasterInv ==
    /\ pc[Master] = "init" => id2TierMap[Master] = NoTier
    /\ pc[Master] \notin DeletePC \cup {"exit", "gone"}

StructInv == WorkInv /\ BootInv /\ AddInv /\ ServingInv /\ LockInv /\ MasterInv

(* A server that left stays unregistered: nobody is about to register it.  *)
LeftInv ==
    /\ \A v \in Slaves : status[v] = "Ended" => pc[v] = "gone"
    /\ \A v \in Slaves \ abandoned : pc[v] \in LeftPC => id2TierMap[v] = NoTier
    /\ \A v \in VMs : pc[v] = "addVM" /\ newVM[v] # FailedVM => pc[newVM[v]] \notin LeftPC

(* As long as no start of a mid server has failed, id 2 is free only until *)
(* the master's first startVM and goes to a mid server.                    *)
SecondInv ==
    phantoms[MID] = 0 =>
        /\ id2TierMap[2] # FRONT /\ role[2] # FRONT
        /\ nextVM = 2 => \/ pc[Master] = "init"
                         \/ pc[Master] \in {"startVM", "addVM"} /\ Head(todo[Master]) = MID
        /\ \A v \in VMs : pc[v] = "addVM" /\ newVM[v] = 2 => Head(todo[v]) = MID

IInv == TypeOK /\ StructInv /\ CountExactUnlessRaced /\ LeftInv /\ SecondInv

-----------------------------------------------------------------------------
(* The ids are integers of the range 1 .. MaxVM.                           *)
LEMMA VMFacts ==
    /\ VMs \subseteq Int
    /\ Master \in VMs
    /\ Slaves \subseteq VMs
    /\ Slaves = VMs \ {Master}
    /\ NoVM \notin VMs
    /\ IsFiniteSet(VMs)
<1>1. IsFiniteSet(VMs)
  BY MaxVMAssumption, FS_Interval DEF VMs
<1> QED
  BY <1>1, MaxVMAssumption DEF VMs, Slaves, Master, NoVM

(* The first element and the rest of a nonempty list of tiers.             *)
LEMMA TierList ==
    ASSUME NEW s \in Seq(Tiers), s # << >>
    PROVE  Head(s) \in Tiers /\ Tail(s) \in Seq(Tiers)
OBVIOUS

(* Starting a list of scale-outs keeps the types of the thread's locals.   *)
LEMMA CallScaleOutType ==
    ASSUME TypeOK, NEW v \in VMs, NEW tiers \in Seq(Tiers), CallScaleOut(v, tiers)
    PROVE  todo' \in [VMs -> Seq(Tiers)] /\ pc' \in [VMs -> PC]
<1>1. todo' = [todo EXCEPT ![v] = tiers]
  BY Zenon DEF CallScaleOut
<1>2. pc' = [pc EXCEPT ![v] = "startVM"]
  BY Zenon DEF CallScaleOut, Goto
<1>3. todo' \in [VMs -> Seq(Tiers)]
  BY <1>1 DEF TypeOK
<1>4. pc' \in [VMs -> PC]
  BY <1>2 DEF TypeOK, PC, ScaleOutPC
<1> QED
  BY <1>3, <1>4

-----------------------------------------------------------------------------
(* Every step keeps the types of the histories of failed calls.            *)
LEMMA FailTypeStep ==
    ASSUME TypeOK, StructInv, [Next]_vars
    PROVE  FailTypeOK'
<1> USE VMFacts
<1>1. CASE UNCHANGED failVars
  BY <1>1 DEF failVars, TypeOK, FailTypeOK
<1>2. ASSUME NEW v \in VMs, AddVM2Map(v)
      PROVE  FailTypeOK'
  <2>1. Head(todo[v]) \in Tiers
    BY <1>2, TierList DEF AddVM2Map, TypeOK, StructInv, WorkInv, ScaleOutPC
  <2>2. UNCHANGED <<failures, abandoned, orphans>>
    BY <1>2, Zenon DEF AddVM2Map
  <2>3. phantoms' = phantoms \/ phantoms' = [phantoms EXCEPT ![Head(todo[v])] = @ + 1]
    BY <1>2, Zenon DEF AddVM2Map
  <2>4. phantoms \in [Tiers -> Nat]
    BY DEF TypeOK, FailTypeOK
  <2>5. phantoms' \in [Tiers -> Nat]
    BY <2>1, <2>3, <2>4
  <2> QED
    BY <2>2, <2>5 DEF TypeOK, FailTypeOK
<1>3. ASSUME NEW v \in VMs, FailedCall(v)
      PROVE  FailTypeOK'
  <2>1. failures' \in 0 .. MaxFailures
    BY <1>3, MaxFailuresAssumption DEF FailedCall, StartVMFails, StartVMAnswerLost,
                              ServerStops, DeleteVMFromMapFails, Fail, TypeOK, FailTypeOK
  <2>2. phantoms' = phantoms
    BY <1>3 DEF FailedCall, StartVMFails, StartVMAnswerLost, ServerStops,
                     DeleteVMFromMapFails
  <2>3. abandoned' = abandoned \/ (abandoned' = abandoned \cup {v} /\ pc[v] = "delete")
    BY <1>3 DEF FailedCall, StartVMFails, StartVMAnswerLost, ServerStops,
                     DeleteVMFromMapFails
  <2>4. pc[v] = "delete" => v \in Slaves
    BY DEF StructInv, MasterInv, DeletePC
  <2>5. orphans' = orphans \/ (orphans' = orphans \cup {nextVM} /\ nextVM <= MaxVM)
    BY <1>3, Zenon DEF FailedCall, StartVMFails, StartVMAnswerLost, ServerStops,
                       DeleteVMFromMapFails
  <2>6. orphans' \subseteq Slaves
    <3>1. orphans \subseteq Slaves
      BY DEF TypeOK, FailTypeOK
    <3>2. nextVM \in 2 .. MaxVM + 1 /\ MaxVM \in Nat
      BY MaxVMAssumption DEF TypeOK
    <3>3. nextVM <= MaxVM => nextVM \in Slaves
      BY ONLY <3>2 DEF Slaves
    <3> QED
      BY <2>5, <3>1, <3>3
  <2> QED
    BY <2>1, <2>2, <2>3, <2>4, <2>6 DEF TypeOK, FailTypeOK
<1>4. CASE MasterStep
  BY <1>1, <1>4, Zenon DEF MasterStep, MasterHandler, MasterRoutine, HandleBootingCheck,
                           MasterMayAddFront, MasterLoopEnd
<1>5. ASSUME NEW v \in Slaves, BootVM(v) \/ RunVM(v)
      PROVE  FailTypeOK'
  BY <1>1, <1>5, Zenon DEF BootVM, RunVM
<1>6. ASSUME NEW v \in Slaves, SlaveStep(v)
      PROVE  FailTypeOK'
  BY <1>1, <1>6, Zenon DEF SlaveStep, GetTier, GetVMCount, ScaleIn, ScaleOut, Serve,
                           DeleteVMFromMap, ReadDecrement, WriteDecrement, Exit
<1>7. ASSUME NEW v \in VMs, ScaleOutStep(v)
      PROVE  FailTypeOK'
  BY <1>1, <1>2, <1>7, Zenon DEF ScaleOutStep, StartVM, ReadIncrement, WriteIncrement
<1>8. CASE UNCHANGED vars
  BY <1>1, <1>8 DEF vars, failVars
<1> QED
  BY <1>3, <1>4, <1>5, <1>6, <1>7, <1>8, Zenon DEF Next

(* Every step keeps the types.                                             *)
LEMMA TypeStep ==
    ASSUME TypeOK, StructInv, [Next]_vars
    PROVE  TypeOK'
<1> USE VMFacts DEF TypeOK, Goto, PC, ScaleOutPC, DeletePC
<1>0. FailTypeOK'
  BY FailTypeStep
<1> USE <1>0
<1>1. CASE MasterStep
  <2>1. CASE MasterHandler
    <3>1. <<MID, FRONT>> \in Seq(Tiers)
      BY DEF Tiers
    <3>2. FRONT \in Tiers
      BY DEF Tiers
    <3>3. todo' \in [VMs -> Seq(Tiers)] /\ pc' \in [VMs -> PC]
      <4>1. CallScaleOut(Master, <<MID, FRONT>>)
        BY <2>1, Zenon DEF MasterHandler
      <4> QED
        BY <3>1, <4>1, CallScaleOutType, Zenon
    <3> QED
      <4>1. /\ id2TierMap' = [id2TierMap EXCEPT ![Master] = FRONT]
            /\ count' = [count EXCEPT ![FRONT] = @ + 1]
            /\ UNCHANGED <<status, nextVM, masterLock, checked, raced, newVM, reg, role>>
        BY <2>1, Zenon DEF MasterHandler, cloudVars
      <4> QED
        BY <3>2, <3>3, <4>1
  <2>2. CASE MasterRoutine
    BY <2>2 DEF MasterRoutine, cloudVars
  <2>3. CASE HandleBootingCheck
    <3>1. <<MID>> \in Seq(Tiers) /\ Burst \in Seq(Tiers)
      BY BurstAssumption DEF Tiers
    <3>2. CASE \E tiers \in {Burst, <<MID>>} : CallScaleOut(Master, tiers)
      <4>1. todo' \in [VMs -> Seq(Tiers)] /\ pc' \in [VMs -> PC]
        BY <3>1, <3>2, CallScaleOutType, Zenon
      <4> QED
        BY <2>3, <4>1 DEF HandleBootingCheck, cloudVars
    <3>3. CASE Goto(Master, "loop") /\ UNCHANGED todo
      BY <2>3, <3>3 DEF HandleBootingCheck, cloudVars
    <3> QED
      BY <2>3, <3>2, <3>3, Zenon DEF HandleBootingCheck
  <2>4. CASE MasterMayAddFront
    <3>1. <<FRONT>> \in Seq(Tiers)
      BY DEF Tiers
    <3>2. todo' \in [VMs -> Seq(Tiers)] /\ pc' \in [VMs -> PC]
      <4>1. CallScaleOut(Master, <<FRONT>>)
        BY <2>4, Zenon DEF MasterMayAddFront
      <4> QED
        BY <3>1, <4>1, CallScaleOutType, Zenon
    <3> QED
      BY <2>4, <3>2 DEF MasterMayAddFront, cloudVars
  <2>5. CASE MasterLoopEnd
    BY <2>5 DEF MasterLoopEnd, cloudVars
  <2> QED
    BY <1>1, <2>1, <2>2, <2>3, <2>4, <2>5 DEF MasterStep
<1>2. ASSUME NEW v \in Slaves, BootVM(v) \/ RunVM(v)
      PROVE  TypeOK'
  <2>1. CASE BootVM(v)
    BY <2>1 DEF BootVM, cloudVars, threadVars, Status
  <2>2. CASE RunVM(v)
    <3>1. /\ status' = [status EXCEPT ![v] = "Running"]
          /\ pc' = [pc EXCEPT ![v] = "lookup"]
          /\ UNCHANGED <<nextVM, id2TierMap, count, masterLock, checked, raced,
                         todo, newVM, reg, role>>
      BY <2>2, Zenon DEF RunVM
    <3> QED
      BY <3>1 DEF Status
  <2> QED
    BY <1>2, <2>1, <2>2
<1>3. ASSUME NEW v \in Slaves, SlaveStep(v)
      PROVE  TypeOK'
  <2>1. CASE GetTier(v)
    BY <2>1 DEF GetTier, cloudVars
  <2>2. CASE GetVMCount(v)
    <3>1. role[v] \in Tiers
      BY <2>2, <1>3 DEF GetVMCount, StructInv, ServingInv, ServingPC
    <3> QED
      BY <2>2, <3>1 DEF GetVMCount, cloudVars
  <2>3. CASE ScaleIn(v)
    BY <2>3 DEF ScaleIn, cloudVars
  <2>4. CASE ScaleOut(v)
    <3>1. <<MID>> \in Seq(Tiers)
      BY DEF Tiers
    <3>2. todo' \in [VMs -> Seq(Tiers)] /\ pc' \in [VMs -> PC]
      <4>1. CallScaleOut(v, <<MID>>)
        BY <2>4, Zenon DEF ScaleOut
      <4> QED
        BY <3>1, <4>1, CallScaleOutType, Zenon
    <3> QED
      <4>1. /\ reg' = [reg EXCEPT ![v] = 0]
            /\ UNCHANGED <<status, nextVM, id2TierMap, count, masterLock, checked,
                           raced, newVM, role>>
        BY <2>4, Zenon DEF ScaleOut, cloudVars
      <4> QED
        BY <3>2, <4>1
  <2>5. CASE Serve(v)
    BY <2>5 DEF Serve, cloudVars
  <2>6. CASE DeleteVMFromMap(v)
    <3>1. CASE id2TierMap[v] = NoTier
      BY <2>6, <3>1 DEF DeleteVMFromMap, cloudVars
    <3>2. CASE id2TierMap[v] # NoTier
      <4>1. id2TierMap[v] \in Tiers
        BY <3>2
      <4>2. <<id2TierMap[v]>> \in Seq(Tiers)
        BY <4>1
      <4>3. todo' \in [VMs -> Seq(Tiers)]
        BY <2>6, <3>2, <4>2 DEF DeleteVMFromMap
      <4>4. /\ id2TierMap' = [id2TierMap EXCEPT ![v] = NoTier]
            /\ masterLock' = v
            /\ pc' = [pc EXCEPT ![v] = "readDec"]
            /\ UNCHANGED <<status, nextVM, count, checked, raced, newVM, reg, role>>
        BY <2>6, <3>2 DEF DeleteVMFromMap, cloudVars
      <4> QED
        BY <4>3, <4>4
    <3> QED
      BY <3>1, <3>2
  <2>7. CASE ReadDecrement(v)
    <3>1. Head(todo[v]) \in Tiers
      BY <2>7, TierList DEF ReadDecrement, StructInv, WorkInv
    <3> QED
      BY <2>7, <3>1 DEF ReadDecrement, cloudVars
  <2>8. CASE WriteDecrement(v)
    <3>1. << >> \in Seq(Tiers)
      OBVIOUS
    <3>2. /\ count' \in [Tiers -> Int]
          /\ raced' \subseteq Tiers
      <4>1. Head(todo[v]) \in Tiers
        BY <2>8, TierList DEF WriteDecrement, StructInv, WorkInv
      <4> QED
        BY <2>8, <4>1 DEF WriteDecrement, NoteRace
    <3>3. todo' \in [VMs -> Seq(Tiers)]
      BY <2>8, <3>1 DEF WriteDecrement
    <3>4. /\ masterLock' = NoVM
          /\ reg' = [reg EXCEPT ![v] = 0]
          /\ pc' = [pc EXCEPT ![v] = "exit"]
          /\ UNCHANGED <<status, nextVM, id2TierMap, checked, newVM, role>>
      BY <2>8, Zenon DEF WriteDecrement, cloudVars
    <3> QED
      BY <3>2, <3>3, <3>4
  <2>9. CASE Exit(v)
    BY <2>9 DEF Exit, cloudVars, Status
  <2> QED
    BY <1>3, <2>1, <2>2, <2>3, <2>4, <2>5, <2>6, <2>7, <2>8, <2>9 DEF SlaveStep
<1>4. ASSUME NEW v \in VMs, ScaleOutStep(v)
      PROVE  TypeOK'
  <2>1. CASE StartVM(v)
    <3>1. nextVM \in Slaves /\ nextVM + 1 \in 2 .. MaxVM + 1
      BY <2>1, MaxVMAssumption DEF StartVM, Slaves
    <3> QED
      BY <2>1, <3>1 DEF StartVM, cloudVars
  <2>2. CASE AddVM2Map(v)
    <3>1. Head(todo[v]) \in Tiers
      BY <2>2, TierList DEF AddVM2Map, StructInv, WorkInv
    <3>2. /\ id2TierMap' = id2TierMap
             \/ id2TierMap' = [id2TierMap EXCEPT ![newVM[v]] = Head(todo[v])]
          /\ pc' = [pc EXCEPT ![v] = "readInc"]
          /\ UNCHANGED <<status, nextVM, count, masterLock, checked, raced,
                         todo, newVM, reg, role>>
      BY <2>2, Zenon DEF AddVM2Map, cloudVars
    <3> QED
      BY <3>1, <3>2
  <2>3. CASE ReadIncrement(v)
    <3>1. Head(todo[v]) \in Tiers
      BY <2>3, TierList DEF ReadIncrement, StructInv, WorkInv
    <3> QED
      BY <2>3, <3>1 DEF ReadIncrement, cloudVars
  <2>4. CASE WriteIncrement(v)
    <3>1. Head(todo[v]) \in Tiers /\ Tail(todo[v]) \in Seq(Tiers)
      BY <2>4, TierList DEF WriteIncrement, StructInv, WorkInv
    <3>2. /\ count' \in [Tiers -> Int]
          /\ raced' \subseteq Tiers
      <4>1. /\ count' = [count EXCEPT ![Head(todo[v])] = reg[v] + 1]
            /\ raced' = raced \cup (IF reg[v] = count[Head(todo[v])] THEN {} ELSE {Head(todo[v])})
        BY <2>4, Zenon DEF WriteIncrement, NoteRace
      <4>2. reg[v] + 1 \in Int
        OBVIOUS
      <4> QED
        BY <3>1, <4>1, <4>2
    <3>3. todo' \in [VMs -> Seq(Tiers)]
      BY <2>4, <3>1 DEF WriteIncrement
    <3>4. pc' \in [VMs -> PC]
      BY <2>4 DEF WriteIncrement
    <3>5. newVM' \in [VMs -> Slaves \cup {NoVM, FailedVM}] /\ reg' \in [VMs -> Int]
      BY <2>4 DEF WriteIncrement
    <3>6. UNCHANGED <<status, nextVM, id2TierMap, masterLock, checked, role>>
      BY <2>4, Zenon DEF WriteIncrement, cloudVars
    <3> QED
      BY <3>2, <3>3, <3>4, <3>5, <3>6
  <2> QED
    BY <1>4, <2>1, <2>2, <2>3, <2>4 DEF ScaleOutStep
<1>5. ASSUME NEW v \in VMs, FailedCall(v)
      PROVE  TypeOK'
  <2>2. CASE StartVMFails(v)
    BY <2>2 DEF StartVMFails, cloudVars
  <2>3. CASE ServerStops(v)
    BY <2>3 DEF ServerStops, cloudVars
  <2>4. CASE DeleteVMFromMapFails(v)
    BY <2>4 DEF DeleteVMFromMapFails, cloudVars
  <2>5. CASE StartVMAnswerLost(v)
    <3>1. nextVM + 1 \in 2 .. MaxVM + 1
      BY <2>5, MaxVMAssumption DEF StartVMAnswerLost
    <3> QED
      BY <2>5, <3>1 DEF StartVMAnswerLost
  <2> QED
    BY <1>5, <2>2, <2>3, <2>4, <2>5, Zenon DEF FailedCall
<1>6. CASE UNCHANGED vars
  BY <1>6 DEF vars
<1> QED
  BY <1>1, <1>2, <1>3, <1>4, <1>5, <1>6 DEF Next
-----------------------------------------------------------------------------
(* Every step keeps the structural invariant.  A step of one thread changes *)
(* its own pc only; the registry grows by AddVM2Map and MasterHandler and   *)
(* shrinks by DeleteVMFromMap.                                              *)
LEMMA StructStep ==
    ASSUME TypeOK, StructInv, [Next]_vars
    PROVE  StructInv'
<1> USE VMFacts DEF TypeOK, StructInv, WorkInv, BootInv, AddInv, ServingInv,
        LockInv, MasterInv, ServingPC, ScaleOutPC, PC, DeletePC, Goto
<1>1. CASE MasterStep
  <2>1. CASE MasterHandler
    <3>1. /\ pc[Master] = "init"
          /\ id2TierMap' = [id2TierMap EXCEPT ![Master] = FRONT]
          /\ todo' = [todo EXCEPT ![Master] = <<MID, FRONT>>]
          /\ pc' = [pc EXCEPT ![Master] = "startVM"]
          /\ UNCHANGED <<status, nextVM, masterLock, newVM, role>>
      BY <2>1, Zenon DEF MasterHandler, CallScaleOut, cloudVars
    <3>2. <<MID, FRONT>> # << >>
      OBVIOUS
    <3> QED
      BY <3>1, <3>2
  <2>2. CASE MasterRoutine
    BY <2>2 DEF MasterRoutine, cloudVars
  <2>3. CASE HandleBootingCheck
    <3>1. pc[Master] = "booting" /\ UNCHANGED <<status, nextVM, id2TierMap, masterLock, newVM, role>>
      BY <2>3, Zenon DEF HandleBootingCheck, cloudVars
    <3>2. ASSUME NEW tiers, tiers # << >>, CallScaleOut(Master, tiers)
          PROVE  StructInv'
      <4>1. /\ todo' = [todo EXCEPT ![Master] = tiers]
            /\ pc' = [pc EXCEPT ![Master] = "startVM"]
        BY <3>2, Zenon DEF CallScaleOut
      <4> QED
        BY <3>1, <3>2, <4>1
    <3>3. CASE Goto(Master, "loop") /\ UNCHANGED todo
      BY <3>1, <3>3
    <3>4. Burst # << >> /\ <<MID>> # << >>
      BY BurstAssumption
    <3> QED
      BY <2>3, <3>2, <3>3, <3>4, Zenon DEF HandleBootingCheck
  <2>4. CASE MasterMayAddFront
    <3>1. /\ pc[Master] = "routine"
          /\ todo' = [todo EXCEPT ![Master] = <<FRONT>>]
          /\ pc' = [pc EXCEPT ![Master] = "startVM"]
          /\ UNCHANGED <<status, nextVM, id2TierMap, masterLock, newVM, role>>
      BY <2>4, Zenon DEF MasterMayAddFront, CallScaleOut, cloudVars
    <3>2. <<FRONT>> # << >>
      OBVIOUS
    <3> QED
      BY <3>1, <3>2
  <2>5. CASE MasterLoopEnd
    BY <2>5 DEF MasterLoopEnd, cloudVars
  <2> QED
    BY <1>1, <2>1, <2>2, <2>3, <2>4, <2>5, Zenon DEF MasterStep
<1>2. ASSUME NEW v \in Slaves, BootVM(v) \/ RunVM(v)
      PROVE  StructInv'
  <2>1. CASE BootVM(v)
    BY <2>1 DEF BootVM, cloudVars, threadVars, Status
  <2>2. CASE RunVM(v)
    <3>1. /\ status[v] = "Booting"
          /\ status' = [status EXCEPT ![v] = "Running"]
          /\ pc' = [pc EXCEPT ![v] = "lookup"]
          /\ UNCHANGED <<nextVM, id2TierMap, masterLock, todo, newVM, role>>
      BY <2>2, Zenon DEF RunVM
    <3> QED
      BY <3>1 DEF Status
  <2> QED
    BY <1>2, <2>1, <2>2, Zenon
<1>3. ASSUME NEW v \in Slaves, SlaveStep(v)
      PROVE  StructInv'
  <2>1. CASE GetTier(v)
    BY <2>1 DEF GetTier, cloudVars
  <2>2. CASE GetVMCount(v)
    BY <2>2 DEF GetVMCount, cloudVars
  <2>3. CASE ScaleIn(v)
    BY <2>3 DEF ScaleIn, cloudVars
  <2>4. CASE ScaleOut(v)
    <3>1. /\ pc[v] = "decide"
          /\ todo' = [todo EXCEPT ![v] = <<MID>>]
          /\ pc' = [pc EXCEPT ![v] = "startVM"]
          /\ UNCHANGED <<status, nextVM, id2TierMap, masterLock, newVM, role>>
      BY <2>4, Zenon DEF ScaleOut, CallScaleOut, cloudVars
    <3>2. <<MID>> # << >>
      OBVIOUS
    <3> QED
      BY <3>1, <3>2
  <2>5. CASE Serve(v)
    BY <2>5 DEF Serve, cloudVars
  <2>6. CASE DeleteVMFromMap(v)
    <3>1. CASE id2TierMap[v] = NoTier
      <4>1. /\ pc[v] = "delete"
            /\ pc' = [pc EXCEPT ![v] = "exit"]
            /\ UNCHANGED <<status, nextVM, id2TierMap, masterLock, todo, newVM, role>>
        BY <2>6, <3>1, Zenon DEF DeleteVMFromMap, cloudVars
      <4> QED
        BY <4>1
    <3>2. CASE id2TierMap[v] # NoTier
      <4>1. /\ pc[v] = "delete"
            /\ masterLock = NoVM
            /\ masterLock' = v
            /\ id2TierMap' = [id2TierMap EXCEPT ![v] = NoTier]
            /\ todo' = [todo EXCEPT ![v] = <<id2TierMap[v]>>]
            /\ pc' = [pc EXCEPT ![v] = "readDec"]
            /\ UNCHANGED <<status, nextVM, newVM, role>>
        BY <2>6, <3>2, Zenon DEF DeleteVMFromMap, cloudVars
      <4>2. <<id2TierMap[v]>> # << >>
        OBVIOUS
      <4>3. WorkInv' /\ BootInv' /\ LockInv'
        BY <4>1, <4>2
      <4>4. AddInv'
        BY <4>1
      <4>5. ServingInv' /\ MasterInv'
        BY <4>1
      <4> QED
        BY <4>3, <4>4, <4>5, Zenon DEF StructInv
    <3> QED
      BY <3>1, <3>2
  <2>7. CASE ReadDecrement(v)
    BY <2>7 DEF ReadDecrement, cloudVars
  <2>8. CASE WriteDecrement(v)
    <3>1. /\ pc[v] = "writeDec"
          /\ masterLock' = NoVM
          /\ todo' = [todo EXCEPT ![v] = << >>]
          /\ pc' = [pc EXCEPT ![v] = "exit"]
          /\ UNCHANGED <<status, nextVM, id2TierMap, newVM, role>>
      BY <2>8, Zenon DEF WriteDecrement, cloudVars
    <3> QED
      BY <3>1
  <2>9. CASE Exit(v)
    BY <2>9 DEF Exit, cloudVars, Status
  <2> QED
    BY <1>3, <2>1, <2>2, <2>3, <2>4, <2>5, <2>6, <2>7, <2>8, <2>9, Zenon DEF SlaveStep
<1>4. ASSUME NEW v \in VMs, ScaleOutStep(v)
      PROVE  StructInv'
  <2>1. CASE StartVM(v)
    <3>1. /\ pc[v] = "startVM"
          /\ nextVM <= MaxVM
          /\ newVM'  = [newVM EXCEPT ![v] = nextVM]
          /\ nextVM' = nextVM + 1
          /\ pc' = [pc EXCEPT ![v] = "addVM"]
          /\ UNCHANGED <<status, id2TierMap, masterLock, todo, role>>
      BY <2>1, Zenon DEF StartVM
    <3>2. nextVM \in Slaves
      BY <3>1, MaxVMAssumption DEF Slaves
    <3>3. WorkInv'
      BY <3>1, <3>2
    <3>6. nextVM \in Int /\ nextVM < nextVM' /\ \A w \in Slaves : w >= nextVM' => w >= nextVM
      BY <3>1, MaxVMAssumption
    <3>7. BootInv'
      BY <3>1, <3>6
    <3>4. AddInv'
      <4>1. id2TierMap[nextVM] = NoTier
        BY <3>2
      <4>2. \A w \in VMs : pc[w] = "addVM" /\ newVM[w] # FailedVM => newVM[w] # nextVM
        OBVIOUS
      <4>3. newVM'[v] = nextVM /\ \A w \in VMs \ {v} : newVM'[w] = newVM[w] /\ pc'[w] = pc[w]
        BY <3>1, <3>2
      <4>4. \A w \in VMs : pc[w] = "addVM" /\ newVM[w] # FailedVM
                             => /\ newVM[w] \in Slaves
                                /\ newVM[w] < nextVM
                                /\ id2TierMap[newVM[w]] = NoTier
        OBVIOUS
      <4>5. \A w, x \in VMs :
               /\ pc[w] = "addVM" /\ pc[x] = "addVM"
               /\ newVM[w] = newVM[x] /\ newVM[w] # FailedVM
               => w = x
        OBVIOUS
      <4>6. \A n \in Slaves : n \in Int
        OBVIOUS
      <4>7. nextVM' = nextVM + 1 /\ UNCHANGED id2TierMap
        BY <3>1
      <4> HIDE DEF TypeOK, WorkInv, BootInv, ServingInv, LockInv, MasterInv, StructInv
      <4>8. \A w \in VMs : pc'[w] = "addVM" /\ newVM'[w] # FailedVM
                             => newVM'[w] < nextVM' /\ id2TierMap'[newVM'[w]] = NoTier
        <5>1. ASSUME NEW w \in VMs, pc'[w] = "addVM", newVM'[w] # FailedVM, w # v
              PROVE  newVM'[w] < nextVM' /\ id2TierMap'[newVM'[w]] = NoTier
          <6>1. newVM'[w] = newVM[w] /\ pc[w] = "addVM"
            BY <4>3, <5>1
          <6>2. newVM[w] \in Int /\ newVM[w] < nextVM /\ id2TierMap[newVM[w]] = NoTier
            BY <4>4, <4>6, <5>1, <6>1
          <6> QED
            BY <3>6, <4>7, <6>1, <6>2
        <5>2. newVM'[v] < nextVM' /\ id2TierMap'[newVM'[v]] = NoTier
          BY <3>6, <4>1, <4>3, <4>7
        <5> QED
          BY <5>1, <5>2, Zenon
      <4>10. \A w, x \in VMs :
               /\ pc'[w] = "addVM" /\ pc'[x] = "addVM"
               /\ newVM'[w] = newVM'[x] /\ newVM'[w] # FailedVM
               => w = x
        BY <4>2, <4>3, <4>5
      <4> QED
        BY <4>8, <4>10
    <3>5. ServingInv' /\ LockInv' /\ MasterInv'
      BY <3>1
    <3> QED
      BY <3>3, <3>7, <3>4, <3>5, Zenon DEF StructInv
  <2>2. CASE AddVM2Map(v)
    <3>1. /\ pc[v] = "addVM"
          /\ pc' = [pc EXCEPT ![v] = "readInc"]
          /\ UNCHANGED <<status, nextVM, masterLock, todo, newVM, role>>
      BY <2>2, Zenon DEF AddVM2Map, cloudVars
    <3>2. CASE newVM[v] = FailedVM
      <4>1. UNCHANGED id2TierMap
        BY <2>2, <3>2, Zenon DEF AddVM2Map
      <4> QED
        BY <3>1, <4>1
    <3>3. CASE newVM[v] # FailedVM
      <4>1. newVM[v] \in Slaves /\ id2TierMap[newVM[v]] = NoTier /\ newVM[v] < nextVM
        BY <3>1, <3>3
      <4>2. id2TierMap' = [id2TierMap EXCEPT ![newVM[v]] = Head(todo[v])]
        BY <2>2, <3>3, <4>1, Zenon DEF AddVM2Map
      <4>3. WorkInv' /\ BootInv'
        BY <3>1, <4>1, <4>2
      <4>4. AddInv'
        <5>1. \A w \in VMs \ {v} : pc[w] = "addVM" => newVM[w] # newVM[v]
          BY <3>1, <3>3
        <5>2. \A w \in VMs : pc'[w] = "addVM" => w # v /\ pc[w] = "addVM"
          BY <3>1
        <5>3. \A n \in Slaves : n # newVM[v] => id2TierMap'[n] = id2TierMap[n]
          BY <4>2
        <5>4. \A w \in VMs : pc'[w] = "addVM" /\ newVM'[w] # FailedVM
                               => newVM'[w] < nextVM' /\ id2TierMap'[newVM'[w]] = NoTier
          <6>1. \A w \in VMs : pc[w] = "addVM" /\ newVM[w] # FailedVM
                                 => /\ newVM[w] \in Slaves
                                    /\ newVM[w] < nextVM
                                    /\ id2TierMap[newVM[w]] = NoTier
            OBVIOUS
          <6>2. UNCHANGED <<newVM, nextVM>>
            BY <3>1
          <6> HIDE DEF TypeOK, StructInv, WorkInv, BootInv, AddInv, ServingInv, LockInv, MasterInv
          <6> QED
            BY <5>1, <5>2, <5>3, <6>1, <6>2
        <5>5. \A w, x \in VMs :
                 /\ pc'[w] = "addVM" /\ pc'[x] = "addVM"
                 /\ newVM'[w] = newVM'[x] /\ newVM'[w] # FailedVM
                 => w = x
          BY <3>1, <5>2
        <5> QED
          BY <5>4, <5>5, Zenon
      <4>5. ServingInv'
        BY <3>1, <4>1, <4>2 DEF Tiers, NoTier, FRONT, MID
      <4>6. LockInv' /\ MasterInv'
        BY <3>1, <4>1, <4>2
      <4> QED
        BY <4>3, <4>4, <4>5, <4>6, Zenon DEF StructInv
    <3> QED
      BY <3>2, <3>3
  <2>3. CASE ReadIncrement(v)
    BY <2>3 DEF ReadIncrement, cloudVars
  <2>4. CASE WriteIncrement(v)
    <3>1. CASE Tail(todo[v]) = << >>
      <4>1. /\ pc[v] = "writeInc"
            /\ todo' = [todo EXCEPT ![v] = << >>]
            /\ pc' = [pc EXCEPT ![v] = "loop"]
            /\ newVM' = [newVM EXCEPT ![v] = NoVM]
            /\ UNCHANGED <<status, nextVM, id2TierMap, masterLock, role>>
        BY <2>4, <3>1, Zenon DEF WriteIncrement, cloudVars
      <4> QED
        BY <4>1
    <3>2. CASE Tail(todo[v]) # << >>
      <4>1. /\ pc[v] = "writeInc"
            /\ todo' = [todo EXCEPT ![v] = Tail(todo[v])]
            /\ pc' = [pc EXCEPT ![v] = "startVM"]
            /\ newVM' = [newVM EXCEPT ![v] = NoVM]
            /\ UNCHANGED <<status, nextVM, id2TierMap, masterLock, role>>
        BY <2>4, <3>2, Zenon DEF WriteIncrement, cloudVars
      <4> QED
        BY <3>2, <4>1
    <3> QED
      BY <3>1, <3>2
  <2> QED
    BY <1>4, <2>1, <2>2, <2>3, <2>4, Zenon DEF ScaleOutStep
<1>5. ASSUME NEW v \in VMs, FailedCall(v)
      PROVE  StructInv'
  <2>1. CASE StartVMFails(v)
    <3>1. /\ pc[v] = "startVM"
          /\ newVM' = [newVM EXCEPT ![v] = FailedVM]
          /\ pc' = [pc EXCEPT ![v] = "addVM"]
          /\ UNCHANGED <<status, nextVM, id2TierMap, masterLock, todo, role>>
      BY <2>1, Zenon DEF StartVMFails, cloudVars
    <3> QED
      BY <3>1
  <2>2. CASE ServerStops(v)
    <3>1. /\ pc[v] \in {"routine", "lookup", "loop", "decide", "delete"}
          /\ pc' = [pc EXCEPT ![v] = "stopped"]
          /\ UNCHANGED <<status, nextVM, id2TierMap, masterLock, todo, newVM, role>>
      BY <2>2 DEF ServerStops, cloudVars
    <3> QED
      BY <3>1
  <2>3. CASE DeleteVMFromMapFails(v)
    <3>1. /\ pc[v] = "delete"
          /\ pc' = [pc EXCEPT ![v] = "exit"]
          /\ UNCHANGED <<status, nextVM, id2TierMap, masterLock, todo, newVM, role>>
      BY <2>3, Zenon DEF DeleteVMFromMapFails, cloudVars
    <3> QED
      BY <3>1
  <2>4. CASE StartVMAnswerLost(v)
    <3>1. /\ pc[v] = "startVM"
          /\ newVM' = [newVM EXCEPT ![v] = FailedVM]
          /\ nextVM' = nextVM + 1
          /\ pc' = [pc EXCEPT ![v] = "addVM"]
          /\ UNCHANGED <<status, id2TierMap, masterLock, todo, role>>
      BY <2>4, Zenon DEF StartVMAnswerLost
    <3>2. newVM'[v] = FailedVM /\ \A w \in VMs \ {v} : newVM'[w] = newVM[w] /\ pc'[w] = pc[w]
      BY <3>1
    <3>3. nextVM \in Int /\ nextVM < nextVM'
      BY <3>1
    <3>4. WorkInv'
      BY <3>1, <3>2
    <3>5. BootInv'
      <4>1. \A w \in Slaves : w >= nextVM' => w >= nextVM
        BY ONLY <3>1, <3>3, VMFacts
      <4> QED
        BY <3>1, <4>1
    <3>6. AddInv'
      <4>1. \A w \in VMs : pc[w] = "addVM" /\ newVM[w] # FailedVM
                            => newVM[w] \in Slaves /\ newVM[w] < nextVM'
        <5>1. ASSUME NEW w \in VMs, pc[w] = "addVM", newVM[w] # FailedVM
              PROVE  newVM[w] \in Slaves /\ newVM[w] < nextVM
          BY <5>1
        <5>2. \A n \in Slaves : n < nextVM => n < nextVM'
          BY ONLY <3>1, <3>3, VMFacts
        <5> QED
          BY ONLY <5>1, <5>2
      <4>2. \A w \in VMs : pc[w] = "addVM" /\ newVM[w] # FailedVM
                            => id2TierMap'[newVM[w]] = NoTier
        BY <3>1
      <4>3. \A w \in VMs : pc'[w] = "addVM" /\ newVM'[w] # FailedVM
                            => w # v /\ pc[w] = "addVM" /\ newVM[w] # FailedVM
                                     /\ newVM'[w] = newVM[w]
        BY <3>2
      <4>4. \A u, w \in VMs :
                /\ pc[u] = "addVM" /\ pc[w] = "addVM"
                /\ newVM[u] = newVM[w] /\ newVM[u] # FailedVM
                => u = w
        OBVIOUS
      <4>5. /\ \A w \in VMs : pc'[w] = "addVM" /\ newVM'[w] # FailedVM
                              => newVM'[w] < nextVM' /\ id2TierMap'[newVM'[w]] = NoTier
            /\ \A u, w \in VMs :
                /\ pc'[u] = "addVM" /\ pc'[w] = "addVM"
                /\ newVM'[u] = newVM'[w] /\ newVM'[u] # FailedVM
                => u = w
        BY ONLY <4>1, <4>2, <4>3, <4>4
      <4> QED
        BY ONLY <4>5 DEF AddInv
    <3>7. ServingInv' /\ LockInv' /\ MasterInv'
      BY <3>1
    <3> QED
      BY <3>4, <3>5, <3>6, <3>7
  <2> QED
    BY <1>5, <2>1, <2>2, <2>3, <2>4, Zenon DEF FailedCall
<1>6. CASE UNCHANGED vars
  BY <1>6 DEF vars
<1> QED
  BY <1>1, <1>2, <1>3, <1>4, <1>5, <1>6, Zenon DEF Next
-----------------------------------------------------------------------------
(* The counted sets are finite sets of machines, the phantoms a number.    *)
LEMMA CountedSets ==
    ASSUME TypeOK, NEW t \in Tiers
    PROVE  /\ phantoms[t] \in Nat
           /\ IsFiniteSet(Incrementing(t)) /\ Cardinality(Incrementing(t)) \in Nat
           /\ IsFiniteSet(Decrementing(t)) /\ Cardinality(Decrementing(t)) \in Nat
           /\ IsFiniteSet(Members(t)) /\ Cardinality(Members(t)) \in Nat
<1>1. /\ Incrementing(t) \subseteq VMs
      /\ Decrementing(t) \subseteq VMs
      /\ Members(t) \subseteq VMs
  BY DEF Incrementing, Decrementing, Members
<1>2. IsFiniteSet(VMs)
  BY VMFacts
<1> QED
  BY <1>1, <1>2, FS_Subset, FS_CardinalityType DEF TypeOK, FailTypeOK

(* A step that leaves registry, counters and counted sets alone keeps the  *)
(* count exact.                                                            *)
LEMMA CountFrame ==
    ASSUME CountExactUnlessRaced,
           UNCHANGED <<id2TierMap, count, raced, phantoms>>,
           \A t \in Tiers : /\ Incrementing(t)' = Incrementing(t)
                            /\ Decrementing(t)' = Decrementing(t)
    PROVE  CountExactUnlessRaced'
<1>1. \A t \in Tiers : Members(t)' = Members(t)
  BY DEF Members
<1> QED
  BY <1>1 DEF CountExactUnlessRaced

\* The labels between which a thread has an update of a counter under way.
UpdatePC == {"readInc", "writeInc", "readDec", "writeDec"}

(* Outside those labels a thread's step does not disturb the count.        *)
LEMMA QuietStep ==
    ASSUME TypeOK, CountExactUnlessRaced, NEW v \in VMs,
           UNCHANGED <<id2TierMap, count, raced, phantoms>>,
           pc[v] \notin UpdatePC, pc'[v] \notin UpdatePC,
           \A w \in VMs \ {v} : pc'[w] = pc[w] /\ todo'[w] = todo[w]
    PROVE  CountExactUnlessRaced'
<1>1. ASSUME NEW t \in Tiers
      PROVE  Incrementing(t)' = Incrementing(t) /\ Decrementing(t)' = Decrementing(t)
  BY DEF UpdatePC, Incrementing, Decrementing
<1> QED
  BY <1>1, CountFrame

(* Reading the counter keeps the thread in the counted set it was in.      *)
LEMMA ReadStep ==
    ASSUME TypeOK, CountExactUnlessRaced, NEW v \in VMs,
           UNCHANGED <<id2TierMap, count, raced, todo, phantoms>>,
           \/ pc[v] = "readInc" /\ pc'[v] = "writeInc"
           \/ pc[v] = "readDec" /\ pc'[v] = "writeDec",
           \A w \in VMs \ {v} : pc'[w] = pc[w]
    PROVE  CountExactUnlessRaced'
<1>1. ASSUME NEW t \in Tiers
      PROVE  Incrementing(t)' = Incrementing(t) /\ Decrementing(t)' = Decrementing(t)
  BY DEF Incrementing, Decrementing
<1> QED
  BY <1>1, CountFrame

(* A new element adds one to the size of a finite set.                     *)
LEMMA CardAdd ==
    ASSUME NEW S, IsFiniteSet(S), NEW x, x \notin S
    PROVE  Cardinality(S \cup {x}) = Cardinality(S) + 1
BY FS_AddElement

(* Removing an element takes one from the size of a finite set.            *)
LEMMA CardRemove ==
    ASSUME NEW S, IsFiniteSet(S), NEW x, x \in S
    PROVE  Cardinality(S \ {x}) = Cardinality(S) - 1
BY FS_RemoveElement

-----------------------------------------------------------------------------
(* What the steps that change a counter or the registry do to the counts.  *)

(* masterHandler registers the master and counts it in one step.           *)
LEMMA CountMasterHandler ==
    ASSUME TypeOK, StructInv, CountExactUnlessRaced, MasterHandler
    PROVE  CountExactUnlessRaced'
<1>1. /\ pc[Master] = "init"
      /\ id2TierMap' = [id2TierMap EXCEPT ![Master] = FRONT]
      /\ count' = [count EXCEPT ![FRONT] = @ + 1]
      /\ todo' = [todo EXCEPT ![Master] = <<MID, FRONT>>]
      /\ pc' = [pc EXCEPT ![Master] = "startVM"]
      /\ UNCHANGED <<raced, phantoms>>
  BY Zenon DEF MasterHandler, CallScaleOut, Goto, failVars
<1>2. Master \in VMs /\ FRONT \in Tiers
  BY VMFacts DEF Tiers
<1>3. id2TierMap[Master] = NoTier
  BY <1>1 DEF StructInv, MasterInv
<1>4. \A t \in Tiers : Incrementing(t)' = Incrementing(t) /\ Decrementing(t)' = Decrementing(t)
  BY <1>1, <1>2 DEF TypeOK, Incrementing, Decrementing
<1>5. Members(FRONT)' = Members(FRONT) \cup {Master} /\ Master \notin Members(FRONT)
  BY <1>1, <1>2, <1>3 DEF TypeOK, Members, FRONT, NoTier
<1>6. \A t \in Tiers : t # FRONT => Members(t)' = Members(t) /\ count'[t] = count[t]
  BY <1>1, <1>2, <1>3 DEF TypeOK, Members, Tiers, FRONT, NoTier, MID
<1>7. Cardinality(Members(FRONT)') = Cardinality(Members(FRONT)) + 1
  BY <1>2, <1>5, CardAdd, CountedSets
<1>8. count'[FRONT] = count[FRONT] + 1 /\ count[FRONT] \in Int
  BY <1>1, <1>2 DEF TypeOK
<1>9. ASSUME NEW t \in Tiers, t \notin raced'
      PROVE  count'[t] + Cardinality(Incrementing(t)')
                 = Cardinality(Members(t)') + Cardinality(Decrementing(t)') + phantoms'[t]
  <2>1. count[t] + Cardinality(Incrementing(t))
            = Cardinality(Members(t)) + Cardinality(Decrementing(t)) + phantoms[t]
    BY <1>1, <1>9 DEF CountExactUnlessRaced
  <2>0. phantoms'[t] = phantoms[t]
    BY <1>1
  <2>2. CASE t = FRONT
    BY <1>2, <1>4, <1>7, <1>8, <2>0, <2>1, <2>2, CountedSets
  <2>3. CASE t # FRONT
    BY <1>4, <1>6, <2>0, <2>1, <2>3
  <2> QED
    BY <2>2, <2>3
<1> QED
  BY <1>9 DEF CountExactUnlessRaced

(* A new key and an increment under way appear together (lines 394-408).   *)
LEMMA CountAddVM2Map ==
    ASSUME TypeOK, StructInv, CountExactUnlessRaced, NEW v \in VMs, AddVM2Map(v),
           newVM[v] # FailedVM
    PROVE  CountExactUnlessRaced'
<1>1. pc[v] = "addVM"
  BY DEF AddVM2Map
<1>2. PICK n \in VMs, a \in Tiers :
         n = newVM[v] /\ id2TierMap[n] = NoTier /\ a = Head(todo[v])
  BY <1>1, VMFacts, TierList DEF TypeOK, StructInv, WorkInv, AddInv, ScaleOutPC
<1>3. /\ id2TierMap' = [id2TierMap EXCEPT ![n] = a]
      /\ pc' = [pc EXCEPT ![v] = "readInc"]
      /\ UNCHANGED <<count, raced, todo, phantoms>>
  BY <1>2, Zenon DEF AddVM2Map, Goto
<1>4. Incrementing(a)' = Incrementing(a) \cup {v} /\ v \notin Incrementing(a)
  BY <1>1, <1>2, <1>3 DEF TypeOK, Incrementing
<1>5. Members(a)' = Members(a) \cup {n} /\ n \notin Members(a)
  BY <1>2, <1>3 DEF TypeOK, Members, Tiers, FRONT, MID, NoTier
<1>6. \A t \in Tiers : Decrementing(t)' = Decrementing(t)
  BY <1>1, <1>3 DEF TypeOK, Decrementing
<1>7. \A t \in Tiers : t # a => Incrementing(t)' = Incrementing(t) /\ Members(t)' = Members(t)
  BY <1>1, <1>2, <1>3 DEF TypeOK, Incrementing, Members, Tiers, FRONT, MID, NoTier
<1>8. /\ Cardinality(Incrementing(a)') = Cardinality(Incrementing(a)) + 1
      /\ Cardinality(Members(a)') = Cardinality(Members(a)) + 1
  BY <1>2, <1>4, <1>5, CardAdd, CountedSets
<1>9. ASSUME NEW t \in Tiers, t \notin raced'
      PROVE  count'[t] + Cardinality(Incrementing(t)')
                 = Cardinality(Members(t)') + Cardinality(Decrementing(t)') + phantoms'[t]
  <2>1. count[t] + Cardinality(Incrementing(t))
            = Cardinality(Members(t)) + Cardinality(Decrementing(t)) + phantoms[t]
    BY <1>3, <1>9 DEF CountExactUnlessRaced
  <2>0. phantoms'[t] = phantoms[t]
    BY <1>3
  <2>2. count[t] \in Int /\ count'[t] = count[t]
    BY <1>3 DEF TypeOK
  <2>3. CASE t = a
    BY <1>6, <1>8, <2>0, <2>1, <2>2, <2>3, CountedSets
  <2>4. CASE t # a
    BY <1>6, <1>7, <2>0, <2>1, <2>2, <2>4
  <2> QED
    BY <2>3, <2>4
<1> QED
  BY <1>9 DEF CountExactUnlessRaced

(* A machine that startVM failed to start is counted all the same (lines   *)
(* 405-408): it is a phantom of the tier.                                  *)
LEMMA CountAddFailedVM ==
    ASSUME TypeOK, StructInv, CountExactUnlessRaced, NEW v \in VMs, AddVM2Map(v),
           newVM[v] = FailedVM
    PROVE  CountExactUnlessRaced'
<1>1. pc[v] = "addVM"
  BY DEF AddVM2Map
<1>2. PICK a \in Tiers : a = Head(todo[v])
  BY <1>1, TierList DEF TypeOK, StructInv, WorkInv, ScaleOutPC
<1>3. FailedVM \notin VMs
  BY MaxVMAssumption DEF VMs, FailedVM
<1>4. /\ phantoms' = [phantoms EXCEPT ![a] = @ + 1]
      /\ pc' = [pc EXCEPT ![v] = "readInc"]
      /\ UNCHANGED <<id2TierMap, count, raced, todo>>
  BY <1>2, Zenon DEF AddVM2Map, Goto
<1>5. Incrementing(a)' = Incrementing(a) \cup {v} /\ v \notin Incrementing(a)
  BY <1>1, <1>2, <1>4 DEF TypeOK, Incrementing
<1>6. \A t \in Tiers : Decrementing(t)' = Decrementing(t) /\ Members(t)' = Members(t)
  BY <1>1, <1>4 DEF TypeOK, Decrementing, Members
<1>7. \A t \in Tiers : t # a => Incrementing(t)' = Incrementing(t) /\ phantoms'[t] = phantoms[t]
  BY <1>1, <1>2, <1>4 DEF TypeOK, FailTypeOK, Incrementing
<1>8. /\ Cardinality(Incrementing(a)') = Cardinality(Incrementing(a)) + 1
      /\ phantoms'[a] = phantoms[a] + 1
  BY <1>2, <1>4, <1>5, CardAdd, CountedSets DEF TypeOK, FailTypeOK
<1>9. ASSUME NEW t \in Tiers, t \notin raced'
      PROVE  count'[t] + Cardinality(Incrementing(t)')
                 = Cardinality(Members(t)') + Cardinality(Decrementing(t)') + phantoms'[t]
  <2>1. count[t] + Cardinality(Incrementing(t))
            = Cardinality(Members(t)) + Cardinality(Decrementing(t)) + phantoms[t]
    BY <1>4, <1>9 DEF CountExactUnlessRaced
  <2>2. count[t] \in Int /\ count'[t] = count[t]
    BY <1>4 DEF TypeOK
  <2>3. CASE t = a
    BY <1>6, <1>8, <2>1, <2>2, <2>3, CountedSets
  <2>4. CASE t # a
    BY <1>6, <1>7, <2>1, <2>2, <2>4
  <2> QED
    BY <2>3, <2>4
<1> QED
  BY <1>9 DEF CountExactUnlessRaced

(* The ++ of an up-to-date register turns the increment under way into a   *)
(* counted server; an outdated one marks the tier as raced.                *)
LEMMA CountWriteIncrement ==
    ASSUME TypeOK, StructInv, CountExactUnlessRaced, NEW v \in VMs, WriteIncrement(v)
    PROVE  CountExactUnlessRaced'
<1>1. pc[v] = "writeInc"
  BY DEF WriteIncrement
<1>2. PICK a \in Tiers : a = Head(todo[v])
  BY <1>1, TierList DEF TypeOK, StructInv, WorkInv, ScaleOutPC
<1>2a. /\ count' = [count EXCEPT ![a] = reg[v] + 1]
      /\ raced' = raced \cup (IF reg[v] = count[a] THEN {} ELSE {a})
      /\ pc' = [pc EXCEPT ![v] = IF Tail(todo[v]) = << >> THEN "loop" ELSE "startVM"]
      /\ todo' = [todo EXCEPT ![v] = Tail(todo[v])]
      /\ UNCHANGED <<id2TierMap, phantoms>>
  BY <1>2, Zenon DEF WriteIncrement, NoteRace, Goto, failVars
<1>3. pc'[v] \notin UpdatePC /\ \A w \in VMs \ {v} : pc'[w] = pc[w] /\ todo'[w] = todo[w]
  BY <1>2a DEF TypeOK, UpdatePC
<1>4. Incrementing(a)' = Incrementing(a) \ {v} /\ v \in Incrementing(a)
  BY <1>1, <1>2, <1>3 DEF Incrementing, UpdatePC
<1>5. \A t \in Tiers : t # a => Incrementing(t)' = Incrementing(t) /\ count'[t] = count[t]
  BY <1>2a, <1>1, <1>2, <1>3 DEF TypeOK, Incrementing, UpdatePC
<1>6. \A t \in Tiers : Decrementing(t)' = Decrementing(t) /\ Members(t)' = Members(t)
  BY <1>2a, <1>1, <1>3 DEF Decrementing, Members, UpdatePC
<1>7. count'[a] = reg[v] + 1 /\ (a \notin raced' => reg[v] = count[a])
  BY <1>2a, <1>2 DEF TypeOK
<1>8. raced \subseteq raced'
  BY <1>2a
<1>9. Cardinality(Incrementing(a)') = Cardinality(Incrementing(a)) - 1
  BY <1>2, <1>4, CardRemove, CountedSets
<1>10. ASSUME NEW t \in Tiers, t \notin raced'
       PROVE  count'[t] + Cardinality(Incrementing(t)')
                  = Cardinality(Members(t)') + Cardinality(Decrementing(t)') + phantoms'[t]
  <2>1. count[t] + Cardinality(Incrementing(t))
            = Cardinality(Members(t)) + Cardinality(Decrementing(t)) + phantoms[t]
    BY <1>8, <1>10 DEF CountExactUnlessRaced
  <2>0. phantoms'[t] = phantoms[t]
    BY <1>2a
  <2>2. count[t] \in Int
    BY DEF TypeOK
  <2>3. CASE t = a
    BY <1>6, <1>7, <1>9, <1>10, <2>0, <2>1, <2>2, <2>3, CountedSets
  <2>4. CASE t # a
    BY <1>5, <1>6, <2>0, <2>1, <2>4
  <2> QED
    BY <2>3, <2>4
<1> QED
  BY <1>10 DEF CountExactUnlessRaced

(* The key goes and a decrement under way appears (lines 456-458).         *)
LEMMA CountDeleteVMFromMap ==
    ASSUME TypeOK, StructInv, CountExactUnlessRaced,
           NEW v \in Slaves, DeleteVMFromMap(v), id2TierMap[v] # NoTier
    PROVE  CountExactUnlessRaced'
<1>1. pc[v] = "delete" /\ v \in VMs
  BY VMFacts DEF DeleteVMFromMap
<1>2. PICK a \in Tiers : a = id2TierMap[v]
  BY <1>1 DEF TypeOK
<1>3. /\ id2TierMap' = [id2TierMap EXCEPT ![v] = NoTier]
      /\ todo' = [todo EXCEPT ![v] = <<a>>]
      /\ pc' = [pc EXCEPT ![v] = "readDec"]
      /\ UNCHANGED <<count, raced, phantoms>>
  BY <1>2, Zenon DEF DeleteVMFromMap, Goto, failVars
<1>4. /\ \A w \in VMs \ {v} : pc'[w] = pc[w] /\ todo'[w] = todo[w]
      /\ pc'[v] = "readDec" /\ Head(todo'[v]) = a
  BY <1>1, <1>3 DEF TypeOK
<1>5. Decrementing(a)' = Decrementing(a) \cup {v} /\ v \notin Decrementing(a)
  BY <1>1, <1>4 DEF Decrementing
<1>6. Members(a)' = Members(a) \ {v} /\ v \in Members(a)
  BY <1>1, <1>2, <1>3 DEF TypeOK, Members, Tiers, FRONT, MID, NoTier
<1>7. \A t \in Tiers : Incrementing(t)' = Incrementing(t)
  BY <1>1, <1>4 DEF Incrementing
<1>8. \A t \in Tiers : t # a => Decrementing(t)' = Decrementing(t)
  BY <1>1, <1>4 DEF Decrementing
<1>9. \A t \in Tiers : t # a => Members(t)' = Members(t)
  BY <1>1, <1>2, <1>3 DEF TypeOK, Members, Tiers, FRONT, MID, NoTier
<1>10. /\ Cardinality(Decrementing(a)') = Cardinality(Decrementing(a)) + 1
       /\ Cardinality(Members(a)') = Cardinality(Members(a)) - 1
  BY <1>5, <1>6, CardAdd, CardRemove, CountedSets
<1>11. ASSUME NEW t \in Tiers, t \notin raced'
       PROVE  count'[t] + Cardinality(Incrementing(t)')
                  = Cardinality(Members(t)') + Cardinality(Decrementing(t)') + phantoms'[t]
  <2>1. count[t] + Cardinality(Incrementing(t))
            = Cardinality(Members(t)) + Cardinality(Decrementing(t)) + phantoms[t]
    BY <1>3, <1>11 DEF CountExactUnlessRaced
  <2>0. phantoms'[t] = phantoms[t]
    BY <1>3
  <2>2. count[t] \in Int /\ count'[t] = count[t]
    BY <1>3 DEF TypeOK
  <2>3. CASE t = a
    BY <1>7, <1>10, <2>0, <2>1, <2>2, <2>3, CountedSets
  <2>4. CASE t # a
    BY <1>7, <1>8, <1>9, <2>0, <2>1, <2>2, <2>4
  <2> QED
    BY <2>3, <2>4
<1> QED
  BY <1>11 DEF CountExactUnlessRaced

(* The -- of an up-to-date register settles the decrement under way; an    *)
(* outdated one marks the tier as raced.                                   *)
LEMMA CountWriteDecrement ==
    ASSUME TypeOK, StructInv, CountExactUnlessRaced, NEW v \in Slaves, WriteDecrement(v)
    PROVE  CountExactUnlessRaced'
<1>1. pc[v] = "writeDec" /\ v \in VMs
  BY VMFacts DEF WriteDecrement
<1>2. PICK a \in Tiers : a = Head(todo[v])
  BY <1>1, TierList DEF TypeOK, StructInv, WorkInv
<1>3. /\ count' = [count EXCEPT ![a] = reg[v] - 1]
      /\ raced' = raced \cup (IF reg[v] = count[a] THEN {} ELSE {a})
      /\ pc' = [pc EXCEPT ![v] = "exit"]
      /\ todo' = [todo EXCEPT ![v] = << >>]
      /\ UNCHANGED <<id2TierMap, phantoms>>
  BY <1>2, Zenon DEF WriteDecrement, NoteRace, Goto, failVars
<1>4. pc'[v] \notin UpdatePC /\ \A w \in VMs \ {v} : pc'[w] = pc[w] /\ todo'[w] = todo[w]
  BY <1>1, <1>3 DEF TypeOK, UpdatePC
<1>5. Decrementing(a)' = Decrementing(a) \ {v} /\ v \in Decrementing(a)
  BY <1>1, <1>2, <1>4 DEF Decrementing, UpdatePC
<1>6. \A t \in Tiers : t # a => Decrementing(t)' = Decrementing(t) /\ count'[t] = count[t]
  BY <1>1, <1>2, <1>3, <1>4 DEF TypeOK, Decrementing, UpdatePC
<1>7. \A t \in Tiers : Incrementing(t)' = Incrementing(t) /\ Members(t)' = Members(t)
  BY <1>1, <1>3, <1>4 DEF Incrementing, Members, UpdatePC
<1>8. count'[a] = reg[v] - 1 /\ (a \notin raced' => reg[v] = count[a])
  BY <1>2, <1>3 DEF TypeOK
<1>9. raced \subseteq raced'
  BY <1>3
<1>10. Cardinality(Decrementing(a)') = Cardinality(Decrementing(a)) - 1
  BY <1>5, CardRemove, CountedSets
<1>11. ASSUME NEW t \in Tiers, t \notin raced'
       PROVE  count'[t] + Cardinality(Incrementing(t)')
                  = Cardinality(Members(t)') + Cardinality(Decrementing(t)') + phantoms'[t]
  <2>1. count[t] + Cardinality(Incrementing(t))
            = Cardinality(Members(t)) + Cardinality(Decrementing(t)) + phantoms[t]
    BY <1>9, <1>11 DEF CountExactUnlessRaced
  <2>0. phantoms'[t] = phantoms[t]
    BY <1>3
  <2>2. count[t] \in Int
    BY DEF TypeOK
  <2>3. CASE t = a
    BY <1>7, <1>8, <1>10, <1>11, <2>0, <2>1, <2>2, <2>3, CountedSets
  <2>4. CASE t # a
    BY <1>6, <1>7, <2>0, <2>1, <2>4
  <2> QED
    BY <2>3, <2>4
<1> QED
  BY <1>11 DEF CountExactUnlessRaced

-----------------------------------------------------------------------------
(* Every step keeps the counts exact on the tiers without a lost update.   *)
LEMMA CountStep ==
    ASSUME TypeOK, StructInv, CountExactUnlessRaced, [Next]_vars
    PROVE  CountExactUnlessRaced'
<1> USE VMFacts DEF Goto, UpdatePC, failVars
<1>1. CASE MasterStep
  <2>1. CASE MasterHandler
    BY <2>1, CountMasterHandler
  <2>2. CASE MasterRoutine \/ HandleBootingCheck \/ MasterMayAddFront \/ MasterLoopEnd
    <3>1. pc[Master] \notin UpdatePC
      BY <2>2 DEF MasterRoutine, HandleBootingCheck, MasterMayAddFront, MasterLoopEnd
    <3>2. UNCHANGED <<id2TierMap, count, raced, phantoms>>
      BY <2>2, Zenon DEF MasterRoutine, HandleBootingCheck, MasterMayAddFront, MasterLoopEnd
    <3>3. \E l \in {"booting", "routine", "loop", "startVM"} : pc' = [pc EXCEPT ![Master] = l]
      BY <2>2 DEF MasterRoutine, HandleBootingCheck, MasterMayAddFront, MasterLoopEnd,
                  CallScaleOut
    <3>4. todo' = todo \/ \E s : todo' = [todo EXCEPT ![Master] = s]
      BY <2>2, Zenon DEF MasterRoutine, HandleBootingCheck, MasterMayAddFront,
                         MasterLoopEnd, CallScaleOut
    <3>5. pc'[Master] \notin UpdatePC
      BY <3>3 DEF TypeOK
    <3>6. \A w \in VMs \ {Master} : pc'[w] = pc[w] /\ todo'[w] = todo[w]
      BY <3>3, <3>4 DEF TypeOK
    <3> QED
      BY <3>1, <3>2, <3>5, <3>6, QuietStep, Zenon
  <2> QED
    BY <1>1, <2>1, <2>2, Zenon DEF MasterStep
<1>2. ASSUME NEW v \in Slaves, BootVM(v) \/ RunVM(v)
      PROVE  CountExactUnlessRaced'
  <2>1. CASE BootVM(v)
    <3>1. UNCHANGED <<id2TierMap, count, raced, pc, todo, phantoms>>
      BY <2>1, Zenon DEF BootVM, threadVars
    <3>2. \A t \in Tiers : Incrementing(t)' = Incrementing(t) /\ Decrementing(t)' = Decrementing(t)
      BY <3>1 DEF Incrementing, Decrementing
    <3> QED
      BY <3>1, <3>2, CountFrame, Zenon
  <2>2. CASE RunVM(v)
    <3>1. /\ status[v] = "Booting"
          /\ pc' = [pc EXCEPT ![v] = "lookup"]
          /\ UNCHANGED <<id2TierMap, count, raced, todo, phantoms>>
      BY <2>2, Zenon DEF RunVM
    <3>2. pc[v] \notin UpdatePC
      BY <3>1 DEF StructInv, BootInv
    <3>3. pc'[v] \notin UpdatePC /\ \A w \in VMs \ {v} : pc'[w] = pc[w] /\ todo'[w] = todo[w]
      BY <3>1 DEF TypeOK
    <3> QED
      BY <3>1, <3>2, <3>3, QuietStep, Zenon
  <2> QED
    BY <1>2, <2>1, <2>2, Zenon
<1>3. ASSUME NEW v \in Slaves, SlaveStep(v)
      PROVE  CountExactUnlessRaced'
  <2> v \in VMs
    OBVIOUS
  <2>1. CASE \/ GetTier(v) \/ GetVMCount(v) \/ ScaleIn(v) \/ ScaleOut(v) \/ Serve(v)
             \/ Exit(v) \/ (DeleteVMFromMap(v) /\ id2TierMap[v] = NoTier)
    <3>1. pc[v] \in {"lookup", "loop", "decide", "exit", "delete"}
      BY <2>1 DEF GetTier, GetVMCount, ScaleIn, ScaleOut, Serve, Exit, DeleteVMFromMap
    <3>2. UNCHANGED <<id2TierMap, count, raced, phantoms>>
      BY <2>1, Zenon DEF GetTier, GetVMCount, ScaleIn, ScaleOut, Serve, Exit, DeleteVMFromMap
    <3>3. \E l \in {"unknown", "loop", "decide", "delete", "startVM", "gone", "exit"} :
             pc' = [pc EXCEPT ![v] = l]
      BY <2>1 DEF GetTier, GetVMCount, ScaleIn, ScaleOut, Serve, Exit, DeleteVMFromMap,
                  CallScaleOut
    <3>4. todo' = todo \/ \E s : todo' = [todo EXCEPT ![v] = s]
      BY <2>1, Zenon DEF GetTier, GetVMCount, ScaleIn, ScaleOut, Serve, Exit,
                         DeleteVMFromMap, CallScaleOut
    <3>5. pc[v] \notin UpdatePC /\ pc'[v] \notin UpdatePC
      BY <3>1, <3>3 DEF TypeOK
    <3>6. \A w \in VMs \ {v} : pc'[w] = pc[w] /\ todo'[w] = todo[w]
      BY <3>3, <3>4 DEF TypeOK
    <3> QED
      BY <3>2, <3>5, <3>6, QuietStep, Zenon
  <2>2. CASE DeleteVMFromMap(v) /\ id2TierMap[v] # NoTier
    BY <2>2, CountDeleteVMFromMap
  <2>3. CASE ReadDecrement(v)
    <3>1. /\ pc[v] = "readDec"
          /\ pc' = [pc EXCEPT ![v] = "writeDec"]
          /\ UNCHANGED <<id2TierMap, count, raced, todo, phantoms>>
      BY <2>3, Zenon DEF ReadDecrement
    <3>2. pc'[v] = "writeDec" /\ \A w \in VMs \ {v} : pc'[w] = pc[w]
      BY <3>1 DEF TypeOK
    <3> QED
      BY <3>1, <3>2, ReadStep, Zenon
  <2>4. CASE WriteDecrement(v)
    BY <2>4, CountWriteDecrement
  <2> QED
    BY <1>3, <2>1, <2>2, <2>3, <2>4, Zenon DEF SlaveStep
<1>4. ASSUME NEW v \in VMs, ScaleOutStep(v)
      PROVE  CountExactUnlessRaced'
  <2>1. CASE StartVM(v)
    <3>1. /\ pc[v] = "startVM"
          /\ pc' = [pc EXCEPT ![v] = "addVM"]
          /\ UNCHANGED <<id2TierMap, count, raced, todo, phantoms>>
      BY <2>1, Zenon DEF StartVM
    <3>2. /\ pc[v] \notin UpdatePC /\ pc'[v] \notin UpdatePC
          /\ \A w \in VMs \ {v} : pc'[w] = pc[w] /\ todo'[w] = todo[w]
      BY <3>1 DEF TypeOK
    <3> QED
      BY <3>1, <3>2, QuietStep, Zenon
  <2>2. CASE AddVM2Map(v)
    BY <2>2, CountAddVM2Map, CountAddFailedVM
  <2>3. CASE ReadIncrement(v)
    <3>1. /\ pc[v] = "readInc"
          /\ pc' = [pc EXCEPT ![v] = "writeInc"]
          /\ UNCHANGED <<id2TierMap, count, raced, todo, phantoms>>
      BY <2>3, Zenon DEF ReadIncrement
    <3>2. pc'[v] = "writeInc" /\ \A w \in VMs \ {v} : pc'[w] = pc[w]
      BY <3>1 DEF TypeOK
    <3> QED
      BY <3>1, <3>2, ReadStep, Zenon
  <2>4. CASE WriteIncrement(v)
    BY <2>4, CountWriteIncrement
  <2> QED
    BY <1>4, <2>1, <2>2, <2>3, <2>4, Zenon DEF ScaleOutStep
<1>5. ASSUME NEW v \in VMs, FailedCall(v)
      PROVE  CountExactUnlessRaced'
  <2>1. pc[v] \in {"startVM", "routine", "lookup", "loop", "decide", "delete"}
    BY <1>5 DEF FailedCall, StartVMFails, StartVMAnswerLost, ServerStops,
                     DeleteVMFromMapFails
  <2>2. UNCHANGED <<id2TierMap, count, raced, todo, phantoms>>
    BY <1>5, Zenon DEF FailedCall, StartVMFails, StartVMAnswerLost, ServerStops,
                     DeleteVMFromMapFails
  <2>3. \E l \in {"addVM", "stopped", "exit"} : pc' = [pc EXCEPT ![v] = l]
    BY <1>5 DEF FailedCall, StartVMFails, StartVMAnswerLost, ServerStops,
                     DeleteVMFromMapFails
  <2>4. /\ pc[v] \notin UpdatePC /\ pc'[v] \notin UpdatePC
        /\ \A w \in VMs \ {v} : pc'[w] = pc[w] /\ todo'[w] = todo[w]
    BY <2>1, <2>2, <2>3 DEF TypeOK
  <2> QED
    BY <2>2, <2>4, QuietStep, Zenon
<1>6. CASE UNCHANGED vars
  <2>1. UNCHANGED <<id2TierMap, count, raced, pc, todo, phantoms>>
    BY <1>6, Zenon DEF vars
  <2>2. \A t \in Tiers : Incrementing(t)' = Incrementing(t) /\ Decrementing(t)' = Decrementing(t)
    BY <2>1 DEF Incrementing, Decrementing
  <2> QED
    BY <2>1, <2>2, CountFrame, Zenon
<1> QED
  BY <1>1, <1>2, <1>3, <1>4, <1>5, <1>6, Zenon DEF Next

-----------------------------------------------------------------------------
(* The step of a thread that neither leaves nor starts a machine does not  *)
(* disturb who has left.                                                   *)
LEMMA LeftFrame ==
    ASSUME TypeOK, LeftInv, NEW v \in VMs, NEW l \in PC,
           pc[v] # "gone", l \notin LeftPC, l # "addVM",
           pc' = [pc EXCEPT ![v] = l],
           UNCHANGED <<id2TierMap, abandoned>>,
           newVM' = newVM \/ newVM' = [newVM EXCEPT ![v] = NoVM],
           \A w \in Slaves : status'[w] = "Ended" => status[w] = "Ended"
    PROVE  LeftInv'
<1>1. pc'[v] = l /\ \A w \in VMs \ {v} : pc'[w] = pc[w] /\ newVM'[w] = newVM[w]
  BY DEF TypeOK
<1>2. Slaves \subseteq VMs
  BY VMFacts
<1>3. \A w \in Slaves : status'[w] = "Ended" => pc'[w] = "gone"
  BY <1>1, <1>2 DEF LeftInv
<1>4. \A w \in Slaves \ abandoned' : pc'[w] \in LeftPC => id2TierMap'[w] = NoTier
  BY <1>1, <1>2 DEF LeftInv
<1>5. \A w \in VMs : pc'[w] = "addVM" /\ newVM'[w] # FailedVM => pc'[newVM'[w]] \notin LeftPC
  <2>1. ASSUME NEW w \in VMs, pc'[w] = "addVM", newVM'[w] # FailedVM
        PROVE  pc'[newVM'[w]] \notin LeftPC
    <3>1. w # v /\ pc[w] = "addVM" /\ newVM[w] # FailedVM /\ newVM'[w] = newVM[w]
      BY <1>1, <2>1
    <3>2. pc[newVM[w]] \notin LeftPC
      BY <3>1 DEF LeftInv
    <3>3. CASE newVM[w] = v
      BY <1>1, <3>1, <3>3
    <3>4. CASE newVM[w] # v
      <4>1. pc'[newVM[w]] = pc[newVM[w]]
        BY <3>4 DEF TypeOK
      <4> QED
        BY <3>1, <3>2, <4>1
    <3> QED
      BY <3>3, <3>4
  <2> QED
    BY <2>1
<1> QED
  BY <1>3, <1>4, <1>5, Zenon DEF LeftInv

\* A server on its way out takes a step to l: the map loses at most its own entry, and does
\* so unless the call to the master failed.
Leaves(v, l) ==
    /\ pc[v] \in DeletePC \cup {"exit"}
    /\ id2TierMap'[v] = NoTier \/ v \in abandoned'
    /\ pc' = [pc EXCEPT ![v] = l]
    /\ abandoned \subseteq abandoned' /\ newVM' = newVM
    /\ id2TierMap' = id2TierMap \/ id2TierMap' = [id2TierMap EXCEPT ![v] = NoTier]
    /\ \A w \in Slaves : status'[w] = "Ended" => status[w] = "Ended" \/ (w = v /\ l = "gone")

(* A machine whose thread is inside deleteVMFromMap, or past it, is not    *)
(* about to be registered: it was registered when it came there.           *)
LEMMA LeaveStep ==
    ASSUME TypeOK, StructInv, LeftInv, NEW v \in Slaves, NEW l \in LeftPC, Leaves(v, l)
    PROVE  LeftInv'
<1> USE DEF Leaves
<1>1. v \in VMs /\ Slaves \subseteq VMs
  BY VMFacts
<1>2. pc'[v] = l /\ \A w \in VMs \ {v} : pc'[w] = pc[w] /\ id2TierMap'[w] = id2TierMap[w]
  BY <1>1 DEF TypeOK
<1>3. \A w \in Slaves : status'[w] = "Ended" => pc'[w] = "gone"
  BY <1>1, <1>2 DEF LeftInv, DeletePC
<1>4. \A w \in Slaves \ abandoned' : pc'[w] \in LeftPC => id2TierMap'[w] = NoTier
  BY <1>1, <1>2 DEF LeftInv
<1>5. \A w \in VMs : pc'[w] = "addVM" /\ newVM'[w] # FailedVM => pc'[newVM'[w]] \notin LeftPC
  <2>1. ASSUME NEW w \in VMs, pc'[w] = "addVM", newVM'[w] # FailedVM
        PROVE  pc'[newVM'[w]] \notin LeftPC
    <3>1. pc[w] = "addVM" /\ newVM[w] # FailedVM
      BY <1>2, <2>1 DEF LeftPC
    <3>2. pc[newVM[w]] \notin LeftPC /\ newVM[w] \in Slaves /\ id2TierMap[newVM[w]] = NoTier
      BY <3>1 DEF LeftInv, StructInv, WorkInv, AddInv
    <3>3. newVM[w] # v
      <4>1. pc[v] = "delete" => id2TierMap[v] \in Tiers
        BY DEF StructInv, ServingInv, ServingPC
      <4>2. NoTier \notin Tiers
        BY DEF Tiers, FRONT, MID, NoTier
      <4> QED
        BY <3>2, <4>1, <4>2 DEF DeletePC, LeftPC
    <3> QED
      BY <1>1, <1>2, <3>2, <3>3
  <2> QED
    BY <2>1
<1> QED
  BY <1>3, <1>4, <1>5, Zenon DEF LeftInv

(* Every step keeps those who left unregistered.                           *)
LEMMA LeftStep ==
    ASSUME TypeOK, StructInv, LeftInv, [Next]_vars
    PROVE  LeftInv'
<1> USE VMFacts DEF Goto, PC, ScaleOutPC, DeletePC
<1>1. CASE MasterStep
  <2>1. CASE MasterHandler
    <3>1. /\ id2TierMap' = [id2TierMap EXCEPT ![Master] = FRONT]
          /\ pc' = [pc EXCEPT ![Master] = "startVM"]
          /\ UNCHANGED <<status, newVM, abandoned>>
      BY <2>1, Zenon DEF MasterHandler, CallScaleOut, cloudVars, failVars
    <3>2. \A w \in Slaves : pc'[w] = pc[w] /\ id2TierMap'[w] = id2TierMap[w]
      BY <3>1 DEF TypeOK
    <3>3. \A w \in VMs : pc'[w] = "addVM" => pc[w] = "addVM"
      BY <3>1 DEF TypeOK
    <3>4. \A w \in VMs : pc[w] = "addVM" /\ newVM[w] # FailedVM => newVM[w] \in Slaves
      BY DEF StructInv, WorkInv
    <3> QED
      BY <3>1, <3>2, <3>3, <3>4 DEF LeftInv
  <2>2. CASE MasterRoutine \/ HandleBootingCheck \/ MasterMayAddFront \/ MasterLoopEnd
    <3>1. pc[Master] # "gone"
      BY DEF StructInv, MasterInv
    <3>2. PICK l \in {"booting", "routine", "loop", "startVM"} : pc' = [pc EXCEPT ![Master] = l]
      BY <2>2 DEF MasterRoutine, HandleBootingCheck, MasterMayAddFront, MasterLoopEnd,
                  CallScaleOut
    <3>3. UNCHANGED <<status, id2TierMap, newVM, abandoned>>
      BY <2>2, Zenon DEF MasterRoutine, HandleBootingCheck, MasterMayAddFront, MasterLoopEnd,
                         cloudVars, failVars
    <3>4. l \in PC /\ l \notin LeftPC /\ l # "addVM"
      BY <3>2 DEF LeftPC
    <3> QED
      BY <3>1, <3>2, <3>3, <3>4, LeftFrame
  <2> QED
    BY <1>1, <2>1, <2>2, Zenon DEF MasterStep
<1>2. ASSUME NEW v \in Slaves, BootVM(v)
      PROVE  LeftInv'
  <2>1. status' = [status EXCEPT ![v] = "Booting"] /\ UNCHANGED <<id2TierMap, pc, newVM, abandoned>>
    BY <1>2, Zenon DEF BootVM, threadVars, failVars
  <2>2. \A w \in Slaves : status'[w] = "Ended" => status[w] = "Ended"
    BY <2>1 DEF TypeOK
  <2> QED
    BY <2>1, <2>2 DEF LeftInv
<1>3. ASSUME NEW v \in Slaves, RunVM(v)
      PROVE  LeftInv'
  <2>1. /\ status[v] = "Booting"
        /\ status' = [status EXCEPT ![v] = "Running"]
        /\ pc' = [pc EXCEPT ![v] = "lookup"]
        /\ UNCHANGED <<id2TierMap, newVM, abandoned>>
    BY <1>3, Zenon DEF RunVM, failVars
  <2>2. \A w \in Slaves : status'[w] = "Ended" => status[w] = "Ended"
    BY <2>1 DEF TypeOK
  <2>3. pc[v] # "gone" /\ "lookup" \in PC /\ "lookup" \notin LeftPC
    BY <2>1 DEF StructInv, BootInv, LeftPC
  <2> QED
    BY <2>1, <2>2, <2>3, LeftFrame
<1>4. ASSUME NEW v \in Slaves, SlaveStep(v)
      PROVE  LeftInv'
  <2>1. CASE GetTier(v) \/ GetVMCount(v) \/ ScaleIn(v) \/ ScaleOut(v) \/ Serve(v)
    <3>1. pc[v] \in {"lookup", "loop", "decide"}
      BY <2>1 DEF GetTier, GetVMCount, ScaleIn, ScaleOut, Serve
    <3>2. PICK l \in {"unknown", "loop", "decide", "delete", "startVM"} : pc' = [pc EXCEPT ![v] = l]
      BY <2>1 DEF GetTier, GetVMCount, ScaleIn, ScaleOut, Serve, CallScaleOut
    <3>3. UNCHANGED <<status, id2TierMap, newVM, abandoned>>
      BY <2>1, Zenon DEF GetTier, GetVMCount, ScaleIn, ScaleOut, Serve, cloudVars, failVars
    <3>4. l \in PC /\ l \notin LeftPC /\ l # "addVM" /\ pc[v] # "gone"
      BY <3>1, <3>2 DEF LeftPC
    <3> QED
      BY <3>2, <3>3, <3>4, LeftFrame
  <2>2. CASE DeleteVMFromMap(v) \/ ReadDecrement(v) \/ WriteDecrement(v) \/ Exit(v)
    <3>1. pc[v] \in DeletePC \cup {"exit"}
      BY <2>2 DEF DeleteVMFromMap, ReadDecrement, WriteDecrement, Exit
    <3>2. PICK l \in LeftPC :
             pc' = [pc EXCEPT ![v] = l] /\ (pc[v] = "exit" => l = "gone")
      BY <2>2 DEF DeleteVMFromMap, ReadDecrement, WriteDecrement, Exit, LeftPC
    <3>3. UNCHANGED <<newVM, abandoned>>
      BY <2>2, Zenon DEF DeleteVMFromMap, ReadDecrement, WriteDecrement, Exit, failVars
    <3>4. status' = status \/ (status' = [status EXCEPT ![v] = "Ended"] /\ pc[v] = "exit")
      BY <2>2, Zenon DEF DeleteVMFromMap, ReadDecrement, WriteDecrement, Exit, cloudVars
    <3>5. ASSUME NEW w \in Slaves, status'[w] = "Ended"
          PROVE  status[w] = "Ended" \/ (w = v /\ l = "gone")
      <4>1. CASE status' = status
        BY <3>5, <4>1
      <4>2. CASE status' = [status EXCEPT ![v] = "Ended"] /\ pc[v] = "exit"
        <5>1. w # v => status'[w] = status[w]
          BY <4>2 DEF TypeOK
        <5> QED
          BY <3>2, <3>5, <4>2, <5>1
      <4> QED
        BY <3>4, <4>1, <4>2
    <3>6. /\ id2TierMap' = id2TierMap \/ id2TierMap' = [id2TierMap EXCEPT ![v] = NoTier]
          /\ id2TierMap'[v] = NoTier \/ v \in abandoned'
      <4>1. CASE DeleteVMFromMap(v)
        BY <4>1 DEF DeleteVMFromMap, TypeOK
      <4>2. CASE ReadDecrement(v) \/ WriteDecrement(v) \/ Exit(v)
        <5>1. pc[v] \in LeftPC /\ UNCHANGED id2TierMap
          BY <4>2 DEF ReadDecrement, WriteDecrement, Exit, LeftPC
        <5> QED
          BY <3>3, <5>1 DEF LeftInv
      <4> QED
        BY <2>2, <4>1, <4>2, Zenon
    <3>7. abandoned \subseteq abandoned' /\ newVM' = newVM
      BY <3>3
    <3>8. Leaves(v, l)
      BY <3>1, <3>2, <3>5, <3>6, <3>7 DEF Leaves
    <3> QED
      BY <3>8, LeaveStep
  <2> QED
    BY <1>4, <2>1, <2>2, Zenon DEF SlaveStep
<1>5. ASSUME NEW v \in VMs, ScaleOutStep(v)
      PROVE  LeftInv'
  <2>1. CASE StartVM(v)
    <3>1. /\ pc[v] = "startVM" /\ nextVM <= MaxVM
          /\ newVM' = [newVM EXCEPT ![v] = nextVM]
          /\ pc' = [pc EXCEPT ![v] = "addVM"]
          /\ UNCHANGED <<status, id2TierMap, abandoned>>
      BY <2>1, Zenon DEF StartVM, failVars
    <3>2. nextVM \in Slaves /\ pc[nextVM] = "off"
      <4>1. nextVM \in Slaves /\ nextVM >= nextVM
        BY <3>1, MaxVMAssumption DEF TypeOK, Slaves
      <4> QED
        BY <4>1 DEF StructInv, BootInv
    <3>3. pc'[v] = "addVM" /\ newVM'[v] = nextVM
      BY <3>1 DEF TypeOK
    <3>4. \A w \in VMs \ {v} : pc'[w] = pc[w] /\ newVM'[w] = newVM[w]
      BY <3>1 DEF TypeOK
    <3>5. \A w \in VMs : pc[w] = "addVM" /\ newVM[w] # FailedVM
                         => newVM[w] \in Slaves /\ pc[newVM[w]] \notin LeftPC
      BY DEF LeftInv, StructInv, WorkInv
    <3>6. \A w \in VMs : pc'[w] = "addVM" /\ newVM'[w] # FailedVM => pc'[newVM'[w]] \notin LeftPC
      BY <3>1, <3>2, <3>3, <3>4, <3>5 DEF LeftPC
    <3>7. /\ \A w \in Slaves : status'[w] = "Ended" => pc'[w] = "gone"
          /\ \A w \in Slaves \ abandoned' : pc'[w] \in LeftPC => id2TierMap'[w] = NoTier
      BY <3>1, <3>3, <3>4 DEF LeftInv, LeftPC
    <3> QED
      BY <3>6, <3>7, Zenon DEF LeftInv
  <2>2. CASE AddVM2Map(v)
    <3>1. /\ pc[v] = "addVM"
          /\ pc' = [pc EXCEPT ![v] = "readInc"]
          /\ UNCHANGED <<status, newVM, abandoned>>
      BY <2>2, Zenon DEF AddVM2Map, cloudVars
    <3>2. \A w \in Slaves : pc[w] \in LeftPC => id2TierMap'[w] = id2TierMap[w]
      <4>1. CASE newVM[v] = FailedVM
        BY <2>2, <4>1, Zenon DEF AddVM2Map
      <4>2. CASE newVM[v] # FailedVM
        <5>1. pc[newVM[v]] \notin LeftPC
          BY <3>1, <4>2 DEF LeftInv
        <5>2. id2TierMap' = id2TierMap
              \/ id2TierMap' = [id2TierMap EXCEPT ![newVM[v]] = Head(todo[v])]
          BY <2>2, Zenon DEF AddVM2Map
        <5> QED
          BY <5>1, <5>2 DEF TypeOK
      <4> QED
        BY <4>1, <4>2
    <3>3. pc'[v] = "readInc" /\ \A w \in VMs \ {v} : pc'[w] = pc[w]
      BY <3>1 DEF TypeOK
    <3>4. \A w \in VMs : pc'[w] \in LeftPC <=> pc[w] \in LeftPC
      BY <3>1, <3>3 DEF LeftPC
    <3>5. /\ \A w \in Slaves : status'[w] = "Ended" => pc'[w] = "gone"
          /\ \A w \in Slaves \ abandoned' : pc'[w] \in LeftPC => id2TierMap'[w] = NoTier
      BY <3>1, <3>2, <3>3, <3>4 DEF LeftInv
    <3>6. \A w \in VMs : pc'[w] = "addVM" /\ newVM'[w] # FailedVM => pc'[newVM'[w]] \notin LeftPC
      <4>1. \A w \in VMs : pc[w] = "addVM" /\ newVM[w] # FailedVM
                           => newVM[w] \in VMs /\ pc[newVM[w]] \notin LeftPC
        BY DEF LeftInv, StructInv, WorkInv
      <4> QED
        BY <3>1, <3>3, <3>4, <4>1
    <3> QED
      BY <3>5, <3>6, Zenon DEF LeftInv
  <2>3. CASE ReadIncrement(v) \/ WriteIncrement(v)
    <3>1. pc[v] # "gone"
      BY <2>3 DEF ReadIncrement, WriteIncrement
    <3>2. PICK l \in {"writeInc", "loop", "startVM"} : pc' = [pc EXCEPT ![v] = l]
      BY <2>3 DEF ReadIncrement, WriteIncrement
    <3>3. /\ UNCHANGED <<status, id2TierMap, abandoned>>
          /\ newVM' = newVM \/ newVM' = [newVM EXCEPT ![v] = NoVM]
      BY <2>3, Zenon DEF ReadIncrement, WriteIncrement, cloudVars, failVars
    <3>4. l \in PC /\ l \notin LeftPC /\ l # "addVM"
      BY <3>2 DEF LeftPC
    <3> QED
      BY <3>1, <3>2, <3>3, <3>4, LeftFrame
  <2> QED
    BY <1>5, <2>1, <2>2, <2>3, Zenon DEF ScaleOutStep
<1>6. ASSUME NEW v \in VMs, FailedCall(v)
      PROVE  LeftInv'
  <2>1. CASE StartVMFails(v) \/ StartVMAnswerLost(v)
    <3>1. /\ pc[v] = "startVM"
          /\ newVM' = [newVM EXCEPT ![v] = FailedVM]
          /\ pc' = [pc EXCEPT ![v] = "addVM"]
          /\ UNCHANGED <<status, id2TierMap, abandoned>>
      BY <2>1, Zenon DEF StartVMFails, StartVMAnswerLost, cloudVars
    <3>2. newVM'[v] = FailedVM /\ pc'[v] = "addVM"
      BY <3>1 DEF TypeOK
    <3>3. \A w \in VMs \ {v} : pc'[w] = pc[w] /\ newVM'[w] = newVM[w]
      BY <3>1 DEF TypeOK
    <3>4. \A w \in VMs : pc'[w] \in LeftPC <=> pc[w] \in LeftPC
      BY <3>1, <3>2, <3>3 DEF LeftPC
    <3>5. \A w \in VMs : pc[w] = "addVM" /\ newVM[w] # FailedVM
                         => newVM[w] \in VMs /\ pc[newVM[w]] \notin LeftPC
      BY DEF LeftInv, StructInv, WorkInv
    <3>6. \A w \in VMs : pc'[w] = "addVM" /\ newVM'[w] # FailedVM => pc'[newVM'[w]] \notin LeftPC
      BY <3>2, <3>3, <3>4, <3>5
    <3>7. /\ \A w \in Slaves : status'[w] = "Ended" => pc'[w] = "gone"
          /\ \A w \in Slaves \ abandoned' : pc'[w] \in LeftPC => id2TierMap'[w] = NoTier
      BY <3>1, <3>2, <3>3, <3>4 DEF LeftInv
    <3> QED
      BY <3>6, <3>7, Zenon DEF LeftInv
  <2>2. CASE ServerStops(v)
    <3>1. pc[v] # "gone" /\ pc' = [pc EXCEPT ![v] = "stopped"]
      BY <2>2 DEF ServerStops
    <3>2. UNCHANGED <<status, id2TierMap, newVM, abandoned>>
      BY <2>2, Zenon DEF ServerStops, cloudVars
    <3>3. "stopped" \in PC /\ "stopped" \notin LeftPC
      BY DEF LeftPC
    <3> QED
      BY <3>1, <3>2, <3>3, LeftFrame
  <2>3. CASE DeleteVMFromMapFails(v)
    <3>1. /\ pc[v] = "delete" /\ pc' = [pc EXCEPT ![v] = "exit"]
          /\ abandoned' = abandoned \cup {v}
          /\ UNCHANGED <<status, id2TierMap, newVM>>
      BY <2>3, Zenon DEF DeleteVMFromMapFails, cloudVars
    <3>2. v \in Slaves
      BY <3>1 DEF StructInv, MasterInv
    <3>3. "exit" \in LeftPC /\ pc[v] \in DeletePC \cup {"exit"}
      BY <3>1 DEF LeftPC
    <3>4. v \in abandoned' /\ abandoned \subseteq abandoned'
      BY <3>1
    <3>5. Leaves(v, "exit")
      BY <3>1, <3>2, <3>3, <3>4 DEF Leaves, TypeOK
    <3> QED
      BY <3>2, <3>3, <3>5, LeaveStep
  <2> QED
    BY <1>6, <2>1, <2>2, <2>3, Zenon DEF FailedCall
<1>7. CASE UNCHANGED vars
  <2>1. UNCHANGED <<status, id2TierMap, pc, newVM, abandoned>>
    BY <1>7, Zenon DEF vars
  <2> QED
    BY <2>1 DEF LeftInv
<1> QED
  BY <1>1, <1>2, <1>3, <1>4, <1>5, <1>6, <1>7, Zenon DEF Next

-----------------------------------------------------------------------------
(* A step that hands out no id, registers no machine and tells none its    *)
(* tier leaves id 2 to a mid server.                                       *)
LEMMA SecondFrame ==
    ASSUME TypeOK, StructInv, SecondInv, NEW v \in VMs, NEW l \in PC,
           pc' = [pc EXCEPT ![v] = l], l # "addVM",
           v = Master => pc[v] \notin {"init", "startVM", "addVM"},
           UNCHANGED <<nextVM, id2TierMap, role, phantoms>>,
           todo' = todo \/ \E s : todo' = [todo EXCEPT ![v] = s],
           \A w \in VMs \ {v} : newVM'[w] = newVM[w]
    PROVE  SecondInv'
<1> USE VMFacts
<1>1. \A w \in VMs \ {v} : pc'[w] = pc[w] /\ todo'[w] = todo[w]
  BY DEF TypeOK
<1>2. pc'[v] # "addVM"
  BY DEF TypeOK
<1>3. nextVM = 2 => v # Master \/ phantoms[MID] # 0
  BY DEF SecondInv
<1> QED
  BY <1>1, <1>2, <1>3 DEF SecondInv

(* Every step leaves id 2 to a mid server.                                 *)
LEMMA SecondStep ==
    ASSUME TypeOK, StructInv, SecondInv, [Next]_vars
    PROVE  SecondInv'
<1> USE VMFacts DEF Goto, PC, ScaleOutPC, DeletePC
<1>0. 2 \in VMs /\ 2 \in Slaves /\ 2 # Master
  BY MaxVMAssumption DEF VMs, Slaves, Master
<1>1. CASE MasterHandler
  <2>1. /\ id2TierMap' = [id2TierMap EXCEPT ![Master] = FRONT]
        /\ todo' = [todo EXCEPT ![Master] = <<MID, FRONT>>]
        /\ pc' = [pc EXCEPT ![Master] = "startVM"]
        /\ UNCHANGED <<nextVM, newVM, role, phantoms>>
    BY <1>1, Zenon DEF MasterHandler, CallScaleOut, cloudVars, failVars
  <2>2. id2TierMap'[2] = id2TierMap[2]
    BY <1>0, <2>1 DEF TypeOK
  <2>3. pc'[Master] = "startVM" /\ Head(todo'[Master]) = MID
    BY <2>1 DEF TypeOK
  <2>4. \A w \in VMs \ {Master} : pc'[w] = pc[w] /\ todo'[w] = todo[w]
    BY <2>1 DEF TypeOK
  <2> QED
    BY <2>1, <2>2, <2>3, <2>4 DEF SecondInv
<1>2. CASE MasterRoutine \/ HandleBootingCheck \/ MasterMayAddFront \/ MasterLoopEnd
  <2>1. pc[Master] \in {"loop", "booting", "routine"}
    BY <1>2 DEF MasterRoutine, HandleBootingCheck, MasterMayAddFront, MasterLoopEnd
  <2>2. PICK l \in {"booting", "routine", "loop", "startVM"} : pc' = [pc EXCEPT ![Master] = l]
    BY <1>2 DEF MasterRoutine, HandleBootingCheck, MasterMayAddFront, MasterLoopEnd,
                CallScaleOut
  <2>3. UNCHANGED <<nextVM, id2TierMap, role, phantoms, newVM>>
    BY <1>2, Zenon DEF MasterRoutine, HandleBootingCheck, MasterMayAddFront, MasterLoopEnd,
                       cloudVars, failVars
  <2>4. todo' = todo \/ \E s : todo' = [todo EXCEPT ![Master] = s]
    BY <1>2, Zenon DEF MasterRoutine, HandleBootingCheck, MasterMayAddFront,
                       MasterLoopEnd, CallScaleOut
  <2>5. l \in PC /\ l # "addVM"
    BY <2>2
  <2> QED
    BY <2>1, <2>2, <2>3, <2>4, <2>5, SecondFrame
<1>3. ASSUME NEW v \in Slaves, BootVM(v)
      PROVE  SecondInv'
  <2>1. UNCHANGED <<nextVM, id2TierMap, role, phantoms, pc, todo, newVM>>
    BY <1>3, Zenon DEF BootVM, threadVars, failVars
  <2> QED
    BY <2>1 DEF SecondInv
<1>4. ASSUME NEW v \in Slaves, RunVM(v)
      PROVE  SecondInv'
  <2>1. /\ pc' = [pc EXCEPT ![v] = "lookup"]
        /\ UNCHANGED <<nextVM, id2TierMap, role, phantoms, todo, newVM>>
    BY <1>4, Zenon DEF RunVM, failVars
  <2> QED
    BY <2>1, SecondFrame
<1>5. ASSUME NEW v \in Slaves, GetTier(v)
      PROVE  SecondInv'
  <2>1. /\ role' = [role EXCEPT ![v] = id2TierMap[v]]
        /\ UNCHANGED <<nextVM, id2TierMap, phantoms, todo, newVM>>
    BY <1>5, Zenon DEF GetTier, cloudVars, failVars
  <2>2. PICK l \in {"unknown", "loop"} : pc' = [pc EXCEPT ![v] = l]
    BY <1>5 DEF GetTier
  <2>3. role'[2] \in {role[2], id2TierMap[2]}
    BY <1>0, <2>1 DEF TypeOK
  <2>4. \A w \in VMs : pc'[w] = "addVM" => pc[w] = "addVM"
    BY <2>2 DEF TypeOK
  <2>5. pc'[Master] = pc[Master]
    BY <2>2 DEF TypeOK
  <2> QED
    BY <2>1, <2>3, <2>4, <2>5 DEF SecondInv
<1>6. ASSUME NEW v \in Slaves,
             \/ GetVMCount(v) \/ ScaleIn(v) \/ ScaleOut(v) \/ Serve(v)
             \/ ReadDecrement(v) \/ WriteDecrement(v) \/ Exit(v)
      PROVE  SecondInv'
  <2>1. PICK l \in {"loop", "decide", "delete", "startVM", "writeDec", "exit", "gone"} :
           pc' = [pc EXCEPT ![v] = l]
    BY <1>6 DEF GetVMCount, ScaleIn, ScaleOut, Serve, ReadDecrement, WriteDecrement, Exit,
                CallScaleOut
  <2>2. UNCHANGED <<nextVM, id2TierMap, role, phantoms, newVM>>
    BY <1>6, Zenon DEF GetVMCount, ScaleIn, ScaleOut, Serve, ReadDecrement, WriteDecrement,
                       Exit, cloudVars, failVars
  <2>3. todo' = todo \/ \E s : todo' = [todo EXCEPT ![v] = s]
    BY <1>6, Zenon DEF GetVMCount, ScaleIn, ScaleOut, Serve, ReadDecrement, WriteDecrement,
                       Exit, CallScaleOut
  <2>4. l \in PC /\ l # "addVM"
    BY <2>1
  <2> QED
    BY <2>1, <2>2, <2>3, <2>4, SecondFrame
<1>7. ASSUME NEW v \in Slaves, DeleteVMFromMap(v)
      PROVE  SecondInv'
  <2>1. PICK l \in {"readDec", "exit"} : pc' = [pc EXCEPT ![v] = l]
    BY <1>7 DEF DeleteVMFromMap
  <2>2. UNCHANGED <<nextVM, role, phantoms, newVM>>
    BY <1>7, Zenon DEF DeleteVMFromMap, cloudVars, failVars
  <2>3. todo' = todo \/ \E s : todo' = [todo EXCEPT ![v] = s]
    BY <1>7, Zenon DEF DeleteVMFromMap
  <2>4. id2TierMap' = id2TierMap \/ id2TierMap' = [id2TierMap EXCEPT ![v] = NoTier]
    BY <1>7, Zenon DEF DeleteVMFromMap
  <2>5. id2TierMap'[2] = id2TierMap[2] \/ id2TierMap'[2] = NoTier
    BY <1>0, <2>4 DEF TypeOK
  <2>6. /\ \A w \in VMs : pc'[w] = "addVM" => pc[w] = "addVM" /\ todo'[w] = todo[w]
        /\ pc'[Master] = pc[Master] /\ todo'[Master] = todo[Master]
    BY <2>1, <2>3 DEF TypeOK
  <2>7. NoTier # FRONT
    BY DEF NoTier, FRONT
  <2> QED
    BY <2>2, <2>5, <2>6, <2>7 DEF SecondInv
<1>8. ASSUME NEW v \in VMs, StartVM(v)
      PROVE  SecondInv'
  <2>1. /\ pc[v] = "startVM" /\ nextVM <= MaxVM
        /\ newVM' = [newVM EXCEPT ![v] = nextVM]
        /\ nextVM' = nextVM + 1
        /\ pc' = [pc EXCEPT ![v] = "addVM"]
        /\ UNCHANGED <<id2TierMap, role, phantoms, todo>>
    BY <1>8, Zenon DEF StartVM, failVars
  <2>2. nextVM' # 2 /\ newVM'[v] = nextVM
    BY <2>1, MaxVMAssumption DEF TypeOK
  <2>3. nextVM = 2 => v = Master
    <3>1. ASSUME nextVM = 2, v \in Slaves
          PROVE  FALSE
      <4>1. v >= nextVM
        BY <3>1 DEF Slaves
      <4> QED
        BY <2>1, <3>1, <4>1 DEF StructInv, BootInv
    <3> QED
      BY <3>1
  <2>4. phantoms[MID] = 0 /\ nextVM = 2 => Head(todo[v]) = MID
    BY <2>1, <2>3 DEF SecondInv
  <2>5. \A w \in VMs \ {v} : pc'[w] = pc[w] /\ newVM'[w] = newVM[w]
    BY <2>1 DEF TypeOK
  <2> QED
    BY <2>1, <2>2, <2>4, <2>5 DEF SecondInv
<1>9. ASSUME NEW v \in VMs, AddVM2Map(v)
      PROVE  SecondInv'
  <2>1. /\ pc[v] = "addVM"
        /\ pc' = [pc EXCEPT ![v] = "readInc"]
        /\ UNCHANGED <<nextVM, role, todo, newVM>>
    BY <1>9, Zenon DEF AddVM2Map, cloudVars
  <2>2. \A w \in VMs : pc'[w] = "addVM" => pc[w] = "addVM"
    BY <2>1 DEF TypeOK
  <2>3. v # Master => pc'[Master] = pc[Master]
    BY <2>1 DEF TypeOK
  <2>4. CASE newVM[v] = FailedVM
    <3>1. /\ phantoms' = [phantoms EXCEPT ![Head(todo[v])] = @ + 1]
          /\ UNCHANGED id2TierMap
      BY <1>9, <2>4, Zenon DEF AddVM2Map
    <3>2. phantoms \in [Tiers -> Nat] /\ MID \in Tiers
      BY DEF TypeOK, FailTypeOK, Tiers
    <3>3. phantoms'[MID] = 0 => phantoms[MID] = 0 /\ Head(todo[v]) # MID
      BY <3>1, <3>2
    <3> QED
      BY <2>1, <2>2, <2>3, <3>1, <3>3 DEF SecondInv
  <2>5. CASE newVM[v] # FailedVM
    <3>1. newVM[v] \in Slaves /\ newVM[v] < nextVM
      BY <2>1, <2>5 DEF StructInv, WorkInv, AddInv
    <3>2. /\ UNCHANGED phantoms
          /\ id2TierMap' = id2TierMap
             \/ id2TierMap' = [id2TierMap EXCEPT ![newVM[v]] = Head(todo[v])]
      BY <1>9, <2>5, Zenon DEF AddVM2Map
    <3>3. id2TierMap'[2] = id2TierMap[2] \/ (newVM[v] = 2 /\ id2TierMap'[2] = Head(todo[v]))
      BY <1>0, <3>1, <3>2 DEF TypeOK
    <3>4. nextVM # 2
      BY <3>1 DEF Slaves, TypeOK
    <3>5. MID # FRONT
      BY DEF MID, FRONT
    <3> QED
      BY <2>1, <2>2, <3>2, <3>3, <3>4, <3>5 DEF SecondInv
  <2> QED
    BY <2>4, <2>5
<1>10. ASSUME NEW v \in VMs, ReadIncrement(v) \/ WriteIncrement(v)
       PROVE  SecondInv'
  <2>1. pc[v] \in {"readInc", "writeInc"}
    BY <1>10 DEF ReadIncrement, WriteIncrement
  <2>2. PICK l \in {"writeInc", "loop", "startVM"} : pc' = [pc EXCEPT ![v] = l]
    BY <1>10 DEF ReadIncrement, WriteIncrement
  <2>3. /\ UNCHANGED <<nextVM, id2TierMap, role, phantoms>>
        /\ newVM' = newVM \/ newVM' = [newVM EXCEPT ![v] = NoVM]
        /\ todo' = todo \/ \E s : todo' = [todo EXCEPT ![v] = s]
    BY <1>10, Zenon DEF ReadIncrement, WriteIncrement, cloudVars, failVars
  <2>4. \A w \in VMs \ {v} : newVM'[w] = newVM[w]
    BY <2>3 DEF TypeOK
  <2>5. l \in PC /\ l # "addVM"
    BY <2>2
  <2> QED
    BY <2>1, <2>2, <2>3, <2>4, <2>5, SecondFrame
<1>11. ASSUME NEW v \in VMs, StartVMFails(v) \/ StartVMAnswerLost(v)
       PROVE  SecondInv'
  <2>1. /\ pc[v] = "startVM"
        /\ newVM' = [newVM EXCEPT ![v] = FailedVM]
        /\ pc' = [pc EXCEPT ![v] = "addVM"]
        /\ UNCHANGED <<id2TierMap, role, phantoms, todo>>
        /\ nextVM' = nextVM \/ nextVM' = nextVM + 1
    BY <1>11, Zenon DEF StartVMFails, StartVMAnswerLost, cloudVars
  <2>4. nextVM' = 2 => nextVM = 2
    BY <2>1 DEF TypeOK
  <2>2. pc'[v] = "addVM" /\ newVM'[v] # 2
    BY <2>1 DEF TypeOK, FailedVM
  <2>3. \A w \in VMs \ {v} : pc'[w] = pc[w] /\ newVM'[w] = newVM[w]
    BY <2>1 DEF TypeOK
  <2> QED
    BY <2>1, <2>2, <2>3, <2>4 DEF SecondInv
<1>12. ASSUME NEW v \in VMs, ServerStops(v) \/ DeleteVMFromMapFails(v)
       PROVE  SecondInv'
  <2>1. pc[v] \in {"routine", "lookup", "loop", "decide", "delete"}
    BY <1>12 DEF ServerStops, DeleteVMFromMapFails
  <2>2. PICK l \in {"stopped", "exit"} : pc' = [pc EXCEPT ![v] = l]
    BY <1>12 DEF ServerStops, DeleteVMFromMapFails
  <2>3. UNCHANGED <<nextVM, id2TierMap, role, phantoms, todo, newVM>>
    BY <1>12, Zenon DEF ServerStops, DeleteVMFromMapFails, cloudVars
  <2>4. l \in PC /\ l # "addVM"
    BY <2>2
  <2> QED
    BY <2>1, <2>2, <2>3, <2>4, SecondFrame
<1>13. CASE UNCHANGED vars
  <2>1. UNCHANGED <<nextVM, id2TierMap, role, phantoms, pc, todo, newVM>>
    BY <1>13, Zenon DEF vars
  <2> QED
    BY <2>1 DEF SecondInv
<1> QED
  BY <1>1, <1>2, <1>3, <1>4, <1>5, <1>6, <1>7, <1>8, <1>9, <1>10, <1>11, <1>12, <1>13, Zenon
     DEF Next, MasterStep, SlaveStep, ScaleOutStep, FailedCall

-----------------------------------------------------------------------------
(* The invariant holds initially.                                          *)
LEMMA InitIInv == Init => IInv
<1> SUFFICES ASSUME Init PROVE IInv
  OBVIOUS
<1>1. TypeOK
  <2>1. << >> \in Seq(Tiers)
    OBVIOUS
  <2> QED
    <3>1. /\ status \in [VMs -> Status]
          /\ pc \in [VMs -> PC]
          /\ todo \in [VMs -> Seq(Tiers)]
      BY <2>1 DEF Init, Status, PC
    <3>2. /\ id2TierMap \in [VMs -> Tiers \cup {NoTier}]
          /\ role \in [VMs -> Tiers \cup {NoTier}]
          /\ newVM \in [VMs -> Slaves \cup {NoVM, FailedVM}]
      BY DEF Init
    <3>3. /\ count \in [Tiers -> Int]
          /\ reg \in [VMs -> Int]
          /\ nextVM \in 2 .. MaxVM + 1
      BY MaxVMAssumption DEF Init
    <3>4. masterLock \in VMs \cup {NoVM} /\ checked \in BOOLEAN /\ raced \subseteq Tiers
      BY DEF Init
    <3>5. FailTypeOK
      BY MaxFailuresAssumption DEF Init, FailTypeOK
    <3> QED
      BY <3>1, <3>2, <3>3, <3>4, <3>5 DEF TypeOK
<1>2. StructInv
  BY VMFacts DEF Init, StructInv, WorkInv, BootInv, AddInv, ServingInv, LockInv,
                 MasterInv, ServingPC, ScaleOutPC, DeletePC, Slaves, Master
<1>3. CountExactUnlessRaced
  <2>1. \A t \in Tiers : Incrementing(t) = {} /\ Decrementing(t) = {} /\ Members(t) = {}
    BY DEF Init, Incrementing, Decrementing, Members, Tiers, FRONT, MID, NoTier
  <2>2. \A t \in Tiers : count[t] = 0 /\ phantoms[t] = 0
    BY DEF Init
  <2> QED
    BY <2>1, <2>2, FS_EmptySet DEF CountExactUnlessRaced
<1>4. LeftInv
  BY VMFacts DEF Init, LeftInv, LeftPC, Slaves, Master
<1>5. SecondInv
  BY VMFacts, MaxVMAssumption DEF Init, SecondInv, VMs, Master, FRONT, NoTier
<1> QED
  BY <1>1, <1>2, <1>3, <1>4, <1>5 DEF IInv

(* Every behaviour of the registry satisfies the inductive invariant.      *)
THEOREM InductiveInvariant == Spec => []IInv
<1>1. IInv /\ [Next]_vars => IInv'
  BY TypeStep, StructStep, CountStep, LeftStep, SecondStep, Zenon DEF IInv
<1> QED
  BY InitIInv, <1>1, PTL DEF Spec

(* Type correctness of the registry and of every thread's locals.          *)
THEOREM TypeCorrect == Spec => []TypeOK
BY InductiveInvariant, PTL DEF IInv

(* frontCount and midCount (lines 23-24) drift from id2TierMap by lost     *)
(* updates and failed starts only, however many machines are started.      *)
THEOREM CountsExactUnlessRaced == Spec => []CountExactUnlessRaced
BY InductiveInvariant, PTL DEF IInv

(* A slave stays registered under its tier until its own deleteVMFromMap.  *)
THEOREM ServingRegistered == Spec => []ServingIsRegistered
<1>1. IInv => ServingIsRegistered
  BY DEF IInv, StructInv, ServingInv, ServingIsRegistered
<1> QED
  BY InductiveInvariant, <1>1, PTL

(* A machine that ended is out of id2TierMap unless its own                *)
(* deleteVMFromMap failed (lines 375-386).                                 *)
THEOREM EndedUnregistered == Spec => []EndedIsUnregistered
<1>1. IInv => EndedIsUnregistered
  BY DEF IInv, LeftInv, LeftPC, EndedIsUnregistered
<1> QED
  BY InductiveInvariant, <1>1, PTL

(* Machine 2, whose status masterRoutine asks for (line 196), is no front  *)
(* server, unless the start of a mid server failed.                        *)
THEOREM SecondIsMid == Spec => []SecondVMIsMid
<1>1. IInv => SecondVMIsMid
  BY DEF IInv, SecondInv, SecondVMIsMid
<1> QED
  BY InductiveInvariant, <1>1, PTL

(* The monitor of deleteVMFromMap (line 455) keeps departures apart.       *)
THEOREM DecrementsAreExclusive == Spec => []DecrementsExclusive
<1>1. IInv => DecrementsExclusive
  BY DEF IInv, StructInv, LockInv, DecrementsExclusive
<1> QED
  BY InductiveInvariant, <1>1, PTL
=============================================================================
