------------------------------ MODULE Cluster ------------------------------
(***************************************************************************)
(* The tier registry of the master (Server.java) and the life cycle of the *)
(* virtual machines it starts: the map id2TierMap, the two plain int       *)
(* counters frontCount and midCount, and every process that reads or       *)
(* changes them.                                                           *)
(*                                                                         *)
(* A virtual machine runs one main thread, and while it calls the master   *)
(* by RMI one thread of the master works for it; the caller is blocked     *)
(* meanwhile, so one pc per machine describes both.  The counters are      *)
(* changed by ++ and -- on static ints: a read step and a write step.      *)
(* scaleOutCore holds no lock; deleteVMFromMap holds the monitor of the    *)
(* master's Server object (masterLock); addVM2Map holds the class monitor  *)
(* around one put and is one step.                                         *)
(*                                                                         *)
(* Request queues and clocks are abstracted: whether a server is idle, a   *)
(* queue long or short, is chosen freely.                                  *)
(*                                                                         *)
(* Calls may fail: startVM then answers -1, whether or not the cloud has   *)
(* carried it out, an exception ends the loop of a server whose process    *)
(* stays up, and a server that leaves exits without having been taken from *)
(* the map.  Where the next step is a call that may fail as well, an answer *)
(* that is lost is the call followed by the failure of the next one.       *)
(***************************************************************************)
EXTENDS Integers, Sequences, FiniteSets, FiniteSetsExt

CONSTANTS
    MaxVM,          \* bound: the highest VM id the cloud may hand out
    MaxFailures,    \* bound: calls to the cloud or the master that fail
    Burst,          \* the servers handleBooting starts in a row (lines 265-269)
    BootOutlasts    \* TRUE: a VM boots (5 s) longer than its starter needs
                    \* to finish scaleOutCore; FALSE: no timing is assumed

ASSUME MaxVMAssumption == MaxVM \in Nat /\ MaxVM >= 3
ASSUME MaxFailuresAssumption == MaxFailures \in Nat

FRONT  == 0
MID    == 1
NoTier == -1        \* getTier's answer for an id that is not in the map
Tiers  == {FRONT, MID}

ASSUME BurstAssumption == Burst \in Seq(Tiers) /\ Burst # << >>
ASSUME BootAssumption  == BootOutlasts \in BOOLEAN

Master == 1
VMs    == 1 .. MaxVM
Slaves == 2 .. MaxVM
NoVM   == 0         \* also the cloud's database placeholder, never a Server
FailedVM == -1      \* startVM's answer if the call fails

VARIABLES
    status,     \* the cloud's VMStatus of each machine
    nextVM,     \* the id the cloud gives the next machine
    id2TierMap, \* tier of each registered machine, NoTier if the key is absent
    count,      \* frontCount and midCount
    masterLock, \* holder of the master object's monitor, or NoVM
    checked,    \* handleBooting has made its one rate check (masterStartTime)
    pc,         \* where each machine's thread is
    todo,       \* tiers the thread still has to start or, leaving, its own
    newVM,      \* scaleOutCore's local vmId
    reg,        \* the counter value the thread has read
    role,       \* the tier a slave learned from getTier
    raced,      \* history: tiers whose counter lost an update to another one
    failures,   \* history: calls that failed,
    phantoms,   \* ... how often a tier has counted a machine as -1,
    abandoned,  \* ... machines that left without being unregistered
    orphans     \* ... and machines whose own startVM answered -1

cloudVars  == <<status, nextVM>>
threadVars == <<pc, todo, newVM, reg, role>>
failVars   == <<failures, phantoms, abandoned, orphans>>
vars == <<status, nextVM, id2TierMap, count, masterLock, checked,
          pc, todo, newVM, reg, role, raced, failures, phantoms, abandoned, orphans>>

Status == {"NonExistent", "Booting", "Running", "Ended"}
ScaleOutPC == {"startVM", "addVM", "readInc", "writeInc"}
DeletePC   == {"delete", "readDec", "writeDec"}
PC == {"off", "init", "lookup", "unknown", "stopped", "loop", "booting", "routine",
       "decide", "exit", "gone"} \cup ScaleOutPC \cup DeletePC

\* The count of keys of the map that hold the tier.
Members(t) == {v \in VMs : id2TierMap[v] = t}

Init ==
    /\ status     = [v \in VMs |-> IF v = Master THEN "Running" ELSE "NonExistent"]
    /\ nextVM     = 2
    /\ id2TierMap = [v \in VMs |-> NoTier]
    /\ count      = [t \in Tiers |-> 0]
    /\ masterLock = NoVM
    /\ checked    = FALSE
    /\ pc         = [v \in VMs |-> IF v = Master THEN "init" ELSE "off"]
    /\ todo       = [v \in VMs |-> << >>]
    /\ newVM      = [v \in VMs |-> NoVM]
    /\ reg        = [v \in VMs |-> 0]
    /\ role       = [v \in VMs |-> NoTier]
    /\ raced      = {}
    /\ failures   = 0
    /\ phantoms   = [t \in Tiers |-> 0]
    /\ abandoned  = {}
    /\ orphans    = {}

Goto(v, label) == pc' = [pc EXCEPT ![v] = label]

\* Bound: machines a thread has still to ask the cloud for.
StillToStart(v) ==
    IF pc[v] = "startVM" THEN Len(todo[v])
    ELSE IF pc[v] \in ScaleOutPC THEN Len(todo[v]) - 1 ELSE 0

\* The thread starts scaleOutCore for each tier of the sequence in turn; the
\* bound MaxVM leaves room for all of them.
CallScaleOut(v, tiers) ==
    /\ nextVM + MapThenSumSet(StillToStart, VMs) + Len(tiers) <= MaxVM + 1
    /\ todo' = [todo EXCEPT ![v] = tiers]
    /\ Goto(v, "startVM")

-----------------------------------------------------------------------------
(* The cloud: a machine boots and its process runs until it exits.         *)

BootVM(v) ==
    /\ v < nextVM
    /\ status[v] = "NonExistent"
    /\ status' = [status EXCEPT ![v] = "Booting"]
    /\ UNCHANGED <<nextVM, id2TierMap, count, masterLock, checked, raced, threadVars, failVars>>

RunVM(v) ==
    /\ status[v] = "Booting"
    /\ BootOutlasts => \A w \in VMs : newVM[w] # v
    /\ status' = [status EXCEPT ![v] = "Running"]
    /\ Goto(v, "lookup")
    /\ UNCHANGED <<nextVM, id2TierMap, count, masterLock, checked, raced,
                   todo, newVM, reg, role, failVars>>

-----------------------------------------------------------------------------
(* scaleOutCore, run by the master's main thread or by the RMI thread that *)
(* serves a mid server's scaleOut(1).                                      *)

StartVM(v) ==
    /\ pc[v] = "startVM"
    /\ nextVM <= MaxVM
    /\ newVM'  = [newVM EXCEPT ![v] = nextVM]
    /\ nextVM' = nextVM + 1
    /\ Goto(v, "addVM")
    /\ UNCHANGED <<status, id2TierMap, count, masterLock, checked, raced,
                   todo, reg, role, failVars>>

\* Fault: the arguments are swapped.
AddVM2MapSwapped(v) ==
    /\ pc[v] = "addVM"
    /\ id2TierMap' = [id2TierMap EXCEPT ![Head(todo[v])] = newVM[v]]
    /\ Goto(v, "readInc")
    /\ UNCHANGED <<cloudVars, count, masterLock, checked, raced,
                   todo, newVM, reg, role, failVars>>

\* The put; the key -1 goes into the map as well, where nobody looks it up.
AddVM2Map(v) ==
    /\ pc[v] = "addVM"
    /\ \/ /\ newVM[v] = FailedVM
          /\ phantoms' = [phantoms EXCEPT ![Head(todo[v])] = @ + 1]
          /\ UNCHANGED id2TierMap
       \/ /\ newVM[v] # FailedVM
          /\ id2TierMap' = IF id2TierMap[newVM[v]] = NoTier
                             THEN [id2TierMap EXCEPT ![newVM[v]] = Head(todo[v])]
                             ELSE id2TierMap
          /\ UNCHANGED phantoms
    /\ Goto(v, "readInc")
    /\ UNCHANGED <<cloudVars, count, masterLock, checked, raced,
                   todo, newVM, reg, role, failures, abandoned, orphans>>

ReadIncrement(v) ==
    /\ pc[v] = "readInc"
    /\ reg' = [reg EXCEPT ![v] = count[Head(todo[v])]]
    /\ Goto(v, "writeInc")
    /\ UNCHANGED <<cloudVars, id2TierMap, count, masterLock, checked, raced,
                   todo, newVM, role, failVars>>

\* A write whose register is out of date overwrites somebody else's update.
NoteRace(v, t) == raced' = raced \cup (IF reg[v] = count[t] THEN {} ELSE {t})

WriteIncrement(v) ==
    /\ pc[v] = "writeInc"
    /\ LET t == Head(todo[v])
           rest == Tail(todo[v])
       IN  /\ count' = [count EXCEPT ![t] = reg[v] + 1]
           /\ NoteRace(v, t)
           /\ todo' = [todo EXCEPT ![v] = rest]
           /\ Goto(v, IF rest = << >> THEN "loop" ELSE "startVM")
    /\ newVM' = [newVM EXCEPT ![v] = NoVM]
    /\ reg' = [reg EXCEPT ![v] = 0]
    /\ UNCHANGED <<cloudVars, id2TierMap, masterLock, checked, role, failVars>>

ScaleOutStep(v) ==
    StartVM(v) \/ AddVM2Map(v) \/ ReadIncrement(v) \/ WriteIncrement(v)

-----------------------------------------------------------------------------
(* The master's main thread.                                               *)

\* Fault: the front server is started before the mid server.
MasterHandlerFrontFirst ==
    /\ pc[Master] = "init"
    /\ id2TierMap' = [id2TierMap EXCEPT ![Master] = FRONT]
    /\ count' = [count EXCEPT ![FRONT] = @ + 1]
    /\ CallScaleOut(Master, <<FRONT, MID>>)
    /\ UNCHANGED <<cloudVars, masterLock, checked, raced, newVM, reg, role, failVars>>

\* masterHandler up to its loop: it registers itself as a front server,
\* counts itself and starts one mid server, then one front server.
MasterHandler ==
    /\ pc[Master] = "init"
    /\ id2TierMap' = [id2TierMap EXCEPT ![Master] = FRONT]
    /\ count' = [count EXCEPT ![FRONT] = @ + 1]
    /\ CallScaleOut(Master, <<MID, FRONT>>)
    /\ UNCHANGED <<cloudVars, masterLock, checked, raced, newVM, reg, role, failVars>>

\* masterRoutine looks at the status of VM 2 once and acts on what it saw.
MasterRoutine ==
    /\ pc[Master] = "loop"
    /\ Goto(Master, IF status[2] = "Booting" THEN "booting" ELSE "routine")
    /\ UNCHANGED <<cloudVars, id2TierMap, count, masterLock, checked, raced,
                   todo, newVM, reg, role, failVars>>

\* handleBooting: one rate check, after which more servers may be started.
HandleBootingCheck ==
    /\ pc[Master] = "booting"
    /\ ~checked
    /\ checked' = TRUE
    /\ \/ CallScaleOut(Master, Burst)
       \/ CallScaleOut(Master, <<MID>>)
       \/ Goto(Master, "loop") /\ UNCHANGED todo
    /\ UNCHANGED <<cloudVars, id2TierMap, count, masterLock, raced, newVM, reg, role, failVars>>

\* The rest of masterRoutine: a front server more if the queue is long.
MasterMayAddFront ==
    /\ pc[Master] = "routine"
    /\ CallScaleOut(Master, <<FRONT>>)
    /\ UNCHANGED <<cloudVars, id2TierMap, count, masterLock, checked, raced,
                   newVM, reg, role, failVars>>

MasterLoopEnd ==
    /\ pc[Master] \in {"booting", "routine"}
    /\ Goto(Master, "loop")
    /\ UNCHANGED <<cloudVars, id2TierMap, count, masterLock, checked, raced,
                   todo, newVM, reg, role, failVars>>

MasterStep ==
    \/ MasterHandler \/ MasterRoutine \/ HandleBootingCheck
    \/ MasterMayAddFront \/ MasterLoopEnd

-----------------------------------------------------------------------------
(* A slave server.                                                         *)

\* Fault: the tier 0 is taken for no tier.
GetTierFrontUnknown(v) ==
    /\ pc[v] = "lookup"
    /\ role' = [role EXCEPT ![v] = IF id2TierMap[v] = MID THEN MID ELSE NoTier]
    /\ Goto(v, IF id2TierMap[v] = MID THEN "loop" ELSE "unknown")
    /\ UNCHANGED <<cloudVars, id2TierMap, count, masterLock, checked, raced,
                   todo, newVM, reg, failVars>>

\* Fault: the slave trusts ServerInfo's default tier and never asks.
GetTierDefault(v) ==
    /\ pc[v] = "lookup"
    /\ role' = [role EXCEPT ![v] = MID]
    /\ Goto(v, "loop")
    /\ UNCHANGED <<cloudVars, id2TierMap, count, masterLock, checked, raced,
                   todo, newVM, reg, failVars>>

\* slaveHandler: with an unknown tier the process neither serves nor exits.
GetTier(v) ==
    /\ pc[v] = "lookup"
    /\ role' = [role EXCEPT ![v] = id2TierMap[v]]
    /\ Goto(v, IF id2TierMap[v] = NoTier THEN "unknown" ELSE "loop")
    /\ UNCHANGED <<cloudVars, id2TierMap, count, masterLock, checked, raced,
                   todo, newVM, reg, failVars>>

\* midRoutine and frontScaleIn begin by asking the master for the count.
GetVMCount(v) ==
    /\ pc[v] = "loop"
    /\ reg' = [reg EXCEPT ![v] = count[role[v]]]
    /\ Goto(v, "decide")
    /\ UNCHANGED <<cloudVars, id2TierMap, count, masterLock, checked, raced,
                   todo, newVM, role, failVars>>

\* Fault: shutDown exits without deleteVMFromMap.
ScaleInUnannounced(v) ==
    /\ pc[v] = "decide"
    /\ reg[v] > 1
    /\ reg' = [reg EXCEPT ![v] = 0]
    /\ Goto(v, "exit")
    /\ UNCHANGED <<cloudVars, id2TierMap, count, masterLock, checked, raced,
                   todo, newVM, role, failVars>>

\* The server was idle (mid) or its queue short (front) long enough, and the
\* count it read allows it to leave.
ScaleIn(v) ==
    /\ pc[v] = "decide"
    /\ reg[v] > 1
    /\ reg' = [reg EXCEPT ![v] = 0]
    /\ Goto(v, "delete")
    /\ UNCHANGED <<cloudVars, id2TierMap, count, masterLock, checked, raced,
                   todo, newVM, role, failVars>>

\* Fault: a mid server starts a front server.
ScaleOutFront(v) ==
    /\ pc[v] = "decide"
    /\ role[v] = MID
    /\ reg' = [reg EXCEPT ![v] = 0]
    /\ CallScaleOut(v, <<FRONT>>)
    /\ UNCHANGED <<cloudVars, id2TierMap, count, masterLock, checked, raced,
                   newVM, role, failVars>>

\* A mid server finds the master's queue long.
ScaleOut(v) ==
    /\ pc[v] = "decide"
    /\ role[v] = MID
    /\ reg' = [reg EXCEPT ![v] = 0]
    /\ CallScaleOut(v, <<MID>>)
    /\ UNCHANGED <<cloudVars, id2TierMap, count, masterLock, checked, raced,
                   newVM, role, failVars>>

\* The routine serves a request, or finds none, and returns.
Serve(v) ==
    /\ pc[v] = "decide"
    /\ reg' = [reg EXCEPT ![v] = 0]
    /\ Goto(v, "loop")
    /\ UNCHANGED <<cloudVars, id2TierMap, count, masterLock, checked, raced,
                   todo, newVM, role, failVars>>

\* Fault: deleteVMFromMap is not synchronized.
DeleteVMFromMapUnlocked(v) ==
    /\ pc[v] = "delete"
    /\ IF id2TierMap[v] = NoTier
         THEN Goto(v, "exit") /\ UNCHANGED <<id2TierMap, todo>>
         ELSE /\ id2TierMap' = [id2TierMap EXCEPT ![v] = NoTier]
              /\ todo' = [todo EXCEPT ![v] = <<id2TierMap[v]>>]
              /\ Goto(v, "readDec")
    /\ UNCHANGED <<cloudVars, masterLock, count, checked, raced, newVM, reg, role, failVars>>

\* deleteVMFromMap enters the monitor and removes the key it finds.
DeleteVMFromMap(v) ==
    /\ pc[v] = "delete"
    /\ masterLock = NoVM
    /\ IF id2TierMap[v] = NoTier
         THEN /\ Goto(v, "exit")
              /\ UNCHANGED <<id2TierMap, masterLock, todo>>
         ELSE /\ id2TierMap' = [id2TierMap EXCEPT ![v] = NoTier]
              /\ masterLock' = v
              /\ todo' = [todo EXCEPT ![v] = <<id2TierMap[v]>>]
              /\ Goto(v, "readDec")
    /\ UNCHANGED <<cloudVars, count, checked, raced, newVM, reg, role, failVars>>

ReadDecrement(v) ==
    /\ pc[v] = "readDec"
    /\ reg' = [reg EXCEPT ![v] = count[Head(todo[v])]]
    /\ Goto(v, "writeDec")
    /\ UNCHANGED <<cloudVars, id2TierMap, count, masterLock, checked, raced,
                   todo, newVM, role, failVars>>

\* Fault: the counter of the tier is not decremented.
WriteDecrementForgotten(v) ==
    /\ pc[v] = "writeDec"
    /\ masterLock' = NoVM
    /\ todo' = [todo EXCEPT ![v] = << >>]
    /\ reg' = [reg EXCEPT ![v] = 0]
    /\ Goto(v, "exit")
    /\ UNCHANGED <<cloudVars, id2TierMap, count, checked, raced, newVM, role, failVars>>

WriteDecrement(v) ==
    /\ pc[v] = "writeDec"
    /\ LET t == Head(todo[v])
       IN  /\ count' = [count EXCEPT ![t] = reg[v] - 1]
           /\ NoteRace(v, t)
    /\ masterLock' = NoVM
    /\ todo' = [todo EXCEPT ![v] = << >>]
    /\ reg' = [reg EXCEPT ![v] = 0]
    /\ Goto(v, "exit")
    /\ UNCHANGED <<cloudVars, id2TierMap, checked, newVM, role, failVars>>

\* Fault: shutDown returns instead of calling System.exit.
ExitForgotten(v) ==
    /\ pc[v] = "exit"
    /\ Goto(v, "gone")
    /\ UNCHANGED <<cloudVars, id2TierMap, count, masterLock, checked, raced,
                   todo, newVM, reg, role, failVars>>

\* System.exit: the cloud sees the process end.
Exit(v) ==
    /\ pc[v] = "exit"
    /\ status' = [status EXCEPT ![v] = "Ended"]
    /\ Goto(v, "gone")
    /\ UNCHANGED <<nextVM, id2TierMap, count, masterLock, checked, raced,
                   todo, newVM, reg, role, failVars>>

SlaveStep(v) ==
    \/ GetTier(v) \/ GetVMCount(v) \/ ScaleIn(v) \/ ScaleOut(v) \/ Serve(v)
    \/ DeleteVMFromMap(v) \/ ReadDecrement(v) \/ WriteDecrement(v) \/ Exit(v)

-----------------------------------------------------------------------------
(* Calls that fail.                                                        *)

Fail == failures < MaxFailures /\ failures' = failures + 1

\* startVM catches the RemoteException and answers -1; the cloud has not
\* started a machine,
StartVMFails(v) ==
    /\ pc[v] = "startVM" /\ Fail
    /\ newVM' = [newVM EXCEPT ![v] = FailedVM]
    /\ Goto(v, "addVM")
    /\ UNCHANGED <<cloudVars, id2TierMap, count, masterLock, checked, raced,
                   todo, reg, role, phantoms, abandoned, orphans>>

\* ... or it has, and the answer is lost.
StartVMAnswerLost(v) ==
    /\ pc[v] = "startVM" /\ Fail
    /\ nextVM <= MaxVM
    /\ nextVM' = nextVM + 1
    /\ orphans' = orphans \cup {nextVM}
    /\ newVM' = [newVM EXCEPT ![v] = FailedVM]
    /\ Goto(v, "addVM")
    /\ UNCHANGED <<status, id2TierMap, count, masterLock, checked, raced,
                   todo, reg, role, phantoms, abandoned>>

\* Fault: an exception may also end a thread between startVM and addVM2Map.
ServerStopsStarting(v) ==
    /\ pc[v] \in {"lookup", "loop", "decide", "delete", "addVM"}
    /\ Fail
    /\ Goto(v, "stopped")
    /\ reg' = [reg EXCEPT ![v] = 0]
    /\ UNCHANGED <<cloudVars, id2TierMap, count, masterLock, checked, raced,
                   todo, newVM, role, phantoms, abandoned, orphans>>

\* An exception, caught around the loop (lines 114, 133, 153) or, for getTier and
\* where the master is not found (line 379), not at all: the thread ends, the
\* process is kept up by its remote objects.
ServerStops(v) ==
    /\ pc[v] \in (IF v = Master THEN {"routine"}
                 ELSE {"lookup", "loop", "decide", "delete"})
    /\ Fail
    /\ Goto(v, "stopped")
    /\ reg' = [reg EXCEPT ![v] = 0]
    /\ UNCHANGED <<cloudVars, id2TierMap, count, masterLock, checked, raced,
                   todo, newVM, role, phantoms, abandoned, orphans>>

\* shutDown prints the RemoteException of deleteVMFromMap and exits.
DeleteVMFromMapFails(v) ==
    /\ pc[v] = "delete" /\ Fail
    /\ abandoned' = abandoned \cup {v}
    /\ Goto(v, "exit")
    /\ UNCHANGED <<cloudVars, id2TierMap, count, masterLock, checked, raced,
                   todo, newVM, reg, role, phantoms, orphans>>

FailedCall(v) ==
    StartVMFails(v) \/ StartVMAnswerLost(v) \/ ServerStops(v) \/ DeleteVMFromMapFails(v)

-----------------------------------------------------------------------------
Next ==
    \/ MasterStep
    \/ \E v \in Slaves : BootVM(v) \/ RunVM(v) \/ SlaveStep(v)
    \/ \E v \in VMs : ScaleOutStep(v) \/ FailedCall(v)

Spec == Init /\ [][Next]_vars

\* What carries one machine on, its threads in the master included.
MachineStep(v) ==
    \/ v = Master /\ MasterStep
    \/ v \in Slaves /\ (BootVM(v) \/ RunVM(v) \/ SlaveStep(v))
    \/ ScaleOutStep(v)

(* Every thread keeps running and every machine that was started boots; no *)
(* choice inside a routine (serve, leave, scale out) is fair, and no call  *)
(* has to fail.                                                            *)
Fairness == \A v \in VMs : WF_vars(MachineStep(v))

FairSpec == Spec /\ Fairness
-----------------------------------------------------------------------------
(* Properties.                                                             *)

\* Threads between addVM2Map and the end of their ++ on the tier's counter.
Incrementing(t) ==
    {v \in VMs : pc[v] \in {"readInc", "writeInc"} /\ Head(todo[v]) = t}

\* Threads between the removal of the key and the end of their --.
Decrementing(t) ==
    {v \in VMs : pc[v] \in {"readDec", "writeDec"} /\ Head(todo[v]) = t}

\* A server that is past deleteVMFromMap's removal, or past its failed call.
LeftPC == {"readDec", "writeDec", "exit", "gone"}

\* The states of a slave that has learned its tier and has not left.
ServingPC == {"loop", "decide", "delete"} \cup ScaleOutPC

FailTypeOK ==
    /\ failures \in 0 .. MaxFailures
    /\ phantoms \in [Tiers -> Nat]
    /\ abandoned \subseteq Slaves
    /\ orphans \subseteq Slaves

(* Type invariant: ids stay in their ranges, counters are integers, and    *)
(* the only answers of getTier (line 474) are the two tiers and -1.        *)
TypeOK ==
    /\ status \in [VMs -> Status]
    /\ nextVM \in 2 .. MaxVM + 1
    /\ id2TierMap \in [VMs -> Tiers \cup {NoTier}]
    /\ count \in [Tiers -> Int]
    /\ masterLock \in VMs \cup {NoVM}
    /\ checked \in BOOLEAN
    /\ pc \in [VMs -> PC]
    /\ todo \in [VMs -> Seq(Tiers)]
    /\ newVM \in [VMs -> Slaves \cup {NoVM, FailedVM}]
    /\ reg \in [VMs -> Int]
    /\ role \in [VMs -> Tiers \cup {NoTier}]
    /\ raced \subseteq Tiers
    /\ FailTypeOK

(* The counters drift from the map by lost updates and failed starts only: *)
(* as long as no ++ or -- of a tier has overwritten another (lines 408,    *)
(* 410, 460, 462), its counter and the updates still under way add up to   *)
(* the number of machines of that tier in id2TierMap and of the starts     *)
(* that were answered with -1 (line 405).                                  *)
CountExactUnlessRaced ==
    \A t \in Tiers :
        t \notin raced => count[t] + Cardinality(Incrementing(t))
                       = Cardinality(Members(t)) + Cardinality(Decrementing(t))
                         + phantoms[t]

(* A machine that has ended is in id2TierMap, and counted, only if its own *)
(* call of deleteVMFromMap failed (line 382): no late addVM2Map brings an  *)
(* entry back.                                                             *)
EndedIsUnregistered ==
    \A v \in Slaves \ abandoned : status[v] = "Ended" => id2TierMap[v] = NoTier

(* While a slave serves, until its own deleteVMFromMap, the master has it  *)
(* in id2TierMap under the tier it serves: no other server's registration  *)
(* or departure (lines 394-398, 455-465) takes the entry away.             *)
ServingIsRegistered ==
    \A v \in Slaves : pc[v] \in ServingPC => id2TierMap[v] = role[v]

(* Two departures never overlap: deleteVMFromMap is synchronized           *)
(* (line 455), so a -- can lose an update only to a ++ of scaleOutCore.    *)
DecrementsExclusive ==
    \A v, w \in VMs :
        pc[v] \in {"readDec", "writeDec"} /\ pc[w] \in {"readDec", "writeDec"}
            => v = w

(* masterRoutine asks for the status of VM 2 (line 196) because that       *)
(* machine is the first mid server: no other thread can take id 2, and it  *)
(* is never registered as a front server, unless a start of a mid server   *)
(* has failed: after the master's first one the front server gets id 2.    *)
SecondVMIsMid == phantoms[MID] = 0 => id2TierMap[2] # FRONT /\ role[2] # FRONT

(* A machine that scaleOutCore started comes to serve the tier it was      *)
(* registered for, if booting outlasts the starter's scaleOutCore, the     *)
(* answer of its startVM was not lost and its own calls do not fail: from  *)
(* some time on (ids are finite) all of them have learned their tier.      *)
StartedServes ==
    <>[](\A v \in Slaves \ orphans :
            v < nextVM => role[v] \in Tiers \/ pc[v] = "stopped")

(* A server that has decided to leave gets through the monitor of          *)
(* deleteVMFromMap, or past its failed call, and its process ends, unless  *)
(* it cannot find the master then and its thread ends before (line 379).   *)
LeavingEnds ==
    <>[](\A v \in Slaves : pc[v] \in DeletePC \cup {"exit", "gone"} => status[v] = "Ended")

(* No machine is forgotten but for a lost answer of its own startVM: an id *)
(* that the cloud has given out (line 405) is in id2TierMap, or its starter *)
(* is about to put it there (line 406), until its own server deletes it;   *)
(* no other call that fails, and no other thread's update, takes it away.  *)
StartedIsRegistered ==
    \A v \in Slaves \ orphans :
        v < nextVM => \/ id2TierMap[v] # NoTier
                      \/ \E w \in VMs : pc[w] = "addVM" /\ newVM[w] = v
                      \/ pc[v] \in LeftPC

(* If a machine boots longer than its starter is in scaleOutCore, getTier  *)
(* (lines 474-477) answers -1 to it only if the answer of its own startVM  *)
(* (line 405) was lost: of the processes that stay up idle for want of a   *)
(* tier, that is the only cause.                                           *)
KnownWhenAsked ==
    BootOutlasts => \A v \in VMs : pc[v] = "unknown" => v \in orphans

(* frontCount loses an update only if a front server departs: the master's *)
(* main thread alone starts front servers (lines 108, 209, 265), so a ++   *)
(* of frontCount never meets another one; midCount has no such protection. *)
FrontRaceNeedsDeparture ==
    FRONT \in raced => \E v \in Slaves : role[v] = FRONT /\ pc[v] \in LeftPC

\* The entries as servers see them: an entry that is gone was removed.
Removed == -2

registryEntry ==
    [v \in Slaves |->
        IF id2TierMap[v] = NoTier /\ pc[v] \in LeftPC THEN Removed ELSE id2TierMap[v]]

registryRole == [v \in Slaves |-> role[v]]

Registry == INSTANCE ServerRegistry
    WITH Servers <- Slaves, entry <- registryEntry, role <- registryRole

(* The threads' steps in any order (lines 394-398, 455-465, 474-479), with *)
(* failing calls, keep the promise of ServerRegistry: one entry per server,*)
(* one tier learned, removal last.                                         *)
ImplementsRegistry == Registry!Spec

(* What the javadoc of getVMCount says (lines 490-494): with no update of  *)
(* the counter under way, it is the number of servers of the tier.         *)
VMCountIsTierSize ==
    \A t \in Tiers :
        Incrementing(t) = {} /\ Decrementing(t) = {}
            => count[t] = Cardinality(Members(t))
=============================================================================
