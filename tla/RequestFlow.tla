----------------------------- MODULE RequestFlow -----------------------------
(***************************************************************************)
(* The way of a client's request through the tiers of Server.java: the     *)
(* load balancer gives it to a front server's InputQueue, the front server *)
(* (or the master) hands it to the master's requestQueue, a mid server     *)
(* polls it, executes or drops it, and the cloud passes the reply on.      *)
(* Around it: registration and retirement of front servers, the choice of  *)
(* a mid server to leave or to scale out, and the time in which the master *)
(* serves requests itself because the first mid server still boots.        *)
(*                                                                         *)
(* Calls may fail (but startVM, see Cluster): then a loop ends, or the     *)
(* request in hand is never answered.                                      *)
(*                                                                         *)
(* Cluster models the registry with its racing counters; here a tier's     *)
(* count is the number of its registered servers.  Clocks are abstracted:  *)
(* "idle for 2 s", "a fast request", "3 s since the last front server" may *)
(* or may not hold.  Servers that were not started yet are "off"; scaling  *)
(* out starts one of them, or none if there is none left (a bound).        *)
(***************************************************************************)
EXTENDS Integers, Sequences, FiniteSets

CONSTANTS
    Requests,               \* requests that clients will make
    Master,                 \* VM 1
    FirstMid, FirstFront,   \* VM 2 and VM 3, started by masterHandler
    MoreMids, MoreFronts,   \* servers that scaling out may start
    MidFactor, FrontFactor, \* thresholds (3.3 and 2.9 in the code), scaled down
    ShortLimit,             \* cycles of a short queue before leaving (55)
    Allowed, AllowedInBurst, \* requests the master serves while booting (15, 25)
    MaxFailures,            \* bound: calls that fail and waits that end early
    NoRequest, NoFront

Mids   == {FirstMid} \cup MoreMids
Fronts == {Master, FirstFront} \cup MoreFronts
Servers == Mids \cup Fronts

ASSUME FlowAssumption ==
    /\ IsFiniteSet(Requests) /\ NoRequest \notin Requests
    /\ IsFiniteSet(Servers) /\ NoFront \notin Servers
    /\ Mids \cap Fronts = {} /\ Master # FirstFront
    /\ Master \notin MoreFronts
    /\ {MidFactor, FrontFactor, ShortLimit, Allowed, AllowedInBurst} \subseteq Nat
    /\ MaxFailures \in Nat
    /\ Allowed <= AllowedInBurst

VARIABLES
    lb,             \* the cloud's round-robin list of front servers
    target,         \* the front server the client's call has been given
    outstanding,    \* the cloud's table of requests without a reply
    outcome,        \* what the client was told
    queue,          \* InputQueue of each front server
    dead,           \* servers whose InputQueue is no longer exported
    requestQueue,   \* the master's queue in front of the mid tier
    registered,     \* keys of id2TierMap
    pc, hand,       \* of each server: position, and the request it holds
    cnt, len,       \* of each server: count and queue length it last read
    clocked,        \* mid servers with lastProcessTime # 0
    shortQueueCount, masterProcessCount, allowedMasterProcess,
    rateChecked,    \* handleBooting has looked at the request rate
    executed,       \* history: how often a request reached the database,
    failures,       \* ... failures so far,
    lost,           \* ... requests whose answer, or themselves, got lost,
    stale           \* ... servers that left without leaving the balancer's list

clientVars == <<lb, target>>
cloudVars  == <<outstanding, outcome>>
edgeVars   == <<clientVars, cloudVars, queue, dead>>
bootVars   == <<masterProcessCount, allowedMasterProcess, rateChecked>>
staticVars == <<clocked, shortQueueCount, bootVars>>
localVars  == <<cnt, len, staticVars>>
failVars   == <<failures, lost, stale>>
historyVars == <<executed, failVars>>
allButPc   == <<edgeVars, requestQueue, registered, hand, localVars, historyVars>>
vars == <<pc, allButPc>>

PC == {"off", "created", "booting", "gone",
       "init", "loop", "boot", "bootFetch", "bootDrop", "scale",
       "fetch", "forward", "scaleIn", "short",
       "count", "length", "decide", "have", "process", "reply", "drop",
       "leave", "unexport", "delete", "stopped"}

Init ==
    /\ lb = << >>
    /\ target = [r \in Requests |-> NoFront]
    /\ outstanding = {}
    /\ outcome = [r \in Requests |-> "none"]
    /\ queue = [f \in Fronts |-> << >>]
    /\ dead = {}
    /\ requestQueue = << >>
    /\ registered = {Master}
    /\ pc = [s \in Servers |-> IF s = Master THEN "init" ELSE "off"]
    /\ hand = [s \in Servers |-> NoRequest]
    /\ cnt = [s \in Servers |-> 0]
    /\ len = [s \in Servers |-> 0]
    /\ clocked = {}
    /\ shortQueueCount = [f \in Fronts |-> 0]
    /\ masterProcessCount = 0
    /\ allowedMasterProcess = Allowed
    /\ rateChecked = FALSE
    /\ executed = [r \in Requests |-> 0]
    /\ failures = 0
    /\ lost = {}
    /\ stale = {}

Goto(s, label) == pc' = [pc EXCEPT ![s] = label]
Hold(s, r)     == hand' = [hand EXCEPT ![s] = r]

\* A server's local variables end with the cycle of its loop.
Forget(s) ==
    /\ cnt' = [cnt EXCEPT ![s] = 0]
    /\ len' = [len EXCEPT ![s] = 0]

\* The counters, as exact as the registry.
VMCount(tier) == Cardinality(registered \cap tier)

Fail == failures < MaxFailures /\ failures' = failures + 1

Lose(R) == lost' = lost \cup (R \cap Requests)

Off(tier) == {s \in tier : pc[s] = "off"}

\* scaleOutCore for each server of S, while s goes on at label.  A new machine
\* is not Booting at once; only of the first mid server does anybody see that.
ScaleOutAndGoto(S, s, label) ==
    /\ registered' = registered \cup S
    /\ pc' = [x \in Servers |->
                IF x \in S THEN IF x = FirstMid THEN "created" ELSE "booting"
                ELSE IF x = s THEN label ELSE pc[x]]

-----------------------------------------------------------------------------
(* Clients and the cloud.                                                  *)

\* Fault: the front server that was picked does not go to the list's end.
NextFEOnce(r) ==
    /\ target[r] = NoFront /\ outcome[r] = "none"
    /\ IF lb = << >>
         THEN /\ outcome' = [outcome EXCEPT ![r] = "failed"]
              /\ UNCHANGED clientVars
         ELSE /\ target' = [target EXCEPT ![r] = Head(lb)]
              /\ lb' = Tail(lb)
              /\ UNCHANGED outcome
    /\ UNCHANGED <<outstanding, queue, dead, requestQueue, registered, pc, hand,
                   localVars, historyVars>>

\* A client calls browse or purchase: the load balancer picks the front
\* server before anything is locked.
NextFE(r) ==
    /\ target[r] = NoFront /\ outcome[r] = "none"
    /\ IF lb = << >>
         THEN /\ outcome' = [outcome EXCEPT ![r] = "failed"]
              /\ UNCHANGED clientVars
         ELSE /\ target' = [target EXCEPT ![r] = Head(lb)]
              /\ lb' = Append(Tail(lb), Head(lb))
              /\ UNCHANGED outcome
    /\ UNCHANGED <<outstanding, queue, dead, requestQueue, registered, pc, hand,
                   localVars, historyVars>>

\* Under the lock of the request table: queueRequest, then put.
QueueRequest(r) ==
    /\ target[r] # NoFront /\ outcome[r] = "none" /\ r \notin outstanding
    /\ IF target[r] \in dead
         THEN /\ outcome' = [outcome EXCEPT ![r] = "failed"]
              /\ UNCHANGED <<queue, outstanding>>
         ELSE /\ queue' = [queue EXCEPT ![target[r]] = Append(@, r)]
              /\ outstanding' = outstanding \cup {r}
              /\ UNCHANGED outcome
    /\ UNCHANGED <<clientVars, dead, requestQueue, registered, pc, hand,
                   localVars, historyVars>>

\* sendReply: only a request the table knows gets an answer.
Reply(r, answer) ==
    /\ outstanding' = outstanding \ {r}
    /\ outcome' = IF r \in outstanding THEN [outcome EXCEPT ![r] = answer]
                                       ELSE outcome

\* The cloud boots the machine of a mid server, whose process then asks for its
\* tier and enters midHandler.
Boot(m) ==
    /\ \/ pc[m] = "created" /\ Goto(m, "booting")
       \/ pc[m] = "booting" /\ Goto(m, "count")
    /\ UNCHANGED allButPc

-----------------------------------------------------------------------------
(* The front tier: frontHandler and, with getNextRequest, the master.      *)

\* register_frontend, which prints the exception of a call that fails.
CallRegister(f) ==
    \/ lb' = Append(lb, f) /\ UNCHANGED failVars
    \/ Fail /\ UNCHANGED <<lb, lost, stale>>

\* frontHandler, once the machine is up.
RegisterFrontend(f) ==
    /\ pc[f] = "booting"
    /\ CallRegister(f)
    /\ Goto(f, "scaleIn")
    /\ UNCHANGED <<target, cloudVars, queue, dead, requestQueue, registered,
                   hand, localVars, executed>>

\* frontScaleIn: the count first,
FrontReadCount(f) ==
    /\ pc[f] = "scaleIn"
    /\ cnt' = [cnt EXCEPT ![f] = VMCount(Fronts)]
    /\ Goto(f, "short")
    /\ UNCHANGED <<edgeVars, requestQueue, registered, hand, len, staticVars,
                   historyVars>>

\* then the length of the master's queue.  Above ShortLimit the exact value of
\* shortQueueCount makes no difference (a bound).
FrontScaleIn(f) ==
    /\ pc[f] = "short"
    /\ LET cycles == IF Len(requestQueue) < 2
                       THEN IF shortQueueCount[f] > ShortLimit
                              THEN shortQueueCount[f] ELSE shortQueueCount[f] + 1
                       ELSE 0
       IN  /\ shortQueueCount' = [shortQueueCount EXCEPT ![f] = cycles]
           /\ Goto(f, IF cycles > ShortLimit /\ cnt[f] > 1 THEN "leave" ELSE "fetch")
    /\ Forget(f)
    /\ UNCHANGED <<edgeVars, requestQueue, registered, hand, clocked, bootVars,
                   historyVars>>

\* getNextRequest: wait for the queue's head and take it.
GetNextRequest(f, next) ==
    /\ queue[f] # << >>
    /\ Hold(f, Head(queue[f]))
    /\ queue' = [queue EXCEPT ![f] = Tail(@)]
    /\ Goto(f, next)
    /\ UNCHANGED <<clientVars, cloudVars, dead, requestQueue, registered,
                   localVars, historyVars>>

Fetch(f) == pc[f] = "fetch" /\ GetNextRequest(f, "forward")

\* addRequest, or masterAddRequest in the master.
AddRequest(f) ==
    /\ pc[f] = "forward"
    /\ requestQueue' = Append(requestQueue, hand[f])
    /\ Hold(f, NoRequest)
    /\ Goto(f, IF f = Master THEN "scale" ELSE "scaleIn")
    /\ UNCHANGED <<edgeVars, registered, localVars, historyVars>>

FrontStep(f) ==
    \/ RegisterFrontend(f) \/ FrontReadCount(f) \/ FrontScaleIn(f)
    \/ Fetch(f) \/ AddRequest(f)

-----------------------------------------------------------------------------
(* The master's own thread.                                                *)

\* masterHandler: register with the load balancer, start the first mid and the
\* first front server; registered holds the master from the beginning.
MasterHandler ==
    /\ pc[Master] = "init"
    /\ CallRegister(Master)
    /\ ScaleOutAndGoto({FirstMid, FirstFront}, Master, "loop")
    /\ UNCHANGED <<target, cloudVars, queue, dead, requestQueue, hand,
                   localVars, executed>>

\* Fault: any status but Running is taken for booting.
MasterRoutineNotRunning ==
    /\ pc[Master] = "loop"
    /\ Goto(Master, IF pc[FirstMid] \in {"created", "booting", "gone"}
                      THEN "boot" ELSE "fetch")
    /\ UNCHANGED allButPc

\* masterRoutine looks at the first mid server's status once per cycle; if the
\* call fails, the answer null is not Booting either.
MasterRoutine ==
    /\ pc[Master] = "loop"
    /\ \/ /\ Goto(Master, IF pc[FirstMid] = "booting" THEN "boot" ELSE "fetch")
          /\ UNCHANGED failVars
       \/ /\ Fail /\ UNCHANGED <<lost, stale>>
          /\ Goto(Master, "fetch")
    /\ UNCHANGED <<edgeVars, requestQueue, registered, hand, localVars, executed>>

\* handleBooting's one look at the rate of requests: with requests waiting, one
\* mid server more, or a burst, for which a front server and all mid servers
\* that are left (four in the code) are started and more requests are allowed.
HandleBootingCheck ==
    /\ pc[Master] = "boot"
    /\ ~rateChecked /\ rateChecked' = TRUE
    /\ \/ /\ ScaleOutAndGoto({}, Master, "boot")
          /\ UNCHANGED allowedMasterProcess
       \/ /\ queue[Master] # << >>
          /\ \E m \in Off(Mids) : ScaleOutAndGoto({m}, Master, "boot")
          /\ UNCHANGED allowedMasterProcess
       \/ /\ queue[Master] # << >>
          /\ \E f \in Off(Fronts) :
                ScaleOutAndGoto({f} \cup Off(Mids), Master, "boot")
          /\ allowedMasterProcess' = AllowedInBurst
    /\ UNCHANGED <<edgeVars, requestQueue, hand, cnt, len, clocked,
                   shortQueueCount, masterProcessCount, historyVars>>

\* Fault: one request too many, <= for <.
HandleBootingOneMore ==
    /\ pc[Master] = "boot"
    /\ Goto(Master, IF masterProcessCount <= allowedMasterProcess
                      THEN "bootFetch" ELSE "bootDrop")
    /\ UNCHANGED allButPc

\* Then serve one request, or drop the head once enough were served.
HandleBooting ==
    /\ pc[Master] = "boot"
    /\ Goto(Master, IF masterProcessCount < allowedMasterProcess
                      THEN "bootFetch" ELSE "bootDrop")
    /\ UNCHANGED allButPc

BootFetch == pc[Master] = "bootFetch" /\ GetNextRequest(Master, "process")

\* dropHead: null, and nothing to do, if the queue is empty.
BootDropHead ==
    /\ pc[Master] = "bootDrop"
    /\ \/ GetNextRequest(Master, "drop")
       \/ /\ queue[Master] = << >>
          /\ Goto(Master, "loop")
          /\ UNCHANGED allButPc

\* The end of masterRoutine: a front server more if the queue is long and
\* enough time has passed.
MasterMayAddFront ==
    /\ pc[Master] = "scale"
    /\ \/ Goto(Master, "loop") /\ UNCHANGED registered
       \/ /\ Len(queue[Master]) > FrontFactor * VMCount(Fronts)
          /\ \E f \in Off(Fronts) : ScaleOutAndGoto({f}, Master, "loop")
    /\ UNCHANGED <<edgeVars, requestQueue, hand, localVars, historyVars>>

MasterStep ==
    \/ MasterHandler \/ MasterRoutine \/ HandleBootingCheck \/ HandleBooting
    \/ BootFetch \/ BootDropHead \/ MasterMayAddFront

-----------------------------------------------------------------------------
(* Executing and dropping a request, by a mid server or the booting master.*)

\* processRequest: the database work first,
Process(s) ==
    /\ pc[s] = "process"
    /\ executed' = [executed EXCEPT ![hand[s]] = @ + 1]
    /\ Goto(s, "reply")
    /\ UNCHANGED <<edgeVars, requestQueue, registered, hand, localVars, failVars>>

\* After processRequest.  The master may drop the next head if it served one
\* before too short a time ago.
Processed(s) ==
    /\ Hold(s, NoRequest)
    /\ IF s = Master
         THEN /\ masterProcessCount' = masterProcessCount + 1
              /\ \/ Goto(s, "loop")
                 \/ masterProcessCount > 0 /\ Goto(s, "bootDrop")
              /\ UNCHANGED clocked
         ELSE /\ clocked' = clocked \cup {s}
              /\ Goto(s, "count")
              /\ UNCHANGED masterProcessCount
    /\ UNCHANGED <<clientVars, queue, dead, requestQueue, registered, cnt, len,
                   shortQueueCount, allowedMasterProcess, rateChecked>>

\* sendReply, whose exception the library prints: nobody answers then.
CallSendReply(s, answer) ==
    \/ Reply(hand[s], answer) /\ UNCHANGED failVars
    \/ Fail /\ Lose({hand[s]}) /\ UNCHANGED <<cloudVars, stale>>

\* Fault: after a reply that failed, processRequest is tried once more.
ReplyServedRetried(s) ==
    /\ pc[s] = "reply"
    /\ \/ Reply(hand[s], "served") /\ Processed(s) /\ UNCHANGED failVars
       \/ /\ Fail /\ Goto(s, "process")
          /\ UNCHANGED <<edgeVars, requestQueue, registered, hand, localVars,
                         lost, stale>>
    /\ UNCHANGED executed

\* then the reply.
ReplyServed(s) ==
    /\ pc[s] = "reply"
    /\ CallSendReply(s, "served")
    /\ Processed(s)
    /\ UNCHANGED executed

\* Fault: the request is put aside without a reply.
ReplyDroppedForgotten(s) ==
    /\ pc[s] = "drop"
    /\ Hold(s, NoRequest)
    /\ Goto(s, IF s = Master THEN "loop" ELSE "count")
    /\ UNCHANGED <<edgeVars, requestQueue, registered, localVars, historyVars>>

\* drop: the empty reply.
ReplyDropped(s) ==
    /\ pc[s] = "drop"
    /\ CallSendReply(s, "dropped")
    /\ Hold(s, NoRequest)
    /\ Goto(s, IF s = Master THEN "loop" ELSE "count")
    /\ UNCHANGED <<clientVars, queue, dead, requestQueue, registered, localVars,
                   executed>>

AnswerStep(s) == Process(s) \/ ReplyServed(s) \/ ReplyDropped(s)

-----------------------------------------------------------------------------
(* The mid tier: midRoutine.                                               *)

MidReadCount(m) ==
    /\ pc[m] = "count"
    /\ cnt' = [cnt EXCEPT ![m] = VMCount(Mids)]
    /\ Goto(m, "length")
    /\ UNCHANGED <<edgeVars, requestQueue, registered, hand, len, staticVars,
                   historyVars>>

MidReadLength(m) ==
    /\ pc[m] = "length"
    /\ len' = [len EXCEPT ![m] = Len(requestQueue)]
    /\ Goto(m, "decide")
    /\ UNCHANGED <<edgeVars, requestQueue, registered, hand, cnt, staticVars,
                   historyVars>>

\* Idle for too long, and the count it read says there is another one.
MidScaleIn(m) ==
    /\ pc[m] = "decide"
    /\ m \in clocked /\ cnt[m] > 1
    /\ Goto(m, "leave") /\ Forget(m)
    /\ UNCHANGED <<edgeVars, requestQueue, registered, hand, staticVars,
                   historyVars>>

\* Fault: peek for poll.
PollRequestPeek(m) ==
    /\ pc[m] = "decide"
    /\ requestQueue # << >>
    /\ Hold(m, Head(requestQueue))
    /\ Goto(m, "have")
    /\ UNCHANGED <<edgeVars, requestQueue, registered, localVars, historyVars>>

PollRequest(m) ==
    /\ pc[m] = "decide"
    /\ \/ /\ requestQueue # << >>
          /\ Hold(m, Head(requestQueue))
          /\ requestQueue' = Tail(requestQueue)
          /\ Goto(m, "have")
          /\ UNCHANGED <<clocked, cnt, len>>
       \/ /\ requestQueue = << >>
          /\ clocked' = clocked \cup {m}
          /\ Goto(m, "count") /\ Forget(m)
          /\ UNCHANGED <<requestQueue, hand>>
    /\ UNCHANGED <<edgeVars, registered, shortQueueCount, bootVars, historyVars>>

\* dropFastRequest: after a run of requests in quick succession.
DropFastRequest(m) ==
    /\ pc[m] = "have"
    /\ m \in clocked
    /\ Goto(m, "drop") /\ Forget(m)
    /\ UNCHANGED <<edgeVars, requestQueue, registered, hand, staticVars,
                   historyVars>>

\* The master's queue was long: scaleOut(1), and drop the request in hand.
\* dropTail then finds this server's own InputQueue empty.
MidScaleOut(m) ==
    /\ pc[m] = "have"
    /\ len[m] > MidFactor * cnt[m]
    /\ \/ \E n \in Off(Mids) : ScaleOutAndGoto({n}, m, "drop")
       \/ Off(Mids) = {} /\ ScaleOutAndGoto({}, m, "drop")
    /\ Forget(m)
    /\ UNCHANGED <<edgeVars, requestQueue, hand, staticVars, historyVars>>

MidServe(m) ==
    /\ pc[m] = "have"
    /\ len[m] <= MidFactor * cnt[m]
    /\ Goto(m, "process") /\ Forget(m)
    /\ UNCHANGED <<edgeVars, requestQueue, registered, hand, staticVars,
                   historyVars>>

MidStep(m) ==
    \/ MidReadCount(m) \/ MidReadLength(m) \/ MidScaleIn(m) \/ PollRequest(m)
    \/ DropFastRequest(m) \/ MidScaleOut(m) \/ MidServe(m)

-----------------------------------------------------------------------------
(* shutDown of a slave, in its order: leave the load balancer, unexport    *)
(* the InputQueue, leave the registry, exit.                               *)

\* Fault: the server stays in the load balancer's list.
UnregisterForgotten(s) ==
    /\ pc[s] = "leave"
    /\ Goto(s, "unexport")
    /\ UNCHANGED allButPc

\* delFE takes the first entry of the server out of the list.
DelFE(s) ==
    \/ \E i \in 1 .. Len(lb) :
            /\ lb[i] = s /\ \A j \in 1 .. i - 1 : lb[j] # s
            /\ lb' = [j \in 1 .. Len(lb) - 1 |-> IF j < i THEN lb[j] ELSE lb[j + 1]]
    \/ (\A i \in 1 .. Len(lb) : lb[i] # s) /\ UNCHANGED lb

\* unregister_frontend prints the exception of a call that fails.
Unregister(s) ==
    /\ pc[s] = "leave"
    /\ \/ DelFE(s) /\ UNCHANGED failVars
       \/ Fail /\ stale' = stale \cup {s} /\ UNCHANGED <<lb, lost>>
    /\ Goto(s, "unexport")
    /\ UNCHANGED <<target, cloudVars, queue, dead, requestQueue, registered,
                   hand, localVars, executed>>

Unexport(s) ==
    /\ pc[s] = "unexport"
    /\ dead' = dead \cup {s}
    /\ Goto(s, "delete")
    /\ UNCHANGED <<clientVars, cloudVars, queue, requestQueue, registered, hand,
                   localVars, historyVars>>

\* A RemoteException is printed; the server exits but stays registered.
DeleteVMFromMap(s) ==
    /\ pc[s] = "delete"
    /\ \/ registered' = registered \ {s} /\ UNCHANGED failVars
       \/ Fail /\ UNCHANGED <<registered, lost, stale>>
    /\ Goto(s, "gone")
    /\ UNCHANGED <<edgeVars, requestQueue, hand, localVars, executed>>

ShutDownStep(s) == Unregister(s) \/ Unexport(s) \/ DeleteVMFromMap(s)

-----------------------------------------------------------------------------
(* Failures that end a loop or a request.                                  *)

\* Where a server's thread can be ended by an exception: the machine's set-up,
\* every call of the master, and getNextRequest, if its wait ends early: its
\* null is added to the master's queue, which throws.
MayStop(s) ==
    IF s = Master THEN {"fetch"}
    ELSE {"booting", "scaleIn", "short", "fetch", "forward",
          "count", "length", "decide", "have", "delete"}

\* The loop ends (lines 114, 133, 153), the process stays up, registered and
\* listed; what the server held is lost.
ServerStops(s) ==
    /\ pc[s] \in MayStop(s)
    /\ pc[s] = "fetch" => queue[s] = << >>
    /\ Fail
    /\ Lose({hand[s]}) /\ Hold(s, NoRequest)
    /\ Goto(s, "stopped") /\ Forget(s)
    /\ UNCHANGED <<edgeVars, requestQueue, registered, staticVars, executed, stale>>

\* processRequest prints any exception, of the database too, and returns.
ProcessFails(s) ==
    /\ pc[s] = "process"
    /\ Fail /\ Lose({hand[s]})
    /\ Processed(s)
    /\ UNCHANGED <<cloudVars, executed, stale>>

\* handleBooting counts the null of a wait that ended early as a request.
BootFetchNull ==
    /\ pc[Master] = "bootFetch" /\ queue[Master] = << >>
    /\ Fail
    /\ Processed(Master)
    /\ UNCHANGED <<cloudVars, executed, lost, stale>>

FailureStep(s) ==
    \/ ServerStops(s) \/ ProcessFails(s)
    \/ s = Master /\ BootFetchNull

-----------------------------------------------------------------------------
ClientStep(r) == NextFE(r) \/ QueueRequest(r)

ServerStep(s) ==
    \/ s = Master /\ MasterStep
    \/ s \in Fronts /\ FrontStep(s)
    \/ s \in Mids /\ (Boot(s) \/ MidStep(s))
    \/ AnswerStep(s)
    \/ s # Master /\ ShutDownStep(s)

Next == \/ \E r \in Requests : ClientStep(r)
        \/ \E s \in Servers : ServerStep(s) \/ FailureStep(s)

Spec == Init /\ [][Next]_vars

(* The cloud finishes the calls that clients make, every started machine   *)
(* boots and every server thread keeps running; what a server decides is   *)
(* not fair, and no client has to make its call.                           *)
FairSpec ==
    /\ Spec
    /\ \A r \in Requests : WF_vars(QueueRequest(r))
    /\ \A s \in Servers : WF_vars(ServerStep(s))

-----------------------------------------------------------------------------
(* Properties.                                                             *)

LeavingPC == {"leave", "unexport", "delete", "gone"}

(* Type invariant; counters stay within their bounds.                      *)
TypeOK ==
    /\ lb \in Seq(Fronts)
    /\ target \in [Requests -> Fronts \cup {NoFront}]
    /\ outstanding \subseteq Requests
    /\ outcome \in [Requests -> {"none", "failed", "served", "dropped"}]
    /\ queue \in [Fronts -> Seq(Requests)]
    /\ dead \subseteq Servers \ {Master}
    /\ requestQueue \in Seq(Requests)
    /\ registered \subseteq Servers
    /\ pc \in [Servers -> PC]
    /\ hand \in [Servers -> Requests \cup {NoRequest}]
    /\ cnt \in [Servers -> Nat] /\ len \in [Servers -> Nat]
    /\ clocked \subseteq Mids
    /\ shortQueueCount \in [Fronts -> 0 .. ShortLimit + 1]
    /\ allowedMasterProcess \in {Allowed, AllowedInBurst}
    /\ masterProcessCount \in 0 .. allowedMasterProcess
    /\ rateChecked \in BOOLEAN
    /\ executed \in [Requests -> Nat]
    /\ failures \in 0 .. MaxFailures
    /\ lost \subseteq Requests
    /\ stale \subseteq Servers

QueuePlaces(q, r) == {i \in 1 .. Len(q) : q[i] = r}

\* Everywhere a request is.
Places(r) ==
    (UNION {{f} \X QueuePlaces(queue[f], r) : f \in Fronts})
    \cup {"requestQueue"} \X QueuePlaces(requestQueue, r)
    \cup {"hand"} \X {s \in Servers : hand[s] = r}

(* A request the cloud still owes an answer is in exactly one place, a     *)
(* queue or a server's hands, and an answered one in none: handing it from *)
(* tier to tier (lines 200-201, 224-225, 172) never copies it, and loses it *)
(* only with a call that fails while a server holds it.                    *)
OnePlace ==
    \A r \in Requests :
        Cardinality(Places(r)) = IF r \in outstanding \ lost THEN 1 ELSE 0

(* The load balancer lists each front server at most once and none whose   *)
(* InputQueue is unexported: shutDown unregisters first (line 377), unless *)
(* that call fails.                                                        *)
BalancerListsLive ==
    \A i \in 1 .. Len(lb) :
        /\ lb[i] \notin dead \ stale
        /\ \A j \in 1 .. Len(lb) : lb[i] = lb[j] => i = j

(* A client is refused for one of three reasons only: the master has not   *)
(* registered itself yet (line 103), a call failed, or the front server    *)
(* that the balancer picked has unexported its queue in between (lines     *)
(* 377-378).  However many servers join and leave, the balancer's list     *)
(* does not run empty, for the master never leaves it.                     *)
RefusedOnlyInGap ==
    [][\A r \in Requests :
          outcome[r] = "none" /\ outcome'[r] = "failed"
            => pc[Master] = "init" \/ failures > 0 \/ target[r] \in dead]_vars

\* No mid server serves, boots or was created, and the master will start none:
\* it has done masterHandler and is not at handleBooting's rate check.
MidTierGone ==
    /\ pc[Master] \notin {"init", "boot"}
    /\ \A m \in Mids : pc[m] \in LeavingPC \cup {"off", "stopped"}

(* Only a mid server, or the master while the first one boots, scales the  *)
(* mid tier out (lines 178, 266-272): once all have left none comes back.  *)
MidTierNeverReturns == [][MidTierGone => MidTierGone']_vars

\* The request lies in the InputQueue of a front server that has retired, or
\* whose loop has ended.
Stranded(r) ==
    \E f \in Fronts : /\ f \in dead \/ pc[f] = "stopped"
                     /\ QueuePlaces(queue[f], r) # {}

(* Every request that was accepted is answered, unless it lies in the      *)
(* InputQueue of a front server that does not fetch any more, the whole    *)
(* mid tier has left or stopped, or a call failed on this very request:    *)
(* nobody notices (lines 114, 133, 153, 182, 279) or tries again.          *)
AnsweredOrLost ==
    \A r \in Requests :
        r \in outstanding ~> \/ r \notin outstanding \/ r \in lost
                            \/ Stranded(r) \/ MidTierGone

(* The detailed system implements the service a client sees.               *)
serviceState ==
    [r \in Requests |->
        IF r \in outstanding
          THEN CASE executed[r] = 0 -> "waiting"
                 [] executed[r] = 1 -> "executed"
                 [] OTHER -> "executedTwice"
        ELSE IF outcome[r] = "none" THEN "new"
        ELSE IF executed[r] = (IF outcome[r] = "served" THEN 1 ELSE 0)
          THEN outcome[r]
        ELSE "wrongAnswer"]

Service == INSTANCE RequestService WITH state <- serviceState

(* Never refused after being accepted, executed at most once, served only  *)
(* after execution, and never executed when reported dropped.              *)
ImplementsService == Service!Spec

(* README.md:23 "All incoming requests polled by different frontend        *)
(* servers are collected and then send to master's request queue via RMI": *)
(* what lies in a front server's InputQueue gets out of it.                *)
CollectedByFrontServers ==
    \A r \in Requests :
        (\E f \in Fronts : QueuePlaces(queue[f], r) # {})
            ~> (\A f \in Fronts : QueuePlaces(queue[f], r) = {})

(* README.md:23 "requests from the queue are polled and processed by the   *)
(* mid-tier servers": what lies in the master's queue gets out of it.      *)
PolledByMidServers ==
    \A r \in Requests :
        QueuePlaces(requestQueue, r) # {} ~> QueuePlaces(requestQueue, r) = {}
=============================================================================
