# Verification of the auto-scaling server cluster

TLA+ models, TLC runs and TLAPS proofs for the Java program in `src/` (`Server.java`,
`Cache.java`, their interfaces, and the course library in `src/lib` as far as they use it).
Line numbers are those of `src/Server.java` unless another file is named.

## 1. The system

One program, `Server`, runs in every virtual machine (VM). VM 1 is the master; it starts the
other VMs and each of them asks it which tier it belongs to. Client requests travel

    client -> load balancer -> InputQueue of a front server -> master's requestQueue
           -> mid server -> cache (in the master) -> database,  reply -> cloud -> client

| Component | State | Operations (lines) | Who calls whom |
|---|---|---|---|
| Registry, in the master | `id2TierMap`, `frontCount`, `midCount` | `masterHandler` 91-117, `addVM2Map` 394, `scaleOutCore` 404, `deleteVMFromMap` 455, `getTier` 474, `scaleOut` 486, `getVMCount` 497 | the master's main thread, and one RMI thread per call of a slave |
| Request queue, in the master | `requestQueue` (LinkedBlockingQueue) | `masterAddRequest` 400, `pollRequest` 511, `addRequest` 521, `getRequestLength` 531 | front servers add, mid servers poll |
| Master's main loop | `masterStartTime`, `masterProcessCount`, `allowedMasterProcess`, `lastProcessTime`, `lastAddFrontTime` | `masterRoutine` 195, `handleBooting` 256 | uses ServerLib and `masterScaleOut` |
| Front server | its own InputQueue, `shortQueueCount` | `frontHandler` 125, `frontRoutine` 222, `frontScaleIn` 236 | RMI to the master |
| Mid server | `lastProcessTime`, `fastRequestCount` | `midHandler` 144, `midRoutine` 164, `dropFastRequest` 296 | RMI to the master and to the cache |
| Shutdown of a slave | (the above) | `shutDown` 375 | ServerLib, then `deleteVMFromMap` by RMI, then exit |
| Cache, in the master | `cacheMap` (Cache.java) | `get`, `set`, `transaction` | RMI threads of the mid servers, the database |
| ServerLib, InputQueue (library) | the InputQueue | `getNextRequest`, `dropHead`, `drop`, `processRequest`, ... | called by every server |
| Cloud (library) | VMs, front-end list, table of unanswered requests | `startVM`, `sendReply`, round robin | called by ServerLib and clients |
| Database, ClientSim (library) | key-value map | `get`, `transaction` | called by the cache and the master |

What is hard in it: plain static counters updated by several threads, of which only some hold
a lock; decisions on counts, queue lengths, VM states and times read several calls earlier;
servers that leave while others decide on their presence, or while requests are on the way to
them; requests handed through three queues and dropped at four places; calls whose failure is
printed and forgotten; a cache that is never refreshed; blocking calls in the middle of a timed
policy. `PROJECT.json` lists these hazards line by line, with the properties aimed at them.

What makes each component correct:

* **registry**: the counters agree with the map, a serving server is registered and an ended one
  is not, departures do not overlap, every started VM comes to serve and every leaving one gets
  out;
* **request flow**: a request is in one place; it is executed at most once, answered once, and
  never executed when reported dropped; it is answered in the end; the load balancer lists
  live servers only; the mid tier does not disappear;
* **mid tier**: it grows little further than the load calls for, however old the numbers are on
  which its servers decide and however many updates of `midCount` are lost, and it shrinks again
  when the load is over;
* **cache**: no piece is sold twice, and clients turn away only from items that are sold out;
* **master's loop**: it serves a bounded number of requests, decides on a scale-out once while
  booting, notices that VM 2 runs, and lets no request wait for ever.

## 2. Modules

| Module | Models |
|---|---|
| `Cluster` | registry and VM life cycle, with the counters' read and write steps and failing calls |
| `ServerRegistry` | what the registry promises the servers (abstract specification) |
| `ClusterProofs` | theorems about the counters and the map of `Cluster` |
| `RegistryProofs` | theorems about the servers in `Cluster`; it implements `ServerRegistry` |
| `RequestService` | what a client is promised (abstract specification) |
| `RequestFlow` | the way of a request, with failing calls; implements `RequestService` |
| `RequestFlowProofs` | theorems about `RequestFlow`, the refinement among them |
| `BalancerProofs` | theorem about the load balancer's list of `RequestFlow` |
| `MidTier` | growth and shrinking of the mid tier, with the servers' idle timers |
| `MidTierPolls` | `MidTier` with a history of each server's empty polls |
| `MidTierProofs` | theorems about `MidTier` |
| `StoreService` | what a buyer is promised (abstract specification) |
| `CacheTier` | cache and database under concurrent clients; implements `StoreService` |
| `CacheTierProofs` | theorems about `CacheTier`, the refinement among them |
| `Booting` | the master's main loop with a clock |
| `BootingProofs` | theorems about `Booting` |
| `MCCluster`, `MCRequestFlow`, `MCMidTier`, `MCCacheTier`, `MCBooting` | small instances for TLC |

The modules look at one program from different sides and share no state: the registry with its
races is in `Cluster`, where requests and times are free choices; `RequestFlow` follows the
requests and takes the registry as exact; `MidTier` and `Booting` have the times. `MidTier` has
the races on `midCount` as well, since its herd consists of the threads that race.

Operators whose comment begins with "Fault:" are altered copies of the definition that follows
them. They are not part of any specification; they serve to see that a property notices when
the code is changed.

### Cluster and ServerRegistry

A VM has one main thread. When it calls the master, an RMI thread of the master works while
the caller is blocked, so one `pc` per VM stands for both. `todo` is the list of tiers a thread
still has to start (for `handleBooting`'s row of `masterScaleOut` calls) or, in
`deleteVMFromMap`, the tier it is leaving. `newVM` is `scaleOutCore`'s local `vmId`, `reg` the
counter value read last.

`frontCount++` is `ReadIncrement` and `WriteIncrement`, `--` is `ReadDecrement` and
`WriteDecrement`; the latter two run under `masterLock`, the monitor of the master's Server
object (`deleteVMFromMap` is a synchronized instance method), the former under no lock.
`addVM2Map` is a static synchronized method, a different monitor, around one `put`: one step.
The queue lengths and times on which servers decide are free choices, so every order of
arrivals and departures is explored. `BootOutlasts` is the only timing assumption: if TRUE, a
VM is not up before its starter has left `scaleOutCore` (the cloud takes 5 s to boot one).
Without it a VM can ask for its tier before `addVM2Map` has run, gets -1, and stays idle for
ever (pc "unknown"); the runs assume it, the proofs do not, but for the properties that name it.

Up to `MaxFailures` calls fail. A failing `startVM` answers -1 (the library catches the
exception), which `scaleOutCore` registers and counts like an id (`AddVM2Map`: `phantoms`). The
cloud may have done nothing (`StartVMFails`), or it has started a machine and its answer is lost
(`StartVMAnswerLost`): the machine boots, its id is never registered, and `getTier` answers -1 to
it for good (`orphans`). A failing call inside a routine ends the
loop of its server, whose process stays up because of its exported objects (`ServerStops`); in
`slaveHandler`, and where `shutDown` does not find the master (379), nothing catches it, with the
same effect. A failing `deleteVMFromMap` is printed and the process exits: it stays registered
(`abandoned`). For these other calls an answer that is lost after the call was carried out needs
no action of its own: for `getTier` and `getVMCount` it is the failure itself, for `scaleOut` the
call and then the failure at the start of the loop, and after `deleteVMFromMap` the process exits
with and without the answer.

`raced`, `phantoms`, `abandoned` and `orphans` are history variables; the first has the tiers
whose counter has lost an update. Four properties name them as the only exceptions:
`CountExactUnlessRaced` says that a counter is off by lost updates and starts answered with -1
and by nothing else, `EndedIsUnregistered` that only a failed call of the server itself leaves it
in the map, `StartedIsRegistered` and `KnownWhenAsked` that of the machines that were started
only one whose own answer was lost is forgotten.

`ServerRegistry` has three moves per server: it is entered under a tier, learns that tier, and
is removed, in this order and each once. The mapping takes the entry from `id2TierMap` and the
tier learned from the server's `tierType` (`registryEntry`, `registryRole`); an entry that is
missing is "removed" for a server that has left, and "not yet there" for any other, so that an
entry removed too early, written twice or under another tier is no move of `ServerRegistry`.
The refinement is about `Slaves`: the master enters itself and reads no tier.

Java's memory model is taken as sequentially consistent reads and writes of the counters: a
stale read of a plain field by another thread is an older value, which is covered only in so
far as the read step may happen earlier.

### RequestFlow and RequestService

Front servers and the master have an InputQueue (`queue`), each server holds at most one
request (`hand`). The load balancer's choice (`NextFE`) and the delivery (`QueueRequest`) are
two steps, since the library picks the front server before it takes its lock: a server may
retire in between, and the client's call then fails. The server loops are followed call by
call: `frontScaleIn` reads the count, then the queue length; `midRoutine` reads the count, then
the length, then decides to leave or polls. `shutDown` is three steps in the order of the code:
unregister from the load balancer, unexport the InputQueue, leave the registry. A tier's count
is the number of its registered servers; the lost updates are `Cluster`'s subject.

Times are abstracted to choices: a mid server that has a `lastProcessTime` (set `clocked`) may
or may not have been idle for two seconds. `MidTier` and `Booting` have the clocks.

Up to `MaxFailures` calls fail, at every call of the code but `startVM` (`Cluster` has it). The
library prints the exceptions of `register_frontend`, `unregister_frontend` and of everything
inside `processRequest` and `drop`: the server goes on, unlisted, still listed (`stale`), or with
a request nobody will answer (`lost`). Exceptions of RMI calls end the loop of the server
(`ServerStops`), and so does `requestQueue.add(null)` when `getNextRequest` answers null: its wait
may end early. The booting master counts such a null as a request (`BootFetchNull`). A server
whose loop has ended stays registered and listed, and its InputQueue goes on taking requests.

`RequestService` has five moves per request (refuse, accept, execute, serve, drop). The mapping
`serviceState` computes the abstract state from the cloud's table, the client's outcome and the
history `executed`. A request whose answer is lost keeps waiting there, as the client does.

### MidTier

Each server's `midRoutine`, call by call: time and count, length, decision to leave, poll,
decision to scale out, processing or dropping. The code compares times at one place only that
matters here, the two seconds of `allowedIdleCycle`, so a time is "recent" or "old" (more than
two seconds ago), and `TimePasses` may age it between any two steps: `nowAge` for the routine's
`now`, `lastProcessTime` for the timer, which is set to `now` and inherits its age. `idle` holds
the outcome of the comparison at the routine's start. Servers run in `Slots`; a machine that was
started waits in `starting` until a slot is free. Requests in the queue are a number.

`midCount++` is `ReadIncrement` and `WriteIncrement`, in the RMI thread of a server's `scaleOut`
(the caller is blocked meanwhile, so the server's `pc` is that of the thread) or in the master's
main thread (`Master`); `--` is `DeleteVMFromMap` and `ShutDown`. Departures of mid servers
exclude each other by the monitor of `deleteVMFromMap`; those of front servers, which take the
same monitor, change `frontCount` and could only delay them. A write discards what others added
since the read: the history `lost` counts the `++` that are gone so. A `--` that is discarded
leaves the count too high, which makes nobody start a server. After lost `++` servers are up that
nobody counts; they may leave all the same, so `midCount` can become negative. `BootOutlasts` is
the same timing assumption as in `Cluster`, here: a machine that no thread has counted yet is not
up yet. No calls fail in `MidTier`.

`MidTierPolls` watches the same steps and notes who has polled in vain since its last request; it
is a module of its own as one property only (`LeavesOnlyAfterNulls`) needs it.

### CacheTier and StoreService

A client browses an item (price, then quantity), and purchases one piece at the price it was
told if the quantity was at least one. A `get` through the cache is `ContainsKey`, then
`CacheRead` or `DBGet` and `CachePut`, interleaved with all other clients. The master serves
requests directly against the database while it boots the first mid server, so a request may
also bypass the cache. `Transaction` is one step: the database's method is synchronized. The
cache is not touched by it.

`StoreService` knows no cache: a client is told the price and some quantity between what is left
and what there was, then gives up or purchases. In the mapping (`storeVisit`) a client has
an offer when its thread has both numbers and not before, so the steps inside `get` are
stutters, and a purchase and its refusal are one step each.

### Booting

`clock` advances between any two steps; `now` is what the routine read at its beginning and may
be old when it is used. The InputQueue is its length. `masterStartTime = Long.MAX_VALUE` is
`Never`, later than every clock value; `now` minus it is negative in Java too, without overflow.
`StepsToHead` numbers the program points by their distance from the next access to the head of
the InputQueue; it serves the property `HeadComesCloser` only.
The thresholds are constants; the ratio of rates (185, 250) and times (800, 1000, 3000 ms) is
kept by the configuration as far as a clock of about 330 ms per tick allows.

## 3. Runs

| Run | Instance | Shows |
|---|---|---|
| `cluster` | VMs 1..4, one failing call, `BootOutlasts`, fair | safety of the registry; no started machine but one with a lost answer is forgotten or asks in vain; `ServerRegistry` is implemented; started VMs serve, leaving ones end |
| `cluster_count` (violation) | VMs 1..5, no failure, `BootOutlasts` | `getVMCount` wrong for good after a lost update |
| `flow` | 2 requests, 3 fronts (with the master), 1 mid, one failing call | one place per request; the balancer lists live servers; `RequestService` is implemented; clients are refused in three situations only |
| `flow_live` | 1 request, 2 fronts, 2 mids, one failing call, fair | a request is answered unless stranded, the mid tier is gone, or the failure was about it; an empty mid tier stays empty |
| `flow_stranded` (violation) | 2 requests, 2 fronts, 1 mid, no failure, fair | a front server retires with requests in its queue |
| `flow_outage` (violation) | 2 requests, 2 fronts, 2 mids, no failure, fair | both mid servers leave, requests wait for ever |
| `mid_tier` | 2 mid servers at a time and the master's thread, queue of 1, burst of 1, one overlap of updates, `BootOutlasts`, fair | the herd is bounded; without requests the tier shrinks |
| `mid_idle` (violation) | as `mid_tier`, with the history of polls | a busy server leaves as idle |
| `cache` | 3 clients, 2 items, 2 pieces each | no overselling; staleness goes one way; `StoreService` is implemented |
| `cache_copy` (violation) | as `cache` | the cache is not write-through |
| `booting` | 7 ticks, 6 requests, fair | one scale-out decision, one late request at most, front servers spaced out, every step nears the queue's head, the queue drains |
| `booting_interval` (violation) | 8 ticks, 6 requests | the 800 ms rule measures the wrong interval |

Why these bounds are enough:

* *Cluster*: a lost update needs two threads at one counter: four VMs give the master, the two
  servers of the first start and one more, so that one server leaves while another thread starts
  one; the fifth in `cluster_count` lets two servers of a tier be left over with a wrong count.
  One failure is enough for each kind of drift, and a failed start of VM 2 shifts the ids.
  `MaxVM` counts ids handed out, never reused.
* *RequestFlow*: two requests allow one in a queue behind another and one in each of two hands.
  `flow` has three front servers to register, retire and be chosen in turn; two mid servers are
  what the joint departure needs, hence the instance of `flow_live` and `flow_outage`. Each has
  its one failure at any call. Thresholds are scaled down (`MidFactor` and `FrontFactor` 0,
  `ShortLimit` 0, limits 1 and 2) so that every branch is reached with so few requests;
  `ShortLimit` bounds `shortQueueCount`, above it only the comparison matters. Scaling out finds
  no server left when all are in use. The safety properties are proved without these bounds.
* *MidTier*: with a factor of 0.4 for the code's 3.3 a queue of one is too long for a count of
  up to two and short for three, so two servers that act on the same old numbers make the herd;
  the machines they start queue up in `starting` without bound but what the property says. The
  burst's thread and a server's, or two servers' threads, are enough for a lost `++`, and so is
  one overlap (`MaxOverlaps` bounds how often a thread reads `midCount` inside another one's
  update): in this instance `lost` becomes 1, `midCount` negative and the tier as large as six.
  With three slots and two overlaps the bound of `HerdBounded` without its term `2 * lost` is
  violated: three servers counted as one start three more. That instance is too large for the
  complete run; the theorem has all of them.
* *CacheTier*: three clients give two concurrent misses of one key and a purchase in between;
  two items expose a value stored under the wrong key; two pieces let an item sell out while
  stale quantities are about.
* *Booting*: the horizon covers a rate check, the burst and the raised limit, and waits longer
  than `DropInterval` and `AddFrontInterval` after it; six requests exceed the
  raised limit and make a burst's rate twice, so that a check that is not disarmed would start
  servers again.

`CHECK_DEADLOCK FALSE` stands in the RequestFlow, Booting and MidTier configurations, where
requests (and Booting's time) are finite, and a front server, or the master, waits in
`getNextRequest` when none come, or all mid servers have left; and in `MCCluster.cfg`, where the
master's loop may have ended and all slaves have left. `cluster_count` and the CacheTier runs
check for deadlock.

### Fairness

* `Cluster!Fairness`: each machine goes on: its boot, its main thread and the thread of the master
  that works for it. Java threads are scheduled, and the cloud boots what it was asked for. No
  fairness is given to a choice inside a routine (serve, leave, scale out), nor to a failure.
* `RequestFlow!FairSpec`: the cloud finishes a call it has begun, and each server's thread goes
  on. No client has to call and no call has to fail.
* `MidTier!FairSpec`: started machines boot, each server's thread and each update of `midCount` in
  the master goes on, and time goes on. That
  is needed for `TierShrinks`: a server leaves only when two seconds have gone by. No requests
  have to come.
* `Booting!FairSpec`: the master's thread only. VM 2 may boot for ever and time may stop.

### Disagreements between documents and code

* **Counters** (`cluster_count`): `getVMCount` is documented as the count of VMs of the tier. A
  `++` without a lock and a `--` under one can lose an update, and the counter is then wrong
  for the rest of the run.
* **Stranded requests** (`flow_stranded`): the README has all requests polled by front servers
  collected by the master. `frontScaleIn` looks at the master's queue only, and `shutDown`
  ends a server whose own InputQueue holds requests.
* **Mid tier gone** (`flow_outage`): two idle mid servers both read a count of 2 and both
  leave. `MidTierNeverReturns` (`flow_live`) says that nothing starts a mid server afterwards.
* **Busy servers leave** (`mid_idle`): the write-up (section 4.2) has a mid server shut down when
  it keeps getting null requests for two seconds. The code measures from the routine entry of the
  last processed request, and checks before it polls, so a server that spent the time on one
  request, or dropped requests, leaves without any null.
* **Cache** (`cache_copy`): called write-through; `transaction` passes it by. `cache` shows why
  this costs refused purchases and nothing worse.
* **800 ms rule** (`booting_interval`): compares entries of the routine instead of processing
  times.
* Plain differences of constants, for which no run is needed: a burst starts four mid servers
  (266-269) where README and javadoc say three (253); the limit becomes 25 after a burst (270)
  where they say 15 (252); `dropFastRequest` uses 20 requests (303) and 400 ms (21) against 10
  and 500 (291); `frontScaleIn` 55 cycles (241) against 100 (229); `frontFactor` is 2.9 and
  `addFrontInterval` 3000 where the write-up says 3.0 and 4000. The write-up's section 3.2 has
  the mid tier scale out "one" server on a long queue; each server of the herd starts one
  (`HerdBounded` says how many that can be).

## 4. Proofs

All theorems hold for every value of the constants under the ASSUMEs of the modules, which only
type the constants and order some of them.

**Cluster** (`ClusterProofs`; any `MaxVM >= 3`, any burst, any number of failing calls, with or
without the timing assumption). The properties of counters, map, lock and ids follow from one inductive
invariant, `IInv == TypeOK /\ StructInv /\ CountExactUnlessRaced /\ LeftInv /\ SecondInv`.
`CountExactUnlessRaced` is not inductive alone: a step of `WriteDecrement` changes the sets it
counts, and one has to know that the thread is one of them and that its tier is in its `todo`
(`WorkInv`); `AddVM2Map` adds one member and one incrementing thread only if the id was absent,
which needs that ids are handed out once and registered once (`AddInv`, `BootInv`);
`MasterHandler` counts the master, which must not be in the map yet (`MasterInv`); a removal must
hit the server's own tier (`ServingInv`), and `LockInv` gives the exclusion. `LeftInv` adds that
the id a thread is about to register belongs to no server that has left already, and
`SecondInv` follows id 2 from the cloud's counter through `newVM` into the map. The proof has a
lemma for the types, one for the structural part, and for the counting part one lemma per action
that changes a counter or the map, resting on two facts on cardinalities; all other actions leave
the counted sets as they are (`QuietStep`, `ReadStep`). A failed start, with or without a machine,
puts -1 into `newVM`, which `AddInv` and `LeftInv` leave aside.

`RegistryProofs` adds what is about the servers, `RegInv == StartedIsRegistered /\ AskInv /\
FreshInv /\ FrontInv`, on top of `IInv`. `LeftForGood` (a server that has left stays away and
keeps its tier) is what most of it rests on. With it `StartedIsRegistered` is inductive as it
stands: only `AddVM2Map` empties a hand that holds an id, and it enters that id; an id that is
given out and reaches no hand becomes an orphan in that step, and orphans remain (`OrphansGrow`).
`KnownWhenAsked` is not inductive: one has to know that a machine at its question is in the map or
an orphan (`AskInv`), and there the timing assumption is used, together with
`StartedIsRegistered`: a machine that comes up is in nobody's hand and has not left. `FrontRaceNeedsDeparture` needs that slaves start mid servers
only, and that the master's register agrees with `frontCount` between its read and its write as
long as no front server has left (`FrontInv`). For the refinement of `ServerRegistry`, `OneServer`
says that a step changes the entry and the tier of one server at most, and `RegistryStep` goes
through the actions: `AddVM2Map` enters, `GetTier` learns, `DeleteVMFromMap` removes, all others
stutter; `FreshInv` says that the tier is learned once.

**RequestFlow** (`RequestFlowProofs`; any requests, servers, thresholds and number of failing
calls). `IInv` has five parts: `Shape` (types, the positions each role may be in, who holds a
request, the booting master's limit), `ListInv` (an unexported server has left the balancer's
list or failed to, and entries are distinct), `Distinct` and `Placed` (a request that is owed an
answer is somewhere, and nowhere twice), and `AnswerInv` (what the database and the client have
seen of it). Lemma `Moves` says that every step moves one request (into a queue, from a queue to a
hand, on to the master's queue, out of it, out of a hand) or none, and `Distinct` and `Placed`
are proved for the moves. From `IInv` follow `TypeOK`, `BalancerListsLive`, `OnePlace` (the set of
places is a singleton or empty), `MidTierNeverReturns`, and the refinement: `AnswerInv` gives the
state `RequestService` sees, and every step changes it by one of its moves or not at all. `BalancerProofs` proves
`RefusedOnlyInGap`: the client's call fails for an empty list in `NextFE`, and the list is not
empty because the master is on it (`MasterListed`): its call to register may fail, but then a
failure is counted, and no step but its own `unregister`, which it never makes, takes it off.
`NextFE` moves entries to the end and `shutDown` removes another server's.

**MidTier** (`MidTierProofs`; any slots, queue bound, factor, burst and overlaps of updates).
`HerdBounded` is not inductive: a server that has read an old count will start one more server
later. `HerdInv` counts those that may, for every threshold c: the size of the tier plus the
servers that have read a count below c and have not decided yet (`Deciding`) stay below
2c + burst + 2 lost. When one of them scales out, it leaves that set and the tier grows by one;
it does so only if it has read a count below c (`LongOnlyBelowEnough`, with `PeakInv` for the
length it read). The step that needs an argument is the one in which a server reads a count below
c and joins the set (`HerdJoins`). Then the tier is hardly larger than the count: `LostInv` says
that it exceeds `midCount` by no more than the machines whose `++` is under way and the `++` that
were lost. `UncountedBoots` says that the former still boot, which is where `BootOutlasts` is
used. So the running servers that are not in a `++`, and with them the set, are at most what
`midCount` and `lost` account for, and tier and set together stay below twice of it; the master's
own `++` is covered by the burst (`MasterInv`). `Accounts` tells for
each action what it does to `midCount`, to the tier and to the updates under way; the proofs of
`LostInv` (`LostStep`) and `UncountedBoots` are arithmetic on its cases.

**CacheTier** (`CacheTierProofs`; any clients, items, stock, prices). `NoOversell` (no more
sold than there was) is not inductive: it follows from `Ledger` (a piece is in stock or sold) and
from `TypeOK`, by which the stock is not negative. Each is kept because the database looks at the
stock in the step that lowers it: without that look `TypeOK` breaks, with a new stock computed from
a copy `Ledger` does. `IInv` adds to these what the map and each thread may hold: a price is the price, a quantity is
no less than the stock (`MapInv`, `RequestInv`). Since the stock only falls, every value read
once remains allowed, whatever order the puts take.

For the refinement of `StoreService` the quantity told must lie between what is left and what
there was: both bounds
are in `Allowed`, which `MapInv` and `RequestInv` apply to every entry of the map and every value
in a thread's hand.

**Booting** (`BootingProofs`; any thresholds, limits and horizon). Needed beside the checked
properties: the queue is no longer than what arrived, a thread past the limit test has room for
one request (`LimitInv`), an armed rate check has started nothing (`ArmedInv`), and after a late
request the master is past the branch that serves (`LateInv`). `FrontsSpacedOut` follows from
`SpacedInv`, the same bound with `lastAddFrontTime` for the clock and without the front server of
a burst that has not come yet. `HeadComesCloser` is an action property, proved from `TypeOK`: it is
the part of `QueueDrains` that needs no fairness, for a step of the master that is not at the
head brings it closer, and five such steps are the longest way.

Only model-checked: liveness (`StartedServes`, `LeavingEnds`, `AnsweredOrLost`, `TierShrinks`,
`QueueDrains`), as fairness and ENABLED are beyond the prover. The violations are
counterexamples of TLC.

## 5. Not modelled

* `Cache.set`, which nothing calls; absent database keys; categories.
* `dropFastRequest`'s count of requests in quick succession: a server with a recent
  `lastProcessTime` may drop any request. Only the number of drops depends on it.
* The InputQueue's monitor: each of its calls is one step, a spurious wake-up is a null answer.
* In `RequestFlow`, a failure of the cloud's own call of `queueRequest` (the front server's
  InputQueue is unreachable although it is listed) apart from a server that has unexported it;
  in `MidTier` and `Booting`, any failing call: `QueueDrains` is about a loop without one, since
  an exception, or a null from `getNextRequest`, ends the loop and leaves the queue as it is
  (`ServerStops` of `RequestFlow`).
* A crash of the master or of the RMI registry: nothing in the code notices or recovers.
* That an idle front server should leave: it blocks in `getNextRequest` (224) and reaches
  `frontScaleIn` only with its next request. The write-up counts cycles of that loop, so nothing
  is promised that the code would break; the hazard is listed without a property.
* The billing and statistics of the library's Cloud, the arrival process of ClientSim.
* `src/sample` (an example), `Makefile`, `run.sh`, and the generated `src/doc` with its vendored
  jQuery.

## 6. Plan

Written first: the registry (most shared state), the request flow with its abstract service, the
cache, the master's clocked loop. Then failing calls in registry and request flow, the mid tier
with its idle timers, and the proofs about the request flow, its refinement included. Then the
promises of registry and store as abstract specifications with their refinements proved, and the
proofs about forgotten machines, refused clients and the spacing of front servers; last the lost
answer of `startVM` and the races on `midCount` inside the herd. What is left:

1. `Cluster` and `RequestFlow` composed: decisions on drifted counters (a count too high, after a
   lost update or a failed start, lets the last server of a tier leave).
2. An abstract specification of the tier's size that `MidTier` implements, and the safety half of
   `TierShrinks` and `LeavingEnds` (each step of a departing server brings it closer to its end)
   as action properties, which can be proved as `HeadComesCloser` is.
3. `InputQueue` as a component of its own: the library's monitor with several waiting threads.
