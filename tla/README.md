# A verification development of the Emerald virtual machine

Emerald is a distributed object-oriented language. This repository holds its
virtual machine (`vm/`, C), the program that generates the interpreter from the
description `vm/vm.d` (`vmc/`, C), the compiler (`EC/`, Emerald), the built-in
objects (`Builtins/`, Emerald), C call extensions (`ccalls/`) and build scripts
(`bin/`, `lib/`, `style/`).

Three things make the machine hard to get right. On one node, many Emerald
processes share objects that are protected by monitors, conditions and `accept`,
and the interpreter hands them over by moving C pointers between queues. Between
nodes, objects move while they are invoked and searched for, and nodes die. Under
both, a collector moves the objects, and tables keyed by their addresses, stacks
without tags and files of indices have to follow. The models are of these.

## 1. Inventory

`PROJECT.json` lists every component with its sources and status, and the
`hazards`: what is hard to test in this code, each at its line, with the property
meant to catch it. In short:

### On one node

| Component | State it keeps | Operations | Correct when |
|---|---|---|---|
| Process queues, `squeue.c` | a circular array `table`, `size`, `first`, `count` | insert, insert in front, yank, remove | it acts as a sequence through wraps and expansions |
| Incoming messages, `mqueue.c` | the same with both ends | insert, remove | it is a FIFO; a full table is not taken for an empty one |
| Scheduler, `main.c`, `creation.c` | the ready queue, the running interpreter, the set `running` | dispatch, `makeReady`, poll | each live process is in one place, once |
| Monitors and conditions, `vm.d` | `busy`, `waiting` of each monitor, `waiting` of each condition | `MONENTER`, `MONEXIT`, `CONDWAIT`, `CONDSIGNAL`, `CONDSIGNALANDEXIT` | one process inside, the lock is passed on exactly once, no entrant is forgotten |
| Accept (`SYNCH...`, `ACPTBLCK` in `vm.d`, `findAcceptable` in `misc.c`) | `busy` with four values, the entry queue | enter, exit, accept, the end of the object's process | as above, only an accepted operation runs, and callers go in their turn |
| Failure handling, `debug.c` | the frozen flag and `RDead` | `findHandler`, `maybeKillObject`, `breakMonitoredObject` | everything that waits for a broken object fails |
| Debugger, `debug.c` | breakpoints with the bytes they replace, the step under way | set, delete, step, interrupt | the code can always be had back; a breakpoint is there when code runs |
| Freezing and `initially`, `call.c` | the frozen flag, the fix queue of each frozen object | `freeze`, `thaw`, `invokefrozen`, `tryToInit` | an object is initialised once before others enter it; a queued process is released |
| Timers, `timer.c`, `delay` | a list ordered by wake-up time, the alarm, its flag | insert, expire | nobody wakes early or never; the machine does not end before |
| Tables (`iset.c`, `iisc.c`, `oisc.c`, `otable.c`, `oidtoobj.c`) | open addressing; chains with an overflow area; one array with chains by id and by address | insert, lookup, delete, loops that delete | a finite map; a loop meets everything |
| Local collector, `gc.c` | two generations, the remembered set, marks | copy, promote, mark, compact, purge the object table | what is used survives; a promotion has room; what moved is where its references say |
| Stacks, `call.c`, `misc.c` | segments of activation records, variables without tags | invoke, link, return, new chunk; find the roots | every word that refers to something that moves is found for what it is |
| Checkpoints and messages, `read.c`, `write.c` | the objects to write, by index; relocations | traverse, write, read, translate, restore in passes | what is read has the shape of what was written; references across files are filled in |
| Streams, `streams.c`, `bufstr.c`, `filestr.c`, `emstream.c` | buffers in pieces, blocks, a pending read | write, flush, read, seek, wait | every byte, once, in order, also when processes read inside each other's wait |
| Type conformity, `conform.c` | pairs assumed or known | `conforms`, `VIEW` | the greatest relation that satisfies the rule |

### Between nodes

| Component | State it keeps | Operations | Correct when |
|---|---|---|---|
| Transport, `dist.c`, `io.c` | connections by descriptor, `others`, a cache | connect, accept, send, receive, break | the right node gets each message, in order |
| Dispatch, `remote.c` | the record of each node, where each stub points | `doRequest`, `forwardMsg`, `nukeNode`, `doObjectRequest` | a message reaches its object or its sender hears that it cannot |
| Location, `locate.c` | per object: stage, round, `outstandingRequests`, waiting states and messages | request, reply, `locateHandleDown` | every search ends; what waits for it is answered; a present object is found |
| Remote invocation, `rinvoke.c` | the segment that waits for its reply (`nstoid`) | invoke, forward, reply, `invokeHandleDown` | one thread, run once; each call returns or fails |
| Mobility, `move.c` | `RESDNT`, fixed objects, activations of a moving object | move, third-party move, fix, refix | an object and each thread are at one node; links between segments survive |
| Gaggles, `gaggle.c` | the member list of each gaggle, per node | add, delete, update | the nodes come to agree on the members |
| Distributed collection, `distgc.c` | greys, blacks, rounds, per-node status | start, grey messages, answers, finish | what is referred to stays; garbage goes, also in circles |

### How they interact

A process that runs on a node calls `makeReady`, the queue operations and the
monitor instructions directly. An invocation of a non-resident object, a move or
a `locate` takes its process off the interpreter and sends a message; the main
loop (`processEverythingOnce`) runs one ready process until it blocks, then
serves the incoming messages. A handler may start a search (`findLocation`),
which keeps messages and processes until `locationResolved`. A connection that
breaks calls `nukeNode`, which tells `rinvoke.c`, `locate.c`, `move.c` and
`gaggle.c`. Nothing in `vm/` preempts a process (`TIMESLICE` is defined by no build
file) and a handler runs to its end, with two exceptions: `doObjectRequest` serves
messages while it waits for an object, and a stream that waits for input runs the
interpreter.

## 2. Modules

| Module | What it is | Of |
|---|---|---|
| `AbstractQueue`, `AbstractTable`, `HoareMonitor` | what a queue, a table, a monitored object promises | `squeue.h`, the tables' headers, the order given by `vm.d` |
| `SQueue`, `RuntimeProofs` | the circular array; proofs about it, `MQueue`, `Timer` and `Transport` | `squeue.c` |
| `MQueue` | the array of incoming messages | `mqueue.c` |
| `HashSet`, `OverflowTable`, `ObjectTable` | the tables, each a refinement of `AbstractTable` | `iset.c`, `iisc.c`; `oisc.c`; `otable.c`, `oidtoobj.c` |
| `Queues` | what is said of a queue of processes, with lemmas | `squeue.c` |
| `Monitor`, `MonitorProofs` | scheduler, one monitored object, failures; proofs | `main.c`, `vm.d`, `debug.c`, `call.c` |
| `Accept`, `AcceptProofs` | an object with accept statements, its callers and its process; proofs | `vm.d`, `misc.c` |
| `Initially`, `MCInitially`, `InitiallyProofs` | the initially of one object and who finds it frozen; proofs | `call.c`, `vm.d`, `debug.c`, `read.c` |
| `Timer` | the event loop, its clock, delays | `timer.c`, `main.c`, `io.c`, `jsys.c` |
| `Debugger`, `DebuggerProofs`, `LineTable` | breakpoints and steps, and proofs; the table of lines, written and read | `debug.c`, `vm.d`; `EC/bytecode.m` |
| `Locate`, `MCLocate`, `LocateProofs` | the search for one moving object among nodes that die; proofs | `locate.c`, `remote.c`, `rinvoke.c`, `move.c`, `dist.c` |
| `Migrate`, `MCMigrate` | threads that cross nodes while objects move under them | `rinvoke.c`, `move.c`, `call.c`, `remote.c` |
| `ObjectRequest` | immutable objects fetched inside handlers | `remote.c`, `read.c` |
| `Membership` | which nodes and gaggle members a node knows | `remote.c`, `gaggle.c` |
| `Transport` | connections, and callbacks inside callbacks | `dist.c`, `io.c` |
| `DistGC` | the distributed collection | `distgc.c` |
| `Heap`, `Compaction`, `Stack` | the generations; where old space's objects go; what is on a stack | `gc.c`; `gc.c`, `iixsc.c`; `misc.c`, `call.c` |
| `Checkpoint`, `Restore` | one graph of objects written and read; files read in passes at the start | `write.c`, `read.c`, `jvisc.c`, `joveisc.c` |
| `Streams`, `EmStream` | the machine's streams; those of Emerald programs | `streams.c`, `bufstr.c`, `filestr.c`; `emstream.c`, `io.c` |
| `Conform` | conformity, against a greatest fixpoint | `conform.c`, `oidtoobj.c` |
| `ObjectProofs` | proofs about `Heap`, `ObjectRequest`, `Streams` and `HashSet` | |
| `MCStructures`, `MCStore`, `MCProcesses`, `MCNetwork`, `MCPlaces`, `MCObjects` | what is checked together in one run | |

A module that needs another one's component takes it by what that one promises:
`Monitor`, `Accept`, `Initially`, `Migrate` use sequences for queues, which is what
`SQueue` is proved to implement, and channels that are FIFOs, which `MQueue` is
proved to implement and `Transport` to deliver in order. `Migrate` takes a search
to be one step with the outcomes `Locate` allows. `Heap` keeps objects where they
are; where they go is `Compaction`, who follows is `Stack` (stacks), `HashSet.Move`
and `ObjectTable.Overwrite` (tables). `Debugger` reads lines as `LineTable` gives
them.

Each definition that translates code is listed in `map` with its lines. The
operators that `mutants` names under `as` stand beside the ones they are wrong variants
of; they show that each property can fail, and no specification uses them.

**Runs of several components.** The `MC` modules of the last row instantiate each
component with values of its constants. The variable `part` is chosen initially and
says which component takes steps; the variables of the others are `"off"` (of the
module that is extended, they keep one initial value). The reachable states are the
disjoint union of those of the components, so each is checked exactly as it would
be alone, and a property is stated of the part it is about. It groups what one
question asks, and is not a claim about interplay.

### Variables and fields

*SQueue, MQueue.* The fields of the C records. `table` is a function from slots, so
an index outside the array is an error for TLC; `Junk` is what `realloc` leaves in
the new half. `result` is what the last call returned. `Contents` reads the queue
from `first` on and is the refinement mapping.

*HashSet, OverflowTable, ObjectTable.* The arrays by index, `NoEntry` or `NIL` in an
empty slot; hashes are numbers modulo the size. `loop` is a running `ForEach`, with
what it has met. `AsMap`, the refinement mapping, looks every key up by the code's
own lookup. An object's address in `ObjectTable` changes as the collector moves it.

*Monitor.* `busy`, `waiting` and `cond[c]` are the object's monitor and its
conditions; `ready`, `current` (`state` of the interpreter, `NoProc` between two),
`asleep` are the scheduler; `at[p]` is where `p`'s program counter and stack are;
`broken` is frozen for `RDead`; `fuel[p]` bounds the instructions `p` may start. Each
instruction is one action, as nothing preempts it. Which of the processes a
failure meets is saved by a handler further out is a choice.

*Accept.* `busy` as the comment of `SYNCHINIT` has it (1 locked, 2 the process is
alive), `opp` is `state->opp`, `type` the acceptable operations of the statement the
process is at, `at[Server] = "accept"` that it will execute `ACPTBLCK` again. An accept
of `Any` is the set of all operations. The scheduler is `Monitor`'s.

*Initially.* `frozen` are the object's bits in `allfrozen`, `fixq` its entry in
`fixqueue`, `stack[p]` its frames on `p`'s stack. `Init` has the four ways an object
gets its initially: `lazy`, `active`, `scheduled`, `created`.

*Timer.* `clock` in microseconds of a short second (`Base`); `alarm`, `timeAdvanced`
the signal and its flag; `sleepers` the list; `pc` where the loop is, so that time
passes and the signal comes between any two of its steps.

*Debugger.* `code` per site, `breakpoints` per slot; `at` whether the user is asked.
*LineTable.* The string of marks, and per byte the line it was generated for.

*Locate.* `alive`; `up[n]` the nodes whose record says up; `loc[n]` is `RESDNT` and
the node in the stub; `search[n]` the `locationRecord`; `net[<<m, n>>]` the connection
and `n`'s queue. `Crash` is a death nobody knows of; `NodeDown` the moment a node
notices, all of `nukeNode`. A node that starts again counts as another node.

*Migrate.* `node[n]` has its objects (`here`, `fixed`, stubs), `seg` (the `State`s, each
with its activations, `psoid`, `nsoid`, `nstoid`), `ready`, and `panic` for an assertion
that ends the node. `used` and `budget` bound calls, moves, sleeps, switches by waits,
and deaths, in combinations (below). The reply to a move has a status: a bad one is a
failure of the mover where it stands (`move.c:325`), which a handler of a segment may
catch or which unwinds and ends it. At the node where `move` was called, `moveDone`
only wakes the mover, whatever the status.

*ObjectRequest.* `handlers[n]`: the handlers that have begun, innermost first; only the
innermost goes on. A message that mentions an object may be passed on unread, and a
collection may take objects nobody refers to (`purgeObjectTable`), so that who is asked
may not have the object; `unknown[n]` are the answers "not found" that `n` has traced.
The handlers of invocations, replies and moved activations hold collections off while
they run (`anticipateGC`), those of object replies do not: a collection while only such
handlers are under way is counted as `Late`. `Mention` stands for the messages of the
first kind; a gaggle's update or a locate that needs a type of its own is not one.

*Membership.* `up[n]` what `n`'s records say of the others, `list[n]` its members of the
gaggle, `handlers[n]` as above. *Transport.* `fd[n][f]` a descriptor with its other
end, what has arrived, its handler and the `ri` of that; `local[n]` per call of
`checkForIO` the descriptors its `select` found; `forgotten` remembers the pairs for
which a sender connected over the descriptor whose end it was just reading. *DistGC.* `g[n]` the static
variables of `distgc.c`.

*Heap.* `heap` has generation, age, remembered and reference per object; `stack`
the roots; `want` the request that is collected for. *Compaction.* Addresses and
sizes in words. *Stack.* Words as records of what they are in truth, which the
collector's own reading must find out. *Checkpoint.* `todo` the indices, `stream` the
records. *Restore.* The same for several files, by address. *Streams.* The buffer's
pointers as indices. *EmStream.* `calls` the operations under way, one on top of the
other, as on the C stack; `handlers` how many of them have their handler on the
descriptor's stack (`prev`, `io.c:100`), `data_available` the one flag they share.

## 3. Runs

All runs are exhaustive.

| Run | Parts | What it shows |
|---|---|---|
| `structures` | `SQueue`, `MQueue`, `HashSet`, `OverflowTable`, `ObjectTable`, `LineTable`, `Debugger` | `TypeOK` and `RefinesAbstractQueue` of `SQueue`; `StructuresRefine`: the others refine `AbstractQueue`, `AbstractTable`; `WellFormed`: ends and counts, probes, overflow chains, both chains of the object table and its free chain agree; `LoopsMeetAll`: a loop that deletes meets each element and moves on; `DebuggerIsTrue`: lines are told, breakpoints are on the line, the code can be had back |
| `store` | `Compaction`, `Checkpoint`, `Restore`, `Stack`, `Streams`, `EmStream`, `Conform` | `Compacted`, `CopiesAgree`, `Restored`, `RootsFollowed`, `BuffersAgree`, `BytesInOrder`, `TypesConform`, as section 1 says of each |
| `processes` | `Monitor`, `Initially`, `Accept`, `Timer` | `MutualExclusion`, `BusyMeansHeld`, `OnePlace`, `RefinesHoareMonitor`, `EntrantsServed` of a monitor; `InitialisedFirst`, `FixQueueServed` of an initially; `AcceptedAlone`, `CallersServed` of accept; `InTime`, `DelayEnds` of delays |
| `places` | `Locate`, its nodes alive, `ObjectRequest` | `AnsweredOnce`: nobody who joined a search is lost or answered twice; `AggressiveEnds`; `AskedIsComing`: what a handler waits for is under way or the node asked has said it has it not, and has it while nothing is passed on or collected; it is made once, its types first; `HandlersEnd` |
| `network` | `Locate` with a death, `Membership`, `Transport`, `DistGC` | `OneCopy`, `AskedAreUp`, `NotGivenUp` of a search; `GagglesAgree`; `RightNodeInOrder`; `GarbageGoes`: what is referred to stays, garbage goes |
| `objects` | `Migrate`, `Heap` | `OneThread`: one token per thread, one copy per object, the ready are at home; `LinksHold`; `CallsEnd`; `NoneDangles`: nothing used is freed, old pointers to the young are remembered, a promotion has room; `OnlyCopiesLeaveTheTable`; `RequestsEnd` |
| `locate_told`, `monitor_break`, `initially_once`, `migrate_freed`, `stack_stub` | one module each | *violated*: the findings of section 5 |

### Bounds, and why they are enough

- Arrays start at 2 slots (1 doubling to 2 for messages) and reach 5 elements: two
  expansions, with `first` at every slot and the wrapped part of every length. Keys
  of the tables are chosen to collide, to wrap, and to land in each other's home.
- Three processes give an owner, a signaller and an entrant, or one that runs an
  initially, one that waits, one that comes later; two conditions tell a condition's
  queue from the object's. Accept has three callers and two operations: one
  accepted past another, one behind. Two delays and the machine's own timer, with two
  lengths, meet due-together, before and after every reading of the clock.
- Three nodes give an origin, an object that moves, and a third party: cycles of stale
  stubs of length two and three, a forwarded reply, a sender that is neither. One death;
  what the dead node had sent is still served, or its end lost. `Tries = 2` (5 in the
  code) has a first round, a last, and the decision between.
- `Migrate`: two objects, two threads that call each other's object, depth 3. Its budgets
  are two calls and a move; a call and two moves; two calls and a death; a move,
  a sleep, a switch and a death. `migrate_freed` uses a budget of its own.
- `ObjectRequest`: three nodes, two objects of one concrete type, two ways they are spread
  at first; two messages that mention an object, of which one may be passed on, one
  collection between handlers and one late: nested fetches of the same type, requests that
  cross, nodes asked for what they never had and for what they have lost.
- `Transport`: two descriptors per node beside the listener, so that they are used
  again at once; two messages per pair, one death, one nested callback.
- `Heap`: three objects (two with ids, one immutable, one that must be allocated in old
  space), 5 words of old space: promotion, the reserve and exhaustion occur.
- `Compaction`: up to 5 objects of 2, 3 or 5 words, live or not: every hole and filler,
  also of the smallest size. `Stack`: segments of 22 words, three activations, so that
  a new chunk is needed; two collections, each moving one of three sets of things;
  of the words of the bottom record itself only the stub it returns to is moved, in `stack_stub`.
- `Streams`: buffers of 4 bytes, pieces of 2, up to 11 bytes: three buffers, each
  boundary inside and at the end of a piece. `EmStream`: two processes, one inside the
  other's wait, three bytes of input in any portions.
- `MCStore`: two small files that refer to each other, with what may be folded,
  made, recovered or initialised; every pair of types that refer to
  themselves and each other, in up to two operations of up to one argument and result.

`CHECK_DEADLOCK FALSE` everywhere: a node may really have nothing to do. All
processes ended, or wait for what nobody will do; all searches are over and no more
are begun; a table has reached the bound on its contents.

### Fairness

Only the runs with liveness properties state any, and only of the machine itself.
`processes`: weak fairness of the main loop's turns (`Turns`, `Loops`), which
`processEverything` takes until there is nothing to do, and of time (`Ticks`); each
process has finitely many instructions. `places`: weak fairness of serving a message
and noticing a broken connection (`Serves`), and of the handlers (`Works`): the main
loop takes one message after the other, `read` and `write` on a broken connection
fail. `objects`: weak fairness of the nodes' loops (`NodesTurn`) and of the collection
a request calls for (`Takes`), which `gc_malloc` runs at once. Nothing is assumed of
programs: calls, moves, deaths and requests need not happen. A weak fairness of a
whole part is enough where nothing can go on for ever beside what is waited for,
since what is begun is bounded.

### Exceptions the properties make

Where the code is known not to keep a promise, the property names the exception
rather than the model leaving it out:

- `FixQueueServed`: the object's initially failed, the object broke, or the process
  waits for itself. `CallersServed`: an accepted operation failed before
  (`maybeKillObject` looks for `MONENTER` only, `debug.c:1426`).
- `NoneLost` (in `AnsweredOnce`), `AggressiveEnds`, `HandlersEnd`: while no node dies. With
  a death a late `not found` can empty the set of an aggressive search unnoticed
  (`locate.c:365`), a message may be dropped (`locate.c:115`), and nothing ends the
  wait of `doObjectRequest` (`remote.c:836`).
- `HandlersEnd`: a node that was told "not found". `handleObjectReply` only traces the
  answer (`remote.c:793`) and the loop at `remote.c:835` goes on, with all nodes up. Nor
  when a collection took, while a reply was read that nobody waited for, what had
  come before the loop looked (`gc.c:1136`, `read.c:1375`); the same collection is the
  exception of `AskedIsComing`.
- `OneThread` and `LinksHold`: nodes run (one that failed an assertion has no links to
  speak of) and no process switched by a wait or slept. With
  a switch, `running` holds the wrong process (`move.c:676`) and a moved object's
  process runs on. `CallsEnd`: the same, and not both a move and a death.
- `GagglesAgree`: except for a maker that died while it told, a deletion that overtakes
  an addition waiting for its type (`remote.c:1106`), nodes that join meanwhile, and a
  dead node that old news made live again (`remote.c:653`).
- `RightNodeInOrder`: a pair is `forgotten` when the notice of a broken connection
  connects over that same descriptor: `nukeother` then takes the new entry away with
  the old ones (`dist.c:351`), and the next message goes over another connection.
- `GarbageGoes`: a reference from a passive node to an active one is lost to the
  collection (`read.c:1110`), and those that came before it began.
- `InTime`: `Edges = FALSE`; `TimePlus` leaves a sum of exactly one second uncarried
  (`timer.c:140`), `setitimer` refuses that, and the alarm never comes.
- `Restored`: no variable has a concrete type that comes with a later file (`read.c:566`
  notes the offset of the value for that of the type), and no operation that has an id
  of its own is folded (`read.c:461` tests that only of strings).
- `CopiesAgree`: of what does go along; see `write.c:51` in section 5.
- `TypesConform`: relative to `conform.c` as it is compiled: numbers of results are
  not compared, and `!a->d.flags & AT_ISIMMUTABLE` (`conform.c:148`) is always 0.
- `DebuggerIsTrue`: a failure that has a handler leaves the breakpoints out
  (`debug.c:1592`).

## 4. Proofs

All are checked by TLAPS down to the last leaf, for all values of the constants
that satisfy the module's assumption, which TLC evaluates on the runs: an `ASSUME` of
`SQueue` (a positive initial size), `Monitor` (the value for "no process" is not a
process), `Locate` (the values for "nowhere" and "no answer yet" are not nodes, the
invocations are finitely many, each starts at a node, at least one round, bounds in
`Nat`) and `Heap` (below); a definition `ConstantsOK`, which the theorems have as a
hypothesis, of `Initially`, `Accept`, `Debugger`, `ObjectRequest`, `Streams`, `HashSet`, `MQueue`,
`Timer` and `Transport`. The proofs of modules that need no module of their own are
collected in two: `RuntimeProofs` (queues, clock, connections) and `ObjectProofs`
(heap, fetched objects, streams, hash tables).

`RuntimeProofs`, queues: `TypeCorrect` is `Spec => []TypeOK`; `TypeOK` is inductive as it
stands. `Refinement` is `Spec => RefinesAbstractQueue`: one lemma per operation says
which step of `AbstractQueue` it is, and they rest on lemmas on the index
arithmetic: `Wrap` is injective on the live elements, an expansion keeps
`Contents`, a yank closes the gap. `MessageQueue` is the same of `mqueue.c`, from
`MessageEndsAgree` (`Ends`): `firstempty` is `firstfull + count` round the table, also when
the two are equal because it is full, which is what makes the copying of the slots
below `firstempty` the right expansion. It assumes that `2 ^ LogInitSize` is a positive
number, a fact on powers that the provers do not have; `WellFormed`'s further part, that
the size stays a power of two, is left to TLC.

`RuntimeProofs`, timers: `CallbacksInTime` (`NeverEarly`) and `SleepersAreWoken` (`AlarmComes`,
`NobodyLeft`) from `Timely`: the list is in order, has each process at most once and as many
as `nProcessesDelayed` counts, and while somebody sleeps there is the flag to see or the alarm
to wait for (`SetFor`). For any second, delays and interleaving of clock, signal and loop.
`AlarmComes` is of `Edges = FALSE` (section 3, `InTime`), and delays are positive, since
`delay` returns at once for what is below its resolution (100 microseconds).

`RuntimeProofs`, connections: `MessagesToTheRightNode` (`RightNode`) and `MessagesInOrder`
(`InOrder`), for any number of nodes, pairs that send, descriptors, deaths and depth of
callbacks in callbacks, from

    NetInv == NetTyped /\ Linked /\ Ordered

- `Linked` is of the descriptors and the tables. `SocketsOK`: both ends of a connection
  have each other, or one is closed because the other's node stopped; all data of a
  descriptor are from one node, with the epoch first. `BacklogOK`: what waits to be accepted is a
  descriptor of a running node that waits for it, once. `TableOK`: each entry's descriptor
  is open and, where the entry has an id, belongs to that node, except for the descriptor whose
  entries are still to be removed after the call in progress; `CacheOK`: the entry last
  used is the first of its node.
- `Ordered` is of a pair of nodes: what has been read is in order and below all that is under
  way, messages of the pair are under way on one connection only, and that is the one the
  sender's table has first for the receiver (`OrderOK`). It is this that lets two nodes
  that connect at once go on with two connections: a sender stays with the first.

`Linked` is what `Ordered` needs so that the removal of entries takes none that messages are
under way on. The one step that breaks it is named in the model: a notice that connects over
the descriptor just closed (`forgotten`, section 3). TLC checked `NetInv` on a run of five
million states before it was proved.

`ObjectProofs`, heap: `NothingDangles` (`Remembered`, `NoDangling`), `PromotionsFit` (`NoneDangles`,
so `CollectionFits` too) and `CopiesStay` (`OnlyCopiesLeaveTheTable`, an action property), from
`HInv`: what is referred to is allocated (`Sound`), the remembered set has each old object
that refers to a young one, the words reserved for promotion are those of the objects
that survived once (`Reserved`), and old space has room for them (`Short`). `PromotionsFit` is of
`p_copyCount = 2`, the default (`gc.c:102`); with 1 the first collection of new space promotes
before anything has been reserved. `p_guaranteeInterGcInterval` is 0, as by default. The
assumption `SizesAddUp` says that sizes are numbers and that their sum over a set is one, 0
for none: the sum is a fold, so this would be an induction over the set. The proof
needs no more of sums, since the reservation is the sum over the very set that the next
collection promotes.

`ObjectProofs`, fetched objects: `FetchedOnce` (`OneCopy`, `TypesFirst`) and
`NobodyWaitsInVain` (`AskedIsComing`, `AskedHaveIt`), for any nodes, objects, types and
messages, from

    FSafe    == Once /\ used \in Uses /\ (Calm => FInv)
    AskedInv == FSafe /\ (Quiet => HaveInv)

`FInv` says that each handler that makes an object waits for exactly those of its types
that are missing (`Making`), and that what a handler has asked for is here, or its request or
an answer is under way, or a handler further in makes it, or the node asked has said "not
found" (`Comes`). `HaveInv` says that while nothing was passed on or collected (`Quiet`), each
message and each need of a handler names what its sender has. That all disjuncts of
`Comes` are needed is what the nesting of handlers in `doObjectRequest` comes to. What the
code does not promise, that the wait ends after a "not found", is not claimed.

`ObjectProofs`, streams: `ReadAsWritten` from `BInv`: a stream that was given the bytes 1 to
`c` has them in the file or the flushed pieces up to the head and in the buffer from there
(`Written`), and one that is read has the next byte where its head is (`Readable`). `BInv`
has existential quantifiers over all numbers, so that TLC checks what follows from it and
not itself. It assumes that a buffer takes two of the largest pieces: buffers have
1024 and 4096 bytes (`bufstr.c:14`, `filestr.c:28`), pieces are headers, identifiers and words.

`ObjectProofs`, hash tables: of `HashSet`, for any keys, sizes and contents,
`ProbesAlwaysEnd` (`ProbesEnd`), `TableIsAMap` (the refinement of `AbstractTable`), `LoopsMeetAll`
(`LoopMeetsAll`) and `LoopsAdvance` (`LoopAdvances`), from

    TableInv == /\ \E n \in Sizes : Probable(slots, n)
                /\ Count(slots) <= MaxKeys /\ loop \in LoopType
                /\ loop.on => AheadOf(slots, loop)

`Probable`: some slot is empty, no key is in two slots, and from a key's home to its slot
no slot is empty. What wraps is put as the distance round the table (`Near`). A deletion
takes the cluster after the hole out and puts it back entry by entry: at each moment the
entries nearer to the hole than the present one are reached, the rest is as it was, and
the next goes to an empty slot no farther from the hole and cuts no other off. `AheadOf`:
what a running loop has not met lies at its index or behind, although entries come
nearer under it, also over the wrap. Loops of the code are recursive functions of the number of
steps: that there is such a function is a lemma, from `Inductive` (below), and where a probe
stops is the least distance with an empty slot or the key.

`MonitorProofs`: `TypeCorrect`, `Exclusion` (`MutualExclusion`), `LockIsHeld`
(`BusyMeansHeld`) and `NobodyLost` (`OnePlace`). None of them is inductive alone.
The inductive invariant is

    IInv == TypeOK /\ OnePlace /\ QueuedInside /\ MutualExclusion /\ BusyMeansHeld

`OnePlace` is needed so that a process taken from one queue is in no other;
`QueuedInside` (who is in the entry queue or a condition is inside the object) so
that the process an exit, wait or signal picks really becomes the holder;
`BusyMeansHeld` so that `MonEnter` on an open monitor finds nobody inside. There
is one lemma per action, and under it one step per conjunct the action can
disturb. Lemmas on sequences say what each queue operation does to the set of
elements and to the absence of repetitions.

`Implementation` is `Spec => RefinesHoareMonitor`. The code has one entry queue where
`HoareMonitor` has two, of signallers and of entrants; `SignallersFirst`, the further
invariant it needs, says that the one is always the first followed by the second,
because `CondSignal` puts its process at the front and all others come to the back.
One lemma per action says which step of the abstract monitor it is: the switches of
the interpreter and a signal on an empty condition are none, an exit passes the
monitor to the head, a wait with somebody queued is the abstract wait.

`InitiallyProofs`: `TypeCorrect`, `NoneBeforeInitially` (`InitialisedFirst`) and
`NobodyLost` (`OnePlace`), from

    IInv == TypeOK /\ OnePlace /\ NotBegun /\ OneFrame /\ InitialisedFirst

`OneFrame` (the initially has one frame in all stacks, and the object is frozen while
it has it) shows that who finds the object thawed finds nobody at the initially;
`NotBegun` that the first frame is the only one. Both hold only as long as the
initially was begun once: the second beginning is the finding `initially_once`.

`AcceptProofs`: `TypeCorrect`, `NobodyLost`, `AcceptedAlone` (`OneInside`) and
`CallersInTurn` (`InTurn`, an action property), from

    IInv == TypeOK /\ OnePlace /\ Queue /\ Alone /\ Lock /\ Kept

`Lock` says for each of the four values of `busy` who is inside and who waits; `Queue`
that the object's process, when it waits, is the head, so that it is this one that a
caller's exit or arrival runs; `Kept` what holds until a failure leaves the lock behind.
They depend on each other: a caller inside an object that is not its own must find the
process at the head (`Lock`), which is why an exit never opens an object whose process
lives. `InTurn` follows from `IInv` before and after the step: what a step takes out of the
queue is its head or the caller that `Accepted` picks. TLC found `IInv` to hold with three
callers before it was proved.

`LocateProofs`: five theorems on the search, for any number of nodes, processes and
invocations, with moves, deaths and lost messages, where the runs have three nodes and
one death.

- `TypeCorrect`, `NeverTwice` (`OneCopy`) and `AsksOnlyTheLiving` (`AskedAreUp`) from
  `Placed`. Beside these three it says that a node has no connection to itself and
  none from itself (`Others`, `NoSelfMail`), and that all nodes know each other
  while none died (`UpWhileLive`). A handler's effect is put as one of a few
  forms (`SearchStep`, `Calm`): what the searches and the network can have become,
  whatever branch was taken. Each handler is shown to have one of them and each
  form to keep `Placed`, so that no invariant is proved branch by branch.
- `NoneForgotten` (`AnsweredOnce`) from `Placed /\ Waiting`. `Waiting` puts
  `NoDuplicates` and `NoneLost` as one count per invocation (`Kept`): it is in one
  record or message, or nowhere. The step that needs most is the end of a search,
  where the record's invocations leave in some order, each once (`BatchOnce`).
  `UpWhileLive` is what `NoneLost` needs: a message is not dropped at a sender that
  believes the receiver to be up.
- `NeverGivenUp` (`NotGivenUp`, an action property), if `Tries > 1`; the code's
  `LOCATE_TIMES_TO_TRY` is 5, and with one round it is false. The invariant is
  `Placed /\ Settled`: while the object has not moved, every reply under way is true
  (`Replies`), and a search that is aggressive has asked the object's node, if it
  is up, and not got its answer yet (`Thorough`). So the set of nodes asked cannot
  become empty without that node's answer, in whatever order answers of others,
  new rounds and deaths come.

`DebuggerProofs`: `TypeCorrect`, `CodeComesBack` (`CodeCanBeHadBack`) and `NoneRunsPast`
(`BreakpointsAreSet`), for any number of instructions, lines and breakpoints and any place
for each instruction. The invariant is about the table and the code together:

    IInv == /\ TypeOK /\ Good(Now)
            /\ at = "prompt" => Plain(Now) /\ cur \in Processes /\ ~dropped
            /\ at = "loop" /\ instructionsToExecute # 1 /\ ~dropped => AllSet(Now)

`Good` is `CodeCanBeHadBack`. It is not inductive alone: a breakpoint set where the code
is already `BREAKPT` would put that byte into the table. `Plain` (the code is the
compiler's while the user is asked) excludes it, and holds because `resetBreakpoints` of a
good table gives the compiler's code whichever slot of a place it reads last. One lemma
per operation of the table says what it keeps, and one per action applies them: only
`setBreakpoints` establishes `AllSet`, so that the proof shows where the code must call it.

Where a proof needs an induction over numbers (the least or greatest of a set, the n-th
element that stays in a list), it is put as a lemma on sets of numbers: `Inductive` says
that a set with 0 and with each number the next is `Nat`, by the pigeonhole principle of
the library, and `Greatest` and `Least` follow from it.

**Only model-checked**, and why. All liveness: fairness and `ENABLED` are outside of what
this version of TLAPS and its backends can prove. `WellFormed` and the refinements of
`OverflowTable` and `ObjectTable`, and `GarbageGoes`: chains and reachability are recursive
functions, and what they compute for every table or graph is an induction over data. `OneThread`, `LinksHold`, `TypesConform`: `Migrate` and `Conform` have `RECURSIVE`
operators. `Compacted`, `CopiesAgree`, `Restored`, `RootsFollowed`, the lines of
`DebuggerIsTrue`: the definitions fold over memory, graphs, stacks and strings of marks,
`EmStream` flattens a sequence of sequences, and `GagglesAgree` filters sequences
(`SelectSeq`); none of these has theorems in the library that need no induction rule.

## 5. Findings

Five disagreements between the code and what a comment says of it; each is a run
that ends in a violation, and `PROJECT.json` quotes both sides.

1. `breakMonitoredObject` (`debug.c:1389`) does not touch the processes in the
   object's conditions nor those in its fix queue, though the comment says they are
   killed: they stay for ever.
2. `CREATE` (`vm.d:792`) and `scheduleProcess` run an initially without an entry in
   `fixqueue`, and `invokefrozen` (`call.c:235`) takes the missing entry to mean that
   nobody runs it: an object that its initially hands out is initialised again.
3. A `LocateRequest` that stale stubs bring back to the node that sent it
   (`locate.c:306`) is answered with a message to oneself, which `DSend` refuses: the
   search never ends, and its processes and messages wait for ever.
4. `invokeHandleDown` (`rinvoke.c:60`) makes every process that waits for a move ready
   when any node dies and leaves its `nstoid`: it is made ready again by the reply, and
   its second turn runs a `State` that was freed.
5. `findRootsInStack` (`misc.c:1169`) never looks at the words of the bottom activation
   record, so that a segment returns to where the upcall stub was before the
   collector copied it.

Of the same kind, and met while modelling, but described by no comment to compare
with or out of a run's reach; each is in the note of a hazard: `SQueueRemoveBack` reads
the slot after the last element (no caller; `squeue.c:116`); `locationResolved` raises
unavailable although the object has just become resident (`locate.c:93`); two nodes that
connect to each other at once both block (`dist.c:293`); a split segment's caller keeps
the old OID (`move.c:503`); a moved process stays in a search's record (`move.c:677`);
an object first found through a plain field is not taken along by a later attached
one (`write.c:51`); a recovery is overwritten by an initially (`main.c:444`); a variable's
unknown type is filled into its value (`read.c:566`); an operation with an id may be
folded into another and its id be left to an object without addresses (`read.c:461`); a short
write loses the rest of its buffer (`emstream.c:214`); a handler whose request is
answered "not found" waits for ever (`remote.c:793`).

## 6. What is not modelled, and why

- The sequential parts: the compiler but for its line information, `vmc`, arithmetic
  and control bytecodes, floating point conversion, `regexp.c`, library system calls,
  build scripts. `newdist.c`, `threads.c` and `mthreads.c` are in no build.
- Programs in Emerald above the machine, such as the replicated directory in
  `Builtins/`, and the upcalls that tell them of nodes.
- Byte layouts: of objects, numbers and activations in messages and files, and the
  words of a fragment of memory.
- In `Monitor` and `Accept`: one object, so that locks are not nested; the frame of a
  segment that handles a failure is a choice. In `Migrate`: monitors are only where a
  process may be when its object moves.
- In `Locate`: one object; the loop of `locateHandleDown` over several searches is
  `OverflowTable`'s. Network partitions: the code takes every broken connection for
  the death of the node.
- In `Transport`: messages arrive as a whole or not at all; two nodes that wait for
  each other's epoch.
- In `Timer` and `Heap`: the `State` a timer points to, and `State`s outside the heap.
- A stub collected during a search for it (`locate.c:69`), an invocation of an object
  the node does not know (`rinvoke.c:226`): they need the collector and the network in
  one model.

## 7. Plan

What is left, by weight:

1. `Heap` with stubs that are collected while a search or a reply is under way.
2. `OneThread` of `Migrate`, whose `RECURSIVE` walk along the links would have to be
   replaced by a relation between segments before it can be proved about.
