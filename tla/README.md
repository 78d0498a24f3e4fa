# Iron: a TLA+ verification project

Iron is a compiled language whose compiler (`src/src/lexer` to `src/src/lir`,
emitting C), runtime (`src/src/runtime`), standard library (`src/src/stdlib`) and
language server (`src/src/lsp`) are written in C. This directory holds TLA+
models of the parts of that code that are concurrent and share mutable state,
and of one compiler analysis that decides how wide a variable is,
the TLC runs that check them on small instances, and TLAPS proofs of their main
properties for instances of every size. `PROJECT.json` maps every definition to
the lines it translates.

## Inventory

| Part | State | Operations | Meets | Hard because |
|---|---|---|---|---|
| Channels (`runtime/iron_threads.c`) | ring, head, tail, count, closed, two condition variables, reference count | create, send, recv, try_recv, close, retain, destroy | tasks share one by reference count; generated glue boxes values | lost wakeups, wraparound, the last user frees without the lock |
| Work pool (`runtime/iron_threads.c`) | growing ring of items, pending counts per pool and group, workers | submit, submit_group, group_wait, barrier, destroy, shutdown | `spawn` and `parallel for` of generated code | nested loops on busy workers, end of main under running tasks |
| Elastic I/O pool, `Iron_PoolWait` | slots, idle and thread counts, queue; completed/abandoned flags | submit, grow, retire on timeout, mark leaked, destroy | `Iron_net_lookup_host` (DNS under a deadline) | timeout against completion, timeout against submit |
| Generation table (`runtime/iron_heap_track.c`) | entries, chunk directory, per-thread and global free slots, pins | new, end, live, pin, unpin, thread exit | every checked pointer dereference; heap, arena and rc storage | lock-free, slots reused, sequence numbers run out |
| Reference counting (`runtime/iron_rc.c`) | strong and weak counts, generation of the object | retain, release, downgrade, upgrade, pointer generation | generated code; the generation table | two counters, upgrade against last release |
| Stack scopes (`iron_heap_track.c`, `iron_runtime.h`) | scope table per thread number | enter, leave, key check | pointers to locals | thread numbers and table storage reused |
| Handles, mutexes (`iron_threads.c`) | result, done flag, reference count | spawn, await, detach, lock | the pool | waiter against finisher |
| Heap, arenas, list borrows, leak report | block list, segments, pin counts | alloc, free, reset, restore | the generation table | double free, free of pinned storage |
| LSP documents and workers (`lsp/server/handlers_document.c`, `lsp/store`, `lsp/workers`) | documents, mailbox of each (compile slot, pull slot, shutdown flag), strikes, quarantine | open, change, save, close, diagnostic; post, dequeue, debounce, copy, analyse, recover | the client, the writer | edits under analysis, displaced requests, debounce timer, join |
| LSP writer (`lsp/transport/writer.c`) | growing ring of messages, shutdown flag | enqueue, drop oldest log message, write, drain, join | every handler and worker | removal from the middle, end of the process |
| LSP supervisor (`lsp/supervisor`), life cycle (`lsp/server`) | pipes, self-pipe, crash window, pause | forward, reap, restart, give up; allow or refuse a request | the editor, the server as a child process | death of the child at any moment, pipes that are full |
| Local ranges (`lir/value_range.c`) | intervals, dominator rows, loop members | interval arithmetic, dominators, induction proof | C emission, which declares narrower types | every control-flow graph, overflow at the edges |
| MySQL pool (`stdlib/iron_mysql.c`) | idle stack, total, in_use, closing, reference count | open, take, give back, run with a retry, close, free | tasks through `rc` handles, the server | counters across several locked regions, dead connections |
| HTTP, WebSocket, TLS (`stdlib`) | connections | connect, exchange | sockets | wire protocols |
| Compiler passes, formatter, tools | syntax trees, tables | one pass after another | each other's output | size of the input, not interleaving |

What makes each modelled part correct is stated by the properties below.
What is hardest to test is listed, at its line, under `hazards`; the disagreements
with the text are under Observations.

## Conventions

- A section under a mutex, or one access to an atomic variable, is one action.
  Memory is sequentially consistent; the acquire/release pairs of the C code
  are not examined.
- A condition variable is the set of the threads parked on it. Waiting adds the
  thread, a signal removes one, a broadcast all, and where a wait is not inside
  a retry loop's guarantee a thread may also leave by itself (spurious wakeup).
- Payloads, names and messages are model values. Identities that code creates
  on demand (boxes, threads, generations) come from finite sets, which bound
  the runs.
- An operator that precedes a definition and has a longer name of the same
  beginning (`SendEnqueueSignalsIfEmpty`) is a deliberately wrong variant; the
  specification does not use it. Each property has one that breaks it.
- A run lists a few properties. Where one has several named parts (`BooksExact`,
  `ObjectSafe`, `WaitsEnd`, ...) it is their conjunction, and the parts are
  described below under their own names.
- Two runs hold parts that share no state: `relay` (`MCRelay`: the pool's ring, the
  writer, the supervisor) and `emitted_code` (`MCEmittedCode`: counted objects, local
  ranges). A variable `part` says which one a behaviour is about; the others rest
  in their first states, so each part has the states it has alone.
- A run that ends in a violation states what a comment of the code claims, and is
  listed under `findings` with the comment.

## Modules

### IronChannel, BoundedFifo: channels

`IronChannel` follows `Iron_channel_*`. The ring and its indices are kept as in
the struct; `pc` says which call a thread is in, `arg` the box it carries.
`Spawn` is a task that captures the channel and takes a reference
(`emit_c.c`, `emit_spawn_env_cell_retains`), `Release`/`Reclaim` are the two
halves of `Iron_channel_destroy_with`: the atomic decrement, and the drain and
free that happen outside the lock. `BoundedFifo` is what a channel promises: a
queue with a bound, shut once, whose remaining content is discarded once.
Only `Closers` call close, because generated code never does.

Run `channel` (3 threads, capacity 2, 3 boxes: the ring wraps, both condition
variables are used, and a thread can barge in between a signal and the waiter it
woke):
- `Conservation`: received, then queued (or dropped by destroy), is what was sent;
- `NoLostWakeup`: while a thread is parked, each item (each free slot) has an
  awake thread coming for it, and nobody is parked on a closed channel;
- `ReclaimAlone`: whoever frees is alone;
- `ImplementsFifo`: refinement of `BoundedFifo`;
- `BlockedServed`: blocked calls return when they can (`ReceiverServed`,
  `SenderServed`, `CloseReleases`).

Fairness: a thread inside a call goes on (the lock is free between actions and
pthread mutexes do let a waiting thread in eventually). Nothing is assumed of
what a program does between calls.

### IronPool, MCIronPool: the fixed work pool

Items are chunks of `parallel for` loops and `spawn` statements. `MCIronPool`
gives the program: a loop with a nested loop, two spawns (one never returns), a
barrier, and the end of main. A worker that waits for its own loop runs its
group's queued items (`GroupWaitRuns`), as `Iron_pool_group_wait` does. The
queue here is a list; `WorkQueue` shows that the ring implements one.

Run `pool`: `BooksExact`, that is `RunOnce` (no item runs twice), `CountsExact`
(pending and group counts equal the items outstanding) and `LoopComplete` (a loop
returns when exactly its own chunks are done), all until the end of main drops the
queue; `WakeupsKept` (no lost wakeup for
workers, `ReadyWakeups`, and for waiters, `DoneWakeups`); `BarrierSound`;
`WaitsEnd`, that is `LoopsComplete` (nested loops finish although every worker may
be waiting) and `DestroyTerminates`. Fairness: running threads run; a spawned body
that loops forever gets none.

Run `pool_unawaited` (violation of `FreedUnused`) has a second program thread, a
bound `spawn` that nobody awaits, with a loop of two chunks. `pool_shutdown_idle`
takes `pending <= 0` for "nobody uses the pool" (`iron_threads.c:1125`); with the
first chunk done and the second not yet submitted that is so, main frees the pool,
and the thread goes on to submit. The comment at `:1115` says that such a thread is
stopped with the program and that the pool is destroyed when it is idle.

### WorkQueue, ItemList: the pool's ring

`WorkQueue` is the circular buffer itself: submit, growth by doubling with the
live items unwrapped, take at the head, and removal from the middle with a
shift. Run `relay` checks that it implements `ItemList` (`ImplementsList`, which
includes that its indices stay in the array), from a capacity of two (`InitCap`) with
up to five items, so through two growths, which includes growth with a wrapped ring.

### IronIoPool: the elastic pool and its client

Workers are spawned on demand, park with a timeout, retire, and are counted out
when a lookup is given up (`LookupLeak`). Caller and worker share a job through
`completed` and `abandoned`. The clock is a flag per lookup that may rise at any
time. The POSIX branch of the retiring worker is modelled.

`Iron_pool_destroy` begins at any moment: nothing in it, or in
`iron_threads_shutdown`, waits for lookups that are under way, and a thread that
nobody awaits may begin one while the pool is being destroyed. Only a comment
(`iron_threads.c:411`) asks the user not to. `intruders` remembers the lookups begun
then, `Contract` says that there were none, and a caller that gets to a pool already
freed is `astray`, with nothing said of what it does there. What holds anyway is
stated without `Contract`.

Run `io_pool` (2 lookups, 2 workers): `OwnersExact`, that is `JobSafety` (freed
at most once, and never under the other side) and `SlotsExact` (destroy can join every
live worker), whatever destroy meets, and `Drained` (under `Contract` the pool is freed
after its last worker and with every lookup run, callers being still inside their
lookups perhaps); `NoStranded` (under `Contract` a queued lookup has an
awake worker, although a submit may count on a worker that is just timing out);
`WaitsEnd`, that is `LookupReturns` (without any assumption on getaddrinfo) and
`DestroyTerminates` (if every getaddrinfo returns, which the comment in
`iron_threads_shutdown` relies on).

Run `io_pool_leak` (violation of `GivenUpFreed`): the comment at `iron_threads.c:1158`
says that a lookup the caller gave up on still frees its job. One that completes
between the caller's last look and `Iron_poolwait_set_abandoned` (`iron_net.c:1557`) is
freed by nobody: the worker left it to the caller, the caller to the worker.

### GenTable, Generations: checked pointers

`Generations` is the promise of `docs/dev/POINTER-SAFETY.md` I1 and I2: a
generation is given out once, ends once, never becomes live again. `GenTable`
follows `iron_heap_track.c` access by access. Free stacks are sets, so any order
of reuse is covered. `iron_gen_end` may be called with any generation that was
ever live, by any thread, twice or at the same time. Running out of memory stops
the process (`down`), except at thread exit, where slots are `lost`.

Run `gen_table` (2 threads, 3 slots in 2 chunks, 2 sequence numbers, caches of
2; slots are reused, exhausted and retired, caches spill and refill):
`Exclusive` (one owner per slot), `NoSlotForgotten`, `CacheFits`, `PinHonoured`,
`NeverRevived` (refinement of `Generations`).

### IronRc: reference counting

One object. A handle is a variable holding it; handles are used concurrently,
each by one thread at a time, so races of any number of threads are covered by
as many handles. The generation of pointers into the object is created lazily
by compare-and-swap and comes from `Generations`, the promise `GenTable` is shown
to keep. Run `emitted_code` (4 handles: a last strong, a last weak, an upgrade and its
result at once; 3 generations, so two can lose the race): `ObjectSafe`, that is `Counts`, `Lifetime`
(drop once and last among strong handles, free once and last of all) and
`PointersSafe` (one generation, live exactly as long as it must be, none
leaked); `UpgradeHonest` (null only when the object is dead), `Reclaimed` (the
block is freed in the end; fairness on the thread that tears it down).

### LspDocuments: documents, mailboxes and analysis threads

The thread that reads the client's messages runs one handler after another
(`main`); each open document has a worker. A text is named by the version of the
client's that it equals, or is `Drift` once an edit was refused. A handler is one
action up to the point where it blocks (joining a worker) or lets go of the
document's lock before it posts (`ChangePost`). The worker's place (`at`) follows
the main loop and the debounce loop inside it; `held` is the compile request in
hand, which outlives a pull answered during the debounce. Messages count when
they are queued; `LspWriter` is about the queue. A fault is a failed allocation,
a crash of the analysis or a wait that ends for no reason.

Run `lsp_documents` (one document, since documents meet only in `main`, which
serves one at a time; 2 requests, so that one can displace the other; 3
notifications; 4 faults, which is what it takes to crash, be quarantined and
crash once more):
- `WorkAccounted`: every request is waiting in one mailbox, held by one worker,
  answered once, or lost to a failed analysis (`PullAccounted`); threads and
  documents match (`ThreadsMatch`); a document crashes the analysis at most three
  times (`CrashesStop`: quarantine lets one held compile request through);
- `ShownTrue`: published diagnostics carry the version of the text they were
  computed from, and nothing is shown of a closed document;
- `LatestShown`: when edits stop, the last version is shown;
- `WaitsEnd`: every request is answered or lost, and no join hangs.

Fairness: threads run, a handler that was begun goes on, timed waits expire, and
an analysis returns or crashes (it works on a finite text). None on the client.

### LspWriter: outgoing messages

The ring of `writer.c` with its slots, so that growth, removal of the oldest log
message and insertion are the code's index arithmetic. Messages are log messages
or numbered others. The process ends by `exit`, which calls `_exit`, or by the end
of input, where `main` joins the workers, sets the flag, broadcasts and joins.

Run `relay` (capacity 2, 6 messages: the ring grows twice, also when
wrapped; 2 faults: no memory, a client that is gone): `QueueKept` (slots and
indices agree; responses keep their order and none is lost; at most one log
message stays in a queue over its capacity), `DrainedAtEof`, `WriterServes` (what
is queued is written; the end of input ends the process). Fairness: the writer
thread and `main` run, and a write returns, since the client reads or is gone.

### LspSupervisor: the server as a child process

The parent's poll loop, reading in its order output, input, SIGCHLD; the worker is
the server seen through its pipes, with the life cycle of `lifecycle.c` and
`dispatch.c`. Time passes where the code reads the clock or sleeps; deaths are kept
as ages.

What is forwarded is bytes. A read takes a chunk that may end within a message
(`Reads`): the beginning goes to the worker now and the `Remainder` with a later
read, and if the worker died between, to another, which has no header for it and
stops (`Misframed`). A worker may also die in the middle of a reply (`Partial`); the
notification the parent then injects, and all that follows, is taken for the rest of
that reply (`torn`). Whatever is in the pipe to a dead worker is lost (`Bury`). The
loop is also left when `poll()` fails, with the worker alive (`PollFails`, `broken`),
and SIGCHLD may come without a death (`Signal`), since it is installed without
`SA_NOCLDSTOP`. `poll()` itself is one moment, and a chunk that is followed by its rest
while the same worker lives is not told from a whole message.

Run `relay` (pipes of one message and reads of two; 3 messages among `initialize`,
`initialized`, `hover` and `exit`; 1 crash, later workers ending by `exit`, by the rest
of a message or at the end of input; 1 mishap; breaker at 2 deaths
in 2 seconds, lives of 0 or 2 seconds: with the pauses of 1 and 2, two deaths are 1, 2,
3 or 4 seconds apart, on both sides of the window and on its edge):
- `RelayExact`: a request is answered at most once by all workers together
  (`AnsweredOnce`); what a worker wrote is forwarded before its pipe is closed, unless
  a mishap made the parent look early (`OutputComplete`); no worker gives a result
  before it was initialized (`InitializeFirst`). It does not say that requests survive
  a death: they do not;
- `FramesKept`: a worker's input starts within a message only after a restart, and
  has no other break in it;
- `BreakerExact`: it trips exactly at the limit, against a list of all deaths;
- `RelayServes`: closing ends it, a dead worker is replaced, requests are answered as
  long as no worker dies: parent and worker do not block each other.

Fairness: parent and worker run. The runs do not send `shutdown`, which changes only
what a worker refuses afterwards; the proofs include it.

### LocalRanges: narrower types for loop counters

A behaviour takes one function through `local_compute_dominators` (a row of the
matrix at a step) and `local_infer_induction` and then executes it block by block,
other branches going either way. What a worklist collects is the least set that has
what it starts with and that no edge leaves (`Closure`). The function is any graph of five blocks, with the counter's constant
store, the load and store of its update, and the header's test anywhere a lowered
program can have them. Words have 4 bits (`Half` = 8), the narrower types 1, 2 and
3, so that every bound of the arithmetic is met.

A UInt constant above the largest Int is kept as its bit pattern, as `hir_lower.c`
does, and `Reading` gives the value the emitted code compares. `Lowered` keeps to what
`hir_to_lir.c` emits and `lir_optimize.c` leaves: a value is made before it is used, a
loop condition assigns nothing, and a test whose operands are still constant is folded
away (`Unfolded`), so that one made before the loop is left only inside an enclosing
loop.

Run `emitted_code` (every graph of five blocks; bounds 0, 3 and 12, the last not an
Int): `DominatorsExact` (against the definition by paths);
`RangesHold` (the counter and sums, differences and products made from it stay in
the proved range and in the type chosen), where the header makes its own test
(`TestInHeader`) and the bound is an Int (`BoundIsInt`). Each of the two is needed, which
two runs show, with the other one kept:

- `local_ranges_stale` (violation of `StaleFits`, without `TestInHeader`): with
  `val c = i < 10` made before the loop, inside an enclosing one, and `while c`, the
  proof takes the comparison for one that is made at each iteration
  (`value_range.c:543` never asks in which block it is). The counter is declared
  `int8_t` and overflows. The comment above `local_infer_induction` promises that
  anything less explicit than a constant header bound stays 64 bits wide.
- `local_ranges_unsigned` (violation of `UnsignedFits`, without `BoundIsInt`): for
  `var i: UInt = 1` and `while i < 18446744073709551612` the bound is compared as a
  negative Int (`value_range.c:630`), the loop counts as one that never runs, and `i`
  gets the range 1..1 and eight bits. The constant folder orders such values unsigned
  and says why (`lir_optimize.c:1878`).

### MysqlPool: the connection pool

Every locked region is a step, and so is each stretch between two. A connection is
its link, an open transaction, and whether it has outlived `max_lifetime` or idled
past `idle_timeout`. Tasks run statements (`pool_run`, with its one retry) or hold
an acquired connection; the owner closes the pool and frees it when the last
handle goes, with connections perhaps still in use.

Run `mysql_pool` (3 tasks on at most 2 connections, at least 1 kept, so that one
waits; 2 events among failures, closures by the server, limits that pass):
- `BooksExact`: the counters are exact at every unlock (`CountsExact`), a
  connection has one holder (`OneHolder`), the reference count keeps the pool until
  its last user is done (`RefsExact`), no open transaction is handed on
  (`HandedOutClean`);
- `NoLostWakeup`: while a task waits, nothing is idle and each free place was
  freed by a task about to fill it;
- `RunsOnce`: no statement is run twice by the retry;
- `Reclaimed`: calls return without relying on a time limit, and in the end
  everything is closed and freed.

Fairness: running tasks run, commands end by answer or timeout, programs drop what
they acquired. None on the end of a wait or on the server.

## Observations

Disagreements between code and text met while modelling, besides the four violation
runs above. Each follows from the model's actions; no property is stated of it.

- A channel is not closed when its owner's scope ends; the code drops a reference
  (`iron_threads.c:986`), while `docs/language_definition.md:2945` says it is
  closed. A task blocked on it stays blocked.
- Items dropped at the end of main by `queue_count = 0` (`iron_threads.c:1128`,
  "never start what has not started") come back when a running item submits, for
  head and tail stay where they were. If that item's loop had chunks in the ring
  already, removal from the middle then shifts inside `queue_count` only and the
  loop can find a chunk of its own twice and another never, and return. The run's
  instance is too small for it; looking for the inductive invariant of
  `LoopComplete` showed it, and the property says that it stops at this point.
- A leaked lookup is subtracted from
  `pending` when it is given up and again when it ends (`iron_threads.c:647`). On
  Windows a retiring worker clears a slot that may name another thread (`:557`).
- The first chunk of the generation table is visible before entry 0 is dead
  (`iron_heap_track.c:66`); `iron_gen_live(0)` is true in between.
- `exit` ends the server with responses queued; the comment at
  `handlers_lifecycle.c:45` assumes that the writer has drained.
- A pull whose analysis crashes or cannot be copied gets no response
  (`ast_worker.c:89`, `:93`).
- The supervisor starts before SIGPIPE is ignored (`main.c:163`, `:181`): a write to
  a worker that has just died ends it, which `supervisor.h:53` does not list. After
  a restart the new worker refuses everything until it is initialized again.
- A worker that dies in the middle of a reply leaves part of it with the editor, and
  the notification injected next (`supervisor.c:318`) is read as its rest, while
  `supervisor.h:29` says "Parent injects one well-formed LSP notification frame on
  restart". The same holds the other way: the rest of a message that was cut at the
  death goes to the next worker, which stops at it.
- The pause stays at 16 seconds once reached, so five deaths no longer fall within
  60 seconds then.
- A task that replaces a dead connection does not notice that the pool was closed
  (`iron_mysql.c:3161` continues the inner loop), while `mysql.iron:695` and
  `docs/mysql.md:358` say that new work is refused. Two tasks may together leave
  fewer than `min` connections (`iron_mysql.c:3138`, `docs/mysql.md:350`).

## Proofs

`IronChannelProofs` proves, for any finite set of threads, any boxes and any
capacity, `TypeOK`, `ReclaimAlone`, `Conservation`, `NoLostWakeup` and the
refinement of `BoundedFifo`. The inductive invariant `IInv` adds to the type
invariant that `tail` is `count` slots after `head` (`RingOK`), that a parked
thread is inside its call and a sender carries a box (`CallsOK`), and that the
reference count is the number of threads that may still use the channel
(`RefsOK`); the last is what makes the decrement from 1 exclusive. `NoLostWakeup`
is inductive relative to it: an enqueue moves one waiter to the awake receivers
for the item it adds, and a dequeue removes at most one of each.

`GenTableProofs` proves, for any threads, table size, sequence mask, cache and
chunk size, `TypeOK`, `Exclusive`, `NoSlotForgotten`, `CacheFits`, `PinHonoured`
and the refinement of `Generations`. `Exclusive` alone is not inductive: the
counter must never hand out a slot that is in use (`FreshUnused`). That no
generation is revived needs that ended generations are behind their entry
(`EndedDead`), that the value `iron_gen_new` loaded is still there when it
stores (`LoadCurrent`, which follows from exclusiveness), and that live entries
are in published chunks (`ChunksReady`). `EndKnown` and `EndUnpinned` carry the
pin check to the compare-and-swap.

`EmittedCodeProofs` proves, of `IronRc`, `ObjectSafe` and `UpgradeHonest` for any finite set of
handles and any generations. `ObjectSafe` says what is true of the counts; it is
inductive once it is known how far the teardown is (`DropsExact`), whose the
generations between `iron_gen_new` and the compare-and-swap are (`GensExact`), and
that a count read as zero stays zero (`ZeroIsFinal`), which is what makes the null
of an upgrade honest although other upgrades go on.

Of `LocalRanges` the same module proves `DominatorsExact` for every graph of any
number of blocks, and `RangesHold` for every such graph, every placement of the
stores, the load and the test, any constants, and words of any width. The property says
itself where it holds (the header makes its own test, the bound is an Int); the code
needs both and ensures neither, as the two violation runs show. `DomInv` says that rows
never lose a dominator and that the rows a pass has visited agree with their
predecessors' as long as it changed nothing. At its end a pass that changed nothing
has rows that all agree, and the blocks that have a row without `a` are left by no
edge that avoids `a`, so by leastness they contain everything that is reached
without `a`. For the run, `Running` says where the
counter is known to pass the test: in the loop past the header and not after
the update, since the loop is entered through its header only (`MemberFacts`) and
the update is not repeated before it (`AgainFacts`). The value that was loaded passes
it too, wherever the load is, since no path leads from the first store around the load to
the update (`Unloaded`, from the antisymmetry of dominance). A value that passes the
test and is in the range has its successor in the range (`CountingFacts`), which is
`InRange`. What is computed from it follows from the monotonicity of sums,
differences and products in each operand (`EvalHolds`).

`RelayProofs` holds the proofs of three parts that hand things on in order.

`WorkQueue`: the ring implements `ItemList`, for any items,
initial capacity and length, through growth of a wrapped ring and removal from
the middle. What it needs beyond the type invariant is that `queue_tail` is
`queue_count` slots after `queue_head` and that the slots between hold items
(`RingOK`); the rest is the arithmetic of an index that wraps at most once.

`LspWriter`: `QueueKept` and `DrainedAtEof`, for any capacity and any numbers of
messages and faults. The slots that hold a message are exactly those in use
(`QueueOK`), so that growth and removal lose and invent nothing. Order is stated of
the line that begins with the message in the writer's hand and goes on with the
queue (`Line`): dropping, popping and appending keep it ordered. That a queue beyond
its capacity has at most one log message needs that each message that comes to a
full queue first drops one (`FewLogs`). `DrainedAtEof` needs to know who may have
set the flag and that the writer exits with an empty queue only (`Stopping`).

`LspSupervisor`: `RelayExact` and `BreakerExact`, for any pipes, windows, lifetimes
and numbers of messages, crashes and mishaps. That no request is answered twice is a conservation law:
the places of a request, from the editor's pipe over the parent's buffer and the
worker to the answer, sum up to at most one (`Once`). Output is forwarded before the
worker's pipe is closed because a pipe holds no more than one read takes and the
poll loop looks at the output before it looks at the death (`Drains`), as long as
there was no mishap (`Draining`). Cutting a message and joining it again moves no
request (`ReadsFacts`, `JoinedFacts`).
`BreakerExact` compares the code's window, which forgets deaths only when it adds one,
with all deaths: those within the limit are the last of those
remembered, and those before them are too old (`Aligned`).

`IronPoolProofs` proves `BooksExact`, `WakeupsKept` and `BarrierSound`, for any
workers, program threads and tree of jobs. The central fact is the shape of a stack (`StackShape`): a job stands on
the job whose chunk it is. With no job on two stacks it follows that only the
thread that waits for a loop runs that loop's chunks on top of itself, so that
`Iron_pool_group_wait` need not wake anybody when such a chunk returns
(`GroupSettlesKeeps`), while a worker must. The end of main splits the invariant:
that `pending` is the length of the ring plus the number of stack frames (`Counted`)
survives the drop of the queue, everything exact (`Exact`) holds whenever the ring
is `Whole`, and a barrier that sees `pending` at zero sees a whole, empty ring again.

`IronIoPoolProofs` proves `OwnersExact` and `NoStranded` for any lookups, workers and
limit on threads. A lookup that was begun is queued, with one worker, or completed
(`Places`), and from its place follows who frees its job (`Owner`). `NoStranded` is
kept because of what a submit decides by (`Numbers`): `idle_threads` is the number
of parked workers, those signalled or timed out that have not yet got the
lock included, and `thread_count` is never above the number of live ones (a worker
leaked at a deadline is no longer counted). So a submit that neither wakes nor
creates anybody has met a worker that is awake and will look at the queue before it parks
or retires. That every live worker can be joined needs that slots are one worker's
each (`SlotsHeld`), through growth, retirement and reuse of a slot; `Ends` says how far
`Iron_pool_destroy` is.

`MysqlPoolProofs` proves `BooksExact`, `NoLostWakeup` and `RunsOnce` for any tasks,
limits and numbers of calls and events. A task's place tells what it has (`Shape`);
a live connection is in one place, idle, with a task, in a task's or the owner's
list of discards (`Apart`, `Unrepeated`), and the references are the live
connections and the handle (`Counted`). `NoLostWakeup` is kept by a counting
argument: who frees a place while tasks wait is itself between its unlock and the
connection that will fill the place.

`LspDocumentsProofs` proves `WorkAccounted` and `ShownTrue` for any documents,
requests and numbers of notifications and faults. The invariant has a part for the
requests (`Places`: one that is not done is in one mailbox or with one worker, once)
and a part for each document (`Local`), which a step on another document leaves
alone (`SameDocument`). `CrashesStop` needs to know which analysis may still be in
flight at each strike (`Strikes`), `ShownTrue` that a copy taken is a text the client
had (`Texts`).

The assumptions are those named in the modules: `ChannelAssumption` (finitely
many threads, a capacity of at least one), `GenAssumption` (positive sizes, a
cache of at least two), `RcAssumption` (finitely many handles), `QueueAssumption` (a
capacity of at least one), `WriterAssumption` (a capacity of at least one),
`SupervisorAssumption` (a pipe that holds something and no more than one read takes,
a limit of at least one death), `RangesAssumption` (narrower types are narrower than
an Int, constants are words, at least three blocks), the `PoolAssumption` of `IronPool` (finitely many
threads and items, the tree of jobs well formed), `IoPoolAssumption` (finitely many lookups, a thread
for each, at least one allowed at a time), the `PoolAssumption` of `MysqlPool` (finitely many
tasks, limits as `Iron_mysqlnative_pool_open` takes them, as many connection structs as the
pool opens at its start) and `DocumentsAssumption` (the bounds are numbers). Each
inductive invariant was checked by TLC on small instances before it was proved.

Only model-checked: the liveness properties (`BlockedServed`, `WaitsEnd`,
`Reclaimed`, `LatestShown`, `WriterServes`, `RelayServes`), since fairness is outside
the prover, and `FramesKept`. Every other invariant and action property of the
passing runs is proved. That `Closure` is what a worklist computes is not: it would be an induction
over data.

## Not modelled

Most of the source is compiler passes, formatter and tools: sequential functions
of whole programs, with no formal semantics to be compared with; a parser or a type
checker of thousands of lines would have to be copied into TLA+ to be modelled.
Of `value_range.c` the ranges of object fields, the rejection of captured and
address-taken locals and the union over several constant stores are left out, and
phis, which are gone before emission. Of the language server: byte offsets of
edits, frames, JSON, the symbol indexes, the queries, cancellation and the Windows
half of the supervisor. Of MySQL: the wire protocol. Elsewhere, bindings, wrappers of system
calls, logging and text are I/O. Weak memory orders and integer saturation of
the 64-bit counts are abstracted away. `PROJECT.json` gives the reason for each
component.

## Plan

1. A proof of `FramesKept`.
2. Stack scopes and handles of the runtime, and heap blocks, arena segments and
   list borrows as clients of `Generations`.
