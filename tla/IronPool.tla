---- MODULE IronPool ----
(***************************************************************************)
(* The fixed thread pool of the runtime (src/src/runtime/iron_threads.c):  *)
(* Iron_global_pool, which runs spawn statements and the chunks of         *)
(* parallel for loops.  The ring's slots from queue_head to queue_tail are  *)
(* a sequence here (module WorkQueue is the ring itself, with its growth). *)
(* The queue is its first queue_count elements: all of them until          *)
(* pool_shutdown_idle zeroes queue_count and leaves head and tail alone.   *)
(*                                                                         *)
(* A thread has a stack of jobs: a worker runs the item it dequeued, and a *)
(* job that waits for its own parallel for runs that loop's queued chunks  *)
(* on top of itself.  A program thread (client) is the bottom job of its   *)
(* own stack.  The tree of jobs is fixed: Parent[i] is the job whose       *)
(* parallel for submits chunk i, or NoGroup for a spawn statement.         *)
(***************************************************************************)
EXTENDS Integers, Sequences, FiniteSets, SequencesExt

CONSTANTS
    FirstStart, \* the thread_count workers the first submit starts
    Restart,    \* the ones started by a submit after the pool was abandoned
    Clients,    \* program threads: main and bound spawns
    Main,       \* the client that ends the program
    Items,      \* the work items the program submits
    Parent,     \* the job whose loop an item is a chunk of, or NoGroup
    BarrierCallers, \* clients that call Iron_pool_barrier (C code only)
    Endless,    \* items that never return (a task blocked for ever)
    NoGroup

Jobs == Items \cup Clients
Workers == FirstStart \cup Restart
Threads == Workers \cup Clients

ASSUME PoolAssumption ==
    /\ IsFiniteSet(Workers) /\ FirstStart \cap Restart = {}
    /\ IsFiniteSet(Items) /\ IsFiniteSet(Clients)
    /\ Main \in Clients
    /\ Parent \in [Items -> Jobs \cup {NoGroup}]
    /\ NoGroup \notin Jobs
    /\ Endless \subseteq Items /\ BarrierCallers \subseteq Clients
    /\ Workers \cap Clients = {} /\ Items \cap Clients = {}

VARIABLES
    slots, queue_count,                     \* struct Iron_Pool
    pending, shutdown, started,
    work_ready, work_done,                  \* wait sets
    gpending,   \* Iron_PoolGroup.pending of each job's loop
    stack,      \* the jobs each thread is running, innermost last
    life,       \* each worker: "none", "live" or "exited"
    barrier,    \* for each client, {} or {the items its barrier waits for}
    exit,       \* progress of iron_threads_shutdown
    submitted, ran              \* what became of the items

ring == <<slots, queue_count>>
vars == <<ring, pending, shutdown, started, work_ready, work_done, gpending,
          stack, life, barrier, exit, submitted, ran>>

\* The queue as its readers see it.
queue == SubSeq(slots, 1, queue_count)

Kids(j) == {i \in Items : Parent[i] = j}

Init ==
    /\ slots = <<>> /\ queue_count = 0
    /\ pending = 0 /\ shutdown = FALSE /\ started = FALSE
    /\ work_ready = {} /\ work_done = {}
    /\ gpending = [j \in Jobs |-> 0]
    /\ stack = [t \in Threads |-> IF t \in Clients THEN <<t>> ELSE <<>>]
    /\ life = [w \in Workers |-> "none"]
    /\ barrier = [c \in Clients |-> {}]
    /\ exit = "running"
    /\ submitted = {} /\ ran = {}

\* Items on some thread's stack.
Running == {i \in Items : \E t \in Threads : \E k \in DOMAIN stack[t] : stack[t][k] = i}
Awake(t) == t \notin work_ready \cup work_done
Runs(t, j) == Awake(t) /\ stack[t] # <<>> /\ Last(stack[t]) = j

\* The loop of job j has submitted every chunk: j is in Iron_pool_group_wait.
InGroupWait(j) == Kids(j) # {} /\ Kids(j) \subseteq submitted

\* The positions of j's own chunks still queued.
OwnQueued(j) == {k \in DOMAIN queue : Parent[queue[k]] = j}

\* Job j is outside its loop: before it, or past its group wait.
OutsideLoop(j) ==
    \/ Kids(j) \cap submitted = {}
    \/ InGroupWait(j) /\ gpending[j] =< 0

Signal(waiters) == IF waiters = {} THEN {{}} ELSE {waiters \ {u} : u \in waiters}

\* pool_start_locked: the first submit starts every worker.  After
\* pool_shutdown_idle has cleared started, so does the next one.
pool_start_locked ==
    /\ started' = TRUE
    /\ LET new == IF started THEN {} ELSE IF shutdown THEN Restart ELSE FirstStart
       IN  life' = [w \in Workers |-> IF w \in new THEN "live" ELSE life[w]]

WakeWorkerIfEmpty ==
    work_ready' \in IF queue = <<>> THEN Signal(work_ready) ELSE {work_ready}
WakeWorker == work_ready' \in Signal(work_ready)

\* Iron_pool_submit (g = NoGroup) and Iron_pool_submit_group.
SubmitTo(g, i) ==
    /\ slots' = Append(slots, i)
    /\ queue_count' = queue_count + 1
    /\ pending' = pending + 1
    /\ gpending' = IF g = NoGroup THEN gpending ELSE [gpending EXCEPT ![g] = @ + 1]
    /\ submitted' = submitted \cup {i}
    /\ pool_start_locked
    /\ WakeWorker
    /\ UNCHANGED <<shutdown, work_done, stack, barrier, exit, ran>>

\* Thread t runs the code of job j, outside the runtime.
InProgram(t, j) ==
    /\ Runs(t, j)
    /\ exit # "freed"
    /\ j = Main => exit = "running"
    /\ j \in Clients => barrier[j] = {}

\* A spawn statement in job j.
SpawnStatement(t, j, i) ==
    /\ InProgram(t, j) /\ OutsideLoop(j)
    /\ Parent[i] = NoGroup /\ i \notin submitted
    /\ SubmitTo(NoGroup, i)

\* Job j submits the next chunk of its parallel for.
SubmitChunk(t, j, i) ==
    /\ InProgram(t, j)
    /\ Parent[i] = j /\ i \notin submitted
    /\ SubmitTo(j, i)

\* pool_worker, waiting for work.
AtLoopTop(w) == life[w] = "live" /\ Awake(w) /\ stack[w] = <<>>

WorkerWait(w) ==
    /\ AtLoopTop(w)
    /\ queue = <<>> /\ ~shutdown
    /\ work_ready' = work_ready \cup {w}
    /\ UNCHANGED <<ring, pending, shutdown, started, work_done, gpending, stack,
                   life, barrier, exit, submitted, ran>>

WorkerExit(w) ==
    /\ AtLoopTop(w)
    /\ queue = <<>> /\ shutdown
    /\ life' = [life EXCEPT ![w] = "exited"]
    /\ UNCHANGED <<ring, pending, shutdown, started, work_ready, work_done, gpending,
                   stack, barrier, exit, submitted, ran>>

WorkerTake(w) ==
    /\ AtLoopTop(w)
    /\ queue # <<>>
    /\ stack' = [stack EXCEPT ![w] = <<Head(queue)>>]
    /\ slots' = Tail(slots)
    /\ queue_count' = queue_count - 1
    /\ UNCHANGED <<pending, shutdown, started, work_ready, work_done, gpending, life,
                   barrier, exit, submitted, ran>>

\* Iron_pool_group_wait: run the first of the job's own chunks still queued,
\* or park when every one of them is running on a worker.
Lowest(S) == CHOOSE k \in S : \A m \in S : k =< m

GroupWaitParks(t, j) ==
    /\ OwnQueued(j) = {}
    /\ work_done' = work_done \cup {t}
    /\ UNCHANGED <<ring, stack>>

\* The queued items behind position k move up one slot, and queue_tail
\* moves back one.
CloseGap(k) == [m \in 1 .. Len(slots) - 1 |->
    IF m \in k .. queue_count - 1 THEN slots[m + 1] ELSE slots[m]]

TakeOwn(t, k, rest) ==
    /\ stack' = [stack EXCEPT ![t] = Append(@, queue[k])]
    /\ slots' = rest
    /\ queue_count' = queue_count - 1
    /\ UNCHANGED work_done

GroupWaitRunsPopsHead(t, j) ==
    OwnQueued(j) # {} /\ TakeOwn(t, Lowest(OwnQueued(j)), Tail(slots))
GroupWaitRuns(t, j) ==
    /\ OwnQueued(j) # {}
    /\ LET k == Lowest(OwnQueued(j)) IN TakeOwn(t, k, CloseGap(k))

GroupWaitOnlyParks(t, j) ==
    /\ Runs(t, j) /\ InGroupWait(j) /\ gpending[j] > 0
    /\ work_done' = work_done \cup {t}
    /\ UNCHANGED <<ring, stack, pending, shutdown, started, work_ready, gpending, life,
                   barrier, exit, submitted, ran>>

GroupWait(t, j) ==
    /\ Runs(t, j) /\ InGroupWait(j) /\ gpending[j] > 0
    /\ GroupWaitParks(t, j) \/ GroupWaitRuns(t, j)
    /\ UNCHANGED <<pending, shutdown, started, work_ready, gpending, life, barrier,
                   exit, submitted, ran>>

\* The item on top of t's stack returns and its counts are settled.
Settle(t, i) ==
    /\ Runs(t, i) /\ OutsideLoop(i) /\ i \notin Endless
    /\ Kids(i) \subseteq submitted
    /\ stack' = [stack EXCEPT ![t] = Front(@)]
    /\ pending' = pending - 1
    /\ gpending' = IF Parent[i] = NoGroup THEN gpending
                   ELSE [gpending EXCEPT ![Parent[i]] = @ - 1]
    /\ ran' = ran \cup {i}
    /\ UNCHANGED <<ring, shutdown, started, work_ready, life, barrier, exit,
                   submitted>>

\* The end of pool_worker's iteration wakes barrier and group waiters.
WorkerSettles(t, i) ==
    /\ t \in Workers /\ Len(stack[t]) = 1
    /\ Settle(t, i)
    /\ work_done' = IF pending' = 0 \/ Parent[i] # NoGroup THEN {} ELSE work_done

\* The end of an iteration of Iron_pool_group_wait wakes barrier waiters.
GroupSettles(t, i) ==
    /\ Len(stack[t]) > 1
    /\ Settle(t, i)
    /\ work_done' = IF pending' = 0 THEN {} ELSE work_done

\* Iron_pool_barrier, called by program thread c.
BarrierCall(c) ==
    /\ c \in BarrierCallers
    /\ InProgram(c, c) /\ OutsideLoop(c)
    /\ barrier' = [barrier EXCEPT ![c] = {submitted}]
    /\ UNCHANGED <<ring, pending, shutdown, started, work_ready, work_done, gpending,
                   stack, life, exit, submitted, ran>>

BarrierWait(c) ==
    /\ Runs(c, c) /\ barrier[c] # {}
    /\ pending > 0
    /\ work_done' = work_done \cup {c}
    /\ UNCHANGED <<ring, pending, shutdown, started, work_ready, gpending, stack,
                   life, barrier, exit, submitted, ran>>

BarrierReturnWhen(c, ready) ==
    /\ Runs(c, c) /\ barrier[c] # {}
    /\ ready
    /\ barrier' = [barrier EXCEPT ![c] = {}]
    /\ UNCHANGED <<ring, pending, shutdown, started, work_ready, work_done, gpending,
                   stack, life, exit, submitted, ran>>

BarrierReturnOnceDrained(c) == BarrierReturnWhen(c, queue = <<>>)
BarrierReturn(c) == BarrierReturnWhen(c, pending =< 0)

\* iron_threads_shutdown at the end of main: pool_shutdown_idle decides.
EndOfMain ==
    /\ exit = "running"
    /\ InProgram(Main, Main) /\ OutsideLoop(Main)

ShutdownBusy ==
    /\ EndOfMain /\ pending > 0
    /\ shutdown' = TRUE
    /\ queue_count' = 0
    /\ UNCHANGED slots
    /\ work_ready' = {}
    /\ started' = FALSE
    /\ exit' = "abandoned"
    /\ UNCHANGED <<pending, work_done, gpending, stack, life, barrier, submitted, ran>>

ShutdownIdle ==
    /\ EndOfMain /\ pending =< 0
    /\ exit' = "destroy"
    /\ UNCHANGED <<ring, pending, shutdown, started, work_ready, work_done, gpending,
                   stack, life, barrier, submitted, ran>>

\* Iron_pool_destroy: shutdown and broadcast, join every worker, free.
DestroyBegin ==
    /\ exit = "destroy"
    /\ shutdown' = TRUE
    /\ work_ready' = {}
    /\ exit' = "joining"
    /\ UNCHANGED <<ring, pending, started, work_done, gpending, stack, life, barrier,
                   submitted, ran>>

Joined == started => \A w \in Workers : life[w] # "live"

DestroyFree ==
    /\ exit = "joining"
    /\ Joined
    /\ exit' = "freed"
    /\ UNCHANGED <<ring, pending, shutdown, started, work_ready, work_done, gpending,
                   stack, life, barrier, submitted, ran>>

SpuriousWake(t) ==
    /\ t \in work_ready \cup work_done
    /\ work_ready' = work_ready \ {t}
    /\ work_done' = work_done \ {t}
    /\ UNCHANGED <<ring, pending, shutdown, started, gpending, stack, life, barrier,
                   exit, submitted, ran>>

WorkerStep(w) == WorkerWait(w) \/ WorkerExit(w) \/ WorkerTake(w)
JobStep(t) ==
    \/ \E j \in Jobs, i \in Items : SubmitChunk(t, j, i)
    \/ \E j \in Jobs : GroupWait(t, j)
    \/ \E i \in Items : WorkerSettles(t, i) \/ GroupSettles(t, i)
ClientStep(c) ==
    \/ BarrierCall(c)
    \/ BarrierWait(c)
    \/ BarrierReturn(c)
ExitStep == ShutdownBusy \/ ShutdownIdle \/ DestroyBegin \/ DestroyFree

Next ==
    \/ \E w \in Workers : WorkerStep(w)
    \/ \E t \in Threads :
           \/ JobStep(t)
           \/ \E j \in Jobs, i \in Items : SpawnStatement(t, j, i)
           \/ SpuriousWake(t)
    \/ \E c \in Clients : ClientStep(c)
    \/ ExitStep

Spec == Init /\ [][Next]_vars

(***************************************************************************)
(* Threads inside pool code keep running, an item that is not endless      *)
(* returns, and a loop that has begun submits its chunks.  A program       *)
(* thread need not begin a loop, spawn, or reach the end of main.          *)
(***************************************************************************)
LoopBegun(t) == \E j \in Jobs :
    /\ Runs(t, j)
    /\ j \in Items \/ Kids(j) \cap submitted # {}

Fairness ==
    /\ \A w \in Workers : WF_vars(WorkerStep(w))
    /\ \A t \in Threads : WF_vars(LoopBegun(t) /\ JobStep(t))
    /\ \A c \in Clients : WF_vars(BarrierWait(c) \/ BarrierReturn(c))
    /\ WF_vars(DestroyBegin \/ DestroyFree)

FairSpec == Spec /\ Fairness

----------------------------------------------------------------------------

TypeOK ==
    /\ slots \in Seq(Items) /\ queue_count \in 0 .. Len(slots) /\ pending \in Nat
    /\ shutdown \in BOOLEAN /\ started \in BOOLEAN
    /\ work_ready \in SUBSET Workers /\ work_done \in SUBSET Threads
    /\ gpending \in [Jobs -> Int]
    /\ stack \in [Threads -> Seq(Jobs)]
    /\ life \in [Workers -> {"none", "live", "exited"}]
    /\ barrier \in [Clients -> SUBSET SUBSET Items]
    /\ exit \in {"running", "abandoned", "destroy", "joining", "freed"}
    /\ submitted \in SUBSET Items /\ ran \in SUBSET Items

Abandoned == exit = "abandoned"

\* Until the program ends, an item is in one place: queued once, on one
\* stack, or finished.  A chunk that a waiter pulls out of the middle of the
\* queue is neither skipped nor run twice by the workers.
RunOnce == ~Abandoned =>
    /\ queue = slots /\ IsInjective(queue)
    /\ \A t, u \in Threads : \A k \in DOMAIN stack[t], m \in DOMAIN stack[u] :
           stack[t][k] = stack[u][m] => t = u /\ k = m
    /\ submitted = ToSet(queue) \cup Running \cup ran
    /\ ToSet(queue) \cap (Running \cup ran) = {}
    /\ Running \cap ran = {}

\* pending counts the items queued or running, and a group's pending its
\* own: neither is settled twice or forgotten.
CountsExact == ~Abandoned =>
    /\ pending = Cardinality(submitted \ ran)
    /\ \A j \in Jobs : gpending[j] = Cardinality((Kids(j) \cap submitted) \ ran)

\* A job that is past its parallel for has all the loop's chunks behind it:
\* none of them is still queued or running on another thread, where it would
\* use the frame the job is about to leave.  (Not so once pool_shutdown_idle
\* has dropped the queue under a running loop: the ring's head and tail stay,
\* and the loop's waiter may find a chunk of its own twice.)
LoopComplete == ~Abandoned => \A i \in ran : Kids(i) \subseteq ran

\* The pool's books: every item is in one place, the counts its waiters decide
\* by are exact, and a loop that has returned left nothing behind.
BooksExact == TypeOK /\ RunOnce /\ CountsExact /\ LoopComplete

\* Iron_pool_barrier returns after every item submitted before the call.
BarrierSound == [][\A c \in Clients :
    barrier[c] # {} /\ barrier'[c] = {} => UNION barrier[c] \subseteq ran]_vars

\* While a worker is parked there are as many workers on their way to the
\* queue as it has items: no submitted item waits for a signal that was
\* consumed by somebody else.
ReadyWakeups ==
    work_ready # {} =>
        Len(queue) =< Cardinality({w \in Workers : AtLoopTop(w)})

\* A thread parked on work_done still has something to wait for: the last
\* settling thread wakes it (worker or another loop's waiter), and it never
\* sleeps while a chunk of its own loop is queued.
DoneWakeups == ~Abandoned => \A t \in work_done :
    LET j == Last(stack[t]) IN
    \/ InGroupWait(j) /\ gpending[j] > 0 /\ OwnQueued(j) = {}
    \/ j \in Clients /\ barrier[j] # {} /\ pending > 0

\* No wakeup is lost, neither by a worker nor by a thread that waits for items
\* to finish.
WakeupsKept == ReadyWakeups /\ DoneWakeups

\* A started parallel for completes, however deep it is nested and even when
\* every worker is itself waiting for an inner loop (unless the program
\* ended meanwhile and dropped its chunks).
LoopsComplete == \A j \in Jobs :
    (Kids(j) \cap submitted # {}) ~> (Kids(j) \subseteq ran \/ exit = "abandoned")

\* Iron_pool_destroy terminates: every worker sees shutdown and is joined.
DestroyTerminates == (exit = "joining") ~> (exit = "freed")

\* Nobody waits forever: neither for a loop nor for the workers at the end.
WaitsEnd == LoopsComplete /\ DestroyTerminates

\* What iron_threads.c:1114-1117 says of a pool with work left: "its workers
\* keep pointers to it, so it is not freed"; "otherwise it is idle and is
\* destroyed".  A pool that is freed is then used by nobody: no worker lives,
\* and no program thread is between a submit and the end of its group wait.
\* The end of main asks pending, which is 0 between two submits of a loop:
\* with a second program thread this is false.
FreedUnused ==
    exit = "freed" =>
        /\ \A w \in Workers : life[w] # "live"
        /\ \A c \in Clients : OutsideLoop(c) /\ barrier[c] = {}
====
