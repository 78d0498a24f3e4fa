---- MODULE IronIoPool ----
(***************************************************************************)
(* The elastic I/O pool of the runtime (src/src/runtime/iron_threads.c)    *)
(* and its client Iron_net_lookup_host (src/src/stdlib/iron_net.c), which  *)
(* runs getaddrinfo on the pool under a deadline.  Caller and worker share *)
(* a heap job (DnsJob with its Iron_PoolWait): a caller that gives up sets *)
(* abandoned, tells the pool that a worker leaked, and leaves the job to   *)
(* the worker.                                                             *)
(*                                                                         *)
(* A critical section (pool->lock or w->lock) is one action.  The clock is *)
(* one flag per lookup, raised at any time: its deadline has passed.       *)
(***************************************************************************)
EXTENDS Integers, Sequences, FiniteSets, SequencesExt

CONSTANTS
    Lookups,        \* calls of Iron_net_lookup_host
    Workers,        \* identities of the threads the pool may create
    max_threads,    \* also thread_slots_cap (64 in the code)
    Nobody          \* the empty-slot sentinel

ASSUME IoPoolAssumption ==
    /\ IsFiniteSet(Lookups) /\ IsFiniteSet(Workers)
    /\ Cardinality(Lookups) =< Cardinality(Workers)    \* a submit spawns at most one
    /\ max_threads \in Nat \ {0}
    /\ Nobody \notin Workers \cup Lookups

VARIABLES
    queue, pending, thread_count, idle_threads, shutdown,   \* Iron_Pool
    threads,            \* its slots
    work_ready,         \* wait set
    wpc, wjob, expired, \* each worker: place, lookup it runs, timed out
    lpc, late,          \* each lookup: its caller's place, deadline passed
    completed, abandoned,   \* the lookup's Iron_PoolWait
    frees,              \* how often the job and its wait were freed
    exit, joining,      \* progress of Iron_pool_destroy, threads to join
    intruders           \* lookups begun after it began

pool == <<queue, pending, thread_count, idle_threads, shutdown, threads, work_ready>>
workers == <<wpc, wjob, expired>>
lookups == <<lpc, late, completed, abandoned, frees>>
ending == <<exit, joining, intruders>>
vars == <<pool, workers, lookups, ending>>

Slots == 1 .. max_threads
FreeSlots == {s \in Slots : threads[s] = Nobody}
Lowest(S) == CHOOSE s \in S : \A r \in S : s =< r
Signal(waiters) == IF waiters = {} THEN {{}} ELSE {waiters \ {u} : u \in waiters}

Init ==
    /\ queue = <<>> /\ pending = 0 /\ thread_count = 0 /\ idle_threads = 0
    /\ shutdown = FALSE
    /\ threads = [s \in Slots |-> Nobody]
    /\ work_ready = {}
    /\ wpc = [w \in Workers |-> "none"]
    /\ wjob = [w \in Workers |-> Nobody]
    /\ expired = [w \in Workers |-> FALSE]
    /\ lpc = [l \in Lookups |-> "idle"]
    /\ late = [l \in Lookups |-> FALSE]
    /\ completed = [l \in Lookups |-> FALSE]
    /\ abandoned = [l \in Lookups |-> FALSE]
    /\ frees = [l \in Lookups |-> 0]
    /\ exit = "running" /\ joining = {} /\ intruders = {}

\* Iron_pool_destroy has not freed the pool yet.  Once it has, Iron_io_pool
\* points to freed memory ("freed") until it is set to NULL ("gone").
Exists == exit \notin {"freed", "gone"}

----------------------------------------------------------------------------
(* The caller: Iron_net_lookup_host.                                       *)

\* Iron_pool_submit grows the pool when nobody is parked.
WantsWorker == idle_threads = 0 /\ thread_count < max_threads

\* pool_spawn_elastic_worker_locked: silently nothing without a free slot.
Spawn ==
    IF FreeSlots = {}
    THEN UNCHANGED <<threads, thread_count, wpc>>
    ELSE LET w == CHOOSE v \in Workers : wpc[v] = "none" IN
            /\ threads' = [threads EXCEPT ![Lowest(FreeSlots)] = w]
            /\ thread_count' = thread_count + 1
            /\ wpc' = [wpc EXCEPT ![w] = "top"]

Grow == IF WantsWorker THEN Spawn ELSE UNCHANGED <<threads, thread_count, wpc>>

\* Iron_pool_submit does not look at shutdown: any thread of the program may
\* call while main is destroying the pool.
Enter(l) ==
    /\ lpc[l] = "idle"
    /\ intruders' = IF exit = "running" THEN intruders ELSE intruders \cup {l}

LookupSubmit(l) ==
    /\ Enter(l) /\ Exists
    /\ lpc' = [lpc EXCEPT ![l] = "wait"]
    /\ queue' = Append(queue, l)
    /\ pending' = pending + 1
    /\ Grow
    /\ work_ready' \in Signal(work_ready)
    /\ UNCHANGED <<idle_threads, shutdown, wjob, expired, late, completed, abandoned,
                   frees, exit, joining>>

\* Iron_io_pool is NULL: nothing is submitted, and the caller waits.
LookupSubmitNull(l) ==
    /\ Enter(l) /\ exit = "gone"
    /\ lpc' = [lpc EXCEPT ![l] = "wait"]
    /\ UNCHANGED <<pool, workers, late, completed, abandoned, frees, exit, joining>>

\* A call on the pool that has just been freed.  The thread is followed no
\* further.
LookupAstray(l) ==
    /\ exit = "freed"
    /\ \/ Enter(l)
       \/ lpc[l] = "leak" /\ UNCHANGED intruders
    /\ lpc' = [lpc EXCEPT ![l] = "astray"]
    /\ UNCHANGED <<pool, workers, late, completed, abandoned, frees, exit, joining>>

\* The deadline passes.
Deadline(l) ==
    /\ lpc[l] \notin {"idle", "astray"} /\ ~late[l]
    /\ late' = [late EXCEPT ![l] = TRUE]
    /\ UNCHANGED <<pool, workers, lpc, completed, abandoned, frees, ending>>

\* The while loop found time left and calls Iron_poolwait_wait_ms: it parks
\* unless the job is completed.
LookupWaitAgain(l) ==
    /\ lpc[l] = "wait"
    /\ lpc' = [lpc EXCEPT ![l] = IF completed[l] THEN "done" ELSE "parked"]
    /\ UNCHANGED <<pool, workers, late, completed, abandoned, frees, ending>>

LookupWait(l) ==
    /\ lpc[l] = "wait" /\ ~late[l]
    /\ lpc' = [lpc EXCEPT ![l] = IF completed[l] THEN "done" ELSE "parked"]
    /\ UNCHANGED <<pool, workers, late, completed, abandoned, frees, ending>>

\* wait_ms returns, signalled, timed out or spuriously.
LookupWake(l) ==
    /\ lpc[l] = "parked"
    /\ lpc' = [lpc EXCEPT ![l] = IF completed[l] THEN "done" ELSE "wait"]
    /\ UNCHANGED <<pool, workers, late, completed, abandoned, frees, ending>>

\* rem <= 0, or wait_ms returned an error: Iron_poolwait_set_abandoned.
LookupAbandon(l) ==
    /\ lpc[l] = "parked" \/ (lpc[l] = "wait" /\ late[l])
    /\ abandoned' = [abandoned EXCEPT ![l] = TRUE]
    /\ lpc' = [lpc EXCEPT ![l] = "leak"]
    /\ UNCHANGED <<pool, workers, late, completed, frees, ending>>

\* Iron_pool_mark_one_leaked, then the timeout is returned.
LookupLeak(l) ==
    /\ lpc[l] = "leak" /\ Exists
    /\ pending' = IF pending > 0 THEN pending - 1 ELSE pending
    /\ thread_count' = IF thread_count > 0 THEN thread_count - 1 ELSE thread_count
    /\ lpc' = [lpc EXCEPT ![l] = "returned"]
    /\ UNCHANGED <<queue, idle_threads, shutdown, threads, work_ready, workers, late,
                   completed, abandoned, frees, ending>>

\* The same with Iron_io_pool already NULL.
LookupLeakNull(l) ==
    /\ lpc[l] = "leak" /\ exit = "gone"
    /\ lpc' = [lpc EXCEPT ![l] = "returned"]
    /\ UNCHANGED <<pool, workers, late, completed, abandoned, frees, ending>>

\* Normal path: the caller reads the result and frees job and wait.
LookupReturn(l) ==
    /\ lpc[l] = "done"
    /\ frees' = [frees EXCEPT ![l] = @ + 1]
    /\ lpc' = [lpc EXCEPT ![l] = "returned"]
    /\ UNCHANGED <<pool, workers, late, completed, abandoned, ending>>

LookupStep(l) ==
    \/ LookupWait(l) \/ LookupWake(l) \/ LookupAbandon(l)
    \/ LookupLeak(l) \/ LookupLeakNull(l) \/ LookupReturn(l)

----------------------------------------------------------------------------
(* The worker: pool_worker_elastic running dns_worker_fn.                  *)

\* The worker holds the lock at the top of its loop, or back from its wait.
\* One that outlives the pool is followed no further.
Looking(w) == wpc[w] = "top" /\ Exists

WorkerPark(w) ==
    /\ Looking(w) /\ ~expired[w]
    /\ queue = <<>> /\ ~shutdown
    /\ idle_threads' = idle_threads + 1
    /\ work_ready' = work_ready \cup {w}
    /\ wpc' = [wpc EXCEPT ![w] = "parked"]
    /\ UNCHANGED <<queue, pending, thread_count, shutdown, threads, wjob, expired,
                   lookups, ending>>

\* The timed wait returns with the lock: signalled, spurious, or out of time
\* (the signal may have been sent to this very worker).
WorkerUnpark(w, timeout) ==
    /\ wpc[w] = "parked" /\ Exists
    /\ idle_threads' = idle_threads - 1
    /\ work_ready' = work_ready \ {w}
    /\ wpc' = [wpc EXCEPT ![w] = "top"]
    /\ expired' = [expired EXCEPT ![w] = timeout]
    /\ UNCHANGED <<queue, pending, thread_count, shutdown, threads, wjob, lookups,
                   ending>>

WorkerStop(w) ==
    /\ Looking(w)
    /\ shutdown /\ queue = <<>>
    /\ thread_count' = thread_count - 1
    /\ wpc' = [wpc EXCEPT ![w] = "gone"]
    /\ UNCHANGED <<queue, pending, idle_threads, shutdown, threads, work_ready, wjob,
                   expired, lookups, ending>>

\* The slot a retiring worker clears: its own (the POSIX branch).
RetiredSlot(w) == Lowest({s \in Slots : threads[s] = w})

Retire(w) ==
    /\ threads' = [threads EXCEPT ![RetiredSlot(w)] = Nobody]
    /\ thread_count' = thread_count - 1
    /\ wpc' = [wpc EXCEPT ![w] = "gone"]

WorkerRetireUnchecked(w) ==
    /\ Looking(w) /\ expired[w]
    /\ ~shutdown
    /\ Retire(w)
    /\ UNCHANGED <<queue, pending, idle_threads, shutdown, work_ready, wjob, expired,
                   lookups, ending>>

WorkerRetire(w) ==
    /\ Looking(w) /\ expired[w]
    /\ queue = <<>> /\ ~shutdown
    /\ Retire(w)
    /\ UNCHANGED <<queue, pending, idle_threads, shutdown, work_ready, wjob, expired,
                   lookups, ending>>

WorkerTake(w) ==
    /\ Looking(w)
    /\ queue # <<>>
    /\ wjob' = [wjob EXCEPT ![w] = Head(queue)]
    /\ queue' = Tail(queue)
    /\ expired' = [expired EXCEPT ![w] = FALSE]
    /\ wpc' = [wpc EXCEPT ![w] = "resolve"]
    /\ UNCHANGED <<pending, thread_count, idle_threads, shutdown, threads, work_ready,
                   lookups, ending>>

FinishFreesAlways(l) ==
    /\ completed' = [completed EXCEPT ![l] = TRUE]
    /\ frees' = [frees EXCEPT ![l] = @ + 1]

\* getaddrinfo returned: Iron_poolwait_worker_finish hands the job to the
\* caller, or runs dns_abandoned_destructor.
Finish(l) ==
    /\ completed' = [completed EXCEPT ![l] = TRUE]
    /\ frees' = IF abandoned[l] THEN [frees EXCEPT ![l] = @ + 1] ELSE frees

WorkerFinish(w) ==
    /\ wpc[w] = "resolve"
    /\ Finish(wjob[w])
    /\ wpc' = [wpc EXCEPT ![w] = "settle"]
    /\ UNCHANGED <<pool, wjob, expired, lpc, late, abandoned, ending>>

WorkerSettle(w) ==
    /\ wpc[w] = "settle" /\ Exists
    /\ pending' = pending - 1
    /\ wjob' = [wjob EXCEPT ![w] = Nobody]
    /\ wpc' = [wpc EXCEPT ![w] = "top"]
    /\ UNCHANGED <<queue, thread_count, idle_threads, shutdown, threads, work_ready,
                   expired, lookups, ending>>

\* What a running worker does without waiting for getaddrinfo or a timeout.
WorkerStep(w) ==
    WorkerPark(w) \/ WorkerStop(w) \/ WorkerRetire(w) \/ WorkerTake(w) \/ WorkerSettle(w)

----------------------------------------------------------------------------
(* Iron_pool_destroy from iron_threads_shutdown, at the end of main: other  *)
(* threads of the program may be inside a lookup, or begin one.            *)

DestroyBegin ==
    /\ exit = "running"
    /\ shutdown' = TRUE
    /\ work_ready' = {}
    /\ exit' = "stopping"
    /\ UNCHANGED <<queue, pending, thread_count, idle_threads, threads, workers,
                   lookups, joining, intruders>>

DestroySnapshot ==
    /\ exit = "stopping"
    /\ joining' = {threads[s] : s \in Slots} \ {Nobody}
    /\ threads' = [s \in Slots |-> Nobody]
    /\ exit' = "joining"
    /\ UNCHANGED <<queue, pending, thread_count, idle_threads, shutdown, work_ready,
                   workers, lookups, intruders>>

Joined == \A w \in joining : wpc[w] = "gone"

DestroyFree ==
    /\ exit = "joining"
    /\ Joined
    /\ exit' = "freed"
    /\ UNCHANGED <<pool, workers, lookups, joining, intruders>>

\* Iron_io_pool = NULL
DestroyDone ==
    /\ exit = "freed"
    /\ exit' = "gone"
    /\ UNCHANGED <<pool, workers, lookups, joining, intruders>>

DestroyStep == DestroySnapshot \/ DestroyFree \/ DestroyDone

Next ==
    \/ \E l \in Lookups :
          \/ LookupSubmit(l) \/ LookupSubmitNull(l) \/ LookupAstray(l)
          \/ Deadline(l) \/ LookupStep(l)
    \/ \E w \in Workers :
          \/ WorkerStep(w)
          \/ WorkerFinish(w)
          \/ \E timeout \in BOOLEAN : WorkerUnpark(w, timeout)
    \/ DestroyBegin \/ DestroyStep

Spec == Init /\ [][Next]_vars

(***************************************************************************)
(* Runnable threads run, time passes, a signalled worker leaves its wait,  *)
(* and destroy goes on.  Nothing is assumed of getaddrinfo.                *)
(***************************************************************************)
Fairness ==
    /\ \A l \in Lookups : WF_vars(LookupStep(l)) /\ WF_vars(Deadline(l))
    /\ \A w \in Workers :
          /\ WF_vars(WorkerStep(w))
          /\ WF_vars(w \notin work_ready /\ WorkerUnpark(w, FALSE))
    /\ WF_vars(DestroyStep)

FairSpec == Spec /\ Fairness

----------------------------------------------------------------------------

TypeOK ==
    /\ queue \in Seq(Lookups) /\ pending \in Int /\ thread_count \in Int
    /\ idle_threads \in 0 .. Cardinality(Workers)
    /\ shutdown \in BOOLEAN
    /\ threads \in [Slots -> Workers \cup {Nobody}]
    /\ work_ready \in SUBSET Workers
    /\ wpc \in [Workers -> {"none", "top", "parked", "resolve", "settle", "gone"}]
    /\ wjob \in [Workers -> Lookups \cup {Nobody}]
    /\ expired \in [Workers -> BOOLEAN]
    /\ lpc \in [Lookups -> {"idle", "wait", "parked", "done", "leak", "returned", "astray"}]
    /\ late \in [Lookups -> BOOLEAN]
    /\ completed \in [Lookups -> BOOLEAN] /\ abandoned \in [Lookups -> BOOLEAN]
    /\ frees \in [Lookups -> Nat]
    /\ exit \in {"running", "stopping", "joining", "freed", "gone"}
    /\ joining \in SUBSET Workers /\ intruders \in SUBSET Lookups

Alive == {w \in Workers : wpc[w] \notin {"none", "gone"}}

\* A job is freed at most once and never while the other side still uses
\* it: not under a caller that has not given up, not before the worker has
\* finished with it.
JobSafety == \A l \in Lookups :
    /\ frees[l] =< 1
    /\ frees[l] = 1 =>
          /\ lpc[l] \in {"leak", "returned", "astray"}
          /\ l \notin ToSet(queue)
          /\ \A w \in Workers : wjob[w] = l => wpc[w] = "settle"

\* The slots name the threads that destroy must join: every live worker has
\* one slot of its own until destroy takes the snapshot.
SlotsExact == exit \in {"running", "stopping"} =>
    /\ \A w \in Alive : Cardinality({s \in Slots : threads[s] = w}) = 1
    /\ exit = "running" => \A s \in Slots : threads[s] \in Alive \cup {Nobody}

\* "User must not submit during destroy" (iron_threads.c:413): nobody has.
Contract == intruders = {}

\* A queued lookup always has a worker coming for it, although a submit
\* neither spawns nor wakes anybody when the parked worker it counted on
\* (idle_threads) is at that moment timing out.  Not so for a lookup that is
\* submitted during destroy: the slots may all be those of workers that have
\* stopped, and nobody is started.
NoStranded ==
    queue # <<>> /\ Contract => \E w \in Alive : w \notin work_ready

\* If nobody submits during destroy, the pool is freed after its last worker,
\* including those whose callers have given up, and with every lookup run;
\* callers may still be inside a lookup all the while.
Drained == ~Exists /\ Contract =>
    Alive = {} /\ queue = <<>> /\ \A l \in Lookups : lpc[l] # "idle" => completed[l]

\* Jobs and workers have one owner: a job is never freed twice or under the
\* other side, whatever destroy does meanwhile; every live worker can be
\* joined; and destroy leaves nobody and nothing behind who was there before.
\* That somebody frees every job is not claimed here: see GivenUpFreed.
OwnersExact == TypeOK /\ JobSafety /\ SlotsExact /\ Drained

\* What iron_threads.c:1156-1158 says of joining the workers: "so a lookup the
\* caller gave up on still frees its job".  A lookup that completes between
\* its caller's last look and Iron_poolwait_set_abandoned is freed by nobody.
GivenUpFreed ==
    ~Exists /\ Contract => \A l \in Lookups : abandoned[l] => frees[l] = 1

\* Every lookup returns to its caller, even while getaddrinfo hangs, unless
\* the program ends meanwhile.
LookupReturns == \A l \in Lookups :
    (lpc[l] = "wait") ~> (lpc[l] = "returned" \/ exit # "running")

\* Iron_pool_destroy returns once every getaddrinfo does ("each bounded by
\* the system's timeouts"), also when lookups go on being submitted.
DestroyTerminates ==
    (\A w \in Workers : WF_vars(WorkerFinish(w))) => (exit = "stopping") ~> (exit = "gone")

\* Nobody waits forever, neither the caller of a lookup nor the end of main.
WaitsEnd == LookupReturns /\ DestroyTerminates
====
