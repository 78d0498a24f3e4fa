------------------------------ MODULE MysqlPool ------------------------------
(***************************************************************************)
(* The connection pool of the MySQL client (src/stdlib/iron_mysql.c): tasks *)
(* that share one pool take a connection, run a statement or a transaction *)
(* on it and give it back, while the server closes connections, a          *)
(* connection outlives its limits, and the pool is closed and freed.       *)
(*                                                                         *)
(* Every region under the pool's lock is one step, and so is every stretch *)
(* between two of them.  A connection is reduced to what the pool looks    *)
(* at: its link, whether a transaction is open on it, and whether it has   *)
(* outlived max_lifetime or idled past idle_timeout.  Memory allocation    *)
(* does not fail.                                                          *)
(***************************************************************************)
EXTENDS Naturals, Sequences, FiniteSets, SequencesExt

CONSTANTS
  Tasks,     \* the tasks that share the pool through rc handles
  Acquirers, \* those that acquire connections; the others run statements
  MaxConns,  \* options.max
  MinConns,  \* options.min
  Structs,   \* bound: MyConn structures that exist at once
  Calls,     \* bound: pool calls each task makes
  Events     \* bound: failures, closures and limits that pass

ASSUME PoolAssumption ==
  /\ Acquirers \subseteq Tasks /\ MaxConns \in Nat \ {0} /\ MinConns \in 0..MaxConns
  /\ {Structs, Calls, Events} \subseteq Nat
  /\ IsFiniteSet(Tasks) /\ MinConns <= Structs

VARIABLES
  conn,      \* the connections: [link, tx, aged, rested]
  pool,      \* MyPool: [idle, total, in_use, closing, refs]
  reset,     \* options.reset_on_release
  task,      \* each task: its call, the connection it holds, what it discards
  left,      \* the calls each task has yet to make
  main,      \* the owner of the pool's handle: [pc, trash]
  events     \* how many of the Events are left

vars == <<conn, pool, reset, task, left, main, events>>

Conns == 1..Structs

None == [link |-> "none", tx |-> FALSE, aged |-> FALSE, rested |-> FALSE]

\* A connection conn_open has just authenticated.
Opened == [None EXCEPT !.link = "up"]

\* A task between two calls.
Resting == [pc |-> "ready", conn |-> 0, reused |-> FALSE,
            second |-> FALSE, retry |-> FALSE, trash |-> <<>>, ran |-> 0]

-----------------------------------------------------------------------------
(* Operators named for a mistake are deliberate variants that the           *)
(* specification does not use.                                             *)
(*                                                                         *)
(* Opening the pool.                                                       *)

\* options.min connections are opened, all idle.  When one of them cannot be
\* opened the pool is shut down before anyone has seen it, and its owner
\* holds a closed one.
OpenPool(ok) ==
  LET n == IF ok THEN MinConns ELSE 0 IN
  /\ pool = [idle |-> [i \in 1..n |-> i], total |-> n, in_use |-> 0,
             closing |-> ~ok, refs |-> n + 1]
  /\ conn = [c \in Conns |-> IF c <= n THEN Opened ELSE None]

Init ==
  /\ \E ok \in BOOLEAN : OpenPool(ok)
  /\ reset \in BOOLEAN
  /\ task = [t \in Tasks |-> Resting]
  /\ left = [t \in Tasks |-> Calls]
  /\ main = [pc |-> "live", trash |-> <<>>]
  /\ events = Events

\* One of the Events: a failure of the server or the network, or a limit
\* that passes.
Event == events > 0 /\ events' = events - 1

-----------------------------------------------------------------------------
(* Taking a connection: pool_take.                                         *)

WakesNobody(ts) == ts

\* iron_cond_broadcast: every waiter goes back to the top of the loop.
Broadcast(ts) ==
  [t \in Tasks |-> IF ts[t].pc = "wait" THEN [ts[t] EXCEPT !.pc = "take"] ELSE ts[t]]

\* A task calls acquire, or query, exec or run.
Begin(t) ==
  /\ task[t].pc = "ready" /\ left[t] > 0
  /\ left' = [left EXCEPT ![t] = @ - 1]
  /\ task' = [task EXCEPT ![t].pc = "take"]
  /\ UNCHANGED <<conn, pool, reset, main, events>>

\* The top of the loop: a closed pool hands nothing out.
Refuse(t) ==
  /\ task[t].pc = "take" /\ pool.closing
  /\ task' = [task EXCEPT ![t] = Resting]
  /\ UNCHANGED <<conn, pool, reset, left, main, events>>

\* The lock is held and the top of the loop is past.  A task that has just
\* dropped a dead connection comes here without passing the top: the
\* "continue" after its test of closing continues the inner loop.
Choosing(t) == task[t].pc = "retake" \/ (task[t].pc = "take" /\ ~pool.closing)

\* The connection has outlived max_lifetime, or idled past idle_timeout while
\* the pool counts more than min.
Expired(c, total) == conn[c].aged \/ (conn[c].rested /\ total > MinConns)

\* The idle connection used last is taken out, to be looked at unlocked.
TakeIdle(t) ==
  /\ Choosing(t) /\ pool.idle # <<>>
  /\ LET c == Last(pool.idle) IN
     /\ task' = [task EXCEPT ![t].conn = c,
                   ![t].pc = IF Expired(c, pool.total) THEN "dead" ELSE "vet"]
     /\ pool' = [pool EXCEPT !.idle = Front(@), !.in_use = @ + 1]
  /\ UNCHANGED <<conn, reset, left, main, events>>

\* A place for a connection to be opened is reserved.
Reserve(t) ==
  /\ Choosing(t) /\ pool.idle = <<>> /\ pool.total < MaxConns
  /\ task' = [task EXCEPT ![t].pc = "open"]
  /\ pool' = [pool EXCEPT !.total = @ + 1, !.in_use = @ + 1]
  /\ UNCHANGED <<conn, reset, left, main, events>>

\* Every connection is in use: wait, or give up once acquire_timeout is over.
Full(t) ==
  /\ Choosing(t) /\ pool.idle = <<>> /\ pool.total >= MaxConns
  /\ \/ task' = [task EXCEPT ![t].pc = "wait"] /\ UNCHANGED events
     \/ Event /\ task' = [task EXCEPT ![t] = Resting]
  /\ UNCHANGED <<conn, pool, reset, left, main>>

\* The wait ends by its time limit or for no reason.
WakeUp(t) ==
  /\ task[t].pc = "wait"
  /\ task' = [task EXCEPT ![t].pc = "take"]
  /\ UNCHANGED <<conn, pool, reset, left, main, events>>

\* conn_alive and, for one that idled past health_check, a ping: the
\* connection is handed out.
Vet(t) ==
  /\ task[t].pc = "vet" /\ conn[task[t].conn].link = "up"
  /\ task' = [task EXCEPT ![t].pc = "held", ![t].reused = TRUE]
  /\ UNCHANGED <<conn, pool, reset, left, main, events>>

\* It has expired, the server has closed it or the ping fails: it no longer
\* counts.  Nobody is woken: the place is the task's own to fill.
DropDead(t) ==
  /\ \/ task[t].pc = "dead" /\ UNCHANGED events
     \/ task[t].pc = "vet" /\ conn[task[t].conn].link # "up" /\ UNCHANGED events
     \/ task[t].pc = "vet" /\ conn[task[t].conn].link = "up" /\ Event
  /\ task' = [task EXCEPT ![t].pc = "dropping", ![t].trash = <<task[t].conn>>,
                          ![t].conn = 0]
  /\ pool' = [pool EXCEPT !.total = @ - 1, !.in_use = @ - 1]
  /\ UNCHANGED <<conn, reset, left, main>>

\* conn_open on the place reserved.
Open(t) ==
  /\ task[t].pc = "open"
  /\ \E c \in Conns :
       /\ conn[c].link = "none" /\ \A d \in 1..c - 1 : conn[d].link # "none"
       /\ conn' = [conn EXCEPT ![c] = Opened]
       /\ task' = [task EXCEPT ![t].pc = "held", ![t].conn = c, ![t].reused = FALSE]
  /\ pool' = [pool EXCEPT !.refs = @ + 1]
  /\ UNCHANGED <<reset, left, main, events>>

OpenFailsSilently(t) ==
  /\ task[t].pc = "open" /\ Event
  /\ task' = [task EXCEPT ![t] = Resting]
  /\ pool' = [pool EXCEPT !.total = @ - 1, !.in_use = @ - 1]
  /\ UNCHANGED <<conn, reset, left, main>>

\* conn_open failed: the place is given up.
OpenFails(t) ==
  /\ task[t].pc = "open" /\ Event
  /\ task' = Broadcast([task EXCEPT ![t] = Resting])
  /\ pool' = [pool EXCEPT !.total = @ - 1, !.in_use = @ - 1]
  /\ UNCHANGED <<conn, reset, left, main>>

-----------------------------------------------------------------------------
(* Using it.                                                               *)

\* What a command leaves behind: how often the server ran it, the link, an
\* open transaction, and whether the write failed.
Outcomes(c) ==
  IF c.link = "up"
  THEN {[ran |-> 1, link |-> "up", tx |-> b, unsent |-> FALSE] : b \in BOOLEAN}
  ELSE {[ran |-> 0, link |-> "broken", tx |-> c.tx, unsent |-> b] : b \in BOOLEAN}

\* The failures of a command on a link that is up: the answer is lost, with
\* or without the command having been run, or the write fails.
Failures(c) ==
  {[ran |-> r, link |-> "broken", tx |-> c.tx, unsent |-> u] :
     r \in 0..1, u \in BOOLEAN} \ {[ran |-> 1, link |-> "broken", tx |-> c.tx, unsent |-> TRUE]}

RetriesWhenBroken(t, o) ==
  t \notin Acquirers /\ task[t].reused /\ o.link = "broken" /\ ~task[t].second

\* pool_run tries once more when the write failed on a reused connection.
Retries(t, o) ==
  t \notin Acquirers /\ task[t].reused /\ o.link = "broken" /\ o.unsent /\ ~task[t].second

\* The statement of pool_run, or what the program does with an acquired
\* connection before it drops it.
Command(t) ==
  LET s == task[t]
      Done(o) ==
        /\ conn' = [conn EXCEPT ![s.conn].link = o.link, ![s.conn].tx = o.tx]
        /\ task' = [task EXCEPT ![t].pc = "giving", ![t].ran = @ + o.ran,
                                ![t].retry = Retries(t, o)]
  IN /\ s.pc = "held"
     /\ \/ \E o \in Outcomes(conn[s.conn]) : Done(o) /\ UNCHANGED events
        \/ conn[s.conn].link = "up" /\ Event /\ \E o \in Failures(conn[s.conn]) : Done(o)
     /\ UNCHANGED <<pool, reset, left, main>>

\* conn_close on an acquired connection: it is closed now, and forgotten by
\* the pool when it is given back.
CloseConn(t) ==
  /\ task[t].pc = "held" /\ t \in Acquirers
  /\ conn' = [conn EXCEPT ![task[t].conn].link = "broken"]
  /\ task' = [task EXCEPT ![t].pc = "giving"]
  /\ UNCHANGED <<pool, reset, left, main, events>>

-----------------------------------------------------------------------------
(* Giving it back: pool_give_back.                                         *)

\* The commands sent before the lock, the rollback of an open transaction and
\* the reset of the session, and the connection after them.  They only touch
\* the task's own connection, so they are one step with the locked part.
Talks(c) == c.link # "broken" /\ (c.tx \/ reset)

Tidied(c, c1) ==
  \/ ~Talks(c) /\ c1 = c /\ UNCHANGED events
  \/ Talks(c) /\ c.link = "up" /\ c1 = [c EXCEPT !.tx = FALSE] /\ UNCHANGED events
  \/ Talks(c) /\ c.link = "gone" /\ c1 = [c EXCEPT !.link = "broken"] /\ UNCHANGED events
  \/ Talks(c) /\ c.link = "up" /\ c1 = [c EXCEPT !.link = "broken"] /\ Event

\* Whether the pool keeps a connection that comes back.
Keeps(c) == ~pool.closing /\ c.link # "broken" /\ ~c.aged

\* Whether the connection that has idled longest is closed: it is past
\* idle_timeout, not the only one, and the pool counts more than min.
Trims(p, cs) ==
  Len(p.idle) > 1 /\ p.total > MinConns /\ cs[Head(p.idle)].rested

\* With nothing left to discard a task that dropped a dead connection looks
\* again, and one that gave its connection back tries once more or returns.
After(s) ==
  IF s.trash # <<>> THEN s
  ELSE IF s.pc = "dropping" THEN [s EXCEPT !.pc = "retake"]
  ELSE IF s.retry THEN [s EXCEPT !.pc = "take", !.second = TRUE, !.retry = FALSE]
  ELSE Resting

\* The locked part: the connection is kept or no longer counts, the one that
\* has idled longest may go, and every waiter is woken.
GiveBack(t) ==
  LET c == task[t].conn IN
  /\ task[t].pc = "giving"
  /\ \E c1 \in {conn[c], [conn[c] EXCEPT !.tx = FALSE], [conn[c] EXCEPT !.link = "broken"]} :
       LET p1 == IF Keeps(c1)
                 THEN [pool EXCEPT !.in_use = @ - 1, !.idle = Append(@, c)]
                 ELSE [pool EXCEPT !.in_use = @ - 1, !.total = @ - 1]
           cs == [conn EXCEPT ![c] = [c1 EXCEPT !.rested = FALSE]]
           out == IF Keeps(c1) THEN <<>> ELSE <<c>>
           trim == Trims(p1, cs)
       IN /\ Tidied(conn[c], c1)
          /\ conn' = cs
          /\ pool' = IF trim THEN [p1 EXCEPT !.idle = Tail(@), !.total = @ - 1] ELSE p1
          /\ task' = Broadcast([task EXCEPT ![t] = After([task[t] EXCEPT
                       !.pc = "given", !.conn = 0,
                       !.trash = IF trim THEN Append(out, Head(p1.idle)) ELSE out])])
  /\ UNCHANGED <<reset, left, main>>

\* pool_discard: the connection is closed and lets go of the pool.
Discarded(c) ==
  /\ conn' = [conn EXCEPT ![c] = None]
  /\ pool' = [pool EXCEPT !.refs = @ - 1]

Discard(t) ==
  /\ task[t].trash # <<>>
  /\ Discarded(Head(task[t].trash))
  /\ task' = [task EXCEPT ![t] = After([task[t] EXCEPT !.trash = Tail(@)])]
  /\ UNCHANGED <<reset, left, main, events>>

-----------------------------------------------------------------------------
(* The owner of the handle: pool_close, and pool_free when the last rc      *)
(* handle is dropped.                                                       *)

\* A task inside a call of the pool, or with calls to make, holds an rc
\* handle; one that holds an acquired connection need not.
HoldsHandle(t) ==
  \/ left[t] > 0
  \/ task[t].pc # "ready" /\ ~(t \in Acquirers
                               /\ task[t].pc \in {"held", "giving", "given"})

ShutdownCopies(pc) ==
  /\ main' = [pc |-> pc, trash |-> pool.idle]
  /\ pool' = [pool EXCEPT !.closing = TRUE, !.total = @ - Len(pool.idle)]
  /\ task' = Broadcast(task)
  /\ UNCHANGED <<conn, reset, left, events>>

\* pool_shutdown, up to the unlock.
Shutdown(pc) ==
  /\ main' = [pc |-> pc, trash |-> pool.idle]
  /\ pool' = [pool EXCEPT !.closing = TRUE, !.idle = <<>>,
                          !.total = @ - Len(pool.idle)]
  /\ task' = Broadcast(task)
  /\ UNCHANGED <<conn, reset, left, events>>

Close ==
  main.pc = "live" /\ Shutdown("closed")

Drop ==
  /\ main.pc \in {"live", "closed"} /\ main.trash = <<>>
  /\ \A t \in Tasks : ~HoldsHandle(t)
  /\ Shutdown("freeing")

MainDiscard ==
  /\ main.trash # <<>>
  /\ Discarded(Head(main.trash))
  /\ main' = [main EXCEPT !.trash = Tail(@)]
  /\ UNCHANGED <<reset, task, left, events>>

\* pool_unref of the handle.
Unref ==
  /\ main.pc = "freeing" /\ main.trash = <<>>
  /\ main' = [main EXCEPT !.pc = "gone"]
  /\ pool' = [pool EXCEPT !.refs = @ - 1]
  /\ UNCHANGED <<conn, reset, task, left, events>>

-----------------------------------------------------------------------------
(* The server and the clock.                                               *)

\* The server closes a connection: KILL, wait_timeout, a restart.
ServerCloses(c) ==
  /\ conn[c].link = "up" /\ Event
  /\ conn' = [conn EXCEPT ![c].link = "gone"]
  /\ UNCHANGED <<pool, reset, task, left, main>>

\* A connection outlives max_lifetime.
Ages(c) ==
  /\ conn[c].link # "none" /\ ~conn[c].aged /\ Event
  /\ conn' = [conn EXCEPT ![c].aged = TRUE]
  /\ UNCHANGED <<pool, reset, task, left, main>>

\* An idle connection passes idle_timeout; the ones below it idled longer.
Rests(i) ==
  /\ i \in DOMAIN pool.idle /\ ~conn[pool.idle[i]].rested
  /\ \A j \in 1..i - 1 : conn[pool.idle[j]].rested
  /\ Event
  /\ conn' = [conn EXCEPT ![pool.idle[i]].rested = TRUE]
  /\ UNCHANGED <<pool, reset, task, left, main>>

-----------------------------------------------------------------------------
Step(t) ==
  \/ Begin(t) \/ Refuse(t) \/ TakeIdle(t) \/ Reserve(t) \/ Full(t)
  \/ Vet(t) \/ DropDead(t) \/ Open(t) \/ OpenFails(t)
  \/ Command(t) \/ CloseConn(t) \/ GiveBack(t)
  \/ Discard(t)

Owner == Drop \/ MainDiscard \/ Unref

Next ==
  \/ \E t \in Tasks : Step(t) \/ WakeUp(t)
  \/ Owner \/ Close
  \/ \E c \in Conns : ServerCloses(c) \/ Ages(c) \/ Rests(c)

\* A running task takes its steps: a command ends by its answer or by the
\* connection's timeout, and a program drops what it acquired.  Nothing is
\* assumed of the end of a wait or of the server.
Fairness == WF_vars(Owner) /\ \A t \in Tasks : WF_vars(Step(t))

Spec == Init /\ [][Next]_vars /\ Fairness

-----------------------------------------------------------------------------
(* Properties.                                                             *)

\* The tasks the pool counts as users: in_use is raised for a connection that
\* is only being looked at or opened.
Users == {t \in Tasks : task[t].pc \in
            {"vet", "dead", "open", "held", "giving"}}

\* The tasks that gave up a place without waking anyone, to fill it themselves.
Refilling == {t \in Tasks : task[t].pc \in {"dropping", "retake"}}

Trash == (UNION {ToSet(task[t].trash) : t \in Tasks}) \cup ToSet(main.trash)

MyConn == [link : {"none", "up", "gone", "broken"}, tx : BOOLEAN,
           aged : BOOLEAN, rested : BOOLEAN]

MyPool == [idle : Seq(Conns), total : 0..MaxConns, in_use : 0..MaxConns,
           closing : BOOLEAN, refs : 0..Structs + 1]

Task == [pc : {"ready", "take", "retake", "wait", "vet", "dead", "dropping", "open",
               "held", "giving", "given"},
         conn : 0..Structs, reused : BOOLEAN, second : BOOLEAN, retry : BOOLEAN,
         trash : Seq(Conns), ran : Nat]

\* Type correctness.  The idle array has options.max entries and pool_give_back
\* does not check, so its length is part of the type.
TypeOK ==
  /\ conn \in [Conns -> MyConn]
  /\ pool \in MyPool /\ Len(pool.idle) <= MaxConns
  /\ reset \in BOOLEAN
  /\ task \in [Tasks -> Task]
  /\ left \in [Tasks -> 0..Calls]
  /\ main \in [pc : {"live", "closed", "freeing", "gone"}, trash : Seq(Conns)]
  /\ events \in 0..Events

\* The counters the pool decides by are exact at every unlock, though a task
\* updates them in several locked regions with failures in between: in_use is
\* the number of its users, total the idle connections and the users, so that
\* at most options.max connections are open or being opened.
CountsExact ==
  /\ pool.in_use = Cardinality(Users)
  /\ pool.total = Len(pool.idle) + pool.in_use

\* A connection is in one place: idle once, with one task, or on its way out.
\* No task is ever handed a connection another still uses or has discarded.
OneHolder ==
  /\ IsInjective(pool.idle)
  /\ \A t \in Tasks : task[t].conn # 0 =>
       /\ conn[task[t].conn].link # "none"
       /\ task[t].conn \notin ToSet(pool.idle) \cup Trash
       /\ \A u \in Tasks \ {t} : task[u].conn # task[t].conn
  /\ ToSet(pool.idle) \cap Trash = {}
  /\ \A c \in ToSet(pool.idle) \cup Trash : conn[c].link # "none"

\* The pool lives as long as someone may use it: its reference count is the
\* handle and the connections, those on their way out included, so the task
\* that gives back the last connection after the handle was dropped frees the
\* pool after its own last use of it.
RefsExact ==
  /\ pool.refs = Cardinality({c \in Conns : conn[c].link # "none"})
                 + (IF main.pc = "gone" THEN 0 ELSE 1)
  /\ pool.refs = 0 => \A t \in Tasks : task[t].pc \in {"ready", "given"}

\* A connection is handed out without the transaction of its last user.
HandedOutClean ==
  /\ \A i \in DOMAIN pool.idle : ~conn[pool.idle[i]].tx
  /\ \A t \in Tasks : task[t].pc \in {"vet", "held"} => ~conn[task[t].conn].tx

\* The pool's books: its counters, who has which connection and in what state,
\* and who keeps the pool itself alive.
BooksExact == TypeOK /\ CountsExact /\ OneHolder /\ RefsExact /\ HandedOutClean

\* No wakeup is lost: while a task waits nothing is idle, and every place that
\* is free was freed by a task that is about to fill it.  A place freed in
\* silence would leave the waiter to its time limit.
NoLostWakeup ==
  (\E t \in Tasks : task[t].pc = "wait") =>
    pool.idle = <<>> /\ pool.total + Cardinality(Refilling) >= MaxConns

\* A statement is run at most once, whatever fails and however pool_run tries
\* again.
RunsOnce == \A t \in Tasks : task[t].ran <= 1

\* Every call returns, also without a time limit: the connection a task waits
\* for comes back, or its place is freed, and the task hears of it.  So the
\* handles are dropped in the end, and then the pool is freed and no
\* connection is left open.
Reclaimed == <>(pool.refs = 0 /\ \A c \in Conns : conn[c].link = "none")
==============================================================================
