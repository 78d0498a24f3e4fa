---------------------------- MODULE LspSupervisor ----------------------------
(***************************************************************************)
(* ironls --supervised (lsp/supervisor/supervisor.c, the POSIX half): a    *)
(* parent process that starts the language server as a worker, forwards    *)
(* the editor's bytes to it and its bytes to the editor, and starts        *)
(* another when it dies, after a pause, until five have died within a      *)
(* minute.                                                                 *)
(*                                                                         *)
(* The worker is the server seen from outside: messages pass the life      *)
(* cycle (lsp/server/lifecycle.c, dispatch.c), replies wait for its writer  *)
(* thread (LspWriter), and it may die at any moment.                       *)
(*                                                                         *)
(* What is forwarded is bytes: a chunk may end within a message, whose     *)
(* rest follows later, and may go to another worker; a worker may die in   *)
(* the middle of writing one.  A part that is followed by the rest in time *)
(* is not told from the whole.  poll() looks at its descriptors at one     *)
(* moment.  Time passes only where the code reads the clock or sleeps: a   *)
(* worker lives for one of a few lengths of time.                          *)
(***************************************************************************)
EXTENDS Integers, Sequences, FiniteSets, Functions

CONSTANTS
  Pipe,       \* what a pipe holds
  Chunk,      \* ILSP_SUPERVISOR_PIPE_BUF
  BailoutN,   \* ILSP_SUPERVISOR_BAILOUT_N
  BailoutWin, \* ILSP_SUPERVISOR_BAILOUT_WIN, seconds
  Lifetimes,  \* bound: how long a worker may live, seconds
  Calls,      \* bound: the requests the editor makes
  MaxInput,   \* bound: how many messages it sends
  MaxCrashes, \* bound: how many workers in a row crash
  MaxMishaps  \* bound: how often poll() fails, or SIGCHLD comes for another reason

\* A dead worker leaves no more than a pipe behind it, and one read takes it all.
ASSUME SupervisorAssumption ==
  /\ Pipe \in Nat \ {0} /\ Chunk \in Nat /\ Chunk >= Pipe
  /\ BailoutN \in Nat \ {0} /\ BailoutWin \in Nat
  /\ Calls \subseteq {"initialize", "hover", "shutdown"}
  /\ Lifetimes \subseteq Nat /\ MaxInput \in Nat
  /\ MaxCrashes \in Nat /\ MaxMishaps \in Nat

VARIABLES
  input,    \* the editor's end: messages sent and whether it has closed
  answers,  \* responses the editor has been sent to each request
  sup,      \* the parent: where it is, and the variables of its loop
  worker,   \* the current worker process
  toWorker, \* the pipe to its standard input, and whether that is closed
  fromWorker, \* the pipe from its standard output
  chld,     \* a byte waits in the self-pipe
  window,   \* s_crash_window: how long ago, oldest first
  crashes,  \* consecutive_crashes
  recent,   \* ages of all deaths within BailoutWin, oldest first
  asked,    \* requests of the editor so far, numbered from 1
  inputs,     \* messages of the editor so far
  torn,       \* the editor was sent part of a message only, and takes what
              \* comes after it for the rest
  mishaps     \* failures of poll(), and signals that were no death, so far

SupervisorVars == <<input, answers, sup, worker, toWorker, fromWorker, chld, window, crashes,
          recent, asked, inputs, torn, mishaps>>

Requests == 1..MaxInput

pipes == <<toWorker, fromWorker>>
clock == <<window, crashes, recent>>
editor == <<asked, inputs>>
wire == <<torn, mishaps>>

Fresh == [at |-> "poll", ready |-> {}, buf |-> <<>>, editor_eof |-> FALSE,
          worker_eof |-> FALSE, end |-> "none"]
Started == [up |-> TRUE, lifecycle |-> "UNINIT", out |-> <<>>, did |-> {}]
NoInput == [msgs |-> <<>>, closed |-> FALSE]

SupervisorInit ==
  /\ input = NoInput /\ answers = [r \in Requests |-> 0]
  /\ sup = Fresh /\ worker = Started
  /\ toWorker = NoInput /\ fromWorker = <<>>
  /\ chld = FALSE /\ window = <<>> /\ crashes = 0 /\ recent = <<>>
  /\ asked = 0 /\ inputs = 0 /\ torn = FALSE /\ mishaps = 0

\* The session is over when the parent is gone.
Supervised == sup.at # "ended"

Ended(why) == [Fresh EXCEPT !.at = "ended", !.end = why]

-----------------------------------------------------------------------------
(* The editor. *)

Msg(method, id) == [method |-> method, id |-> id, whole |-> TRUE]

\* What is left of a message when a chunk ended within it, and of a reply when
\* the worker died writing it.
Remainder == [method |-> "rest", id |-> 0, whole |-> FALSE]
Partial == [kind |-> "partial", id |-> 0]

Send(m) ==
  /\ ~input.closed /\ inputs < MaxInput /\ Supervised
  /\ inputs' = inputs + 1
  /\ input' = [input EXCEPT !.msgs = Append(@, m)]
  /\ UNCHANGED <<answers, sup, worker, pipes, chld, clock, wire>>

Request(method) ==
  /\ asked' = asked + 1
  /\ Send(Msg(method, asked + 1))

Notify(method) == Send(Msg(method, 0)) /\ UNCHANGED asked

Close ==
  /\ ~input.closed /\ Supervised
  /\ input' = [input EXCEPT !.closed = TRUE]
  /\ UNCHANGED <<answers, sup, worker, pipes, chld, clock, editor, wire>>

-----------------------------------------------------------------------------
(* The worker.  Operators named for a mistake are deliberate variants that the *)
(* specification does not use.                                               *)

\* ilsp_lifecycle_allow_request and ilsp_lifecycle_next.
AllowRequest(s, method) ==
  CASE method = "exit" -> TRUE
    [] s = "UNINIT" -> method = "initialize"
    [] s = "INITIALIZING" -> method = "initialized"
    [] s = "RUNNING" -> method \notin {"initialize", "initialized"}
    [] OTHER -> FALSE

LifecycleNext(s, method) ==
  CASE s = "UNINIT" /\ method = "initialize" -> "INITIALIZING"
    [] s = "INITIALIZING" /\ method = "initialized" -> "RUNNING"
    [] s = "RUNNING" /\ method = "shutdown" -> "SHUTDOWN"
    [] OTHER -> s

Running == worker.up /\ Supervised

\* SIGCHLD: the handler writes to the self-pipe.
Dies ==
  /\ worker' = [worker EXCEPT !.up = FALSE, !.out = <<>>]
  /\ chld' = TRUE

\* ilsp_frame_feed has a message.
HasMessage == toWorker.msgs # <<>> /\ Head(toWorker.msgs).whole

\* ilsp_dispatch_route: a result, an error, or nothing for a notification;
\* `exit` ends the process.
Route ==
  /\ Running /\ HasMessage
  /\ toWorker' = [toWorker EXCEPT !.msgs = Tail(@)]
  /\ LET m == Head(toWorker.msgs)
         allowed == AllowRequest(worker.lifecycle, m.method)
         reply == [kind |-> IF allowed THEN m.method ELSE "error", id |-> m.id]
     IN  IF m.method = "exit" THEN Dies
         ELSE /\ worker' = [worker EXCEPT
                   !.out = IF m.method = "initialized" THEN @ ELSE Append(@, reply),
                   !.lifecycle = IF allowed THEN LifecycleNext(@, m.method) ELSE @,
                   !.did = IF allowed THEN @ \cup {m.method} ELSE @]
              /\ UNCHANGED chld
  /\ UNCHANGED <<input, answers, sup, fromWorker, clock, editor, wire>>

\* Its writer thread; it blocks while the pipe is full.
WorkerWrites ==
  /\ Running /\ worker.out # <<>> /\ Len(fromWorker) < Pipe
  /\ fromWorker' = Append(fromWorker, Head(worker.out))
  /\ worker' = [worker EXCEPT !.out = Tail(@)]
  /\ UNCHANGED <<input, answers, sup, toWorker, chld, clock, editor, wire>>

\* End of its standard input, maybe within a message: it writes what it has and
\* exits.
WorkerEof ==
  /\ Running /\ toWorker.closed /\ ~HasMessage /\ worker.out = <<>>
  /\ Dies
  /\ UNCHANGED <<input, answers, sup, pipes, clock, editor, wire>>

\* frame_parse_headers of the rest of a message whose beginning another worker
\* had: there is no Content-Length before the blank line, at the latest that of
\* the next message.  The reader stops, and the server with it.
Misframed ==
  /\ Running /\ toWorker.msgs # <<>> /\ Head(toWorker.msgs) = Remainder
  /\ Dies
  /\ UNCHANGED <<input, answers, sup, pipes, clock, editor, wire>>

\* A death, maybe in the middle of a write.
Crash ==
  /\ Running /\ crashes < MaxCrashes
  /\ Dies
  /\ \/ UNCHANGED fromWorker
     \/ /\ worker.out # <<>> /\ Len(fromWorker) < Pipe
        /\ fromWorker' = Append(fromWorker, Partial)
  /\ UNCHANGED <<input, answers, sup, toWorker, clock, editor, wire>>

\* SIGCHLD for another reason (it is installed without SA_NOCLDSTOP): the worker
\* was stopped or goes on, or one that poll() made the parent leave has ended.
Signal ==
  /\ Supervised /\ mishaps < MaxMishaps
  /\ chld' = TRUE /\ mishaps' = mishaps + 1
  /\ UNCHANGED <<input, answers, sup, worker, pipes, clock, editor, torn>>

-----------------------------------------------------------------------------
(* The parent's poll loop: standard output first, then input, then SIGCHLD.  *)

Readable ==
  {f \in {"out", "in", "chld"} :
     \/ f = "out" /\ ~sup.worker_eof /\ (fromWorker # <<>> \/ ~worker.up)
     \/ f = "in" /\ ~sup.editor_eof /\ (input.msgs # <<>> \/ input.closed)
     \/ f = "chld" /\ chld}

Poll ==
  /\ sup.at = "poll" /\ Readable # {}
  /\ sup' = [sup EXCEPT !.at = "out", !.ready = Readable]
  /\ UNCHANGED <<input, answers, worker, pipes, chld, clock, editor, wire>>

\* poll() fails: the loop is left as if the worker were dead.
PollFails ==
  /\ sup.at = "poll" /\ mishaps < MaxMishaps
  /\ mishaps' = mishaps + 1
  /\ sup' = IF sup.editor_eof THEN Ended("eof") ELSE [sup EXCEPT !.at = "broken"]
  /\ UNCHANGED <<input, answers, worker, pipes, chld, clock, editor, torn>>

Prefix(s) == SubSeq(s, 1, IF Len(s) < Chunk THEN Len(s) ELSE Chunk)
Rest(s) == SubSeq(s, Len(Prefix(s)) + 1, Len(s))

\* How many messages of s have id r.
Count(s, r) == Cardinality({i \in DOMAIN s : s[i].id = r})

\* forward_bytes(worker_out, editor_out).
ForwardOut ==
  /\ sup.at = "out"
  /\ IF "out" \in sup.ready
       THEN /\ answers' = [r \in Requests |->
                   answers[r] + IF torn THEN 0 ELSE Count(Prefix(fromWorker), r)]
            /\ torn' = (torn \/ Partial \in Range(Prefix(fromWorker)))
            /\ fromWorker' = Rest(fromWorker)
            /\ sup' = [sup EXCEPT !.at = "in", !.worker_eof = fromWorker = <<>>]
       ELSE /\ sup' = [sup EXCEPT !.at = "in"]
            /\ UNCHANGED <<answers, torn, fromWorker>>
  /\ UNCHANGED <<input, worker, toWorker, chld, clock, editor, mishaps>>

\* What a read may take of s and leave of it: the last message may be cut.
Beginning(s) == [s EXCEPT ![Len(s)].whole = FALSE]
Reads(s) ==
  {<<Prefix(s), Rest(s)>>} \cup
  IF Prefix(s)[Len(Prefix(s))].whole THEN {<<Beginning(Prefix(s)), <<Remainder>> \o Rest(s)>>} ELSE {}

CloseWorkerInNot == UNCHANGED toWorker

\* The editor has closed: close(worker_in).
CloseWorkerIn == toWorker' = [toWorker EXCEPT !.closed = TRUE]

\* forward_bytes(editor_in, worker_in), its read ...
ReadIn ==
  /\ sup.at = "in" /\ sup.buf = <<>>
  /\ IF "in" \notin sup.ready
       THEN /\ sup' = [sup EXCEPT !.at = "reap"]
            /\ UNCHANGED <<input, toWorker>>
       ELSE IF input.msgs = <<>>
       THEN /\ sup' = [sup EXCEPT !.at = "reap", !.editor_eof = TRUE]
            /\ CloseWorkerIn
            /\ UNCHANGED input
       ELSE /\ \E read \in Reads(input.msgs) :
                 /\ sup' = [sup EXCEPT !.buf = read[1]]
                 /\ input' = [input EXCEPT !.msgs = read[2]]
            /\ UNCHANGED toWorker
  /\ UNCHANGED <<answers, worker, fromWorker, chld, clock, editor, wire>>

\* Messages s followed by m, which may be the rest of the last of them.
Joined(s, m) ==
  IF m = Remainder /\ s # <<>> /\ s[Len(s)] # Remainder
  THEN [s EXCEPT ![Len(s)].whole = TRUE]
  ELSE Append(s, m)

WriteInShort ==
  /\ sup.at = "in" /\ sup.buf # <<>>
  /\ IF ~worker.up
       THEN sup' = Ended("sigpipe") /\ UNCHANGED toWorker
       ELSE /\ Len(Joined(toWorker.msgs, Head(sup.buf))) <= Pipe
            /\ toWorker' = [toWorker EXCEPT !.msgs = Joined(@, Head(sup.buf))]
            /\ sup' = [sup EXCEPT !.buf = <<>>, !.at = "reap"]
  /\ UNCHANGED <<input, answers, worker, fromWorker, chld, clock, editor, wire>>

\* ... and its write, which blocks while the pipe is full.  Nobody ignores
\* SIGPIPE here: writing to a worker that is dead ends the parent.
WriteIn ==
  /\ sup.at = "in" /\ sup.buf # <<>>
  /\ IF ~worker.up
       THEN sup' = Ended("sigpipe") /\ UNCHANGED toWorker
       ELSE /\ Len(Joined(toWorker.msgs, Head(sup.buf))) <= Pipe
            /\ toWorker' = [toWorker EXCEPT !.msgs = Joined(@, Head(sup.buf))]
            /\ sup' = [sup EXCEPT !.buf = Tail(@),
                                  !.at = IF Len(sup.buf) = 1 THEN "reap" ELSE "in"]
  /\ UNCHANGED <<input, answers, worker, fromWorker, chld, clock, editor, wire>>

\* Drain the self-pipe, waitpid, and leave the loop when the worker is dead.
ReapAny ==
  /\ sup.at = "reap"
  /\ chld' = FALSE
  /\ sup' = IF worker.up THEN [sup EXCEPT !.at = "poll"]
            ELSE IF sup.editor_eof THEN Ended("eof")
            ELSE [sup EXCEPT !.at = "dead"]
  /\ UNCHANGED <<input, answers, worker, pipes, clock, editor, wire>>

Reap ==
  /\ sup.at = "reap"
  /\ LET alive == ~("chld" \in sup.ready /\ ~worker.up)
     IN  /\ chld' = (chld /\ "chld" \notin sup.ready)
         /\ sup' = IF alive THEN [sup EXCEPT !.at = "poll"]
                   ELSE IF sup.editor_eof THEN Ended("eof")
                   ELSE [sup EXCEPT !.at = "dead"]
  /\ UNCHANGED <<input, answers, worker, pipes, clock, editor, wire>>

-----------------------------------------------------------------------------
(* A dead worker: the editor is told, the death recorded, another started.   *)

Min(a, b) == IF a <= b THEN a ELSE b

\* Ages, d seconds later; beyond the window they are all alike.
Later(ages, d) == [i \in DOMAIN ages |-> Min(ages[i] + d, BailoutWin + 1)]

RecordCrashKeepsOldest(ages) ==
  IF Len(ages) < BailoutN THEN Append(ages, 0) ELSE ages

\* record_crash: the last BailoutN deaths.
RecordCrash(ages) ==
  Append(IF Len(ages) < BailoutN THEN ages ELSE Tail(ages), 0)

Bail(ages) == Len(ages) >= BailoutN /\ ages[1] <= BailoutWin

\* Ages from the first one that is within the window on.
Within(ages) ==
  LET first == CHOOSE i \in 1..Len(ages) + 1 :
                 /\ \A j \in 1..i - 1 : ages[j] > BailoutWin
                 /\ i <= Len(ages) => ages[i] <= BailoutWin
  IN  SubSeq(ages, first, Len(ages))

\* Close the pipes, with what is in them and whether or not the worker is dead,
\* tell the editor, give up after BailoutN deaths in a row within the window, or
\* pause.
Bury ==
  /\ sup.at \in {"dead", "broken"}
  /\ \E d \in Lifetimes :
       /\ window' = RecordCrash(Later(window, d))
       /\ recent' = Append(Within(Later(recent, d)), 0)
  /\ toWorker' = NoInput /\ fromWorker' = <<>>
  /\ worker' = [worker EXCEPT !.up = FALSE, !.out = <<>>]
  /\ sup' = IF Bail(window') THEN Ended("bailout") ELSE [Fresh EXCEPT !.at = "sleep"]
  /\ UNCHANGED <<input, answers, chld, crashes, editor, wire>>

\* s_backoff_secs, backoff_secs_for.
Backoff == <<1, 2, 4, 8, 16>>
BackoffSecs(n) == Backoff[Min(n, Len(Backoff) - 1) + 1]

\* The pause, and the next worker, unless it cannot be started.
Respawn ==
  /\ sup.at = "sleep"
  /\ window' = Later(window, BackoffSecs(crashes))
  /\ recent' = Within(Later(recent, BackoffSecs(crashes)))
  /\ crashes' = Min(crashes + 1, Len(Backoff) - 1)
  /\ \/ sup' = Fresh /\ worker' = Started
     \/ sup' = Ended("setup") /\ UNCHANGED worker
  /\ UNCHANGED <<input, answers, pipes, chld, editor, wire>>

-----------------------------------------------------------------------------
Editor ==
  \/ \E method \in Calls : Request(method)
  \/ Notify("initialized") \/ Notify("exit") \/ Close

Parent == \/ Poll \/ ForwardOut \/ ReadIn \/ WriteIn \/ Reap \/ Bury \/ Respawn

Worker == Route \/ WorkerWrites \/ WorkerEof

Mishap == Misframed \/ Crash \/ Signal \/ PollFails

SupervisorNext == Editor \/ Parent \/ Worker \/ Mishap

\* The parent and the worker run, the editor reads what it is sent, and a
\* worker whose input has ended, or who gets another message after one it cannot
\* read, exits.  Nothing is assumed of the editor's requests or of mishaps.
WorkerReads == Route \/ WorkerEof \/ (Misframed /\ sup.buf # <<>>)

SupervisorFairness ==
  /\ WF_SupervisorVars(Parent) /\ WF_SupervisorVars(WorkerWrites)
  /\ WF_SupervisorVars(WorkerReads)

SupervisorSpec == SupervisorInit /\ [][SupervisorNext]_SupervisorVars /\ SupervisorFairness

-----------------------------------------------------------------------------
(* Properties. *)

Asks == [method: {"initialize", "hover", "shutdown"}, id: Requests, whole: BOOLEAN] \cup
        [method: {"initialized", "exit"}, id: {0}, whole: BOOLEAN] \cup {Remainder}
Replies == [kind: {"initialize", "hover", "shutdown", "error"}, id: Requests] \cup {Partial}

SupervisorTypeOK ==
  /\ input.msgs \in Seq(Asks) /\ toWorker.msgs \in Seq(Asks)
  /\ Len(toWorker.msgs) <= Pipe
  /\ fromWorker \in Seq(Replies) /\ Len(fromWorker) <= Pipe
  /\ answers \in [Requests -> 0..1]
  /\ sup.at \in {"poll", "out", "in", "reap", "dead", "broken", "sleep", "ended"}
  /\ sup.buf \in Seq(Asks) /\ (sup.buf # <<>> => sup.at = "in")
  /\ (sup.end # "none") = (sup.at = "ended")
  /\ worker.lifecycle \in {"UNINIT", "INITIALIZING", "RUNNING", "SHUTDOWN"}
  /\ worker.out \in Seq(Replies)
  /\ Len(window) <= BailoutN /\ Range(window) \subseteq 0..BailoutWin + 1
  /\ crashes \in 0..Len(Backoff) - 1

\* What a worker has written before it died is not lost: the parent has forwarded
\* it all before it looks at SIGCHLD and closes the pipe, as long as every SIGCHLD
\* is a death and poll() does not fail.
OutputComplete == sup.at = "dead" /\ mishaps = 0 => fromWorker = <<>>

\* A request is answered at most once, however many workers there were.  (It may
\* never be: what is in the pipe to a worker that dies is lost with it, and so is
\* what the editor is sent after part of a message.)
AnsweredOnce ==
  \A r \in Requests :
    answers[r] + Count(fromWorker, r) + Count(worker.out, r) <= 1

\* No worker, first or later, gives a result before it was initialized.
InitializeFirst == "hover" \in worker.did => "initialize" \in worker.did

\* However workers die, the editor gets no answer twice, all that a worker had
\* written before it died, and no result of a worker it has not initialized.
RelayExact == SupervisorTypeOK /\ OutputComplete /\ AnsweredOnce /\ InitializeFirst

\* forward_bytes keeps a worker's input in step: it starts within a message only
\* when the worker before it had the beginning, and what comes after is whole, but
\* for the last.
FramesKept ==
  \A i \in DOMAIN toWorker.msgs :
    /\ toWorker.msgs[i] = Remainder => i = 1 /\ crashes > 0
    /\ ~toWorker.msgs[i].whole => toWorker.msgs[i] = Remainder \/ i = Len(toWorker.msgs)

\* The breaker trips exactly when BailoutN workers have died within BailoutWin
\* seconds, however the lives of the workers and the pauses add up.
BreakerExact == sup.end = "bailout" <=> Len(recent) >= BailoutN

\* When the editor closes its end, the supervisor ends.
CloseEnds == input.closed ~> sup.at = "ended"

\* A dead worker is replaced, or the supervisor ends.
Restarts == ~worker.up ~> worker.up \/ sup.at = "ended"

\* As long as no worker has died, requests are answered: the parent and the
\* worker do not wait for each other's pipe.
Answered ==
  asked > 0 ~> \/ \A r \in 1..asked : answers[r] = 1
               \/ crashes > 0 \/ ~worker.up \/ sup.at = "ended"

\* Nobody waits for ever: not the editor for an answer, a restart or the end,
\* nor the supervisor and the worker for each other.
RelayServes == CloseEnds /\ Restarts /\ Answered
=============================================================================
