---------------------------- MODULE LspDocuments ----------------------------
(***************************************************************************)
(* The language server's open documents (lsp/server/handlers_document.c,   *)
(* lsp/store/document.c), their mailboxes (lsp/workers/mailbox.c) and the  *)
(* analysis thread of each document (lsp/workers/ast_worker.c).            *)
(*                                                                         *)
(* One thread reads the client's messages and runs every handler (main);   *)
(* each open document has a worker, which takes messages from the mailbox, *)
(* waits a little after a compile request for further ones, copies the     *)
(* text and analyses the copy.  A text is named by the number of the       *)
(* client's version it equals.  Messages to the client take effect when    *)
(* they are queued, in queue order (LspWriter is about the queue).         *)
(***************************************************************************)
EXTENDS Naturals, FiniteSets

CONSTANTS
  Uris,           \* the documents of the session
  Requests,       \* ids of textDocument/diagnostic requests, each used once
  Notifications,  \* bound: how many notifications the client sends
  Faults,         \* bound: crashes, failed allocations, spurious wakeups
  None            \* no request, nothing shown

ASSUME DocumentsAssumption ==
  /\ Notifications \in Nat /\ Faults \in Nat
  /\ None \notin Requests

VARIABLES
  pulls,    \* client_pulls_diagnostics, settled by initialize
  client,   \* client[u]: number of the client's version of u
  sent,     \* notifications sent so far
  doc,      \* the documents map
  box,      \* the mailbox of each document
  worker,   \* the analysis thread of each document
  main,     \* where the message thread is
  shown,    \* diagnostics last published for u: [version, text], or None
  answers,  \* responses queued for each request
  asked,    \* requests received
  lost,     \* requests whose analysis failed: no response is queued
  hurt,     \* documents a fault has befallen
  faults    \* faults so far

vars == <<pulls, client, sent, doc, box, worker, main, shown, answers, asked,
          lost, hurt, faults>>

clientVars == <<pulls, client, sent>>
pullVars == <<answers, asked, lost>>
faultVars == <<hurt, faults>>

Drift == 0    \* a text that is no version of the client's
Closed == [open |-> FALSE, version |-> 0, text |-> Drift, started |-> FALSE,
           strikes |-> 0, quarantined |-> FALSE]
EmptyBox == [compile |-> 0, pull |-> None, shutdown |-> FALSE]
Gone == [at |-> "exited", held |-> 0, pull |-> None, version |-> 0,
         text |-> Drift, dead |-> FALSE]
Idle == [at |-> "idle", uri |-> None, why |-> "none", todo |-> {}]

\* Messages wait in the box.
Pending(u) == box[u].compile # 0 \/ box[u].pull # None \/ box[u].shutdown

Open == {u \in Uris : doc[u].open}

Init ==
  /\ pulls \in BOOLEAN
  /\ client = [u \in Uris |-> 0] /\ sent = 0
  /\ doc = [u \in Uris |-> Closed]
  /\ box = [u \in Uris |-> EmptyBox]
  /\ worker = [u \in Uris |-> Gone]
  /\ main = Idle
  /\ shown = [u \in Uris |-> None]
  /\ answers = [r \in Requests |-> 0] /\ asked = {} /\ lost = {}
  /\ hurt = {} /\ faults = 0

-----------------------------------------------------------------------------
(* Faults and replies.  Operators named for a mistake (DiagnosticForgets) are *)
(* deliberate variants that the specification does not use.                 *)

Fault(u) == faults < Faults /\ faults' = faults + 1 /\ hurt' = hurt \cup {u}

AnswerOne(r) == answers' = [answers EXCEPT ![r] = @ + 1]

\* ilsp_mailbox_post_compile: the newest version replaces a waiting one.
PostCompile(u) == box' = [box EXCEPT ![u].compile = doc[u].version]

-----------------------------------------------------------------------------
(* The message thread. *)

\* A notification arrives; `edited` ones raise the client's version of u.
Receive(u, edited) ==
  /\ main.at = "idle" /\ sent < Notifications
  /\ sent' = sent + 1
  /\ client' = IF edited THEN [client EXCEPT ![u] = @ + 1] ELSE client
  /\ UNCHANGED pulls

\* The end of didOpen: the document, its mailbox and its worker, and the first
\* compile request.  Without memory there is no document; without a thread it
\* is kept, and never analysed.  (Nothing else touches the mailbox before the
\* first request is in it.)
Create(u, text) ==
  \/ /\ doc' = [doc EXCEPT ![u] = [Closed EXCEPT !.open = TRUE, !.started = TRUE,
                                   !.version = text, !.text = text]]
     /\ box' = [box EXCEPT ![u] = [EmptyBox EXCEPT !.compile = text]]
     /\ worker' = [worker EXCEPT ![u] = [Gone EXCEPT !.at = "dequeue"]]
     /\ UNCHANGED faultVars
  \/ /\ Fault(u)
     /\ \E present \in BOOLEAN :
          doc' = [doc EXCEPT ![u] = [Closed EXCEPT !.open = present,
                                     !.version = text, !.text = text]]
     /\ box' = [box EXCEPT ![u] = EmptyBox]
     /\ worker' = [worker EXCEPT ![u] = Gone]

\* ilsp_ast_worker_shutdown_and_join, first half.
StartJoin(u, why) ==
  /\ main' = [Idle EXCEPT !.at = "join", !.uri = u, !.why = why]
  /\ box' = [box EXCEPT ![u].shutdown = doc[u].started]

DidOpen(u) ==
  /\ Receive(u, TRUE)
  /\ IF doc[u].open
       THEN /\ StartJoin(u, "open")
            /\ UNCHANGED <<doc, worker, faultVars>>
       ELSE /\ Create(u, client'[u])
            /\ UNCHANGED main
  /\ UNCHANGED <<shown, pullVars>>

\* The edits of one notification, under the document's lock: all of them, or
\* none or some of them when one is refused.  The version is the client's if
\* any was applied.  Edits of a text that has drifted from the client's leave it
\* drifted unless they replace it.
DidChange(u) ==
  /\ Receive(u, TRUE) /\ doc[u].open
  /\ \/ /\ \E t \in {client'[u]} \cup (IF doc[u].text = client[u] THEN {} ELSE {Drift}) :
             doc' = [doc EXCEPT ![u].version = client'[u], ![u].text = t]
        /\ UNCHANGED faultVars
     \/ /\ Fault(u)
        /\ \/ doc' = [doc EXCEPT ![u].version = client'[u], ![u].text = Drift]
           \/ UNCHANGED doc
  /\ main' = [Idle EXCEPT !.at = "post", !.uri = u]
  /\ UNCHANGED <<box, worker, shown, pullVars>>

\* The end of didChange: ask for a compile, outside the document's lock.
ChangePost ==
  /\ main.at = "post"
  /\ IF doc[main.uri].started THEN PostCompile(main.uri) ELSE UNCHANGED box
  /\ main' = Idle
  /\ UNCHANGED <<clientVars, doc, worker, shown, pullVars, faultVars>>

DidClose(u) ==
  /\ Receive(u, FALSE) /\ doc[u].open
  /\ StartJoin(u, "close")
  /\ UNCHANGED <<doc, worker, shown, pullVars, faultVars>>

\* didSave with or without the text, which the client says is its current
\* version.  The other open documents are analysed again.  (A save of a document
\* that is not open does only that: it is DidChangeWatchedFiles.)
DidSave(u) ==
  /\ Receive(u, FALSE)
  /\ doc[u].open
  /\ doc' \in {doc, [doc EXCEPT ![u].text = client[u]]}
  /\ main' = [Idle EXCEPT !.at = "reanalyze", !.todo = Open \ {u}]
  /\ UNCHANGED <<box, worker, shown, pullVars, faultVars>>

\* workspace/didChangeWatchedFiles: a source file that is not open has changed.
DidChangeWatchedFiles ==
  /\ main.at = "idle" /\ sent < Notifications
  /\ sent' = sent + 1
  /\ main' = [Idle EXCEPT !.at = "reanalyze", !.todo = Open]
  /\ UNCHANGED <<pulls, client, doc, box, worker, shown, pullVars, faultVars>>

\* reanalyze_open_documents, one document after the other.
Reanalyze ==
  /\ main.at = "reanalyze"
  /\ IF main.todo = {}
       THEN main' = Idle /\ UNCHANGED box
       ELSE \E u \in main.todo :
              /\ IF doc[u].started THEN PostCompile(u) ELSE UNCHANGED box
              /\ main' = [main EXCEPT !.todo = @ \ {u}]
  /\ UNCHANGED <<clientVars, doc, worker, shown, pullVars, faultVars>>

DiagnosticForgets(u, r) ==
  /\ main.at = "idle" /\ r \notin asked
  /\ asked' = asked \cup {r}
  /\ IF doc[u].open /\ doc[u].started
       THEN box' = [box EXCEPT ![u].pull = r] /\ UNCHANGED answers
       ELSE AnswerOne(r) /\ UNCHANGED box
  /\ UNCHANGED <<clientVars, doc, worker, main, shown, lost, faultVars>>

\* textDocument/diagnostic: left for the worker; a request it displaces, and
\* one for a document nobody analyses, get an empty report at once.
Diagnostic(u, r) ==
  /\ main.at = "idle" /\ r \notin asked
  /\ asked' = asked \cup {r}
  /\ IF doc[u].open /\ doc[u].started
       THEN /\ box' = [box EXCEPT ![u].pull = r]
            /\ IF box[u].pull # None THEN AnswerOne(box[u].pull)
                                     ELSE UNCHANGED answers
       ELSE AnswerOne(r) /\ UNCHANGED box
  /\ UNCHANGED <<clientVars, doc, worker, main, shown, lost, faultVars>>

\* Standard input ends: main() stops the workers and destroys the documents.
Eof ==
  /\ main.at = "idle"
  /\ main' = [Idle EXCEPT !.at = "eof"]
  /\ UNCHANGED <<clientVars, doc, box, worker, shown, pullVars, faultVars>>

EofJoin(u) ==
  /\ main.at = "eof" /\ doc[u].open
  /\ StartJoin(u, "eof")
  /\ UNCHANGED <<clientVars, doc, worker, shown, pullVars, faultVars>>

Down ==
  /\ main.at = "eof" /\ Open = {}
  /\ main' = [Idle EXCEPT !.at = "down"]
  /\ UNCHANGED <<clientVars, doc, box, worker, shown, pullVars, faultVars>>

\* The worker is gone: didClose and didOpen answer a request it left behind;
\* didClose then clears what the client shows for the document.
JoinAnswers(u) ==
  IF main.why # "eof" /\ box[u].pull # None
    THEN AnswerOne(box[u].pull)
    ELSE UNCHANGED answers

PublishCleared(u) ==
  shown' = IF main.why = "close" /\ ~pulls THEN [shown EXCEPT ![u] = None] ELSE shown

Joined(u) ==
  /\ main.at = "join" /\ main.uri = u
  /\ worker[u].at = "exited"
  /\ JoinAnswers(u)
  /\ main' = IF main.why = "eof" THEN [Idle EXCEPT !.at = "eof"] ELSE Idle
  /\ IF main.why = "open"
       THEN Create(u, client[u]) /\ UNCHANGED shown
       ELSE /\ doc' = [doc EXCEPT ![u] = Closed]
            /\ box' = [box EXCEPT ![u] = EmptyBox]
            /\ worker' = [worker EXCEPT ![u] = Gone]
            /\ PublishCleared(u)
            /\ UNCHANGED faultVars
  /\ UNCHANGED <<clientVars, asked, lost>>

-----------------------------------------------------------------------------
(* The worker of a document. *)

\* Leave for `to` with the fields of w changed.
Go(u, w) == worker' = [worker EXCEPT ![u] = w]

\* ilsp_mailbox_dequeue: shutdown before pull before compile, and what the
\* main loop and the debounce loop do with the message.
TakeShutdown(u) ==
  /\ box[u].shutdown
  /\ box' = [box EXCEPT ![u].shutdown = FALSE]
  /\ Go(u, Gone)
  /\ UNCHANGED answers

TakePullUnwaited(u) ==
  /\ ~box[u].shutdown /\ box[u].pull # None
  /\ worker[u].at # "dequeue" \/ box[u].compile # 0
  /\ box' = [box EXCEPT ![u].pull = None]
  /\ Go(u, [worker[u] EXCEPT !.at = "pull", !.pull = box[u].pull])
  /\ UNCHANGED answers

TakePull(u) ==
  /\ ~box[u].shutdown /\ box[u].pull # None
  /\ box' = [box EXCEPT ![u].pull = None]
  /\ IF doc[u].quarantined /\ worker[u].held = 0
       THEN AnswerOne(box[u].pull) /\ UNCHANGED worker
       ELSE /\ Go(u, [worker[u] EXCEPT !.at = "pull", !.pull = box[u].pull])
            /\ UNCHANGED answers

TakeCompile(u) ==
  /\ ~box[u].shutdown /\ box[u].pull = None /\ box[u].compile # 0
  /\ box' = [box EXCEPT ![u].compile = 0]
  /\ IF doc[u].quarantined /\ worker[u].held = 0
       THEN UNCHANGED worker
       ELSE Go(u, [worker[u] EXCEPT !.at = "debounce",
                     !.held = IF box[u].compile >= @ THEN box[u].compile ELSE @])
  /\ UNCHANGED answers

Take(u) == TakeShutdown(u) \/ TakePull(u) \/ TakeCompile(u)

\* Take a message, blocking (dequeue) or out of the debounce wait: at once if
\* one is there (debounce), or woken by its arrival (parked).
Dequeue(u) ==
  /\ worker[u].at \in {"dequeue", "debounce", "parked"}
  /\ Take(u)
  /\ UNCHANGED <<clientVars, doc, main, shown, asked, lost, faultVars>>

\* ilsp_mailbox_timedwait_ms parks ...
Park(u) ==
  /\ worker[u].at = "debounce" /\ ~Pending(u)
  /\ Go(u, [worker[u] EXCEPT !.at = "parked"])
  /\ UNCHANGED <<clientVars, doc, box, main, shown, pullVars, faultVars>>

\* ... until the window has passed, perhaps just as a message came ...
Expire(u) ==
  /\ worker[u].at = "parked"
  /\ Go(u, [worker[u] EXCEPT !.at = "compile"])
  /\ UNCHANGED <<clientVars, doc, box, main, shown, pullVars, faultVars>>

\* ... or wakes for no reason: the loop then blocks in dequeue, the compile
\* request in hand.
Spurious(u) ==
  /\ worker[u].at = "parked"
  /\ Fault(u)
  /\ Go(u, [worker[u] EXCEPT !.at = "dequeue"])
  /\ UNCHANGED <<clientVars, doc, box, main, shown, pullVars>>

SnapshotAtRequest(u) ==
  /\ worker[u].at \in {"compile", "pull"}
  /\ Go(u, [worker[u] EXCEPT
              !.at = IF @ = "compile" THEN "compiling" ELSE "pulling",
              !.version = worker[u].held, !.text = doc[u].text,
              !.dead = doc[u].quarantined])
  /\ UNCHANGED <<clientVars, doc, box, main, shown, pullVars, faultVars>>

\* ilsp_document_snapshot, under the document's lock.
Snapshot(u) ==
  /\ worker[u].at \in {"compile", "pull"}
  /\ Go(u, [worker[u] EXCEPT
              !.at = IF @ = "compile" THEN "compiling" ELSE "pulling",
              !.version = doc[u].version, !.text = doc[u].text,
              !.dead = doc[u].quarantined])
  /\ UNCHANGED <<clientVars, doc, box, main, shown, pullVars, faultVars>>

AfterForgetsHeld(u) == [Gone EXCEPT !.at = "dequeue"]

\* Where the worker goes on after an analysis; a pull may have been answered
\* inside the debounce loop.
After(u) ==
  LET inline == worker[u].pull # None /\ worker[u].held # 0
  IN  [Gone EXCEPT !.at = IF inline THEN "debounce" ELSE "dequeue",
                   !.held = IF inline THEN worker[u].held ELSE 0]

\* No memory for the copy: the request is dropped.
SnapshotFails(u) ==
  /\ worker[u].at \in {"compile", "pull"}
  /\ Fault(u)
  /\ lost' = lost \cup ({worker[u].pull} \ {None})
  /\ Go(u, After(u))
  /\ UNCHANGED <<clientVars, doc, box, main, shown, answers, asked>>

\* ilsp_facade_compile publishes, to a client that does not pull, what the
\* copy gave; ilsp_facade_pull_diagnostic answers the request.
Analyzed(u) ==
  /\ \/ /\ worker[u].at = "compiling"
        /\ shown' = IF pulls THEN shown
                    ELSE [shown EXCEPT ![u] = [version |-> worker[u].version,
                                               text |-> worker[u].text]]
        /\ UNCHANGED answers
     \/ /\ worker[u].at = "pulling"
        /\ AnswerOne(worker[u].pull)
        /\ UNCHANGED shown
  /\ Go(u, After(u))
  /\ UNCHANGED <<clientVars, doc, box, main, asked, lost, faultVars>>

\* The analysis aborts: a strike, and from the second on quarantine.  A client
\* that pulls is not compiled for, a quarantined copy not analysed.
Crash(u) ==
  /\ \/ worker[u].at = "compiling" /\ ~pulls
     \/ worker[u].at = "pulling" /\ ~worker[u].dead
  /\ Fault(u)
  /\ doc' = [doc EXCEPT ![u].strikes = @ + 1,
                        ![u].quarantined = @ \/ doc[u].strikes >= 1]
  /\ lost' = lost \cup ({worker[u].pull} \ {None})
  /\ Go(u, After(u))
  /\ UNCHANGED <<clientVars, box, main, shown, answers, asked>>

-----------------------------------------------------------------------------
Main ==
  \/ \E u \in Uris : \/ DidOpen(u) \/ DidChange(u) \/ DidClose(u) \/ DidSave(u)
                     \/ EofJoin(u) \/ Joined(u)
                     \/ \E r \in Requests : Diagnostic(u, r)
  \/ DidChangeWatchedFiles \/ ChangePost \/ Reanalyze \/ Eof \/ Down

Worker(u) ==
  \/ Dequeue(u) \/ Park(u) \/ Expire(u) \/ Spurious(u)
  \/ Snapshot(u) \/ SnapshotFails(u) \/ Analyzed(u) \/ Crash(u)

Next == Main \/ \E u \in Uris : Worker(u)

\* Handlers that were begun go on, threads run, waits end, and the analysis of
\* a text returns or crashes.  Nothing is assumed of the client.
Fairness ==
  /\ WF_vars(ChangePost \/ Reanalyze \/ Down)
  /\ \A u \in Uris :
       /\ WF_vars(EofJoin(u)) /\ WF_vars(Joined(u))
       /\ WF_vars(Dequeue(u) \/ Park(u) \/ Expire(u) \/ Snapshot(u) \/ Analyzed(u))

Spec == Init /\ [][Next]_vars /\ Fairness

-----------------------------------------------------------------------------
(* Properties. *)

Versions == 0..Notifications

Document == [open: BOOLEAN, version: Versions, text: Versions, started: BOOLEAN,
             strikes: 0..Faults, quarantined: BOOLEAN]
Mailbox == [compile: Versions, pull: Requests \cup {None}, shutdown: BOOLEAN]
AstWorker == [at: {"exited", "dequeue", "debounce", "parked", "compile", "pull",
                   "compiling", "pulling"},
              held: Versions, pull: Requests \cup {None},
              version: Versions, text: Versions, dead: BOOLEAN]
MainThread == [at: {"idle", "post", "reanalyze", "join", "eof", "down"},
               uri: Uris \cup {None}, why: {"none", "open", "close", "eof"},
               todo: SUBSET Uris]
Diagnostics == [version: Versions, text: Versions]

TypeOK ==
  /\ pulls \in BOOLEAN /\ client \in [Uris -> Versions] /\ sent \in 0..Notifications
  /\ doc \in [Uris -> Document] /\ box \in [Uris -> Mailbox]
  /\ worker \in [Uris -> AstWorker] /\ main \in MainThread
  /\ shown \in [Uris -> Diagnostics \cup {None}]
  /\ answers \in [Requests -> 0..2] /\ asked \in SUBSET Requests
  /\ lost \in SUBSET asked /\ hurt \in SUBSET Uris /\ faults \in 0..Faults

\* Every diagnostic request is in one place: waiting in one mailbox, held by
\* one worker, answered once, or lost to a failed analysis; a request displaced
\* by a newer one, or left in the mailbox of a closed or reopened document, is
\* not forgotten (handlers_document.c, answer_pending_pull; the end of the
\* session forgets what is waiting).
PullAccounted ==
  main.at \notin {"eof", "down"} /\ main.why # "eof" =>
  \A r \in Requests :
    answers[r] + Cardinality({u \in Uris : box[u].pull = r})
      + Cardinality({u \in Uris : worker[u].pull = r})
      + (IF r \in lost THEN 1 ELSE 0)
    = IF r \in asked THEN 1 ELSE 0

\* Published diagnostics carry the version of the text they were computed from,
\* however edits, saves and analyses interleave (ast_worker.c: the diagnostics
\* must carry the version they were computed from).
VersionMatchesText ==
  \A u \in Uris : shown[u] # None /\ u \notin hurt => shown[u].text = shown[u].version

\* A document that is not open shows no diagnostics to a client that is pushed
\* them: nothing is published after didClose has cleared them.
ClosedShowsNothing ==
  main.at = "idle" => \A u \in Uris : u \notin Open \cup hurt => shown[u] = None

\* A document that makes the analysis crash stops crashing it: quarantine lets
\* at most one compile request, which was already being debounced, through.
CrashesStop == \A u \in Uris : doc[u].strikes <= 3

\* A worker that has been told to stop, and joined, never touches the document
\* again: whenever a document is not open its thread is gone, and an open
\* document with a worker has a live one unless it is being joined.
ThreadsMatch ==
  \A u \in Uris :
    /\ ~doc[u].started => worker[u].at = "exited"
    /\ doc[u].started /\ worker[u].at = "exited" => main.at = "join" /\ main.uri = u

\* What the client is shown is true, of the text it was computed from and of
\* whether the document is open.
ShownTrue == VersionMatchesText /\ ClosedShowsNothing

\* No request is forgotten or answered twice, no thread is forgotten or used
\* after it was joined, and a document cannot crash the analysis for ever.
WorkAccounted == TypeOK /\ PullAccounted /\ ThreadsMatch /\ CrashesStop

\* When the client stops editing, the diagnostics of its last version are
\* shown, unless a fault befell the document or it is not open any more.
LatestShown ==
  \A u \in Uris : \A v \in Versions \ {0} :
    (~pulls /\ doc[u].open /\ doc[u].version = v)
      ~> \/ u \in hurt \/ ~doc[u].open
         \/ shown[u] # None /\ shown[u].version >= v

\* Every diagnostic request is answered, lost to a failed analysis, or waiting
\* at the end of the session.
PullsAnswered ==
  \A r \in Requests :
    r \in asked ~> answers[r] = 1 \/ r \in lost \/ main.at = "down"

\* Closing, reopening and the end of the session do not hang on the worker.
JoinsEnd == main.at = "join" ~> main.at # "join"

\* Neither the client nor the main thread waits for a worker for ever.
WaitsEnd == PullsAnswered /\ JoinsEnd
=============================================================================
