------------------------- MODULE LspDocumentsProofs -------------------------
(***************************************************************************)
(* Proofs, for any documents, requests and numbers of notifications and    *)
(* faults, that LspDocuments accounts for its work and shows the truth.    *)
(***************************************************************************)
EXTENDS LspDocuments, FiniteSetTheorems, TLAPS

-----------------------------------------------------------------------------
(* The inductive invariant: what the properties say and what they rest on. *)

Limits ==
  /\ \A u \in Uris : client[u] <= sent
  /\ \A u \in Uris : doc[u].strikes <= faults

\* The session is ending: what waits in the mailboxes is forgotten.
Ending == main.at \in {"eof", "down"} \/ main.why = "eof"

MainShape ==
  /\ main.at \in {"join", "post"} => main.uri \in Uris
  /\ main.why # "none" <=> main.at = "join"

\* Requests received, and neither answered nor lost.
Undone == {r \in asked \ lost : answers[r] = 0}

\* A request that is not done is in one mailbox or with one worker, once; one
\* that is done is in neither.
Places ==
  /\ \A u \in Uris : box[u].pull # None => box[u].pull \in Undone
  /\ \A u \in Uris : worker[u].pull # None => worker[u].pull \in Undone
  /\ \A u, v \in Uris : box[u].pull # None /\ u # v => box[v].pull # box[u].pull
  /\ \A u, v \in Uris : worker[u].pull # None /\ u # v => worker[v].pull # worker[u].pull
  /\ \A u, v \in Uris : box[u].pull # None => worker[v].pull # box[u].pull
  /\ \A r \in Requests : answers[r] <= 1
  /\ \A r \in Requests : answers[r] = 1 => r \in asked \ lost
  /\ ~Ending => \A r \in Undone : \E u \in Uris : box[u].pull = r \/ worker[u].pull = r

\* Where a worker is tells what it has in hand, and a thread that is gone has
\* nothing.
WorkerShape(u) ==
  /\ worker[u].pull # None <=> worker[u].at \in {"pull", "pulling"}
  /\ worker[u].at = "exited" => worker[u] = Gone
  /\ worker[u].at \in {"debounce", "parked", "compile", "compiling"} => worker[u].held # 0

Threads(u) ==
  /\ ~doc[u].open => ~doc[u].started
  /\ ~doc[u].started => worker[u].at = "exited" /\ box[u].pull = None
  /\ box[u].shutdown => main.at = "join" /\ main.uri = u
  /\ doc[u].started /\ worker[u].at = "exited" => main.at = "join" /\ main.uri = u

\* A quarantined document is analysed for the request in hand, if there is one.
Strikes(u) ==
  /\ doc[u].quarantined <=> doc[u].strikes >= 2
  /\ doc[u].strikes <= 3
  /\ doc[u].strikes >= 2 /\ worker[u].held = 0 => worker[u].at \in {"dequeue", "exited"}
  /\ doc[u].strikes = 3 => worker[u].held = 0
  /\ doc[u].strikes >= 2 /\ worker[u].at = "pulling" => worker[u].dead

\* The document's text is the client's, and so is a copy of it; its version is
\* the client's until the document is opened again.
Texts(u) ==
  u \notin hurt =>
    /\ doc[u].open =>
         /\ doc[u].text = doc[u].version
         /\ \/ doc[u].version = client[u]
            \/ main.at = "join" /\ main.uri = u /\ main.why = "open"
    /\ worker[u].at = "compiling" => worker[u].text = worker[u].version
    /\ shown[u] # None => shown[u].text = shown[u].version
    /\ ~doc[u].open /\ ~Ending => shown[u] = None

Local(u) == WorkerShape(u) /\ Threads(u) /\ Strikes(u) /\ Texts(u)

IInv ==
  /\ TypeOK /\ Limits /\ MainShape /\ Places
  /\ pulls => \A u \in Uris : shown[u] = None
  /\ \A u \in Uris : Local(u)

-----------------------------------------------------------------------------
(* What holds of a document stays so in a step that leaves it alone.       *)

LEMMA SameDocument ==
  ASSUME TypeOK, MainShape, NEW v \in Uris, Local(v),
         doc'[v] = doc[v], box'[v] = box[v], worker'[v] = worker[v],
         shown'[v] = shown[v], client'[v] = client[v],
         hurt \subseteq hurt', Ending => Ending',
         UNCHANGED main \/ main.at # "join" \/ main.uri # v
  PROVE  Local(v)'
<1>1. WorkerShape(v)'
  BY DEF Local, WorkerShape
<1>2. Threads(v)'
  BY DEF Local, Threads
<1>3. Strikes(v)'
  BY DEF Local, Strikes
<1>4. Texts(v)'
  BY DEF Local, Texts
<1> QED BY <1>1, <1>2, <1>3, <1>4 DEF Local

\* Nothing happens to the requests.
LEMMA SamePlaces ==
  ASSUME Places, Ending => Ending', UNCHANGED <<answers, asked, lost>>,
         \A u \in Uris : box'[u].pull = box[u].pull,
         \A u \in Uris : worker'[u].pull = worker[u].pull
  PROVE  Places'
BY DEF Places, Undone

-----------------------------------------------------------------------------
(* The message thread. *)

LEMMA InitHolds == Init => IInv
<1> SUFFICES ASSUME Init PROVE IInv
  OBVIOUS
<1> USE DocumentsAssumption DEF Init
<1>1. TypeOK
  BY DEF TypeOK, Closed, EmptyBox, Gone, Idle, Drift, Versions, Document, Mailbox,
         AstWorker, MainThread, Diagnostics
<1>2. Limits /\ MainShape /\ (pulls => \A u \in Uris : shown[u] = None)
  BY DEF Limits, MainShape, Idle, Closed
<1>3. Places
  BY DEF Places, Undone, EmptyBox, Gone
<1>4. \A u \in Uris : Local(u)
  BY DEF Local, WorkerShape, Threads, Strikes, Texts, Closed, EmptyBox, Gone
<1> QED BY <1>1, <1>2, <1>3, <1>4 DEF IInv

\* A notification's number is a version.
LEMMA ReceiveFacts ==
  ASSUME TypeOK, Limits, NEW u \in Uris, NEW edited \in BOOLEAN, Receive(u, edited)
  PROVE  /\ client' \in [Uris -> Versions] /\ sent' \in 0..Notifications
         /\ \A v \in Uris : client'[v] <= sent'
         /\ \A v \in Uris \ {u} : client'[v] = client[v]
         /\ edited => client'[u] = client[u] + 1
         /\ ~edited => client' = client
         /\ main.at = "idle" /\ pulls' = pulls
<1> USE DocumentsAssumption DEF TypeOK, Limits, Receive, Versions
<1>1. sent' \in 0..Notifications /\ main.at = "idle" /\ pulls' = pulls
  OBVIOUS
<1>2. CASE edited
  <2>1. client' = [client EXCEPT ![u] = client[u] + 1]
    BY <1>2
  <2>2. client[u] + 1 \in 0..Notifications /\ client[u] + 1 <= sent'
    OBVIOUS
  <2> QED BY <1>1, <1>2, <2>1, <2>2
<1>3. CASE ~edited
  BY <1>1, <1>3
<1> QED BY <1>2, <1>3

LEMMA Zero == 0 \in Versions /\ 0 \in 0..Faults
BY DocumentsAssumption DEF Versions

LEMMA FreshDocument ==
  ASSUME NEW text \in Versions, NEW d,
         \E present \in BOOLEAN :
           d = [Closed EXCEPT !.open = present, !.version = text, !.text = text]
  PROVE  /\ d \in Document /\ ~d.started /\ d.version = text /\ d.text = text
         /\ d.strikes = 0 /\ ~d.quarantined
<1>1. /\ d.started = FALSE /\ d.version = text /\ d.text = text
      /\ d.strikes = 0 /\ d.quarantined = FALSE
  BY DEF Closed
<1>2. d \in Document
  BY Zero DEF Document, Closed
<1> QED BY <1>1, <1>2

LEMMA StartedDocument ==
  ASSUME NEW text \in Versions,
         NEW d, d = [Closed EXCEPT !.open = TRUE, !.started = TRUE,
                                   !.version = text, !.text = text]
  PROVE  /\ d \in Document /\ d.open /\ d.started
         /\ d.version = text /\ d.text = text
         /\ d.strikes = 0 /\ ~d.quarantined
<1>1. /\ d.open = TRUE /\ d.started = TRUE /\ d.version = text /\ d.text = text
      /\ d.strikes = 0 /\ d.quarantined = FALSE
  BY DEF Closed
<1>2. d \in Document
  BY Zero DEF Document, Closed
<1> QED BY <1>1, <1>2

LEMMA FreshWorker ==
  ASSUME NEW w, w = [Gone EXCEPT !.at = "dequeue"]
  PROVE  w \in AstWorker /\ w.at = "dequeue" /\ w.held = 0 /\ w.pull = None
<1>1. w \in AstWorker
  BY Zero DEF AstWorker, Gone, Drift
<1> QED BY <1>1 DEF Gone

\* A document made, by whichever of the two ways.
LEMMA CreateFacts ==
  ASSUME TypeOK, Limits, NEW u \in Uris, NEW text \in Versions, Create(u, text)
  PROVE  /\ doc' \in [Uris -> Document] /\ box' \in [Uris -> Mailbox]
         /\ worker' \in [Uris -> AstWorker]
         /\ hurt' \in SUBSET Uris /\ faults' \in 0..Faults
         /\ hurt \subseteq hurt' /\ faults <= faults'
         /\ \A v \in Uris \ {u} :
              doc'[v] = doc[v] /\ box'[v] = box[v] /\ worker'[v] = worker[v]
         /\ doc'[u].version = text /\ doc'[u].text = text
         /\ doc'[u].strikes = 0 /\ ~doc'[u].quarantined
         /\ box'[u].pull = None /\ ~box'[u].shutdown
         /\ worker'[u].pull = None /\ worker'[u].held = 0
         /\ \/ /\ doc'[u].open /\ doc'[u].started
               /\ worker'[u].at = "dequeue"
            \/ ~doc'[u].started /\ worker'[u] = Gone /\ u \in hurt'
<1> USE DocumentsAssumption DEF TypeOK
<1>1. CASE /\ doc' = [doc EXCEPT ![u] = [Closed EXCEPT !.open = TRUE, !.started = TRUE,
                                   !.version = text, !.text = text]]
           /\ box' = [box EXCEPT ![u] = [EmptyBox EXCEPT !.compile = text]]
           /\ worker' = [worker EXCEPT ![u] = [Gone EXCEPT !.at = "dequeue"]]
           /\ UNCHANGED faultVars
  <2> DEFINE d == [Closed EXCEPT !.open = TRUE, !.started = TRUE,
                                 !.version = text, !.text = text]
             b == [EmptyBox EXCEPT !.compile = text]
             w == [Gone EXCEPT !.at = "dequeue"]
  <2>1. /\ d \in Document /\ d.open /\ d.started /\ d.version = text /\ d.text = text
        /\ d.strikes = 0 /\ ~d.quarantined
    BY StartedDocument
  <2>2. b \in Mailbox /\ b.pull = None /\ ~b.shutdown
    BY DEF EmptyBox, Mailbox, Versions
  <2>3. w \in AstWorker /\ w.pull = None /\ w.held = 0 /\ w.at = "dequeue"
    BY FreshWorker
  <2> HIDE DEF d, b, w
  <2>4. doc' = [doc EXCEPT ![u] = d] /\ box' = [box EXCEPT ![u] = b]
        /\ worker' = [worker EXCEPT ![u] = w] /\ hurt' = hurt /\ faults' = faults
    BY <1>1 DEF d, b, w, faultVars
  <2> QED BY <2>1, <2>2, <2>3, <2>4
<1>2. CASE /\ Fault(u)
           /\ \E present \in BOOLEAN :
                doc' = [doc EXCEPT ![u] = [Closed EXCEPT !.open = present,
                                           !.version = text, !.text = text]]
           /\ box' = [box EXCEPT ![u] = EmptyBox]
           /\ worker' = [worker EXCEPT ![u] = Gone]
  <2>1. PICK d : /\ doc' = [doc EXCEPT ![u] = d]
                 /\ \E present \in BOOLEAN :
                      d = [Closed EXCEPT !.open = present, !.version = text, !.text = text]
    BY <1>2
  <2>2. /\ d \in Document /\ ~d.started /\ d.version = text /\ d.text = text
        /\ d.strikes = 0 /\ ~d.quarantined
    BY <2>1, FreshDocument
  <2>3. EmptyBox \in Mailbox /\ EmptyBox.pull = None /\ ~EmptyBox.shutdown
    BY DEF EmptyBox, Mailbox, Versions
  <2>4. Gone \in AstWorker /\ Gone.pull = None /\ Gone.held = 0
    BY DEF Gone, AstWorker, Versions, Drift
  <2>5. doc' = [doc EXCEPT ![u] = d]
    BY <2>1
  <2>6. hurt' = hurt \cup {u} /\ faults' = faults + 1 /\ faults' \in 0..Faults
    BY <1>2 DEF Fault
  <2>7. box' = [box EXCEPT ![u] = EmptyBox] /\ worker' = [worker EXCEPT ![u] = Gone]
    BY <1>2
  <2>8. /\ doc' \in [Uris -> Document] /\ box' \in [Uris -> Mailbox]
        /\ worker' \in [Uris -> AstWorker]
    BY <2>2, <2>3, <2>4, <2>5, <2>7
  <2>9. /\ doc'[u] = d /\ box'[u] = EmptyBox /\ worker'[u] = Gone
        /\ \A v \in Uris \ {u} :
              doc'[v] = doc[v] /\ box'[v] = box[v] /\ worker'[v] = worker[v]
    BY <2>5, <2>7
  <2> QED BY <2>2, <2>3, <2>4, <2>6, <2>8, <2>9
<1> QED BY <1>1, <1>2 DEF Create

\* The worker of an open document is told to stop.
LEMMA StartJoinFacts ==
  ASSUME TypeOK, NEW u \in Uris, NEW why \in {"open", "close", "eof"}, StartJoin(u, why)
  PROVE  /\ main' \in MainThread /\ main'.at = "join" /\ main'.uri = u /\ main'.why = why
         /\ box' \in [Uris -> Mailbox]
         /\ \A v \in Uris \ {u} : box'[v] = box[v]
         /\ box'[u].pull = box[u].pull
         /\ box'[u].shutdown <=> doc[u].started
<1>1. /\ main' = [Idle EXCEPT !.at = "join", !.uri = u, !.why = why]
      /\ box' = [box EXCEPT ![u].shutdown = doc[u].started]
  BY DEF StartJoin
<1>2. main' \in MainThread /\ main'.at = "join" /\ main'.uri = u /\ main'.why = why
  BY <1>1 DEF MainThread, Idle
<1>3. PICK s \in BOOLEAN : s = doc[u].started
  BY DEF TypeOK, Document
<1>4. box' = [box EXCEPT ![u].shutdown = s]
  BY <1>1, <1>3
<1>5. box' \in [Uris -> Mailbox] /\ box'[u].pull = box[u].pull /\ box'[u].shutdown = s
  BY <1>4 DEF TypeOK, Mailbox
<1>6. \A v \in Uris \ {u} : box'[v] = box[v]
  BY <1>4 DEF TypeOK
<1> QED BY <1>2, <1>3, <1>5, <1>6

LEMMA DidOpenKeeps == ASSUME IInv, NEW u \in Uris, DidOpen(u) PROVE IInv'
<1> USE DEF IInv
<1>1. /\ client' \in [Uris -> Versions] /\ sent' \in 0..Notifications
      /\ \A v \in Uris : client'[v] <= sent'
      /\ \A v \in Uris \ {u} : client'[v] = client[v]
      /\ main.at = "idle" /\ pulls' = pulls /\ client'[u] \in Versions
  BY ReceiveFacts DEF DidOpen
<1>2. shown' = shown /\ UNCHANGED <<answers, asked, lost>>
  BY DEF DidOpen, pullVars
<1>3. ~Ending /\ main.why = "none"
  BY <1>1 DEF MainShape, Ending
<1>4. CASE doc[u].open
  <2>1. StartJoin(u, "open") /\ UNCHANGED <<doc, worker, hurt, faults>>
    BY <1>4 DEF DidOpen, faultVars
  <2>2. /\ main' \in MainThread /\ main'.at = "join" /\ main'.uri = u /\ main'.why = "open"
        /\ box' \in [Uris -> Mailbox]
        /\ \A v \in Uris \ {u} : box'[v] = box[v]
        /\ box'[u].pull = box[u].pull
        /\ box'[u].shutdown <=> doc[u].started
    BY <2>1, StartJoinFacts
  <2>3. TypeOK'
    BY <1>1, <1>2, <2>1, <2>2 DEF TypeOK
  <2>4. Limits' /\ MainShape'
    BY <1>1, <2>1, <2>2 DEF Limits, MainShape
  <2>5. Ending' <=> Ending
    BY <1>3, <2>2 DEF Ending
  <2>6. Places'
    BY <1>2, <2>1, <2>2, <2>5, SamePlaces
  <2>7. Local(u)'
    BY <1>1, <1>2, <1>4, <2>1, <2>2, <2>5 DEF Local, WorkerShape, Threads, Strikes, Texts
  <2>8. ASSUME NEW v \in Uris \ {u} PROVE Local(v)'
    BY <1>1, <1>2, <2>1, <2>2, <2>5, SameDocument
  <2> QED BY <1>1, <1>2, <2>3, <2>4, <2>6, <2>7, <2>8
<1>5. CASE ~doc[u].open
  <2>1. Create(u, client'[u]) /\ main' = main
    BY <1>5 DEF DidOpen
  <2>2. /\ doc' \in [Uris -> Document] /\ box' \in [Uris -> Mailbox]
        /\ worker' \in [Uris -> AstWorker]
        /\ hurt' \in SUBSET Uris /\ faults' \in 0..Faults
        /\ hurt \subseteq hurt' /\ faults <= faults'
        /\ \A v \in Uris \ {u} :
              doc'[v] = doc[v] /\ box'[v] = box[v] /\ worker'[v] = worker[v]
    BY <1>1, <2>1, CreateFacts
  <2>3. /\ doc'[u].version = client'[u] /\ doc'[u].text = client'[u]
        /\ doc'[u].strikes = 0 /\ ~doc'[u].quarantined
        /\ box'[u].pull = None /\ ~box'[u].shutdown
        /\ worker'[u].pull = None /\ worker'[u].held = 0
        /\ \/ /\ doc'[u].open /\ doc'[u].started
              /\ worker'[u].at = "dequeue"
           \/ ~doc'[u].started /\ worker'[u] = Gone /\ u \in hurt'
    BY <1>1, <2>1, CreateFacts
  <2>4. TypeOK'
    BY <1>1, <1>2, <2>1, <2>2 DEF TypeOK
  <2>5. Limits' /\ MainShape'
    BY <1>1, <2>1, <2>2, <2>3 DEF Limits, MainShape, TypeOK, Document
  <2>6. Ending' <=> Ending
    BY <2>1 DEF Ending
  <2>8. /\ \A v \in Uris : box'[v].pull = box[v].pull
        /\ \A v \in Uris : worker'[v].pull = worker[v].pull
    BY <1>5, <2>2, <2>3 DEF Local, WorkerShape, Threads, Gone
  <2>9. Places'
    BY <1>2, <2>6, <2>8, SamePlaces
  <2>10. WorkerShape(u)' /\ Threads(u)' /\ Strikes(u)'
    BY <2>3 DEF WorkerShape, Threads, Strikes, Gone
  <2>11. Texts(u)'
    BY <1>2, <1>3, <1>5, <2>2, <2>3, <2>6 DEF Texts, Local, Gone
  <2>12. ASSUME NEW v \in Uris \ {u} PROVE Local(v)'
    BY <1>1, <1>2, <2>1, <2>2, <2>6, SameDocument
  <2> QED BY <1>1, <1>2, <2>4, <2>5, <2>9, <2>10, <2>11, <2>12 DEF Local
<1> QED BY <1>4, <1>5

\* The message thread goes on, at most with a request to compile.
LEMMA MainGoesOn ==
  ASSUME IInv, main' \in MainThread, MainShape', Ending => Ending', main.at # "join",
         sent' \in 0..Notifications, sent <= sent',
         box' \in [Uris -> Mailbox],
         \A v \in Uris : box'[v].pull = box[v].pull /\ (box'[v].shutdown => box[v].shutdown),
         UNCHANGED <<pulls, client, doc, worker, shown, answers, asked, lost, hurt, faults>>
  PROVE  IInv'
<1>1. TypeOK'
  BY DEF TypeOK, IInv
<1>2. Limits'
  BY DEF IInv, Limits, TypeOK, Versions
<1>3. Places'
  BY SamePlaces DEF IInv
<1>4. ASSUME NEW v \in Uris PROVE Local(v)'
  <2>1. Local(v)
    BY DEF IInv
  <2> QED BY <2>1 DEF Local, WorkerShape, Threads, Strikes, Texts
<1> QED BY <1>1, <1>2, <1>3, <1>4 DEF IInv

LEMMA SameBox ==
  ASSUME IInv, box' = box
  PROVE  /\ box' \in [Uris -> Mailbox]
         /\ \A v \in Uris : box'[v].pull = box[v].pull
                            /\ (box'[v].shutdown => box[v].shutdown)
BY DEF IInv, TypeOK

LEMMA PostCompileFacts ==
  ASSUME IInv, NEW u \in Uris,
         IF doc[u].started THEN PostCompile(u) ELSE UNCHANGED box
  PROVE  /\ box' \in [Uris -> Mailbox]
         /\ \A v \in Uris : box'[v].pull = box[v].pull
                            /\ (box'[v].shutdown => box[v].shutdown)
<1>1. CASE doc[u].started
  <2>1. box' = [box EXCEPT ![u].compile = doc[u].version] /\ doc[u].version \in Versions
    BY <1>1 DEF PostCompile, IInv, TypeOK, Document
  <2> QED BY <2>1 DEF IInv, TypeOK, Mailbox
<1>2. CASE ~doc[u].started
  BY <1>2, SameBox
<1> QED BY <1>1, <1>2

LEMMA DidChangeWatchedFilesKeeps == ASSUME IInv, DidChangeWatchedFiles PROVE IInv'
<1>1. main' \in MainThread /\ MainShape' /\ ~Ending /\ main.at # "join"
  BY DEF DidChangeWatchedFiles, IInv, TypeOK, MainThread, MainShape, Ending, Idle, Open
<1>2. sent' \in 0..Notifications /\ sent <= sent'
  BY DocumentsAssumption DEF DidChangeWatchedFiles, IInv, TypeOK
<1>3. UNCHANGED <<pulls, client, doc, worker, shown, answers, asked, lost, hurt, faults>>
      /\ box' = box
  BY DEF DidChangeWatchedFiles, pullVars, faultVars
<1> QED BY <1>1, <1>2, <1>3, SameBox, MainGoesOn

LEMMA ChangePostKeeps == ASSUME IInv, ChangePost PROVE IInv'
<1>1. main' \in MainThread /\ MainShape' /\ ~Ending /\ main.at # "join" /\ main.uri \in Uris
  BY DEF ChangePost, IInv, TypeOK, MainThread, MainShape, Ending, Idle
<1>2. UNCHANGED <<pulls, client, sent, doc, worker, shown, answers, asked, lost, hurt, faults>>
  BY DEF ChangePost, clientVars, pullVars, faultVars
<1>3. IF doc[main.uri].started THEN PostCompile(main.uri) ELSE UNCHANGED box
  BY DEF ChangePost
<1>4. sent' \in 0..Notifications /\ sent <= sent'
  BY <1>2 DEF IInv, TypeOK
<1>5. /\ box' \in [Uris -> Mailbox]
      /\ \A v \in Uris : box'[v].pull = box[v].pull
                         /\ (box'[v].shutdown => box[v].shutdown)
  BY <1>1, <1>3, PostCompileFacts
<1> QED BY <1>1, <1>2, <1>4, <1>5, MainGoesOn

LEMMA ReanalyzeKeeps == ASSUME IInv, Reanalyze PROVE IInv'
<1>1. ~Ending /\ main.at # "join"
  BY DEF Reanalyze, IInv, MainShape, Ending
<1>2. UNCHANGED <<pulls, client, sent, doc, worker, shown, answers, asked, lost, hurt, faults>>
  BY DEF Reanalyze, clientVars, pullVars, faultVars
<1>3. sent' \in 0..Notifications /\ sent <= sent'
  BY <1>2 DEF IInv, TypeOK
<1>4. CASE main.todo = {}
  <2>1. main' = Idle /\ box' = box
    BY <1>4 DEF Reanalyze
  <2>2. main' \in MainThread /\ MainShape'
    BY <2>1 DEF MainThread, MainShape, Idle
  <2> QED BY <1>1, <1>2, <1>3, <2>1, <2>2, SameBox, MainGoesOn
<1>5. CASE main.todo # {}
  <2>1. PICK u \in main.todo :
          /\ IF doc[u].started THEN PostCompile(u) ELSE UNCHANGED box
          /\ main' = [main EXCEPT !.todo = @ \ {u}]
    BY <1>5 DEF Reanalyze
  <2>2. u \in Uris
    BY DEF IInv, TypeOK, MainThread
  <2>3. main' \in MainThread /\ MainShape'
    BY <2>1 DEF IInv, TypeOK, MainThread, MainShape
  <2>4. /\ box' \in [Uris -> Mailbox]
        /\ \A v \in Uris : box'[v].pull = box[v].pull
                           /\ (box'[v].shutdown => box[v].shutdown)
    BY <2>1, <2>2, PostCompileFacts
  <2> QED BY <1>1, <1>2, <1>3, <2>3, <2>4, MainGoesOn
<1> QED BY <1>4, <1>5

LEMMA EofKeeps == ASSUME IInv, Eof \/ Down PROVE IInv'
<1>1. main' \in MainThread /\ MainShape' /\ Ending' /\ main.at # "join"
  BY DEF Eof, Down, MainThread, MainShape, Ending, Idle
<1>2. UNCHANGED <<pulls, client, sent, doc, worker, shown, answers, asked, lost, hurt, faults>>
      /\ box' = box
  BY DEF Eof, Down, clientVars, pullVars, faultVars
<1>3. sent' \in 0..Notifications /\ sent <= sent'
  BY <1>2 DEF IInv, TypeOK
<1> QED BY <1>1, <1>2, <1>3, SameBox, MainGoesOn

\* A document is closed, or the session ends: its worker is told to stop.
LEMMA JoinBegins ==
  ASSUME IInv, NEW u \in Uris, NEW why \in {"close", "eof"}, StartJoin(u, why),
         doc[u].open, main.at # "join", Ending => why = "eof",
         sent' \in 0..Notifications, sent <= sent',
         UNCHANGED <<pulls, client, doc, worker, shown, answers, asked, lost, hurt, faults>>
  PROVE  IInv'
<1> USE DEF IInv
<1>1. /\ main' \in MainThread /\ main'.at = "join" /\ main'.uri = u /\ main'.why = why
      /\ box' \in [Uris -> Mailbox]
      /\ \A v \in Uris \ {u} : box'[v] = box[v]
      /\ box'[u].pull = box[u].pull
      /\ box'[u].shutdown <=> doc[u].started
  BY StartJoinFacts
<1>2. TypeOK'
  BY <1>1 DEF TypeOK
<1>3. Limits' /\ MainShape'
  BY <1>1 DEF Limits, MainShape, TypeOK, Versions
<1>4. Ending => Ending'
  BY <1>1 DEF Ending
<1>5. Places'
  BY <1>1, <1>4, SamePlaces
<1>6. Local(u)'
  BY <1>1, <1>4 DEF Local, WorkerShape, Threads, Strikes, Texts
<1>7. ASSUME NEW v \in Uris \ {u} PROVE Local(v)'
  BY <1>1, <1>4, SameDocument
<1> QED BY <1>2, <1>3, <1>5, <1>6, <1>7

LEMMA DidCloseKeeps == ASSUME IInv, NEW u \in Uris, DidClose(u) PROVE IInv'
<1>1. /\ sent' \in 0..Notifications /\ client' = client
      /\ main.at = "idle" /\ pulls' = pulls
  BY ReceiveFacts DEF DidClose, IInv
<1>2. sent <= sent'
  BY DEF DidClose, Receive, IInv, TypeOK
<1>3. UNCHANGED <<doc, worker, shown, answers, asked, lost, hurt, faults>>
      /\ StartJoin(u, "close") /\ doc[u].open
  BY DEF DidClose, pullVars, faultVars
<1>4. ~Ending
  BY <1>1 DEF Ending, IInv, MainShape
<1> QED BY <1>1, <1>2, <1>3, <1>4, JoinBegins

LEMMA EofJoinKeeps == ASSUME IInv, NEW u \in Uris, EofJoin(u) PROVE IInv'
<1>1. UNCHANGED <<pulls, client, sent, doc, worker, shown, answers, asked, lost, hurt, faults>>
      /\ StartJoin(u, "eof") /\ doc[u].open /\ main.at = "eof"
  BY DEF EofJoin, clientVars, pullVars, faultVars
<1>2. sent' \in 0..Notifications /\ sent <= sent'
  BY <1>1 DEF IInv, TypeOK
<1> QED BY <1>1, <1>2, JoinBegins

\* A step that gives an open document another text.
LEMMA TextChanges ==
  ASSUME IInv, NEW u \in Uris, main.at = "idle", doc[u].open,
         doc' \in [Uris -> Document],
         \A v \in Uris \ {u} : doc'[v] = doc[v],
         doc'[u].open = doc[u].open, doc'[u].started = doc[u].started,
         doc'[u].strikes = doc[u].strikes, doc'[u].quarantined = doc[u].quarantined,
         u \notin hurt' => doc'[u].text = client'[u] /\ doc'[u].version = client'[u],
         client' \in [Uris -> Versions], sent' \in 0..Notifications,
         \A v \in Uris : client'[v] <= sent',
         \A v \in Uris \ {u} : client'[v] = client[v],
         hurt' \in SUBSET Uris, hurt \subseteq hurt',
         faults' \in 0..Faults, faults <= faults',
         main' \in MainThread, MainShape', main'.at \in {"post", "reanalyze"},
         UNCHANGED <<pulls, box, worker, shown, answers, asked, lost>>
  PROVE  IInv'
<1> USE DEF IInv
<1>1. TypeOK'
  BY DEF TypeOK
<1>2. Limits'
  BY DEF Limits, TypeOK, Document
<1>3. ~Ending /\ ~Ending'
  BY DEF Ending, MainShape
<1>4. Places'
  BY <1>3, SamePlaces
<1>5. Local(u)
  OBVIOUS
<1>6. WorkerShape(u)' /\ Threads(u)'
  BY <1>5 DEF Local, WorkerShape, Threads
<1>7. Strikes(u)'
  BY <1>5 DEF Local, Strikes
<1>8. Texts(u)'
  BY <1>3, <1>5 DEF Local, Texts
<1>9. ASSUME NEW v \in Uris \ {u} PROVE Local(v)'
  BY <1>3, SameDocument
<1> QED BY <1>1, <1>2, <1>4, <1>6, <1>7, <1>8, <1>9 DEF Local

LEMMA DidChangeKeeps == ASSUME IInv, NEW u \in Uris, DidChange(u) PROVE IInv'
<1>1. /\ client' \in [Uris -> Versions] /\ sent' \in 0..Notifications
      /\ \A v \in Uris : client'[v] <= sent'
      /\ \A v \in Uris \ {u} : client'[v] = client[v]
      /\ main.at = "idle" /\ pulls' = pulls
  BY ReceiveFacts DEF DidChange, IInv
<1>2. /\ doc[u].open /\ main' = [Idle EXCEPT !.at = "post", !.uri = u]
      /\ UNCHANGED <<box, worker, shown, answers, asked, lost>>
  BY DEF DidChange, pullVars
<1>3. main' \in MainThread /\ MainShape' /\ main'.at = "post"
  BY <1>2 DEF MainThread, MainShape, Idle
<1>4. client'[u] \in Versions /\ Drift \in Versions
  BY <1>1, Zero DEF Drift
<1>5. CASE /\ \E t \in {client'[u]} \cup (IF doc[u].text = client[u] THEN {} ELSE {Drift}) :
                doc' = [doc EXCEPT ![u].version = client'[u], ![u].text = t]
           /\ UNCHANGED faultVars
  <2>1. PICK t \in {client'[u]} \cup (IF doc[u].text = client[u] THEN {} ELSE {Drift}) :
          doc' = [doc EXCEPT ![u].version = client'[u], ![u].text = t]
    BY <1>5
  <2>2. hurt' = hurt /\ faults' = faults
    BY <1>5 DEF faultVars
  <2>3. t \in Versions /\ (t # client'[u] => doc[u].text # client[u])
    BY <1>4
  <2>4. /\ doc' \in [Uris -> Document]
        /\ \A v \in Uris \ {u} : doc'[v] = doc[v]
        /\ doc'[u].open = doc[u].open /\ doc'[u].started = doc[u].started
        /\ doc'[u].strikes = doc[u].strikes /\ doc'[u].quarantined = doc[u].quarantined
        /\ doc'[u].version = client'[u] /\ doc'[u].text = t
    BY <1>4, <2>1, <2>3 DEF IInv, TypeOK, Document
  <2>5. u \notin hurt => doc[u].text = client[u]
    BY <1>1, <1>2 DEF IInv, Local, Texts
  <2>6. hurt' \in SUBSET Uris /\ hurt \subseteq hurt' /\ faults' \in 0..Faults /\ faults <= faults'
    BY <2>2 DEF IInv, TypeOK
  <2> QED BY <1>1, <1>2, <1>3, <2>2, <2>3, <2>4, <2>5, <2>6, TextChanges
<1>6. CASE /\ Fault(u)
           /\ \/ doc' = [doc EXCEPT ![u].version = client'[u], ![u].text = Drift]
              \/ UNCHANGED doc
  <2>1. u \in hurt' /\ hurt' \in SUBSET Uris /\ hurt \subseteq hurt'
    BY <1>6 DEF Fault, IInv, TypeOK
  <2>2. faults' \in 0..Faults /\ faults <= faults'
    BY <1>6, DocumentsAssumption DEF Fault, IInv, TypeOK
  <2>3. /\ doc' \in [Uris -> Document]
        /\ \A v \in Uris \ {u} : doc'[v] = doc[v]
        /\ doc'[u].open = doc[u].open /\ doc'[u].started = doc[u].started
        /\ doc'[u].strikes = doc[u].strikes /\ doc'[u].quarantined = doc[u].quarantined
    BY <1>4, <1>6 DEF IInv, TypeOK, Document
  <2> QED BY <1>1, <1>2, <1>3, <2>1, <2>2, <2>3, TextChanges
<1> QED BY <1>5, <1>6 DEF DidChange

LEMMA DidSaveKeeps == ASSUME IInv, NEW u \in Uris, DidSave(u) PROVE IInv'
<1>1. /\ client' \in [Uris -> Versions] /\ sent' \in 0..Notifications
      /\ \A v \in Uris : client'[v] <= sent'
      /\ main.at = "idle" /\ pulls' = pulls /\ client' = client
  BY ReceiveFacts DEF DidSave, IInv
<1>2. /\ doc[u].open /\ main' = [Idle EXCEPT !.at = "reanalyze", !.todo = Open \ {u}]
      /\ UNCHANGED <<box, worker, shown, answers, asked, lost, hurt, faults>>
      /\ doc' = doc \/ doc' = [doc EXCEPT ![u].text = client[u]]
  BY DEF DidSave, pullVars, faultVars
<1>3. main' \in MainThread /\ MainShape' /\ main'.at = "reanalyze"
  BY <1>2 DEF MainThread, MainShape, Idle, Open
<1>4. client[u] \in Versions
  BY <1>1
<1>5. /\ doc' \in [Uris -> Document]
      /\ \A v \in Uris \ {u} : doc'[v] = doc[v]
      /\ doc'[u].open = doc[u].open /\ doc'[u].started = doc[u].started
      /\ doc'[u].strikes = doc[u].strikes /\ doc'[u].quarantined = doc[u].quarantined
      /\ doc'[u].version = doc[u].version
      /\ doc'[u].text \in {doc[u].text, client[u]}
  <2>1. CASE doc' = doc
    BY <2>1 DEF IInv, TypeOK
  <2>2. CASE doc' = [doc EXCEPT ![u].text = client[u]]
    BY <1>4, <2>2 DEF IInv, TypeOK, Document
  <2> QED BY <1>2, <2>1, <2>2
<1>6. u \notin hurt => doc[u].text = client[u] /\ doc[u].version = client[u]
  BY <1>1, <1>2 DEF IInv, Local, Texts
<1>7. hurt' \in SUBSET Uris /\ hurt \subseteq hurt' /\ faults' \in 0..Faults /\ faults <= faults'
  BY <1>2 DEF IInv, TypeOK
<1> QED BY <1>1, <1>2, <1>3, <1>5, <1>6, <1>7, TextChanges

\* A request is answered: it was new, in a mailbox, or with a worker.
LEMMA AnswerFacts ==
  ASSUME TypeOK, Places, NEW r \in Requests, r \notin asked \/ r \in Undone, AnswerOne(r)
  PROVE  /\ answers' \in [Requests -> 0..2]
         /\ answers[r] = 0 /\ answers'[r] = 1
         /\ \A q \in Requests \ {r} : answers'[q] = answers[q]
<1>1. answers \in [Requests -> 0..2] /\ answers[r] = 0
  BY DEF TypeOK, Places, Undone
<1>2. answers' = [answers EXCEPT ![r] = answers[r] + 1]
  BY DEF AnswerOne
<1> QED BY <1>1, <1>2

LEMMA DiagnosticKeeps ==
  ASSUME IInv, NEW u \in Uris, NEW r \in Requests, Diagnostic(u, r) PROVE IInv'
<1> USE DEF IInv
<1>1. /\ UNCHANGED <<pulls, client, sent, doc, worker, main, shown, lost, hurt, faults>>
      /\ r \notin asked /\ asked' = asked \cup {r} /\ r # None
  BY DocumentsAssumption DEF Diagnostic, clientVars, faultVars
<1>2. Limits' /\ MainShape' /\ (Ending' <=> Ending)
  BY <1>1 DEF Limits, MainShape, Ending
<1>3. /\ answers \in [Requests -> 0..2] /\ asked \in SUBSET Requests /\ lost \in SUBSET asked
      /\ answers[r] = 0
  BY <1>1 DEF TypeOK, Places
<1>4. /\ \A v \in Uris : worker[v].pull # r /\ box[v].pull # r
      /\ \A v \in Uris : worker[v].pull # None => worker[v].pull \in asked
  BY <1>1 DEF Places, Undone
<1>5. CASE doc[u].open /\ doc[u].started
  <2>1. /\ box' = [box EXCEPT ![u].pull = r]
        /\ IF box[u].pull # None THEN AnswerOne(box[u].pull) ELSE UNCHANGED answers
    BY <1>5 DEF Diagnostic
  <2>2. /\ box' \in [Uris -> Mailbox] /\ box'[u].pull = r /\ box'[u].shutdown = box[u].shutdown
        /\ \A v \in Uris \ {u} : box'[v] = box[v]
    BY <2>1 DEF TypeOK, Mailbox
  <2>3. ASSUME NEW v \in Uris PROVE Local(v)'
    <3>1. Local(v)
      OBVIOUS
    <3> QED BY <1>1, <1>2, <1>5, <2>2, <3>1 DEF Local, WorkerShape, Threads, Strikes, Texts
  <2>4. CASE box[u].pull = None
    <3>1. answers' = answers
      BY <2>1, <2>4
    <3>2. TypeOK'
      BY <1>1, <2>2, <3>1 DEF TypeOK
    <3>3. Undone' = Undone \cup {r}
      BY <1>1, <1>3, <3>1 DEF Undone
    <3>a. \A q \in Undone : q # None
      BY <1>3, DocumentsAssumption DEF Undone
    <3>4. Places'
      BY <1>1, <1>2, <1>3, <1>4, <2>2, <2>4, <3>1, <3>3, <3>a DEF Places
    <3> QED BY <1>1, <1>2, <2>3, <3>2, <3>4
  <2>5. CASE box[u].pull # None
    <3> DEFINE o == box[u].pull
    <3>1. o \in Undone /\ o \in Requests /\ o # r /\ o # None
      BY <1>1, <1>4, <2>5 DEF Places, TypeOK, Mailbox
    <3>2. AnswerOne(o)
      BY <2>1, <2>5
    <3>3. /\ answers' \in [Requests -> 0..2] /\ answers'[o] = 1
          /\ \A q \in Requests \ {o} : answers'[q] = answers[q]
      BY <3>1, <3>2, AnswerFacts
    <3>4. TypeOK'
      BY <1>1, <2>2, <3>3 DEF TypeOK
    <3>5. /\ \A v \in Uris : worker[v].pull # o
          /\ \A v \in Uris : v # u => box[v].pull # o
      BY <2>5 DEF Places
    <3> HIDE DEF o
    <3>6. Undone' = (Undone \ {o}) \cup {r}
      BY <1>1, <1>3, <3>1, <3>3 DEF Undone
    <3>7. o \in asked \ lost
      BY <3>1 DEF Undone
    <3>8. box[u].pull = o
      BY DEF o
    <3>9. Places'
      BY <1>1, <1>2, <1>3, <1>4, <2>2, <3>1, <3>3, <3>5, <3>6, <3>7, <3>8 DEF Places
    <3> QED BY <1>1, <1>2, <2>3, <3>4, <3>9
  <2> QED BY <2>4, <2>5
<1>6. CASE ~(doc[u].open /\ doc[u].started)
  <2>1. AnswerOne(r) /\ box' = box
    BY <1>6 DEF Diagnostic
  <2>2. /\ answers' \in [Requests -> 0..2] /\ answers'[r] = 1
        /\ \A q \in Requests \ {r} : answers'[q] = answers[q]
    BY <1>1, <2>1, AnswerFacts
  <2>3. TypeOK'
    BY <1>1, <2>1, <2>2 DEF TypeOK
  <2>4. Undone' = Undone
    BY <1>1, <1>3, <2>2 DEF Undone
  <2>5. Places'
    BY <1>1, <1>2, <1>3, <2>1, <2>2, <2>4 DEF Places
  <2>6. ASSUME NEW v \in Uris PROVE Local(v)'
    BY <1>1, <1>2, <2>1, SameDocument
  <2> QED BY <1>1, <1>2, <2>3, <2>5, <2>6
<1> QED BY <1>5, <1>6

\* A mailbox is emptied and the request in it answered, unless the session is
\* ending.
LEMMA BoxEmptied ==
  ASSUME IInv, NEW u \in Uris, worker[u].pull = None,
         \A v \in Uris \ {u} : box'[v].pull = box[v].pull,
         box'[u].pull = None,
         \A v \in Uris : worker'[v].pull = worker[v].pull,
         UNCHANGED <<asked, lost>>, Ending => Ending',
         \/ box[u].pull # None /\ AnswerOne(box[u].pull)
         \/ (Ending' \/ box[u].pull = None) /\ UNCHANGED answers
  PROVE  Places' /\ answers' \in [Requests -> 0..2]
<1> USE DEF IInv
<1>1. /\ answers \in [Requests -> 0..2] /\ asked \in SUBSET Requests /\ lost \in SUBSET asked
      /\ \A q \in Undone : q # None
  BY DocumentsAssumption DEF TypeOK, Undone
<1>2. CASE box[u].pull # None /\ AnswerOne(box[u].pull)
  <2> DEFINE o == box[u].pull
  <2>1. o \in Undone /\ o \in Requests /\ o # None
    BY <1>2 DEF Places, TypeOK, Mailbox
  <2>2. /\ answers' \in [Requests -> 0..2] /\ answers'[o] = 1
        /\ \A q \in Requests \ {o} : answers'[q] = answers[q]
    BY <1>2, <2>1, AnswerFacts
  <2>3. /\ \A v \in Uris : worker[v].pull # o
        /\ \A v \in Uris : v # u => box[v].pull # o
    BY <1>2 DEF Places
  <2>4. box[u].pull = o
    BY DEF o
  <2> HIDE DEF o
  <2>5. Undone' = Undone \ {o} /\ o \in asked \ lost
    BY <1>1, <2>1, <2>2 DEF Undone
  <2>6. Places'
    BY <1>1, <2>1, <2>2, <2>3, <2>4, <2>5 DEF Places
  <2> QED BY <2>2, <2>6
<1>3. CASE (Ending' \/ box[u].pull = None) /\ UNCHANGED answers
  <2>1. answers' = answers
    BY <1>3
  <2>2. Undone' = Undone
    BY <2>1 DEF Undone
  <2>3. Places'
    BY <1>1, <1>3, <2>1, <2>2 DEF Places
  <2> QED BY <1>1, <2>1, <2>3
<1> QED BY <1>2, <1>3

LEMMA JoinedKeeps == ASSUME IInv, NEW u \in Uris, Joined(u) PROVE IInv'
<1> USE DEF IInv
<1>1. /\ main.at = "join" /\ main.uri = u /\ worker[u].at = "exited"
      /\ JoinAnswers(u)
      /\ main' = IF main.why = "eof" THEN [Idle EXCEPT !.at = "eof"] ELSE Idle
      /\ UNCHANGED <<pulls, client, sent, asked, lost>>
  BY DEF Joined, clientVars
<1>2. main.why \in {"open", "close", "eof"}
  BY <1>1 DEF TypeOK, MainThread, MainShape
<1>3. main' \in MainThread /\ MainShape' /\ main'.at # "join"
  BY <1>1 DEF MainThread, MainShape, Idle
<1>4. (Ending <=> main.why = "eof") /\ (Ending' <=> main.why = "eof")
  BY <1>1 DEF Ending, Idle
<1>5. worker[u] = Gone /\ worker[u].pull = None
  BY <1>1 DEF Local, WorkerShape, Gone
<1>6. \/ box[u].pull # None /\ AnswerOne(box[u].pull)
      \/ (Ending' \/ box[u].pull = None) /\ UNCHANGED answers
  BY <1>1, <1>4 DEF JoinAnswers
<1>7. CASE main.why = "open"
  <2>1. Create(u, client[u]) /\ shown' = shown /\ client[u] \in Versions
    BY <1>7 DEF Joined, TypeOK
  <2>2. /\ doc' \in [Uris -> Document] /\ box' \in [Uris -> Mailbox]
        /\ worker' \in [Uris -> AstWorker]
        /\ hurt' \in SUBSET Uris /\ faults' \in 0..Faults
        /\ hurt \subseteq hurt' /\ faults <= faults'
        /\ \A v \in Uris \ {u} :
              doc'[v] = doc[v] /\ box'[v] = box[v] /\ worker'[v] = worker[v]
    BY <2>1, CreateFacts
  <2>3. /\ doc'[u].version = client[u] /\ doc'[u].text = client[u]
        /\ doc'[u].strikes = 0 /\ ~doc'[u].quarantined
        /\ box'[u].pull = None /\ ~box'[u].shutdown
        /\ worker'[u].pull = None /\ worker'[u].held = 0
        /\ \/ /\ doc'[u].open /\ doc'[u].started
              /\ worker'[u].at = "dequeue"
           \/ ~doc'[u].started /\ worker'[u] = Gone /\ u \in hurt'
    BY <2>1, CreateFacts
  <2>4. Places' /\ answers' \in [Requests -> 0..2]
    BY <1>1, <1>4, <1>5, <1>6, <2>2, <2>3, BoxEmptied
  <2>5. TypeOK'
    BY <1>1, <1>3, <2>1, <2>2, <2>4 DEF TypeOK
  <2>6. Limits'
    BY <1>1, <2>2, <2>3 DEF Limits, TypeOK, Document
  <2>7. WorkerShape(u)' /\ Threads(u)' /\ Strikes(u)'
    BY <2>3 DEF WorkerShape, Threads, Strikes, Gone
  <2>8. Texts(u)'
    BY <1>1, <1>4, <2>1, <2>2, <2>3 DEF Texts, Local, Gone
  <2>9. ASSUME NEW v \in Uris \ {u} PROVE Local(v)'
    BY <1>1, <1>4, <2>1, <2>2, SameDocument
  <2> QED BY <1>1, <1>3, <2>1, <2>4, <2>5, <2>6, <2>7, <2>8, <2>9 DEF Local
<1>8. CASE main.why # "open"
  <2>1. /\ doc' = [doc EXCEPT ![u] = Closed]
        /\ box' = [box EXCEPT ![u] = EmptyBox]
        /\ worker' = [worker EXCEPT ![u] = Gone]
        /\ PublishCleared(u)
        /\ UNCHANGED <<hurt, faults>>
    BY <1>8 DEF Joined, faultVars
  <2>2. Closed \in Document /\ EmptyBox \in Mailbox /\ Gone \in AstWorker
    BY Zero DEF Closed, Document, EmptyBox, Mailbox, Gone, AstWorker, Drift
  <2>3. /\ doc' \in [Uris -> Document] /\ box' \in [Uris -> Mailbox]
        /\ worker' \in [Uris -> AstWorker]
        /\ doc'[u] = Closed /\ box'[u] = EmptyBox /\ worker'[u] = Gone
        /\ \A v \in Uris \ {u} :
              doc'[v] = doc[v] /\ box'[v] = box[v] /\ worker'[v] = worker[v]
    BY <2>1, <2>2 DEF TypeOK
  <2>4. /\ shown' \in [Uris -> Diagnostics \cup {None}]
        /\ \A v \in Uris \ {u} : shown'[v] = shown[v]
        /\ shown'[u] = shown[u] \/ shown'[u] = None
        /\ main.why = "close" /\ ~pulls => shown'[u] = None
    BY <2>1 DEF PublishCleared, TypeOK
  <2>5. Closed.strikes = 0 /\ ~Closed.quarantined /\ ~Closed.open /\ ~Closed.started
        /\ EmptyBox.pull = None /\ ~EmptyBox.shutdown /\ Gone.pull = None /\ Gone.held = 0
        /\ Gone.at = "exited"
    BY DEF Closed, EmptyBox, Gone
  <2>6. Places' /\ answers' \in [Requests -> 0..2]
    BY <1>1, <1>4, <1>5, <1>6, <2>3, <2>5, BoxEmptied
  <2>7. TypeOK'
    BY <1>1, <1>3, <2>1, <2>3, <2>4, <2>6 DEF TypeOK
  <2>8. Limits'
    BY <1>1, <2>1, <2>3, <2>5 DEF Limits, TypeOK, Document
  <2>9. WorkerShape(u)' /\ Threads(u)' /\ Strikes(u)'
    BY <2>3, <2>5 DEF WorkerShape, Threads, Strikes
  <2>10. Texts(u)'
    BY <1>2, <1>4, <1>8, <2>1, <2>3, <2>4, <2>5 DEF Texts, Local
  <2>11. ASSUME NEW v \in Uris \ {u} PROVE Local(v)'
    BY <1>1, <1>4, <2>1, <2>3, <2>4, SameDocument
  <2>12. pulls' => \A v \in Uris : shown'[v] = None
    BY <1>1, <2>4
  <2> QED BY <1>3, <2>6, <2>7, <2>8, <2>9, <2>10, <2>11, <2>12 DEF Local
<1> QED BY <1>7, <1>8

-----------------------------------------------------------------------------
(* The workers. *)

\* A step of one document's worker leaves the other documents alone.
LEMMA OneDocument ==
  ASSUME IInv, NEW u \in Uris, TypeOK', Limits', Places', Local(u)',
         pulls => shown'[u] = None,
         \A v \in Uris \ {u} : /\ doc'[v] = doc[v] /\ box'[v] = box[v]
                               /\ worker'[v] = worker[v] /\ shown'[v] = shown[v],
         hurt \subseteq hurt', UNCHANGED <<main, client, pulls>>
  PROVE  IInv'
<1> USE DEF IInv
<1>1. MainShape' /\ (Ending' <=> Ending)
  BY DEF MainShape, Ending
<1>2. ASSUME NEW v \in Uris \ {u} PROVE Local(v)'
  BY <1>1, SameDocument
<1>3. pulls' => \A v \in Uris : shown'[v] = None
  OBVIOUS
<1> QED BY <1>1, <1>2, <1>3

\* A worker is done with the request it had, if any: it is answered or lost.
LEMMA PullDone ==
  ASSUME IInv, NEW u \in Uris, worker'[u].pull = None,
         \A v \in Uris \ {u} : worker'[v].pull = worker[v].pull,
         \A v \in Uris : box'[v].pull = box[v].pull,
         UNCHANGED <<asked, main>>,
         \/ worker[u].pull = None /\ UNCHANGED <<answers, lost>>
         \/ worker[u].pull # None /\ AnswerOne(worker[u].pull) /\ UNCHANGED lost
         \/ /\ worker[u].pull # None /\ lost' = lost \cup {worker[u].pull}
            /\ UNCHANGED answers
  PROVE  Places' /\ answers' \in [Requests -> 0..2] /\ lost' \in SUBSET asked'
<1> USE DEF IInv
<1>1. /\ answers \in [Requests -> 0..2] /\ asked \in SUBSET Requests /\ lost \in SUBSET asked
      /\ \A q \in Undone : q # None
      /\ (Ending' <=> Ending)
  BY DocumentsAssumption DEF TypeOK, Undone, Ending
<1>2. CASE worker[u].pull = None /\ UNCHANGED <<answers, lost>>
  <2>1. Places'
    BY <1>1, <1>2, SamePlaces
  <2> QED BY <1>1, <1>2, <2>1
<1>3. CASE worker[u].pull # None
  <2> DEFINE o == worker[u].pull
  <2>1. o \in Undone /\ o \in Requests /\ o # None
    BY <1>3 DEF Places, TypeOK, AstWorker
  <2>2. /\ \A v \in Uris : box[v].pull # o
        /\ \A v \in Uris : v # u => worker[v].pull # o
    BY <1>3 DEF Places
  <2>3. /\ answers' \in [Requests -> 0..2] /\ lost' \in SUBSET asked'
        /\ \A q \in Requests \ {o} : answers'[q] = answers[q] /\ (q \in lost' <=> q \in lost)
        /\ \/ answers'[o] = 1 /\ o \notin lost'
           \/ answers'[o] = 0 /\ o \in lost'
    <3>1. CASE AnswerOne(worker[u].pull) /\ UNCHANGED lost
      <4>1. /\ answers' \in [Requests -> 0..2] /\ answers'[o] = 1
            /\ \A q \in Requests \ {o} : answers'[q] = answers[q]
        BY <2>1, <3>1, AnswerFacts
      <4> QED BY <1>1, <2>1, <3>1, <4>1 DEF Undone
    <3>2. CASE lost' = lost \cup {worker[u].pull} /\ UNCHANGED answers
      BY <1>1, <2>1, <3>2 DEF Undone
    <3> QED BY <1>3, <3>1, <3>2
  <2>4. worker[u].pull = o
    BY DEF o
  <2> HIDE DEF o
  <2>5. Undone' = Undone \ {o} /\ o \in asked
    BY <1>1, <2>1, <2>3 DEF Undone
  <2>6. Places'
    BY <1>1, <2>1, <2>2, <2>3, <2>4, <2>5 DEF Places
  <2> QED BY <2>3, <2>6
<1> QED BY <1>2, <1>3

LEMMA TakeShutdownKeeps ==
  ASSUME IInv, NEW u \in Uris, worker[u].at \in {"dequeue", "debounce", "parked"},
         TakeShutdown(u),
         UNCHANGED <<pulls, client, sent, doc, main, shown, asked, lost, hurt, faults>>
  PROVE  IInv'
<1> USE DEF IInv
<1>1. /\ box[u].shutdown /\ box' = [box EXCEPT ![u].shutdown = FALSE]
      /\ worker' = [worker EXCEPT ![u] = Gone] /\ answers' = answers
  BY DEF TakeShutdown, Go
<1>2. Gone \in AstWorker /\ Gone.pull = None /\ Gone.held = 0 /\ Gone.at = "exited"
  BY Zero DEF Gone, AstWorker, Drift
<1>3. /\ box' \in [Uris -> Mailbox] /\ box'[u].pull = box[u].pull /\ ~box'[u].shutdown
      /\ \A v \in Uris \ {u} : box'[v] = box[v]
  BY <1>1 DEF TypeOK, Mailbox
<1>4. /\ worker' \in [Uris -> AstWorker] /\ worker'[u] = Gone
      /\ \A v \in Uris \ {u} : worker'[v] = worker[v]
  BY <1>1, <1>2 DEF TypeOK
<1>5. TypeOK' /\ Limits'
  BY <1>1, <1>3, <1>4 DEF TypeOK, Limits
<1>6. Local(u) /\ worker[u].pull = None /\ main.at = "join" /\ main.uri = u
  BY <1>1 DEF Local, WorkerShape, Threads
<1>7. Places'
  BY <1>1, <1>2, <1>3, <1>4, <1>6, PullDone
<1>8. WorkerShape(u)' /\ Threads(u)' /\ Strikes(u)'
  BY <1>2, <1>3, <1>4, <1>6 DEF Local, WorkerShape, Threads, Strikes
<1>9. Texts(u)'
  BY <1>2, <1>4, <1>6 DEF Local, Texts, Ending
<1> QED BY <1>3, <1>4, <1>5, <1>7, <1>8, <1>9, OneDocument DEF Local

LEMMA TakePullKeeps ==
  ASSUME IInv, NEW u \in Uris, worker[u].at \in {"dequeue", "debounce", "parked"},
         TakePull(u),
         UNCHANGED <<pulls, client, sent, doc, main, shown, asked, lost, hurt, faults>>
  PROVE  IInv'
<1> USE DEF IInv
<1>1. /\ ~box[u].shutdown /\ box[u].pull # None /\ box' = [box EXCEPT ![u].pull = None]
  BY DEF TakePull
<1>2. /\ box' \in [Uris -> Mailbox] /\ box'[u].pull = None
      /\ box'[u].shutdown = box[u].shutdown
      /\ \A v \in Uris \ {u} : box'[v] = box[v]
  BY <1>1 DEF TypeOK, Mailbox
<1>3. Local(u) /\ worker[u].pull = None /\ (Ending' <=> Ending)
  BY DEF Local, WorkerShape, Ending
<1>4. CASE doc[u].quarantined /\ worker[u].held = 0
  <2>1. AnswerOne(box[u].pull) /\ worker' = worker
    BY <1>4 DEF TakePull
  <2>2. Places' /\ answers' \in [Requests -> 0..2]
    BY <1>1, <1>2, <1>3, <2>1, BoxEmptied
  <2>3. TypeOK' /\ Limits'
    BY <1>2, <2>1, <2>2 DEF TypeOK, Limits
  <2>4. Local(u)'
    BY <1>2, <1>3, <2>1 DEF Local, WorkerShape, Threads, Strikes, Texts
  <2> QED BY <1>2, <2>1, <2>2, <2>3, <2>4, OneDocument
<1>5. CASE ~(doc[u].quarantined /\ worker[u].held = 0)
  <2> DEFINE o == box[u].pull
             w == [worker[u] EXCEPT !.at = "pull", !.pull = o]
  <2>1. worker' = [worker EXCEPT ![u] = w] /\ answers' = answers
    BY <1>5 DEF TakePull, Go
  <2>2. o \in Requests /\ o # None /\ box[u].pull = o
    BY <1>1 DEF TypeOK, Mailbox
  <2> HIDE DEF o
  <2>3. /\ w \in AstWorker /\ w.at = "pull" /\ w.pull = o /\ w.held = worker[u].held
    BY <2>2 DEF TypeOK, AstWorker
  <2> HIDE DEF w
  <2>4. /\ worker' \in [Uris -> AstWorker] /\ worker'[u] = w
        /\ \A v \in Uris \ {u} : worker'[v] = worker[v]
    BY <2>1, <2>3 DEF TypeOK
  <2>5. TypeOK' /\ Limits'
    BY <1>2, <2>1, <2>4 DEF TypeOK, Limits
  <2>6. Undone' = Undone /\ \A q \in Undone : q # None
    BY <2>1, DocumentsAssumption DEF Undone, TypeOK
  <2>7. Places'
    BY <1>2, <1>3, <2>1, <2>2, <2>3, <2>4, <2>6 DEF Places
  <2>8. WorkerShape(u)' /\ Threads(u)' /\ Texts(u)'
    BY <1>2, <1>3, <2>2, <2>3, <2>4 DEF Local, WorkerShape, Threads, Texts
  <2>9. Strikes(u)'
    BY <1>3, <1>5, <2>3, <2>4 DEF Local, Strikes
  <2> QED BY <1>2, <2>4, <2>5, <2>7, <2>8, <2>9, OneDocument DEF Local
<1> QED BY <1>4, <1>5

LEMMA TakeCompileKeeps ==
  ASSUME IInv, NEW u \in Uris, worker[u].at \in {"dequeue", "debounce", "parked"},
         TakeCompile(u),
         UNCHANGED <<pulls, client, sent, doc, main, shown, asked, lost, hurt, faults>>
  PROVE  IInv'
<1> USE DEF IInv
<1>1. /\ ~box[u].shutdown /\ box[u].compile # 0 /\ box' = [box EXCEPT ![u].compile = 0]
      /\ answers' = answers
  BY DEF TakeCompile
<1>2. /\ box' \in [Uris -> Mailbox] /\ box'[u].pull = box[u].pull
      /\ box'[u].shutdown = box[u].shutdown
      /\ \A v \in Uris \ {u} : box'[v] = box[v]
  BY <1>1, Zero DEF TypeOK, Mailbox
<1>3. Local(u) /\ worker[u].pull = None /\ (Ending' <=> Ending)
  BY DEF Local, WorkerShape, Ending
<1>4. CASE doc[u].quarantined /\ worker[u].held = 0
  <2>1. worker' = worker
    BY <1>4 DEF TakeCompile
  <2>2. Places'
    BY <1>1, <1>2, <1>3, <2>1, SamePlaces
  <2>3. TypeOK' /\ Limits'
    BY <1>1, <1>2, <2>1 DEF TypeOK, Limits
  <2>4. Local(u)'
    BY <1>2, <1>3, <2>1 DEF Local, WorkerShape, Threads, Strikes, Texts
  <2> QED BY <1>2, <2>1, <2>2, <2>3, <2>4, OneDocument
<1>5. CASE ~(doc[u].quarantined /\ worker[u].held = 0)
  <2> DEFINE h == IF box[u].compile >= worker[u].held THEN box[u].compile ELSE worker[u].held
             w == [worker[u] EXCEPT !.at = "debounce", !.held = h]
  <2>1. worker' = [worker EXCEPT ![u] = w]
    BY <1>5 DEF TakeCompile, Go
  <2>2. h \in Versions /\ h # 0
    BY <1>1, DocumentsAssumption DEF TypeOK, Mailbox, AstWorker, Versions
  <2> HIDE DEF h
  <2>3. w \in AstWorker /\ w.at = "debounce" /\ w.pull = worker[u].pull /\ w.held = h
    BY <2>2 DEF TypeOK, AstWorker
  <2> HIDE DEF w
  <2>4. /\ worker' \in [Uris -> AstWorker] /\ worker'[u] = w
        /\ \A v \in Uris \ {u} : worker'[v] = worker[v]
    BY <2>1, <2>3 DEF TypeOK
  <2>5. TypeOK' /\ Limits'
    BY <1>1, <1>2, <2>4 DEF TypeOK, Limits
  <2>6. Places'
    BY <1>1, <1>2, <1>3, <2>3, <2>4, SamePlaces
  <2>7. WorkerShape(u)' /\ Threads(u)' /\ Texts(u)'
    BY <1>2, <1>3, <2>2, <2>3, <2>4 DEF Local, WorkerShape, Threads, Texts
  <2>8. doc[u].strikes # 3
    BY <1>3, <1>5 DEF Local, Strikes
  <2>9. Strikes(u)'
    BY <1>3, <2>2, <2>3, <2>4, <2>8 DEF Local, Strikes
  <2> QED BY <1>2, <2>4, <2>5, <2>6, <2>7, <2>9, OneDocument DEF Local
<1> QED BY <1>4, <1>5

LEMMA DequeueKeeps == ASSUME IInv, NEW u \in Uris, Dequeue(u) PROVE IInv'
<1>1. /\ worker[u].at \in {"dequeue", "debounce", "parked"}
      /\ TakeShutdown(u) \/ TakePull(u) \/ TakeCompile(u)
      /\ UNCHANGED <<pulls, client, sent, doc, main, shown, asked, lost, hurt, faults>>
  BY DEF Dequeue, Take, clientVars, faultVars
<1> QED BY <1>1, TakeShutdownKeeps, TakePullKeeps, TakeCompileKeeps

\* The worker goes on with what it has in hand.
LEMMA WorkerGoesOn ==
  ASSUME IInv, NEW u \in Uris, NEW w \in AstWorker, worker' = [worker EXCEPT ![u] = w],
         worker[u].at # "exited", w.at # "exited",
         w.held = worker[u].held, w.pull = worker[u].pull,
         w.pull # None <=> w.at \in {"pull", "pulling"},
         w.at \in {"debounce", "parked", "compile", "compiling"} => w.held # 0,
         doc[u].strikes >= 2 /\ w.at = "pulling" => w.dead,
         w.at = "compiling" /\ u \notin hurt => w.text = w.version,
         worker[u].held = 0 /\ doc[u].strikes >= 2 => w.at = "dequeue",
         hurt \subseteq hurt', hurt' \in SUBSET Uris, faults' \in 0..Faults, faults <= faults',
         UNCHANGED <<pulls, client, sent, doc, box, main, shown, answers, asked, lost>>
  PROVE  IInv'
<1> USE DEF IInv
<1>1. /\ worker' \in [Uris -> AstWorker] /\ worker'[u] = w
      /\ \A v \in Uris \ {u} : worker'[v] = worker[v]
  BY DEF TypeOK
<1>2. TypeOK'
  BY <1>1 DEF TypeOK
<1>3. Limits'
  BY DEF Limits, TypeOK, Document
<1>4. Ending' <=> Ending
  BY DEF Ending
<1>5. Places'
  BY <1>1, <1>4, SamePlaces
<1>6. Local(u)
  OBVIOUS
<1>7. WorkerShape(u)' /\ Threads(u)'
  BY <1>1, <1>6 DEF Local, WorkerShape, Threads
<1>8. Strikes(u)'
  BY <1>1, <1>6 DEF Local, Strikes
<1>9. Texts(u)'
  BY <1>1, <1>4, <1>6 DEF Local, Texts
<1> QED BY <1>1, <1>2, <1>3, <1>5, <1>7, <1>8, <1>9, OneDocument DEF Local

LEMMA ParkKeeps == ASSUME IInv, NEW u \in Uris, Park(u) \/ Expire(u) \/ Spurious(u) PROVE IInv'
<1>1. PICK at \in {"parked", "compile", "dequeue"} :
        worker' = [worker EXCEPT ![u] = [worker[u] EXCEPT !.at = at]]
  BY DEF Park, Expire, Spurious, Go
<1>2. worker[u].at \in {"debounce", "parked"}
      /\ UNCHANGED <<pulls, client, sent, doc, box, main, shown, answers, asked, lost>>
  BY DEF Park, Expire, Spurious, clientVars, pullVars
<1>3. hurt \subseteq hurt' /\ hurt' \in SUBSET Uris /\ faults' \in 0..Faults /\ faults <= faults'
  BY DocumentsAssumption DEF Park, Expire, Spurious, Fault, faultVars, IInv, TypeOK
<1> DEFINE w == [worker[u] EXCEPT !.at = at]
<1>4. /\ w \in AstWorker /\ w.at = at /\ w.held = worker[u].held /\ w.pull = worker[u].pull
  BY DEF IInv, TypeOK, AstWorker
<1>5. worker' = [worker EXCEPT ![u] = w]
  BY <1>1
<1> HIDE DEF w
<1>6. worker[u].held # 0 /\ worker[u].pull = None
  BY <1>2 DEF IInv, Local, WorkerShape
<1> QED BY <1>2, <1>3, <1>4, <1>5, <1>6, WorkerGoesOn

LEMMA SnapshotKeeps == ASSUME IInv, NEW u \in Uris, Snapshot(u) PROVE IInv'
<1>1. worker[u].at \in {"compile", "pull"}
      /\ UNCHANGED <<pulls, client, sent, doc, box, main, shown, answers, asked, lost,
                     hurt, faults>>
  BY DEF Snapshot, clientVars, pullVars, faultVars
<1> DEFINE at == IF worker[u].at = "compile" THEN "compiling" ELSE "pulling"
<1>2. at \in {"compiling", "pulling"} /\ (at = "pulling" <=> worker[u].at = "pull")
  BY <1>1
<1>3. worker' = [worker EXCEPT ![u] = [worker[u] EXCEPT
              !.at = at, !.version = doc[u].version, !.text = doc[u].text,
              !.dead = doc[u].quarantined]]
  BY DEF Snapshot, Go
<1> HIDE DEF at
<1>4. PICK dead \in BOOLEAN : dead = doc[u].quarantined
  BY DEF IInv, TypeOK, Document
<1> DEFINE w == [worker[u] EXCEPT !.at = at, !.version = doc[u].version,
                                  !.text = doc[u].text, !.dead = dead]
<1>5. worker' = [worker EXCEPT ![u] = w]
  BY <1>3, <1>4
<1>6. doc[u].version \in Versions /\ doc[u].text \in Versions /\ worker[u] \in AstWorker
  BY DEF IInv, TypeOK, Document
<1>7. /\ w \in AstWorker
      /\ w.at = at /\ w.held = worker[u].held /\ w.pull = worker[u].pull
      /\ w.version = doc[u].version /\ w.text = doc[u].text /\ w.dead = dead
  BY <1>2, <1>6 DEF AstWorker
<1> HIDE DEF w
<1>8. Local(u) /\ doc[u].open
  BY <1>1 DEF IInv, Local, Threads
<1>9. /\ w.pull # None <=> w.at = "pulling"
      /\ w.at = "compiling" => w.held # 0
      /\ w.at = "compiling" /\ u \notin hurt => w.text = w.version
  BY <1>1, <1>2, <1>7, <1>8 DEF Local, WorkerShape, Texts
<1>10. /\ doc[u].strikes >= 2 => dead
       /\ worker[u].held = 0 => ~(doc[u].strikes >= 2)
  BY <1>1, <1>4, <1>8 DEF Local, Strikes
<1>11. hurt' \in SUBSET Uris /\ hurt \subseteq hurt' /\ faults' \in 0..Faults /\ faults <= faults'
  BY <1>1 DEF IInv, TypeOK
<1> QED BY <1>1, <1>2, <1>5, <1>7, <1>9, <1>10, <1>11, WorkerGoesOn

\* Where a worker goes on after an analysis.
LEMMA AfterFacts ==
  ASSUME IInv, NEW u \in Uris
  PROVE  /\ After(u) \in AstWorker /\ After(u).pull = None
         /\ \/ /\ worker[u].pull # None /\ worker[u].held # 0
               /\ After(u).at = "debounce" /\ After(u).held = worker[u].held
            \/ /\ worker[u].pull = None \/ worker[u].held = 0
               /\ After(u).at = "dequeue" /\ After(u).held = 0
<1>1. CASE worker[u].pull # None /\ worker[u].held # 0
  <2> DEFINE h == worker[u].held
  <2>1. h \in Versions
    BY DEF IInv, TypeOK, AstWorker
  <2>2. After(u) = [Gone EXCEPT !.at = "debounce", !.held = h]
    BY <1>1 DEF After
  <2> HIDE DEF h
  <2>3. After(u) \in AstWorker
    BY <2>1, <2>2, Zero DEF AstWorker, Gone, Drift
  <2>4. After(u).pull = None /\ After(u).at = "debounce" /\ After(u).held = h
    BY <2>2 DEF Gone
  <2> QED BY <1>1, <2>3, <2>4 DEF h
<1>2. CASE ~(worker[u].pull # None /\ worker[u].held # 0)
  <2>1. After(u) = [Gone EXCEPT !.at = "dequeue", !.held = 0]
    BY <1>2 DEF After
  <2>2. After(u) \in AstWorker
    BY <2>1, Zero DEF AstWorker, Gone, Drift
  <2>3. After(u).pull = None /\ After(u).at = "dequeue" /\ After(u).held = 0
    BY <2>1 DEF Gone
  <2> QED BY <1>2, <2>2, <2>3
<1> QED BY <1>1, <1>2

\* The end of an analysis, whatever came of it: the request in hand is settled,
\* diagnostics may have been published and the document struck.
LEMMA AnalysisEnds ==
  ASSUME IInv, NEW u \in Uris, worker[u].at \in {"compile", "pull", "compiling", "pulling"},
         worker' = [worker EXCEPT ![u] = After(u)],
         UNCHANGED <<pulls, client, sent, box, main, asked>>,
         \/ worker[u].pull = None /\ UNCHANGED <<answers, lost>>
         \/ worker[u].pull # None /\ AnswerOne(worker[u].pull) /\ UNCHANGED lost
         \/ /\ worker[u].pull # None /\ lost' = lost \cup {worker[u].pull}
            /\ UNCHANGED answers,
         shown' \in [Uris -> Diagnostics \cup {None}],
         \A v \in Uris \ {u} : shown'[v] = shown[v],
         shown'[u] # shown[u] => ~pulls,
         u \notin hurt' => shown'[u] = shown[u] \/ shown'[u].text = shown'[u].version,
         doc' \in [Uris -> Document],
         \A v \in Uris \ {u} : doc'[v] = doc[v],
         doc'[u].open = doc[u].open, doc'[u].started = doc[u].started,
         doc'[u].version = doc[u].version, doc'[u].text = doc[u].text,
         \/ doc'[u].strikes = doc[u].strikes /\ doc'[u].quarantined = doc[u].quarantined
         \/ /\ doc'[u].strikes = doc[u].strikes + 1 /\ faults' = faults + 1
            /\ doc'[u].quarantined <=> doc[u].quarantined \/ doc[u].strikes >= 1
            /\ ~(worker[u].at = "pulling" /\ worker[u].dead)
            /\ worker[u].at \in {"compiling", "pulling"},
         hurt' \in SUBSET Uris, hurt \subseteq hurt',
         faults' \in 0..Faults, faults <= faults'
  PROVE  IInv'
<1> USE DEF IInv
<1> DEFINE w == After(u)
<1>1. /\ w \in AstWorker /\ w.pull = None
      /\ \/ /\ worker[u].pull # None /\ worker[u].held # 0
            /\ w.at = "debounce" /\ w.held = worker[u].held
         \/ /\ worker[u].pull = None \/ worker[u].held = 0
            /\ w.at = "dequeue" /\ w.held = 0
  BY AfterFacts
<1>2. worker' = [worker EXCEPT ![u] = w]
  OBVIOUS
<1> HIDE DEF w
<1>3. /\ worker' \in [Uris -> AstWorker] /\ worker'[u] = w
      /\ \A v \in Uris \ {u} : worker'[v] = worker[v]
  BY <1>1, <1>2 DEF TypeOK
<1>4. Places' /\ answers' \in [Requests -> 0..2] /\ lost' \in SUBSET asked'
  <2>1. /\ worker'[u].pull = None
        /\ \A v \in Uris \ {u} : worker'[v].pull = worker[v].pull
        /\ \A v \in Uris : box'[v].pull = box[v].pull
    BY <1>1, <1>3
  <2> QED BY <2>1, PullDone
<1>5. TypeOK'
  BY <1>3, <1>4 DEF TypeOK
<1>6. Limits'
  <2>1. \A v \in Uris : client'[v] <= sent'
    BY DEF Limits
  <2>2. ASSUME NEW v \in Uris PROVE doc'[v].strikes <= faults'
    <3>1. doc[v].strikes \in Nat /\ doc[v].strikes <= faults /\ faults \in Nat /\ faults' \in Nat
      BY DocumentsAssumption DEF Limits, TypeOK, Document
    <3> QED BY <3>1
  <2> QED BY <2>1, <2>2 DEF Limits
<1>7. Local(u) /\ doc[u].started /\ (Ending' <=> Ending)
  BY DEF Local, Threads, Ending
<1>8. WorkerShape(u)' /\ Threads(u)'
  BY <1>1, <1>3, <1>7 DEF Local, WorkerShape, Threads
<1>9. Strikes(u)'
  <2>1. doc[u].strikes \in Nat /\ doc'[u].strikes \in Nat
    BY DocumentsAssumption DEF TypeOK, Document
  <2>2. worker[u].pull # None <=> worker[u].at \in {"pull", "pulling"}
    BY <1>7 DEF Local, WorkerShape
  <2>3. Strikes(u) /\ (worker[u].at \in {"compile", "compiling"} => worker[u].held # 0)
    BY <1>7 DEF Local, WorkerShape
  <2>4. CASE doc'[u].strikes = doc[u].strikes /\ doc'[u].quarantined = doc[u].quarantined
    BY <1>1, <1>3, <2>1, <2>2, <2>3, <2>4 DEF Strikes
  <2>5. CASE /\ doc'[u].strikes = doc[u].strikes + 1
             /\ doc'[u].quarantined <=> doc[u].quarantined \/ doc[u].strikes >= 1
             /\ ~(worker[u].at = "pulling" /\ worker[u].dead)
             /\ worker[u].at \in {"compiling", "pulling"}
    <3>1. doc[u].strikes <= 2
      BY <2>1, <2>3, <2>5 DEF Strikes
    <3>2. doc[u].strikes = 2 => w.held = 0 /\ w.at = "dequeue"
      BY <1>1, <2>1, <2>2, <2>3, <2>5 DEF Strikes
    <3> QED BY <1>1, <1>3, <2>1, <2>2, <2>3, <2>5, <3>1, <3>2 DEF Strikes
  <2> QED BY <2>4, <2>5
<1>10. Texts(u)'
  BY <1>1, <1>3, <1>7 DEF Local, Texts, Threads
<1>11. pulls => shown'[u] = None
  OBVIOUS
<1> QED BY <1>3, <1>4, <1>5, <1>6, <1>8, <1>9, <1>10, <1>11, OneDocument DEF Local

\* The request in hand of a worker whose analysis failed.
LEMMA LostFacts ==
  ASSUME IInv, NEW u \in Uris, lost' = lost \cup ({worker[u].pull} \ {None}),
         answers' = answers
  PROVE  \/ worker[u].pull = None /\ UNCHANGED <<answers, lost>>
         \/ worker[u].pull # None /\ AnswerOne(worker[u].pull) /\ UNCHANGED lost
         \/ /\ worker[u].pull # None /\ lost' = lost \cup {worker[u].pull}
            /\ UNCHANGED answers
<1>1. CASE worker[u].pull = None
  <2>1. lost' = lost
    BY <1>1
  <2> QED BY <1>1, <2>1
<1>2. CASE worker[u].pull # None
  <2>1. lost' = lost \cup {worker[u].pull}
    BY <1>2
  <2> QED BY <1>2, <2>1
<1> QED BY <1>1, <1>2

LEMMA FaultFacts ==
  ASSUME IInv, NEW u \in Uris, Fault(u)
  PROVE  /\ u \in hurt' /\ hurt' \in SUBSET Uris /\ hurt \subseteq hurt'
         /\ faults' \in 0..Faults /\ faults <= faults' /\ faults' = faults + 1
BY DocumentsAssumption DEF Fault, IInv, TypeOK

LEMMA SnapshotFailsKeeps == ASSUME IInv, NEW u \in Uris, SnapshotFails(u) PROVE IInv'
<1>1. /\ worker[u].at \in {"compile", "pull"}
      /\ lost' = lost \cup ({worker[u].pull} \ {None})
      /\ worker' = [worker EXCEPT ![u] = After(u)]
      /\ UNCHANGED <<pulls, client, sent, doc, box, main, shown, answers, asked>>
      /\ Fault(u)
  BY DEF SnapshotFails, Go, clientVars
<1>2. \/ worker[u].pull = None /\ UNCHANGED <<answers, lost>>
      \/ worker[u].pull # None /\ AnswerOne(worker[u].pull) /\ UNCHANGED lost
      \/ /\ worker[u].pull # None /\ lost' = lost \cup {worker[u].pull}
         /\ UNCHANGED answers
  BY <1>1, LostFacts
<1>3. /\ u \in hurt' /\ hurt' \in SUBSET Uris /\ hurt \subseteq hurt'
      /\ faults' \in 0..Faults /\ faults <= faults'
  BY <1>1, FaultFacts
<1>4. shown \in [Uris -> Diagnostics \cup {None}] /\ doc \in [Uris -> Document]
  BY DEF IInv, TypeOK
<1> QED BY <1>1, <1>2, <1>3, <1>4, AnalysisEnds

LEMMA AnalyzedKeeps == ASSUME IInv, NEW u \in Uris, Analyzed(u) PROVE IInv'
<1> USE DEF IInv
<1>1. /\ worker[u].at \in {"compiling", "pulling"}
      /\ worker' = [worker EXCEPT ![u] = After(u)]
      /\ UNCHANGED <<pulls, client, sent, doc, box, main, asked, lost, hurt, faults>>
  BY DEF Analyzed, Go, clientVars, faultVars
<1>2. /\ hurt' \in SUBSET Uris /\ hurt \subseteq hurt'
      /\ faults' \in 0..Faults /\ faults <= faults'
      /\ shown \in [Uris -> Diagnostics \cup {None}] /\ doc \in [Uris -> Document]
  BY <1>1 DEF TypeOK
<1>3. worker[u].pull # None <=> worker[u].at = "pulling"
  BY <1>1 DEF Local, WorkerShape
<1>4. \/ worker[u].pull = None /\ UNCHANGED <<answers, lost>>
      \/ worker[u].pull # None /\ AnswerOne(worker[u].pull) /\ UNCHANGED lost
  BY <1>1, <1>3 DEF Analyzed
<1>5. /\ shown' \in [Uris -> Diagnostics \cup {None}]
      /\ \A v \in Uris \ {u} : shown'[v] = shown[v]
      /\ shown'[u] # shown[u] => ~pulls
      /\ u \notin hurt' => shown'[u] = shown[u] \/ shown'[u].text = shown'[u].version
  <2>1. CASE shown' = shown
    BY <1>2, <2>1
  <2>2. CASE shown' # shown
    <3> DEFINE d == [version |-> worker[u].version, text |-> worker[u].text]
    <3>1. ~pulls /\ shown' = [shown EXCEPT ![u] = d] /\ worker[u].at = "compiling"
      BY <2>2 DEF Analyzed
    <3>2. d \in Diagnostics /\ d.version = worker[u].version /\ d.text = worker[u].text
      BY DEF TypeOK, AstWorker, Diagnostics
    <3> HIDE DEF d
    <3>3. u \notin hurt => d.text = d.version
      BY <3>1, <3>2 DEF Local, Texts
    <3> QED BY <1>1, <1>2, <3>1, <3>2, <3>3
  <2> QED BY <2>1, <2>2
<1> QED BY <1>1, <1>2, <1>4, <1>5, AnalysisEnds

LEMMA CrashKeeps == ASSUME IInv, NEW u \in Uris, Crash(u) PROVE IInv'
<1>1. /\ worker[u].at \in {"compiling", "pulling"}
      /\ ~(worker[u].at = "pulling" /\ worker[u].dead)
      /\ lost' = lost \cup ({worker[u].pull} \ {None})
      /\ worker' = [worker EXCEPT ![u] = After(u)]
      /\ UNCHANGED <<pulls, client, sent, box, main, shown, answers, asked>>
      /\ Fault(u)
  BY DEF Crash, Go, clientVars
<1>2. \/ worker[u].pull = None /\ UNCHANGED <<answers, lost>>
      \/ worker[u].pull # None /\ AnswerOne(worker[u].pull) /\ UNCHANGED lost
      \/ /\ worker[u].pull # None /\ lost' = lost \cup {worker[u].pull}
         /\ UNCHANGED answers
  BY <1>1, LostFacts
<1>3. /\ u \in hurt' /\ hurt' \in SUBSET Uris /\ hurt \subseteq hurt'
      /\ faults' \in 0..Faults /\ faults <= faults' /\ faults' = faults + 1
  BY <1>1, FaultFacts
<1>4. shown \in [Uris -> Diagnostics \cup {None}] /\ doc \in [Uris -> Document]
  BY DEF IInv, TypeOK
<1> DEFINE s == doc[u].strikes + 1
<1>5. PICK q \in BOOLEAN : q <=> (doc[u].quarantined \/ doc[u].strikes >= 1)
  <2>1. (doc[u].quarantined \/ doc[u].strikes >= 1) \in BOOLEAN
    OBVIOUS
  <2> QED BY <2>1
<1>6. s \in 0..Faults
  BY <1>1, <1>4, DocumentsAssumption DEF IInv, Limits, TypeOK, Document, Fault
<1>7. doc' = [doc EXCEPT ![u] = [doc[u] EXCEPT !.strikes = s, !.quarantined = q]]
  <2>1. (doc[u].quarantined \/ doc[u].strikes >= 1) = q
    BY <1>5
  <2>2. doc' = [doc EXCEPT ![u].strikes = s,
                           ![u].quarantined = doc[u].quarantined \/ doc[u].strikes >= 1]
    BY DEF Crash
  <2> QED BY <1>4, <2>1, <2>2
<1> HIDE DEF s
<1> DEFINE d == [doc[u] EXCEPT !.strikes = s, !.quarantined = q]
<1>8. /\ d \in Document /\ d.open = doc[u].open /\ d.started = doc[u].started
      /\ d.version = doc[u].version /\ d.text = doc[u].text
      /\ d.strikes = s /\ d.quarantined = q
  BY <1>4, <1>6 DEF Document
<1>9. doc' = [doc EXCEPT ![u] = d]
  BY <1>7
<1> HIDE DEF d
<1>10. /\ doc' \in [Uris -> Document] /\ doc'[u] = d
       /\ \A v \in Uris \ {u} : doc'[v] = doc[v]
  BY <1>4, <1>8, <1>9
<1>11. /\ doc'[u].strikes = doc[u].strikes + 1
       /\ doc'[u].quarantined <=> doc[u].quarantined \/ doc[u].strikes >= 1
  BY <1>5, <1>8, <1>10 DEF s
<1> QED BY <1>1, <1>2, <1>3, <1>4, <1>8, <1>10, <1>11, AnalysisEnds

-----------------------------------------------------------------------------
(* What the invariant says of the requests, counted.                       *)

LEMMA Counts ==
  ASSUME IInv, NEW f, \A u, v \in Uris : f[u] # None /\ u # v => f[v] # f[u],
         NEW r \in Requests
  PROVE  /\ (\E u \in Uris : f[u] = r) => Cardinality({u \in Uris : f[u] = r}) = 1
         /\ ~(\E u \in Uris : f[u] = r) => Cardinality({u \in Uris : f[u] = r}) = 0
<1>1. r # None
  BY DocumentsAssumption
<1>2. ASSUME NEW u \in Uris, f[u] = r PROVE Cardinality({v \in Uris : f[v] = r}) = 1
  <2>1. {v \in Uris : f[v] = r} = {u}
    BY <1>1, <1>2
  <2> QED BY <2>1, FS_Singleton
<1>3. ASSUME ~(\E u \in Uris : f[u] = r) PROVE Cardinality({v \in Uris : f[v] = r}) = 0
  <2>1. {v \in Uris : f[v] = r} = {}
    BY <1>3
  <2> QED BY <2>1, FS_EmptySet
<1> QED BY <1>2, <1>3

LEMMA InvAccounted == IInv => PullAccounted
<1> SUFFICES ASSUME IInv, ~Ending, NEW r \in Requests
             PROVE  answers[r] + Cardinality({u \in Uris : box[u].pull = r})
                      + Cardinality({u \in Uris : worker[u].pull = r})
                      + (IF r \in lost THEN 1 ELSE 0)
                    = IF r \in asked THEN 1 ELSE 0
  BY DEF PullAccounted, Ending
<1> DEFINE f == [u \in Uris |-> box[u].pull]
           g == [u \in Uris |-> worker[u].pull]
<1>1. /\ {u \in Uris : box[u].pull = r} = {u \in Uris : f[u] = r}
      /\ {u \in Uris : worker[u].pull = r} = {u \in Uris : g[u] = r}
  OBVIOUS
<1>2. /\ \A u, v \in Uris : f[u] # None /\ u # v => f[v] # f[u]
      /\ \A u, v \in Uris : g[u] # None /\ u # v => g[v] # g[u]
      /\ \A u, v \in Uris : f[u] # None => g[v] # f[u]
      /\ \A u \in Uris : f[u] # None => f[u] \in Undone
      /\ \A u \in Uris : g[u] # None => g[u] \in Undone
      /\ \A q \in Undone : \E u \in Uris : f[u] = q \/ g[u] = q
  BY DEF IInv, Places
<1>3. answers[r] \in {0, 1} /\ (answers[r] = 1 => r \in asked \ lost) /\ lost \subseteq asked
  BY DEF IInv, TypeOK, Places
<1>4. r # None /\ (r \in Undone <=> r \in asked \ lost /\ answers[r] = 0)
  BY DocumentsAssumption DEF Undone
<1> HIDE DEF f, g
<1>5. /\ (\E u \in Uris : f[u] = r) => Cardinality({u \in Uris : f[u] = r}) = 1
      /\ ~(\E u \in Uris : f[u] = r) => Cardinality({u \in Uris : f[u] = r}) = 0
  BY <1>2, Counts
<1>6. /\ (\E u \in Uris : g[u] = r) => Cardinality({u \in Uris : g[u] = r}) = 1
      /\ ~(\E u \in Uris : g[u] = r) => Cardinality({u \in Uris : g[u] = r}) = 0
  BY <1>2, Counts
<1> DEFINE m == Cardinality({u \in Uris : f[u] = r})
           n == Cardinality({u \in Uris : g[u] = r})
<1>7. /\ r \in Undone => m + n = 1 /\ m \in Nat /\ n \in Nat
      /\ r \notin Undone => m = 0 /\ n = 0
  BY <1>2, <1>4, <1>5, <1>6
<1>8. answers[r] + m + n + (IF r \in lost THEN 1 ELSE 0) = IF r \in asked THEN 1 ELSE 0
  <2> HIDE DEF m, n
  <2> QED BY <1>3, <1>4, <1>7
<1> QED BY <1>1, <1>8

LEMMA InvAgrees == IInv => WorkAccounted /\ ShownTrue
<1> SUFFICES ASSUME IInv PROVE WorkAccounted /\ ShownTrue
  OBVIOUS
<1>1. TypeOK /\ PullAccounted
  BY InvAccounted DEF IInv
<1>2. ThreadsMatch /\ CrashesStop
  BY DEF IInv, Local, Threads, Strikes, ThreadsMatch, CrashesStop
<1>3. VersionMatchesText
  BY DEF IInv, Local, Texts, VersionMatchesText
<1>4. ClosedShowsNothing
  BY DEF IInv, Local, Texts, MainShape, Ending, Open, ClosedShowsNothing
<1> QED BY <1>1, <1>2, <1>3, <1>4 DEF WorkAccounted, ShownTrue

LEMMA Stutter == IInv /\ UNCHANGED vars => IInv'
<1> SUFFICES ASSUME IInv, UNCHANGED vars PROVE IInv'
  OBVIOUS
<1>1. main' = main /\ MainShape' /\ (Ending' <=> Ending)
  BY DEF vars, IInv, MainShape, Ending
<1>2. TypeOK' /\ Limits' /\ (pulls' => \A u \in Uris : shown'[u] = None)
  BY DEF vars, IInv, TypeOK, Limits
<1>3. Places'
  BY <1>1, SamePlaces DEF vars, IInv
<1>4. ASSUME NEW v \in Uris PROVE Local(v)'
  BY <1>1, SameDocument DEF vars, IInv
<1> QED BY <1>1, <1>2, <1>3, <1>4 DEF IInv

LEMMA Inductive == IInv /\ [Next]_vars => IInv'
<1> SUFFICES ASSUME IInv, [Next]_vars PROVE IInv'
  OBVIOUS
<1>1. CASE Main
  <2>1. ASSUME NEW u \in Uris,
               DidOpen(u) \/ DidChange(u) \/ DidClose(u) \/ DidSave(u)
               \/ EofJoin(u) \/ Joined(u) \/ \E r \in Requests : Diagnostic(u, r)
        PROVE  IInv'
    BY <2>1, DidOpenKeeps, DidChangeKeeps, DidCloseKeeps, DidSaveKeeps, EofJoinKeeps,
       JoinedKeeps, DiagnosticKeeps
  <2>2. CASE DidChangeWatchedFiles \/ ChangePost \/ Reanalyze \/ Eof \/ Down
    BY <2>2, DidChangeWatchedFilesKeeps, ChangePostKeeps, ReanalyzeKeeps, EofKeeps
  <2> QED BY <1>1, <2>1, <2>2 DEF Main
<1>2. ASSUME NEW u \in Uris, Worker(u) PROVE IInv'
  BY <1>2, DequeueKeeps, ParkKeeps, SnapshotKeeps, SnapshotFailsKeeps, AnalyzedKeeps,
     CrashKeeps DEF Worker
<1>3. CASE UNCHANGED vars
  BY <1>3, Stutter
<1> QED BY <1>1, <1>2, <1>3 DEF Next

-----------------------------------------------------------------------------
(* The theorems. *)

\* Every diagnostic request is in one place until it is answered or lost, no
\* thread is forgotten or used after it was joined, and a document that crashes
\* the analysis is quarantined (handlers_document.c, mailbox.c, ast_worker.c),
\* whatever the client sends and however the workers are scheduled.
THEOREM WorkIsAccountedFor == Spec => []WorkAccounted
<1>1. IInv => WorkAccounted
  BY InvAgrees
<1> QED BY <1>1, InitHolds, Inductive, PTL DEF Spec

\* Published diagnostics are those of the version they carry, and a document
\* that is not open shows none (ast_worker.c, the snapshot under the document's
\* lock; handlers_document.c, didClose).
THEOREM ShownIsTrue == Spec => []ShownTrue
<1>1. IInv => ShownTrue
  BY InvAgrees
<1> QED BY <1>1, InitHolds, Inductive, PTL DEF Spec

=============================================================================
