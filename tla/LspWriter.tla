------------------------------ MODULE LspWriter ------------------------------
(***************************************************************************)
(* The language server's outgoing messages: the queue and the thread that  *)
(* writes them (lsp/transport/writer.c), from the first message to the end *)
(* of the process (main.c, handlers_lifecycle.c).                          *)
(*                                                                         *)
(* The reading thread, which runs the handlers, and the document workers   *)
(* add messages; writer.c tells only log messages from the others, so a    *)
(* message is its priority and, for the properties, its number among those *)
(* that are no log messages.  The queue is the ring of the code, so that   *)
(* its arithmetic is part of what is checked.                              *)
(***************************************************************************)
EXTENDS Integers, Sequences, FiniteSets

CONSTANTS
  Capacity,   \* ILSP_WRITER_QUEUE_CAPACITY
  Messages,   \* bound: how many messages are to be sent
  Faults      \* bound: failed allocations, a client that stops reading

ASSUME WriterAssumption == Capacity \in Nat \ {0} /\ Messages \in Nat /\ Faults \in Nat

VARIABLES
  main,      \* where the reading thread, then main(), is
  ring,      \* the queue: slots, cap, head, count
  writer,    \* the writer thread: [at, item]
  flag,      \* writer->shutdown
  sink,      \* whether the client still takes output
  sent,      \* messages so far
  queued,    \* of those, how many were no log messages
  written,   \* how many of these have been written
  oom,       \* the queue could not grow
  faults

WriterVars == <<main, ring, writer, flag, sink, sent, queued, written, oom, faults>>

Empty == [prio |-> "none", no |-> 0]

WriterInit ==
  /\ main = "read"
  /\ ring = [slots |-> [i \in 0..Capacity - 1 |-> Empty], cap |-> Capacity,
             head |-> 0, count |-> 0]
  /\ writer = [at |-> "loop", item |-> Empty]
  /\ flag = FALSE /\ sink = TRUE
  /\ sent = 0 /\ queued = 0 /\ written = 0 /\ oom = FALSE /\ faults = 0

-----------------------------------------------------------------------------
(* The queue.  Operators named for a mistake are deliberate variants that the *)
(* specification does not use.                                              *)

RingSlot(q, i) == (q.head + i) % q.cap

\* remove_logical: the items behind it move up.
RemoveLogical(q, i) ==
  [q EXCEPT
     !.count = @ - 1,
     !.slots = [s \in DOMAIN @ |->
       IF \E j \in i..q.count - 2 : s = RingSlot(q, j) THEN @[(s + 1) % q.cap]
       ELSE IF s = RingSlot(q, q.count - 1) THEN Empty
       ELSE @[s]]]

\* find_oldest_of_priority, for log messages.
Logs(q) == {i \in 0..q.count - 1 : q.slots[RingSlot(q, i)].prio = "log"}
OldestLog(q) == CHOOSE i \in Logs(q) : \A j \in Logs(q) : i <= j

MakeRoom(q) ==
  IF q.count >= Capacity /\ Logs(q) # {} THEN RemoveLogical(q, OldestLog(q)) ELSE q

GrowUnrotated(q) ==
  [slots |-> [s \in 0..2 * q.cap - 1 |-> IF s < q.count THEN q.slots[s] ELSE Empty],
   cap |-> 2 * q.cap, head |-> 0, count |-> q.count]

\* A larger array, the ring unrolled into it.
Grow(q) ==
  [slots |-> [s \in 0..2 * q.cap - 1 |-> IF s < q.count THEN q.slots[RingSlot(q, s)] ELSE Empty],
   cap |-> 2 * q.cap, head |-> 0, count |-> q.count]

Insert(q, item) ==
  [q EXCEPT !.slots[RingSlot(q, q.count)] = item, !.count = @ + 1]

WakeNobody == writer

\* The writer, awake if it was waiting.
Wake == IF writer.at = "wait" THEN [writer EXCEPT !.at = "loop"] ELSE writer

\* ilsp_writer_enqueue, called by the handlers until standard input ends, and by
\* the workers until main() has joined them.
WriterEnqueue(prio) ==
  /\ main \in {"read", "join_workers"} /\ sent < Messages
  /\ sent' = sent + 1
  /\ queued' = IF prio = "log" THEN queued ELSE queued + 1
  /\ LET q == MakeRoom(ring)
         item == [prio |-> prio, no |-> IF prio = "log" THEN 0 ELSE queued + 1]
     IN  \/ /\ ring' = Insert(IF q.count >= q.cap THEN Grow(q) ELSE q, item)
            /\ writer' = Wake
            /\ UNCHANGED <<oom, faults>>
         \/ /\ q.count >= q.cap /\ faults < Faults     \* no memory: FULL_DROPPED
            /\ faults' = faults + 1 /\ oom' = TRUE
            /\ ring' = q
            /\ UNCHANGED writer
  /\ UNCHANGED <<main, flag, sink, written>>

-----------------------------------------------------------------------------
(* The writer thread. *)

Alive == main \notin {"exited", "returned"}

TakeUnlessStopped ==
  /\ Alive /\ writer.at = "loop"
  /\ IF ring.count > 0 /\ ~flag
       THEN /\ writer' = [at |-> "write", item |-> ring.slots[ring.head]]
            /\ ring' = [ring EXCEPT !.slots[ring.head] = Empty, !.count = @ - 1,
                                    !.head = (@ + 1) % ring.cap]
       ELSE /\ writer' = [writer EXCEPT !.at = IF flag THEN "exited" ELSE "wait"]
            /\ UNCHANGED ring
  /\ UNCHANGED <<main, flag, sink, sent, queued, written, oom, faults>>

\* writer_thread_main, under the lock: take the oldest item, wait, or exit.
Take ==
  /\ Alive /\ writer.at = "loop"
  /\ IF ring.count > 0
       THEN /\ writer' = [at |-> "write", item |-> ring.slots[ring.head]]
            /\ ring' = [ring EXCEPT !.slots[ring.head] = Empty, !.count = @ - 1,
                                    !.head = (@ + 1) % ring.cap]
       ELSE /\ writer' = [writer EXCEPT !.at = IF flag THEN "exited" ELSE "wait"]
            /\ UNCHANGED ring
  /\ UNCHANGED <<main, flag, sink, sent, queued, written, oom, faults>>

\* writer_write_one, without the lock; a sink that is gone stops the writer.
Write ==
  /\ Alive /\ writer.at = "write"
  /\ written' = IF sink /\ writer.item.prio # "log" THEN written + 1 ELSE written
  /\ flag' = (flag \/ ~sink)
  /\ writer' = [at |-> "loop", item |-> Empty]
  /\ UNCHANGED <<main, ring, sink, sent, queued, oom, faults>>

\* The client closes its end of the pipe.
SinkCloses ==
  /\ Alive /\ sink /\ faults < Faults
  /\ sink' = FALSE /\ faults' = faults + 1
  /\ UNCHANGED <<main, ring, writer, flag, sent, queued, written, oom>>

-----------------------------------------------------------------------------
(* The end of the process. *)

\* The `exit` notification ends it at once.
HandleExit ==
  /\ main = "read"
  /\ main' = "exited"
  /\ UNCHANGED <<ring, writer, flag, sink, sent, queued, written, oom, faults>>

\* Standard input ends; main() joins the workers ...
Eof ==
  /\ main = "read"
  /\ main' = "join_workers"
  /\ UNCHANGED <<ring, writer, flag, sink, sent, queued, written, oom, faults>>

WorkersJoined ==
  /\ main = "join_workers"
  /\ main' = "stop_writer"
  /\ UNCHANGED <<ring, writer, flag, sink, sent, queued, written, oom, faults>>

\* ... stops the writer: the flag, then, under the lock, the broadcast ...
StopWriter ==
  /\ main = "stop_writer"
  /\ flag' = TRUE
  /\ main' = "wake_writer"
  /\ UNCHANGED <<ring, writer, sink, sent, queued, written, oom, faults>>

WakeWriter ==
  /\ main = "wake_writer"
  /\ writer' = Wake
  /\ main' = "join_writer"
  /\ UNCHANGED <<ring, flag, sink, sent, queued, written, oom, faults>>

\* ... joins it and returns.
WriterJoined ==
  /\ main = "join_writer" /\ writer.at = "exited"
  /\ main' = "returned"
  /\ UNCHANGED <<ring, writer, flag, sink, sent, queued, written, oom, faults>>

-----------------------------------------------------------------------------
WriterNext ==
  \/ \E prio \in {"response", "log"} : WriterEnqueue(prio)
  \/ Take \/ Write \/ SinkCloses
  \/ HandleExit \/ Eof \/ WorkersJoined \/ StopWriter \/ WakeWriter \/ WriterJoined

\* The writer thread runs and main() goes on; writing returns, because the
\* client reads or has closed the pipe; the workers end when they are told to
\* (LspDocuments, JoinsEnd).
WriterThread == Take \/ Write
MainEnds == WorkersJoined \/ StopWriter \/ WakeWriter \/ WriterJoined

WriterFairness == WF_WriterVars(WriterThread) /\ WF_WriterVars(MainEnds)

WriterSpec == WriterInit /\ [][WriterNext]_WriterVars /\ WriterFairness

-----------------------------------------------------------------------------
(* Properties. *)

Items == [prio: {"response", "log"}, no: Nat] \cup {Empty}

\* The ring is what its fields say: exactly the slots from head on, count of
\* them, are in use.
WriterTypeOK ==
  /\ main \in {"read", "join_workers", "stop_writer", "wake_writer", "join_writer",
               "exited", "returned"}
  /\ ring.cap \in Nat \ {0} /\ ring.head \in 0..ring.cap - 1 /\ ring.count \in 0..ring.cap
  /\ ring.slots \in [0..ring.cap - 1 -> Items]
  /\ \A s \in 0..ring.cap - 1 :
       ring.slots[s] # Empty <=> \E i \in 0..ring.count - 1 : s = RingSlot(ring, i)
  /\ writer \in [at: {"loop", "wait", "write", "exited"}, item: Items]
  /\ writer.at = "write" <=> writer.item # Empty
  /\ flag \in BOOLEAN /\ sink \in BOOLEAN /\ oom \in BOOLEAN
  /\ sent \in Nat /\ queued \in Nat /\ written \in Nat /\ faults \in Nat

\* What the client has not been given yet, oldest first: the message that is
\* being written, 0, and those in the queue.
Message(i) == IF i = 0 THEN writer.item ELSE ring.slots[RingSlot(ring, i - 1)]
Unwritten == {i \in 0..ring.count : Message(i).prio = "response"}

\* Responses and notifications reach the client in the order they were queued
\* and none is lost, however often the ring wraps, grows and drops log
\* messages from its middle (writer.c: responses and notifications are never
\* dropped), while the client reads and there is memory.
OrderKept ==
  sink /\ ~oom =>
    /\ written <= queued
    /\ {Message(i).no : i \in Unwritten} = written + 1..queued
    /\ \A i, j \in Unwritten : i < j => Message(i).no < Message(j).no

\* Log messages give way to the others: once the queue holds more than its
\* capacity, at most one is left in it.
LogsYield == ring.count > Capacity => Cardinality(Logs(ring)) <= 1

\* The queue: the ring's indices and slots agree, messages keep their order, and
\* log messages are the ones that give way.
QueueKept == WriterTypeOK /\ OrderKept /\ LogsYield

\* When main() returns, a client that reads has been given everything that was
\* queued: the writer drains before it stops.
DrainedAtEof == main = "returned" /\ sink /\ ~oom => written = queued

\* All that is queued reaches a client that reads, unless the process ends.
Delivered == written < queued ~> written = queued \/ ~sink \/ oom \/ ~Alive

\* The end of standard input ends the process, also when the client is gone.
EofEnds == main = "join_workers" ~> main = "returned"

\* Output flows and the process ends: no wakeup of the writer is lost.
WriterServes == Delivered /\ EofEnds
=============================================================================
