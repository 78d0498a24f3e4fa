---- MODULE MCRelay ----
(***************************************************************************)
(* The parts between a program's threads, or an editor, and those who do   *)
(* the work: the ring of a pool's queue, the language server's writer      *)
(* queue, and its supervisor.  They share no state, and each is explored   *)
(* by itself: `part` is the one a behaviour is about, and the others rest  *)
(* in their first states.                                                  *)
(***************************************************************************)
EXTENDS WorkQueue, LspWriter, LspSupervisor

VARIABLE part

relayVars == <<vars, WriterVars, SupervisorVars, part>>

RelayInit ==
  /\ part \in {"queue", "writer", "supervisor"}
  /\ Init /\ WriterInit /\ SupervisorInit

RelayNext ==
  /\ UNCHANGED part
  /\ \/ part = "queue" /\ Next /\ UNCHANGED <<WriterVars, SupervisorVars>>
     \/ part = "writer" /\ WriterNext /\ UNCHANGED <<vars, SupervisorVars>>
     \/ part = "supervisor" /\ SupervisorNext /\ UNCHANGED <<vars, WriterVars>>

\* WriterFairness and SupervisorFairness, of the part that runs.
RelayFairness ==
  /\ WF_WriterVars(part = "writer" /\ WriterThread)
  /\ WF_WriterVars(part = "writer" /\ MainEnds)
  /\ WF_SupervisorVars(part = "supervisor" /\ Parent)
  /\ WF_SupervisorVars(part = "supervisor" /\ WorkerWrites)
  /\ WF_SupervisorVars(part = "supervisor" /\ WorkerReads)

RelaySpec == RelayInit /\ [][RelayNext]_relayVars /\ RelayFairness
====
