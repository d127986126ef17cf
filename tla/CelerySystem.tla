---------------------------- MODULE CelerySystem ----------------------------
(***************************************************************************)
(* The evidence pipeline with INGEST_MODE=celery (worker/pipeline.py): the *)
(* same steps, each a task of a chain.  A thread of the pool is now a      *)
(* worker's process; it takes a message from the broker, runs one step,    *)
(* sends the message of the next one and only then acknowledges its own    *)
(* (task_acks_late, one message at a time).                                *)
(*                                                                         *)
(* "queue" has the parse messages as the API sent them, "msgs" all others  *)
(* and those that come again.  A PipelineCancelled makes the task return   *)
(* None, and the tasks after it do nothing: the chain is over, as it is    *)
(* after an exception.                                                     *)
(*                                                                         *)
(* Celery and Redis are external: the broker delivers a message again when *)
(* its worker is gone, or too slow (visibility timeout); when only the     *)
(* process that runs the task dies, the worker acknowledges the message    *)
(* (task_reject_on_worker_lost is not set).                                *)
(***************************************************************************)
EXTENDS EvidenceSystem

CONSTANTS
    BrokerFaults,       \* may the broker be out of reach of the API?
    MaxFaults           \* bound: messages that come again or are lost, restarts

ASSUME CeleryAssumption == BrokerFaults \in BOOLEAN /\ MaxFaults \in Nat

VARIABLES
    msgs,           \* how many messages of each task are in the broker
    held,           \* the task each process has a message of, not acknowledged
    redelivered,    \* redeliveries so far
    lost,           \* the evidences a message was lost of, as often
    apiRestarts     \* restarts of the API so far

brokerVars == <<msgs, held, redelivered, lost, apiRestarts>>
celeryVars == <<vars, brokerVars>>

Task == [ev: Evidence, stage: Boundaries]
NoTask == [ev |-> NoEvidence, stage |-> "parse"]

CeleryTypeOK ==
    /\ TypeOK
    /\ msgs \in [Task -> Nat]
    /\ held \in [Threads -> Task \cup {NoTask}]
    /\ redelivered \in Nat
    /\ lost \in Seq(Evidence)
    /\ apiRestarts \in Nat

CeleryInit ==
    /\ Init
    /\ msgs = [m \in Task |-> 0]
    /\ held = [t \in Threads |-> NoTask]
    /\ redelivered = 0
    /\ lost = <<>>
    /\ apiRestarts = 0

Free(t) == held[t] = NoTask
Send(m) == msgs' = [msgs EXCEPT ![m] = @ + 1]
Begin(t, m) ==
    /\ held' = [held EXCEPT ![t] = m]
    /\ thread' = [thread EXCEPT ![t] = [Idle EXCEPT !.pc = m.stage, !.ev = m.ev]]

-----------------------------------------------------------------------------
(* A task                                                                  *)

TakeSubmitted(t) ==
    /\ Free(t)
    /\ queue # <<>>
    /\ Begin(t, [ev |-> Head(queue), stage |-> "parse"])
    /\ queue' = Tail(queue)
    /\ UNCHANGED <<storeVars, apiVars, msgs, redelivered, lost, apiRestarts>>

TakeSent(t, m) ==
    /\ Free(t)
    /\ msgs[m] > 0
    /\ msgs' = [msgs EXCEPT ![m] = @ - 1]
    /\ Begin(t, m)
    /\ UNCHANGED <<storeVars, queue, apiVars, redelivered, lost, apiRestarts>>

\* The step is over when the thread is at the boundary of the next one.
InTask(t) == thread[t].pc \in InStage \cup {held[t].stage}

\* _guarded: one step, and none after it.
TaskStep(t) ==
    /\ ~Free(t)
    /\ InTask(t)
    /\ RunStep(t)
    /\ UNCHANGED <<apiVars, brokerVars>>

\* Mutant of SendNext: the message is acknowledged with the sending.
SendAndForget(t) ==
    /\ thread[t].pc \in Boundaries \ {held[t].stage}
    /\ held' = [held EXCEPT ![t] = NoTask]
    /\ Finish(t)
    /\ UNCHANGED <<storeVars, queue, apiVars, msgs, redelivered, lost, apiRestarts>>

\* The step returned: the chain's next message goes out.
SendNext(t) ==
    /\ thread[t].pc \in Boundaries \ {held[t].stage}
    /\ Send([ev |-> Ev(t), stage |-> thread[t].pc])
    /\ Finish(t)
    /\ UNCHANGED <<storeVars, queue, apiVars, held, redelivered, lost, apiRestarts>>

Acknowledge(t) ==
    /\ ~Free(t)
    /\ At(t, "idle")
    /\ held' = [held EXCEPT ![t] = NoTask]
    /\ UNCHANGED <<vars, msgs, redelivered, lost, apiRestarts>>

-----------------------------------------------------------------------------
(* Faults                                                                  *)

MayFault == redelivered + Len(lost) + apiRestarts < MaxFaults

\* The worker is killed, or is only slow: its message comes again.
Redeliver(t) ==
    /\ ~Free(t)
    /\ MayFault
    /\ redelivered' = redelivered + 1
    /\ Send(held[t])
    /\ \/ held' = [held EXCEPT ![t] = NoTask] /\ Finish(t)
       \/ UNCHANGED <<held, thread>>
    /\ UNCHANGED <<storeVars, queue, apiVars, lost, apiRestarts>>

\* The process that runs the task dies: its message is acknowledged.
LoseProcess(t) ==
    /\ ~Free(t)
    /\ MayFault
    /\ lost' = Append(lost, held[t].ev)
    /\ held' = [held EXCEPT ![t] = NoTask]
    /\ Finish(t)
    /\ UNCHANGED <<storeVars, queue, apiVars, msgs, redelivered, apiRestarts>>

\* _dispatch_pipeline without a broker: the row is committed, no message goes
\* out, and _mark_failed takes the row back.
CommitUnsent(c) ==
    LET e == client[c].ev
    IN  /\ BrokerFaults
        /\ Asks(c, "ingesting") \/ (Asks(c, "retrying") /\ Exists(e))
        /\ row' = [row EXCEPT ![e] = [st |-> "uploaded", cancel |-> @.cancel /\ ~client[c].found]]
        /\ client' = [client EXCEPT ![c].op = "unsent"]
        /\ UNCHANGED <<gen, facts, reg, graph, pipelineVars, retries, brokerVars>>

MarkUnsent(c) ==
    /\ Asks(c, "unsent")
    /\ row' = Marked(client[c].ev, "failed")
    /\ Answer(c)
    /\ UNCHANGED <<gen, facts, reg, graph, pipelineVars, retries, brokerVars>>

\* The API dies and starts again; the sweep fails rows that workers are at.
RestartApi ==
    /\ MayFault
    /\ apiRestarts' = apiRestarts + 1
    /\ row' = [e \in Evidence |-> Swept(e)]
    /\ client' = [c \in Clients |-> NoRequest]
    /\ UNCHANGED <<gen, facts, reg, graph, pipelineVars, retries, msgs, held, redelivered, lost>>

-----------------------------------------------------------------------------
WorkerStep(t) ==
    \/ TakeSubmitted(t) \/ \E m \in Task : TakeSent(t, m)
    \/ TaskStep(t) \/ SendNext(t) \/ Acknowledge(t)

ApiStep(c) == (HandlerStep(c) /\ UNCHANGED brokerVars) \/ MarkUnsent(c)

CeleryNext ==
    \/ \E t \in Threads : WorkerStep(t) \/ Redeliver(t) \/ LoseProcess(t)
    \/ \E c \in Clients : \/ Request(c) /\ UNCHANGED brokerVars
                          \/ ApiStep(c) \/ CommitUnsent(c)
    \/ RestartApi

\* Workers go on, as the pool's threads do; redeliveries come to an end.
CelerySpec ==
    /\ CeleryInit /\ [][CeleryNext]_celeryVars
    /\ \A t \in Threads : WF_celeryVars(WorkerStep(t))
    /\ \A c \in Clients : WF_celeryVars(ApiStep(c))

-----------------------------------------------------------------------------
InChain(e) ==
    \/ Queued(e)
    \/ \E m \in Task : m.ev = e /\ msgs[m] > 0
    \/ \E t \in Threads : held[t].ev = e
    \/ \E c \in Clients : Asks(c, "unsent") /\ client[c].ev = e
Lost(e) == \E n \in 1..Len(lost) : lost[n] = e

\* Late acknowledgement keeps what a dead worker was at: an evidence in
\* progress has a message that is waiting or being worked on, unless the
\* process of one of its tasks died under a worker that went on.
StrandedOnlyByLoss ==
    \A e \in Evidence : row[e].st \in ACTIVE_STATUSES => InChain(e) \/ Lost(e)

\* What is in progress ends, in spite of redeliveries and restarts, unless a
\* message was lost.
ChainsEnd ==
    \A e \in Evidence :
        row[e].st \in ACTIVE_STATUSES ~> row[e].st \notin ACTIVE_STATUSES \/ Lost(e)
=============================================================================
