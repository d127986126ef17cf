-------------------------- MODULE EvidenceLifecycle --------------------------
(***************************************************************************)
(* What the evidence status promises to whoever lists evidence: one stage  *)
(* after another, a definitive end that only a retry or a delete leaves,   *)
(* and that an evidence in progress comes to an end.  No threads, queue,   *)
(* facts or graph; the system is shown to implement it.                    *)
(***************************************************************************)
EXTENDS Naturals

CONSTANT Evidence
VARIABLE status

Stage == <<"uploaded", "parsed", "extracted", "resolved", "written", "enriched">>
InProgress == {Stage[n] : n \in 1..5}
Over == {"enriched", "failed", "cancelled"}

Init == status = [e \in Evidence |-> "none"]

Becomes(e, st) == status' = [status EXCEPT ![e] = st]

Upload(e) == status[e] = "none" /\ Becomes(e, "uploaded")
Advance(e) == \E n \in 1..5 : status[e] = Stage[n] /\ Becomes(e, Stage[n + 1])
Stopped(e) == status[e] \in InProgress /\ Becomes(e, "cancelled")
Failed(e) == status[e] \in InProgress /\ Becomes(e, "failed")
Retried(e) == status[e] \in {"failed", "cancelled"} /\ Becomes(e, "uploaded")
Deleted(e) == status[e] \in InProgress \cup Over /\ Becomes(e, "deleted")

\* A new process fails all that the old one left.
Interrupted ==
    status' = [e \in Evidence |-> IF status[e] \in InProgress THEN "failed" ELSE status[e]]

Progress(e) == Advance(e) \/ Stopped(e) \/ Failed(e)

Next ==
    \/ \E e \in Evidence : Upload(e) \/ Progress(e) \/ Retried(e) \/ Deleted(e)
    \/ Interrupted

\* What may happen, and that a run comes to its end.
Steps == Init /\ [][Next]_status
Spec == Steps /\ \A e \in Evidence : WF_status(Progress(e))
=============================================================================
