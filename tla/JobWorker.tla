------------------------------ MODULE JobWorker ------------------------------
(***************************************************************************)
(* Job workers (worker/main.py) that take background jobs from NebulaGraph.*)
(* A claim is three queries, LOOKUP, UPDATE and FETCH, with no transaction *)
(* around them; completing and failing a job are one UPDATE each.  Other   *)
(* workers come between any two queries.                                   *)
(*                                                                         *)
(* A query may fail, and a failed UPDATE may have been applied.  An error  *)
(* in the claim or in fail_job leaves run_forever and ends the process.  A *)
(* process that is started again has a fresh worker_id: it is a worker     *)
(* that has done nothing yet.                                              *)
(***************************************************************************)
EXTENDS Naturals, FiniteSets

CONSTANTS
    Jobs,           \* ids of background_job vertices
    Workers,        \* worker_ids, each of one process
    NoWorker,       \* lease_owner = "": nobody claimed the job yet
    NoJob,          \* what an idle worker holds
    Faults,         \* may a query fail?
    Deaths,         \* may a process be killed?
    MaxClock        \* bound: the clock stops here

ASSUME NoWorkerAssumption == NoWorker \notin Workers
ASSUME NoJobAssumption == NoJob \notin Jobs
ASSUME FlagsAssumption == {Faults, Deaths} \subseteq BOOLEAN
ASSUME MaxClockAssumption == MaxClock \in Nat

VARIABLES
    status,     \* background_job.status
    owner,      \* background_job.lease_owner
    lease,      \* background_job.lease_expires_at
    pc,         \* where each worker is in run_once
    holds,      \* the job it is at
    clock       \* the time

jobVars == <<status, owner, lease>>
vars == <<jobVars, pc, holds, clock>>

Finished == {"completed", "failed"}

TypeOK ==
    /\ status \in [Jobs -> {"pending", "running"} \cup Finished]
    /\ owner \in [Jobs -> Workers \cup {NoWorker}]
    /\ lease \in [Jobs -> 0..MaxClock]
    /\ pc \in [Workers -> {"idle", "updating", "verifying", "executing",
                           "completing", "failing", "dead"}]
    /\ holds \in [Workers -> Jobs \cup {NoJob}]
    /\ clock \in 0..MaxClock

Init ==
    /\ status = [j \in Jobs |-> "pending"]
    /\ owner = [j \in Jobs |-> NoWorker]
    /\ lease = [j \in Jobs |-> 0]
    /\ pc = [w \in Workers |-> "idle"]
    /\ holds = [w \in Workers |-> NoJob]
    /\ clock = 0

Goto(w, next) == pc' = [pc EXCEPT ![w] = next]
Leave(w) == Goto(w, "idle") /\ holds' = [holds EXCEPT ![w] = NoJob]
Set(j, st) == status' = [status EXCEPT ![j] = st]

\* The process ends; what it held is not put back.
Ends(w) == Goto(w, "dead") /\ holds' = [holds EXCEPT ![w] = NoJob]

-----------------------------------------------------------------------------
(* claim_job                                                               *)

\* Mutant of Claimable: running jobs whose lease has expired are claimed too.
ClaimableExpired(j) ==
    /\ status[j] \in {"pending", "running"}
    /\ owner[j] = NoWorker \/ lease[j] < clock

\* The condition of the LOOKUP.
Claimable(j) ==
    /\ status[j] = "pending"
    /\ owner[j] = NoWorker \/ lease[j] < clock

\* One row, whichever the index gives first.
Lookup(w, j) ==
    /\ pc[w] = "idle"
    /\ Claimable(j)
    /\ Goto(w, "updating")
    /\ holds' = [holds EXCEPT ![w] = j]
    /\ UNCHANGED <<jobVars, clock>>

\* The UPDATE asks for nothing; the lease it writes ends at once.
Taken(w, j) ==
    /\ owner' = [owner EXCEPT ![j] = w]
    /\ lease' = [lease EXCEPT ![j] = clock]
    /\ Set(j, "running")

Update(w) ==
    /\ pc[w] = "updating"
    /\ Taken(w, holds[w])
    /\ Goto(w, "verifying")
    /\ UNCHANGED <<holds, clock>>

\* Mutant of Owns: the claim is given up when the job has an owner.
OwnsIfFree(w) == owner[holds[w]] = NoWorker

Owns(w) == owner[holds[w]] = w

\* The FETCH: the claim stands unless another worker updated after this one.
Verify(w) ==
    /\ pc[w] = "verifying"
    /\ IF Owns(w) THEN Goto(w, "executing") /\ UNCHANGED holds ELSE Leave(w)
    /\ UNCHANGED <<jobVars, clock>>

ClaimFails(w) ==
    /\ Faults
    /\ pc[w] \in {"idle", "updating", "verifying"}
    /\ \/ UNCHANGED jobVars
       \/ pc[w] = "updating" /\ Taken(w, holds[w])
    /\ Ends(w)
    /\ UNCHANGED clock

-----------------------------------------------------------------------------
(* execute_job, complete_job and fail_job                                  *)

\* A payload that is no JSON raises; an unknown type is a result.
Execute(w) ==
    /\ pc[w] = "executing"
    /\ Goto(w, "completing") \/ Goto(w, "failing")
    /\ UNCHANGED <<jobVars, holds, clock>>

Complete(w) ==
    /\ pc[w] = "completing"
    /\ Set(holds[w], "completed")
    /\ Leave(w)
    /\ UNCHANGED <<owner, lease, clock>>

\* The error of complete_job is taken for the job's, applied or not.
CompleteFails(w) ==
    /\ Faults
    /\ pc[w] = "completing"
    /\ Set(holds[w], "completed") \/ UNCHANGED status
    /\ Goto(w, "failing")
    /\ UNCHANGED <<owner, lease, holds, clock>>

\* Mutant of Fail: the job is left as it is.
FailQuietly(w) ==
    /\ pc[w] = "failing"
    /\ Leave(w)
    /\ UNCHANGED <<jobVars, clock>>

Fail(w) ==
    /\ pc[w] = "failing"
    /\ Set(holds[w], "failed")
    /\ Leave(w)
    /\ UNCHANGED <<owner, lease, clock>>

FailFails(w) ==
    /\ Faults
    /\ pc[w] = "failing"
    /\ Set(holds[w], "failed") \/ UNCHANGED status
    /\ Ends(w)
    /\ UNCHANGED <<owner, lease, clock>>

Killed(w) ==
    /\ Deaths
    /\ pc[w] # "dead"
    /\ Ends(w)
    /\ UNCHANGED <<jobVars, clock>>

Tick ==
    /\ clock < MaxClock
    /\ clock' = clock + 1
    /\ UNCHANGED <<jobVars, pc, holds>>

-----------------------------------------------------------------------------
Work(w) ==
    \/ \E j \in Jobs : Lookup(w, j)
    \/ Update(w) \/ Verify(w) \/ Execute(w) \/ Complete(w) \/ Fail(w)

Fault(w) == ClaimFails(w) \/ CompleteFails(w) \/ FailFails(w) \/ Killed(w)

Next == (\E w \in Workers : Work(w) \/ Fault(w)) \/ Tick

Spec == Init /\ [][Next]_vars

\* run_forever: a worker that lives goes on, and polls again.
FairSpec == Spec /\ \A w \in Workers : WF_vars(Work(w))

-----------------------------------------------------------------------------
Holds(w, j) == holds[w] = j /\ pc[w] \in {"verifying", "executing", "completing", "failing"}

\* "Claims pending jobs, executes them, and updates status" (main.py:3): a
\* running job is in the hands of the worker that claimed it last, which will
\* verify, execute and end it, or that worker is dead.  No order of claims by
\* other workers leaves a job running that everybody has walked away from.
RunningHasWorker ==
    \A j \in Jobs :
        status[j] = "running" => owner[j] \in Workers
                                 /\ (Holds(owner[j], j) \/ pc[owner[j]] = "dead")

\* A claim has no lock, so that several workers may run one job (main.py:62
\* only sees who updated last); but none runs it twice: a worker that let go of
\* a job, overtaken or done, whatever others did to the row since, never takes
\* it up again.
Has(w, j) == holds[w] = j
NeverAgain(w, j) == [](Has(w, j) => [](~Has(w, j) => []~Has(w, j)))
RunsOnceEach == \A w \in Workers, j \in Jobs : NeverAgain(w, j)

\* Unless a worker was lost, every job ends and stays ended, whatever number
\* of workers raced for it.
JobsEnd ==
    (<>(\E w \in Workers : pc[w] = "dead")) \/ \A j \in Jobs : <>[](status[j] \in Finished)
=============================================================================
