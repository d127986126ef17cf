--------------------------- MODULE JobWorker_proofs ---------------------------
(***************************************************************************)
(* Any number of workers and jobs, with queries that fail and workers that *)
(* die: the types, that a running job has a worker, and that no worker     *)
(* takes up a job twice.                                                   *)
(***************************************************************************)
EXTENDS JobWorker, TLAPS

USE DEF Finished

LEMMA InitTypeOK == Init => TypeOK
  BY MaxClockAssumption DEF Init, TypeOK

\* Each step of a worker keeps the types.
LEMMA WorkTypeOK ==
    ASSUME TypeOK, NEW w \in Workers, Work(w)
    PROVE  TypeOK'
<1>1. CASE \E j \in Jobs : Lookup(w, j)
  BY <1>1 DEF TypeOK, Lookup, Goto, jobVars
<1>2. CASE Update(w)
  BY <1>2 DEF TypeOK, Update, Taken, Set, Goto
<1>3. CASE Verify(w)
  BY <1>3 DEF TypeOK, Verify, Leave, Goto, jobVars
<1>4. CASE Execute(w)
  BY <1>4 DEF TypeOK, Execute, Goto, jobVars
<1>5. CASE Complete(w)
  BY <1>5 DEF TypeOK, Complete, Set, Leave, Goto
<1>6. CASE Fail(w)
  BY <1>6 DEF TypeOK, Fail, Set, Leave, Goto
<1>. QED  BY <1>1, <1>2, <1>3, <1>4, <1>5, <1>6 DEF Work

\* And so does each fault.
LEMMA FaultTypeOK ==
    ASSUME TypeOK, NEW w \in Workers, Fault(w)
    PROVE  TypeOK'
<1>1. CASE ClaimFails(w)
  <2>1. pc' \in [Workers -> {"idle", "updating", "verifying", "executing",
                             "completing", "failing", "dead"}]
           /\ holds' \in [Workers -> Jobs \cup {NoJob}] /\ clock' = clock
    BY <1>1 DEF TypeOK, ClaimFails, Ends, Goto
  <2>2. CASE UNCHANGED jobVars
    BY <2>1, <2>2 DEF TypeOK, jobVars
  <2>3. CASE Taken(w, holds[w])
    BY <2>1, <2>3 DEF TypeOK, Taken, Set
  <2>. QED  BY <1>1, <2>2, <2>3 DEF ClaimFails
<1>2. CASE CompleteFails(w)
  BY <1>2 DEF TypeOK, CompleteFails, Set, Goto
<1>3. CASE FailFails(w)
  BY <1>3 DEF TypeOK, FailFails, Set, Ends, Goto
<1>4. CASE Killed(w)
  BY <1>4 DEF TypeOK, Killed, Ends, Goto, jobVars
<1>. QED  BY <1>1, <1>2, <1>3, <1>4 DEF Fault

LEMMA NextTypeOK == TypeOK /\ [Next]_vars => TypeOK'
<1>. SUFFICES ASSUME TypeOK, [Next]_vars PROVE TypeOK'
  OBVIOUS
<1>1. CASE \E w \in Workers : Work(w)
  BY <1>1, WorkTypeOK
<1>2. CASE \E w \in Workers : Fault(w)
  BY <1>2, FaultTypeOK
<1>3. CASE Tick
  BY <1>3, MaxClockAssumption DEF TypeOK, Tick, jobVars
<1>4. CASE UNCHANGED vars
  BY <1>4 DEF TypeOK, vars, jobVars
<1>. QED  BY <1>1, <1>2, <1>3, <1>4 DEF Next

\* The variables have their types, whatever the numbers of jobs and workers.
THEOREM TypeCorrect == Spec => []TypeOK
  BY InitTypeOK, NextTypeOK, PTL DEF Spec

-----------------------------------------------------------------------------
(* Running jobs have workers                                               *)

\* A step of w leaves every other worker where it is, and takes from a running
\* job only the owner: what is left to show is where w itself goes.
LEMMA WorkKeepsWorker ==
    ASSUME TypeOK, RunningHasWorker, NEW w \in Workers, Work(w)
    PROVE  RunningHasWorker'
<1>1. CASE \E j \in Jobs : Lookup(w, j)
  BY <1>1 DEF TypeOK, RunningHasWorker, Holds, Lookup, Goto, jobVars
<1>2. CASE Update(w)
  BY <1>2, NoJobAssumption DEF TypeOK, RunningHasWorker, Holds, Update, Taken, Set, Goto
<1>3. CASE Verify(w)
  <2>1. CASE Owns(w)
    BY <1>3, <2>1 DEF TypeOK, RunningHasWorker, Holds, Verify, Goto, jobVars
  <2>2. CASE ~Owns(w)
    BY <1>3, <2>2 DEF TypeOK, RunningHasWorker, Holds, Verify, Owns, Leave, Goto, jobVars
  <2>. QED  BY <2>1, <2>2
<1>4. CASE Execute(w)
  BY <1>4 DEF TypeOK, RunningHasWorker, Holds, Execute, Goto, jobVars
<1>5. CASE Complete(w)
  BY <1>5 DEF TypeOK, RunningHasWorker, Holds, Complete, Set, Leave, Goto
<1>6. CASE Fail(w)
  BY <1>6 DEF TypeOK, RunningHasWorker, Holds, Fail, Set, Leave, Goto
<1>. QED  BY <1>1, <1>2, <1>3, <1>4, <1>5, <1>6 DEF Work

\* A fault that does not end the process leaves it at its job, and a dead
\* worker may have any.
LEMMA FaultKeepsWorker ==
    ASSUME TypeOK, RunningHasWorker, NEW w \in Workers, Fault(w)
    PROVE  RunningHasWorker'
<1>1. CASE ClaimFails(w)
  <2>1. CASE UNCHANGED jobVars
    BY <1>1, <2>1 DEF TypeOK, RunningHasWorker, Holds, ClaimFails, Ends, Goto, jobVars
  <2>2. CASE pc[w] = "updating" /\ Taken(w, holds[w])
    BY <1>1, <2>2 DEF TypeOK, RunningHasWorker, Holds, ClaimFails, Taken, Set, Ends, Goto
  <2>. QED  BY <1>1, <2>1, <2>2 DEF ClaimFails
<1>2. CASE CompleteFails(w)
  BY <1>2 DEF TypeOK, RunningHasWorker, Holds, CompleteFails, Set, Goto
<1>3. CASE FailFails(w)
  BY <1>3 DEF TypeOK, RunningHasWorker, Holds, FailFails, Set, Ends, Goto
<1>4. CASE Killed(w)
  BY <1>4 DEF TypeOK, RunningHasWorker, Holds, Killed, Ends, Goto, jobVars
<1>. QED  BY <1>1, <1>2, <1>3, <1>4 DEF Fault

LEMMA NextKeepsWorker == TypeOK /\ RunningHasWorker /\ [Next]_vars => RunningHasWorker'
<1>. SUFFICES ASSUME TypeOK, RunningHasWorker, [Next]_vars PROVE RunningHasWorker'
  OBVIOUS
<1>1. CASE \E w \in Workers : Work(w)
  BY <1>1, WorkKeepsWorker
<1>2. CASE \E w \in Workers : Fault(w)
  BY <1>2, FaultKeepsWorker
<1>3. CASE Tick
  BY <1>3 DEF RunningHasWorker, Holds, Tick, jobVars
<1>4. CASE UNCHANGED vars
  BY <1>4 DEF RunningHasWorker, Holds, vars, jobVars
<1>. QED  BY <1>1, <1>2, <1>3, <1>4 DEF Next

\* A running job is in the hands of the worker that claimed it last, or that
\* worker is dead: the three queries of a claim need no transaction, whatever
\* the number of workers.  With the types it is inductive as it stands.
THEOREM RunningJobsHaveWorkers == Spec => []RunningHasWorker
<1>1. Init => RunningHasWorker
  BY DEF Init, RunningHasWorker
<1>. QED  BY <1>1, TypeCorrect, NextKeepsWorker, PTL DEF Spec

-----------------------------------------------------------------------------
(* No worker runs a job twice                                              *)

\* A worker is done with a job when nothing it may still do takes it up again.
Over(w, j) == ~Has(w, j) /\ (status[j] # "pending" \/ pc[w] = "dead")

\* What a worker got hold of, and did not just look up, was claimed.
HeldIsClaimed ==
    \A w \in Workers, j \in Jobs : Has(w, j) /\ pc[w] # "updating" => status[j] # "pending"

\* A job that was claimed is never pending again.
LEMMA ClaimedStays ==
    ASSUME TypeOK, [Next]_vars, NEW j \in Jobs, status[j] # "pending"
    PROVE  status'[j] # "pending"
BY DEF TypeOK, Next, Work, Fault, Lookup, Update, Taken, Verify, Execute, Complete, Fail,
       ClaimFails, CompleteFails, FailFails, Killed, Tick, Set, vars, jobVars

LEMMA NextHeldIsClaimed == TypeOK /\ HeldIsClaimed /\ [Next]_vars => HeldIsClaimed'
<1>. SUFFICES ASSUME TypeOK, HeldIsClaimed, [Next]_vars,
                     NEW v \in Workers, NEW j \in Jobs, holds'[v] = j, pc'[v] # "updating"
              PROVE  status'[j] # "pending"
  BY DEF HeldIsClaimed, Has
<1>1. CASE holds[v] = j /\ pc[v] # "updating"
  BY <1>1, ClaimedStays DEF HeldIsClaimed, Has
<1>2. CASE ~(holds[v] = j /\ pc[v] # "updating")
  <2>1. CASE \E w \in Workers : Work(w)
    <3>. PICK w \in Workers : Work(w)
      BY <2>1
    <3>1. CASE Update(w)
      BY <1>2, <3>1 DEF TypeOK, Update, Taken, Set, Goto
    <3>2. CASE (\E i \in Jobs : Lookup(w, i)) \/ Verify(w) \/ Execute(w) \/ Complete(w) \/ Fail(w)
      BY <1>2, <3>2, NoJobAssumption
         DEF TypeOK, Lookup, Verify, Execute, Complete, Fail, Leave, Goto
    <3>. QED  BY <3>1, <3>2 DEF Work
  <2>2. CASE \E w \in Workers : Fault(w)
    BY <1>2, <2>2, NoJobAssumption
       DEF TypeOK, Fault, ClaimFails, CompleteFails, FailFails, Killed, Ends, Goto
  <2>3. CASE Tick \/ UNCHANGED vars
    BY <1>2, <2>3 DEF Tick, vars
  <2>. QED  BY <2>1, <2>2, <2>3 DEF Next
<1>. QED  BY <1>1, <1>2

\* A worker that lets go of a job is done with it: the job was claimed, or the
\* worker is dead.
LEMMA LettingGo ==
    ASSUME TypeOK, HeldIsClaimed, [Next]_vars, NEW w \in Workers, NEW j \in Jobs, Has(w, j)
    PROVE  Has(w, j)' \/ Over(w, j)'
<1>. SUFFICES ASSUME holds'[w] # j PROVE status'[j] # "pending" \/ pc'[w] = "dead"
  BY DEF Has, Over
<1>1. CASE pc[w] # "updating"
  BY <1>1, ClaimedStays DEF HeldIsClaimed
<1>2. CASE pc[w] = "updating"
  BY <1>2 DEF TypeOK, Has, Next, Work, Fault, Lookup, Update, Verify, Execute, Complete, Fail,
              ClaimFails, CompleteFails, FailFails, Killed, Tick, Leave, Ends, Goto, vars
<1>. QED  BY <1>1, <1>2

\* And stays done: only a lookup takes a job up, and it finds pending jobs.
LEMMA StayingAway ==
    ASSUME TypeOK, [Next]_vars, NEW w \in Workers, NEW j \in Jobs, Over(w, j)
    PROVE  Over(w, j)'
<1>1. ASSUME NEW i \in Jobs, Lookup(w, i) PROVE i # j
  BY <1>1 DEF Lookup, Claimable, Over
<1>2. ~Has(w, j)'
  BY <1>1, NoJobAssumption
     DEF TypeOK, Over, Has, Next, Work, Fault, Lookup, Update, Verify, Execute, Complete, Fail,
         ClaimFails, CompleteFails, FailFails, Killed, Tick, Leave, Ends, Goto, vars
<1>3. pc[w] = "dead" => pc'[w] = "dead"
  BY DEF TypeOK, Next, Work, Fault, Lookup, Update, Verify, Execute, Complete, Fail,
         ClaimFails, CompleteFails, FailFails, Killed, Tick, Leave, Ends, Goto, vars
<1>. QED  BY <1>2, <1>3, ClaimedStays DEF Over

\* RunsOnceEach: whatever number of workers race for a job, fail and die, none
\* of them takes it up a second time.
THEOREM NobodyRunsTwice == Spec => RunsOnceEach
<1>1. Init => HeldIsClaimed
  BY NoJobAssumption DEF Init, HeldIsClaimed, Has
<1>2. ASSUME NEW w \in Workers, NEW j \in Jobs PROVE Spec => NeverAgain(w, j)
  <2>1. TypeOK /\ HeldIsClaimed /\ [Next]_vars => (Has(w, j) => Has(w, j)' \/ Over(w, j)')
    BY LettingGo
  <2>2. TypeOK /\ [Next]_vars => (Over(w, j) => Over(w, j)')
    BY StayingAway
  <2>3. Over(w, j) => ~Has(w, j)
    BY DEF Over
  <2>. QED  BY <1>1, <2>1, <2>2, <2>3, TypeCorrect, NextHeldIsClaimed, PTL DEF Spec, NeverAgain
<1>. QED  BY <1>2 DEF RunsOnceEach
=============================================================================
