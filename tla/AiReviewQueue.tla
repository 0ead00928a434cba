---------------------------- MODULE AiReviewQueue ----------------------------
(***************************************************************************)
(* The durable queue of AI reviews: submitting or resubmitting a report    *)
(* enqueues one run for its new revision, worker loops of every API        *)
(* replica claim runs under a lease, ask a provider twice and record the   *)
(* result, and people may ask for a failed run again.                      *)
(*                                                                         *)
(* A run is its index in `runs', in the order of enqueueing, which within  *)
(* a program is the submission sequence and within a report the revision.  *)
(* A worker loop has one job at a time, so the random lock token of a      *)
(* claim is represented by the loop that drew it.                          *)
(***************************************************************************)
EXTENDS Naturals, Sequences, FiniteSets

CONSTANTS
  Reports,      \* reports that may be submitted
  ProgramOf,    \* report -> its program
  Contents,     \* content hashes a report may have
  Workers,      \* worker loops, over all replicas
  NoWorker,     \* locked_by is null
  NoContent,    \* the report does not exist yet
  MaxAttempts,  \* attempts after which a run is not queued again
  MaxRuns,      \* bound: runs ever enqueued
  MaxRetries    \* bound: runs asked for again by hand

ASSUME QueueConstants ==
  /\ NoWorker \notin Workers
  /\ NoContent \notin Contents
  /\ MaxAttempts \in Nat \ {0}
  /\ {MaxRuns, MaxRetries} \subseteq Nat

VARIABLES
  content,    \* reports.content_hash
  answering,  \* reports in needs_information: their researcher may edit them
  runs,       \* ai_triage_runs, each with its revision's hash and its result
  workers,    \* the step each worker loop is at and the run it works on
  retried,    \* history: runs that were asked for again
  retries     \* how often that happened

reportVars == <<content, answering>>
retryVars == <<retried, retries>>
vars == <<reportVars, runs, workers, retryVars>>

RunStatus == {"queued", "running", "completed", "failed"}

\* Where runOnce is: calling the provider, or before the named write.
WorkerStep == {"idle", "analysing", "saveFingerprint", "comparing", "insertResult",
               "finishReady", "requeue", "fail"}

Idle == [at |-> "idle", run |-> 0]

Queued(r, c) ==
  [report |-> r, hash |-> c, status |-> "queued", attempts |-> 0, holder |-> NoWorker,
   stale |-> FALSE, due |-> TRUE, fingerprint |-> FALSE, result |-> "none"]

SameProgram(n, m) == ProgramOf[runs[n].report] = ProgramOf[runs[m].report]

Terminal(n) == runs[n].status \in {"completed", "failed"}

RunsOf(r) == {n \in DOMAIN runs : runs[n].report = r}

IsLatest(n) == \A m \in RunsOf(runs[n].report) : m <= n

Init ==
  /\ content = [r \in Reports |-> NoContent]
  /\ answering = {}
  /\ runs = <<>>
  /\ workers = [w \in Workers |-> Idle]
  /\ retried = {}
  /\ retries = 0

-----------------------------------------------------------------------------
(***************************************************************************)
(* Reports.  Any other status of a report allows retries only.             *)
(***************************************************************************)
\* Results of the report's earlier revisions are superseded.
Supersede(run, r) ==
  IF run.report = r /\ run.result = "current" THEN [run EXCEPT !.result = "superseded"] ELSE run

\* The latest revision's run is found again when the hash did not change.
EnqueueReportAiRun(r, c) ==
  IF \E n \in RunsOf(r) : IsLatest(n) /\ runs[n].hash = c
  THEN UNCHANGED runs
  ELSE /\ Len(runs) < MaxRuns
       /\ runs' = Append([n \in DOMAIN runs |-> Supersede(runs[n], r)], Queued(r, c))

SubmitReport(r, c) ==
  /\ content[r] = NoContent
  /\ content' = [content EXCEPT ![r] = c]
  /\ EnqueueReportAiRun(r, c)
  /\ UNCHANGED <<answering, workers, retryVars>>

RequestInformation(r) ==
  /\ content[r] # NoContent
  /\ r \notin answering
  /\ answering' = answering \cup {r}
  /\ UNCHANGED <<content, runs, workers, retryVars>>

EditReport(r, c) ==
  /\ r \in answering
  /\ content' = [content EXCEPT ![r] = c]
  /\ UNCHANGED <<answering, runs, workers, retryVars>>

ResubmitReport(r, c) ==
  /\ r \in answering
  /\ answering' = answering \ {r}
  /\ content' = [content EXCEPT ![r] = c]
  /\ EnqueueReportAiRun(r, c)
  /\ UNCHANGED <<workers, retryVars>>

\* The last revision with the report's present hash is queued from scratch
\* unless it is under way or has its result.
RetryReportAiRun(r) ==
  \E n \in RunsOf(r) :
    /\ runs[n].hash = content[r]
    /\ \A m \in RunsOf(r) : runs[m].hash = content[r] => m <= n
    /\ retries < MaxRetries
    /\ runs[n].status = "failed" \/ (runs[n].status = "completed" /\ runs[n].result = "none")
    /\ runs' = [runs EXCEPT ![n] = Queued(r, runs[n].hash)]
    /\ retried' = retried \cup {n}
    /\ retries' = retries + 1
    /\ UNCHANGED <<reportVars, workers>>

-----------------------------------------------------------------------------
(***************************************************************************)
(* Claiming                                                                *)
(***************************************************************************)
LeaseExpires(n) ==
  /\ runs[n].status = "running"
  /\ runs' = [runs EXCEPT ![n].stale = TRUE]
  /\ UNCHANGED <<reportVars, workers, retryVars>>

FallsDue(n) ==
  /\ runs' = [runs EXCEPT ![n].due = TRUE]
  /\ UNCHANGED <<reportVars, workers, retryVars>>

\* Bug variant: a lapsed run is queued again one attempt too few.
SweptTooRarely(run) ==
  IF run.status = "running" /\ run.stale /\ run.attempts + 1 < MaxAttempts
  THEN [run EXCEPT !.status = "queued", !.holder = NoWorker, !.stale = FALSE, !.due = TRUE]
  ELSE run

\* A claim first returns lapsed runs to the queue.
Swept(run) ==
  IF run.status = "running" /\ run.stale /\ run.attempts < MaxAttempts
  THEN [run EXCEPT !.status = "queued", !.holder = NoWorker, !.stale = FALSE, !.due = TRUE]
  ELSE run

Prior(n) == {m \in DOMAIN runs : m < n /\ SameProgram(m, n)}

\* Bug variant: only a running predecessor blocks.
MayStartEarly(n) ==
  /\ Swept(runs[n]).status = "queued"
  /\ Swept(runs[n]).due
  /\ \A m \in Prior(n) : Swept(runs[m]).status # "running"

\* The head of its program's queue, and due.
MayStart(n) ==
  /\ Swept(runs[n]).status = "queued"
  /\ Swept(runs[n]).due
  /\ \A m \in Prior(n) : Terminal(m)

SubmissionSequence(n) == Cardinality(Prior(n)) + 1

Started(run, w) ==
  [run EXCEPT !.status = "running", !.attempts = @ + 1, !.holder = w, !.stale = FALSE]

ClaimAiTriageRun(w) ==
  LET heads == {n \in DOMAIN runs : MayStart(n)} IN
  /\ workers[w] = Idle
  /\ \/ /\ heads = {}
        /\ runs' = [n \in DOMAIN runs |-> Swept(runs[n])]
        /\ UNCHANGED workers
     \/ \E n \in heads :
          /\ \A m \in heads : SubmissionSequence(n) <= SubmissionSequence(m)
          /\ runs' = [m \in DOMAIN runs |->
                        IF m = n THEN Started(Swept(runs[n]), w) ELSE Swept(runs[m])]
          /\ workers' = [workers EXCEPT ![w] = [at |-> "analysing", run |-> n]]
  /\ UNCHANGED <<reportVars, retryVars>>

-----------------------------------------------------------------------------
(***************************************************************************)
(* Working                                                                 *)
(***************************************************************************)
\* Bug variants: writes name the run and `running' only, or just the run.
HeldByAnybody(w) == runs[workers[w].run].status = "running"

HeldAlways(w) == TRUE

\* The claim is still good: writes name the run, `running' and the token.
Holds(w) ==
  LET run == runs[workers[w].run] IN run.status = "running" /\ run.holder = w

Goto(w, at) ==
  workers' = [workers EXCEPT ![w] = IF at = "idle" THEN Idle ELSE [@ EXCEPT !.at = at]]

Write(w, run) == runs' = [runs EXCEPT ![workers[w].run] = run]

\* Both provider calls answer, fail for the moment, or fail for good; a
\* disabled provider and the demo's privacy rule fail for good.
AskProvider(w) ==
  /\ \/ workers[w].at = "analysing" /\ Goto(w, "saveFingerprint")
     \/ workers[w].at = "comparing" /\ Goto(w, "insertResult")
     \/ workers[w].at \in {"analysing", "comparing"} /\ \E at \in {"requeue", "fail"} : Goto(w, at)
  /\ UNCHANGED <<reportVars, runs, retryVars>>

PersistFingerprint(w) ==
  LET run == runs[workers[w].run] IN
  /\ workers[w].at = "saveFingerprint"
  /\ \/ Holds(w) /\ Write(w, [run EXCEPT !.fingerprint = TRUE]) /\ Goto(w, "comparing")
     \/ ~Holds(w) /\ Goto(w, "fail") /\ UNCHANGED runs
  /\ UNCHANGED <<reportVars, retryVars>>

\* The result is inserted without looking at the lease; one that is there
\* already stays.
PersistReady(w) ==
  LET run == runs[workers[w].run] IN
  /\ workers[w].at = "insertResult"
  /\ Write(w, [run EXCEPT !.result = IF @ = "none" THEN "current" ELSE @])
  /\ Goto(w, "finishReady")
  /\ UNCHANGED <<reportVars, retryVars>>

\* A lost lease is an error, hence a failure to record, unless somebody else
\* completed the run.
FinishReady(w) ==
  LET run == runs[workers[w].run] IN
  /\ workers[w].at = "finishReady"
  /\ \/ Holds(w) /\ Write(w, [run EXCEPT !.status = "completed"]) /\ Goto(w, "idle")
     \/ /\ ~Holds(w)
        /\ Goto(w, IF run.status = "completed" THEN "idle" ELSE "fail")
        /\ UNCHANGED runs
  /\ UNCHANGED <<reportVars, retryVars>>

\* A passing failure is tried again, the last attempt's is not.
PersistUnavailable(w) ==
  LET run == runs[workers[w].run]
      again == workers[w].at = "requeue" /\ run.attempts < MaxAttempts IN
  /\ workers[w].at \in {"requeue", "fail"}
  /\ \/ /\ Holds(w)
        /\ Write(w, IF again THEN [run EXCEPT !.status = "queued", !.due = FALSE]
                             ELSE [run EXCEPT !.status = "failed"])
     \/ ~Holds(w) /\ UNCHANGED runs
  /\ Goto(w, "idle")
  /\ UNCHANGED <<reportVars, retryVars>>

\* A database call fails, before or after its effect.
DatabaseFails(w) ==
  /\ workers[w].at \in {"saveFingerprint", "insertResult", "finishReady"}
  /\ Goto(w, "fail")
  /\ UNCHANGED <<reportVars, runs, retryVars>>

\* The process stops, or an error escapes runOnce and ends this drain.
Lose(w) ==
  /\ workers[w] # Idle
  /\ Goto(w, "idle")
  /\ UNCHANGED <<reportVars, runs, retryVars>>

Step(w) ==
  \/ AskProvider(w) \/ PersistFingerprint(w) \/ PersistReady(w)
  \/ FinishReady(w) \/ PersistUnavailable(w)

Next ==
  \/ \E r \in Reports, c \in Contents :
       SubmitReport(r, c) \/ EditReport(r, c) \/ ResubmitReport(r, c)
  \/ \E r \in Reports : RequestInformation(r) \/ RetryReportAiRun(r)
  \/ \E n \in DOMAIN runs : LeaseExpires(n) \/ FallsDue(n)
  \/ \E w \in Workers : ClaimAiTriageRun(w) \/ Step(w) \/ DatabaseFails(w) \/ Lose(w)

Spec == Init /\ [][Next]_vars

(***************************************************************************)
(* Fairness: every replica drains the queue every five seconds, a loop     *)
(* goes on with the job it has (or stops), and time passes.                *)
(***************************************************************************)
FairSpec ==
  /\ Spec
  /\ \A w \in Workers : WF_vars(ClaimAiTriageRun(w)) /\ WF_vars(Step(w))
  /\ \A n \in 1..MaxRuns : WF_vars(n \in DOMAIN runs /\ (LeaseExpires(n) \/ FallsDue(n)))

-----------------------------------------------------------------------------
(***************************************************************************)
(* Correctness                                                             *)
(***************************************************************************)
Run == [report : Reports, hash : Contents, status : RunStatus, attempts : 0..MaxAttempts,
        holder : Workers \cup {NoWorker}, stale : BOOLEAN, due : BOOLEAN,
        fingerprint : BOOLEAN, result : {"none", "current", "superseded"}]

\* Rows and jobs keep their types, no run is tried more often than allowed,
\* and a run waits only while it has an attempt left.
TypeOK ==
  /\ content \in [Reports -> Contents \cup {NoContent}]
  /\ answering \subseteq Reports
  /\ runs \in Seq(Run)
  /\ workers \in [Workers -> [at : WorkerStep, run : Nat]]
  /\ \A w \in Workers : workers[w] = Idle \/ workers[w].run \in DOMAIN runs
  /\ \A n \in DOMAIN runs : runs[n].status = "queued" => runs[n].attempts < MaxAttempts
  /\ retried \subseteq DOMAIN runs
  /\ retries \in Nat

\* A run that counts as completed has its fingerprint and its result, however
\* many workers finished, failed, lost or retried it on the way.
CompletedHasResult ==
  \A n \in DOMAIN runs :
    runs[n].status = "completed" => runs[n].fingerprint /\ runs[n].result # "none"

\* Two runs of a program execute together only if the earlier was asked for
\* again by hand: crashes, lapsed leases and automatic attempts never do it.
AloneUnlessRetried ==
  \A n, m \in DOMAIN runs :
    n < m /\ SameProgram(n, m) /\ runs[n].status = "running" /\ runs[m].status = "running"
      => n \in retried

\* What a worker that still holds its run knows to be recorded.
HeldWork ==
  \A w \in Workers :
    workers[w] # Idle /\ Holds(w) =>
      LET run == runs[workers[w].run] IN
      /\ workers[w].at \in {"comparing", "insertResult", "finishReady"} => run.fingerprint
      /\ workers[w].at = "finishReady" => run.result # "none"

\* Everything before a run that was ever started is finished or was retried.
PriorsFinished ==
  /\ \A n \in DOMAIN runs : runs[n].status # "queued" => runs[n].attempts > 0
  /\ \A n, m \in DOMAIN runs :
       n < m /\ SameProgram(n, m) /\ runs[m].attempts > 0 => Terminal(n) \/ n \in retried

\* The inductive invariant.
QueueInv == TypeOK /\ CompletedHasResult /\ HeldWork /\ PriorsFinished

\* "The worker runs at most one AI job at a time for each program."
OneAtATime ==
  \A n, m \in DOMAIN runs :
    SameProgram(n, m) /\ runs[n].status = "running" /\ runs[m].status = "running" => n = m

\* "The prior result is kept for audit but carries superseded."
PriorResultsSuperseded ==
  \A n \in DOMAIN runs : runs[n].result = "current" => IsLatest(n)

\* A completed run is never reopened and keeps its result, whatever a worker
\* with an old claim or another retry still writes.
CompletedIsFinal ==
  [][\A n \in DOMAIN runs :
       runs[n].status = "completed" =>
         runs'[n].status = "completed" /\ runs'[n].result # "none"]_vars

\* Its worker was lost on the last attempt: nothing takes it up again.
Stranded(n) ==
  /\ runs[n].status = "running"
  /\ runs[n].attempts = MaxAttempts
  /\ \A w \in Workers : workers[w].run = n => ~Holds(w)

Pending(n) == n \in DOMAIN runs /\ ~Terminal(n)

\* Every run is finished in the end, through crashes, lapsed leases, failing
\* providers and retries, unless a run of its program was lost on its last
\* attempt.
RunsFinish ==
  \A n \in 1..MaxRuns :
    Pending(n) ~> ~Pending(n) \/ \E m \in Prior(n) \cup {n} : Stranded(m)

\* "After the last attempt the job becomes failed so that the queue goes on."
QueueContinues == \A n \in 1..MaxRuns : Pending(n) ~> ~Pending(n)
=============================================================================
