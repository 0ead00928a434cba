------------------------ MODULE AiReviewQueueProofs -------------------------
(* QueueInv is inductive: a completed run has its result, and only a retry *)
(* by hand lets two runs of a program execute together.                    *)
EXTENDS AiReviewQueue, TLAPS

\* The initial state satisfies the invariant.
LEMMA InitQueueInv == Init => QueueInv
<1> SUFFICES ASSUME Init PROVE QueueInv
  OBVIOUS
<1>1. runs \in Seq(Run) /\ DOMAIN runs = {}
  BY DEF Init
<1>2. workers \in [Workers -> [at : WorkerStep, run : Nat]]
  BY DEF Init, Idle, WorkerStep
<1>3. \A w \in Workers : workers[w] = Idle
  BY DEF Init
<1> QED
  BY <1>1, <1>2, <1>3
  DEF Init, QueueInv, TypeOK, CompletedHasResult, HeldWork, PriorsFinished

\* What the invariant says of one run and of the pair of a run and a job.
GoodRun(run) ==
  /\ run.status = "queued" => run.attempts < MaxAttempts
  /\ run.status # "queued" => run.attempts > 0
  /\ run.status = "completed" => run.fingerprint /\ run.result # "none"

GoodJob(job, run, w) ==
  run.status = "running" /\ run.holder = w =>
    /\ job.at \in {"comparing", "insertResult", "finishReady"} => run.fingerprint
    /\ job.at = "finishReady" => run.result # "none"

\* The part of the invariant about runs, said run by run.
LEMMA RunByRun ==
  QueueInv <=>
    /\ TypeOK
    /\ \A n \in DOMAIN runs : GoodRun(runs[n])
    /\ \A w \in Workers :
         workers[w] # Idle => GoodJob(workers[w], runs[workers[w].run], w)
    /\ \A n, m \in DOMAIN runs :
         n < m /\ SameProgram(n, m) /\ runs[m].attempts > 0 => Terminal(n) \/ n \in retried
<1>1. ASSUME QueueInv, NEW n \in DOMAIN runs PROVE GoodRun(runs[n])
  BY <1>1 DEF QueueInv, TypeOK, CompletedHasResult, PriorsFinished, GoodRun
<1>2. ASSUME QueueInv, NEW w \in Workers, workers[w] # Idle
      PROVE  GoodJob(workers[w], runs[workers[w].run], w)
  BY <1>2 DEF QueueInv, HeldWork, Holds, GoodJob
<1>3. ASSUME \A n \in DOMAIN runs : GoodRun(runs[n]) PROVE CompletedHasResult
  BY <1>3 DEF CompletedHasResult, GoodRun
<1>4. ASSUME \A w \in Workers :
               workers[w] # Idle => GoodJob(workers[w], runs[workers[w].run], w)
      PROVE  HeldWork
  BY <1>4 DEF HeldWork, Holds, GoodJob
<1>5. ASSUME \A n \in DOMAIN runs : GoodRun(runs[n])
      PROVE  \A n \in DOMAIN runs : runs[n].status # "queued" => runs[n].attempts > 0
  BY <1>5 DEF GoodRun
<1> QED BY <1>1, <1>2, <1>3, <1>4, <1>5 DEF QueueInv, PriorsFinished

\* Rows may change one by one: a step that keeps every row's report, keeps
\* finished and retried rows finished or retried, starts only what may start,
\* and keeps rows and jobs good, keeps the invariant.
LEMMA RowStep ==
  ASSUME QueueInv, TypeOK', DOMAIN runs' = DOMAIN runs, retried \subseteq retried',
         \A n \in DOMAIN runs : GoodRun(runs'[n]),
         \A n \in DOMAIN runs : runs'[n].report = runs[n].report,
         \A n \in DOMAIN runs : Terminal(n) => Terminal(n)' \/ n \in retried',
         \A m \in DOMAIN runs : runs'[m].attempts > 0 =>
           runs[m].attempts > 0 \/ \A n \in Prior(m) : Terminal(n)' \/ n \in retried',
         \A w \in Workers :
           workers'[w] # Idle => GoodJob(workers'[w], runs'[workers'[w].run], w)
  PROVE  QueueInv'
<1>1. \A n \in DOMAIN runs' : GoodRun(runs'[n])
  OBVIOUS
<1>2. ASSUME NEW n \in DOMAIN runs', NEW m \in DOMAIN runs',
             n < m, SameProgram(n, m)', runs'[m].attempts > 0
      PROVE  Terminal(n)' \/ n \in retried'
  <2>1. SameProgram(n, m) /\ n \in Prior(m)
    BY <1>2 DEF SameProgram, Prior
  <2>2. CASE runs[m].attempts > 0
    BY <1>2, <2>1, <2>2 DEF QueueInv, PriorsFinished
  <2>3. CASE ~(runs[m].attempts > 0)
    BY <1>2, <2>1, <2>3
  <2> QED BY <2>2, <2>3
<1>3. /\ TypeOK'
      /\ \A n \in DOMAIN runs' : GoodRun(runs'[n])
      /\ \A w \in Workers : workers'[w] # Idle => GoodJob(workers'[w], runs'[workers'[w].run], w)
      /\ \A n, m \in DOMAIN runs' :
           n < m /\ SameProgram(n, m)' /\ runs'[m].attempts > 0 => Terminal(n)' \/ n \in retried'
  BY <1>1, <1>2
<1>4. CompletedHasResult'
  BY <1>3 DEF CompletedHasResult, GoodRun
<1>5. HeldWork'
  BY <1>3 DEF HeldWork, Holds, GoodJob
<1>6. PriorsFinished'
  BY <1>3 DEF PriorsFinished, GoodRun
<1> QED BY <1>4, <1>5, <1>6 DEF QueueInv

-----------------------------------------------------------------------------
(***************************************************************************)
(* What each write does to one row.                                        *)
(***************************************************************************)
\* A fresh or retried row is well-typed and good.
LEMMA QueuedRow ==
  ASSUME NEW r \in Reports, NEW c \in Contents
  PROVE  Queued(r, c) \in Run /\ GoodRun(Queued(r, c)) /\ Queued(r, c).report = r
BY QueueConstants DEF Queued, Run, GoodRun, RunStatus

\* Sweeping a row keeps it good and takes no evidence from its holder.
LEMMA SweptRow ==
  ASSUME NEW run \in Run, GoodRun(run)
  PROVE  /\ Swept(run) \in Run
         /\ GoodRun(Swept(run))
         /\ Swept(run).report = run.report
         /\ Swept(run).attempts = run.attempts
         /\ run.status \in {"completed", "failed"} => Swept(run) = run
         /\ \A w \in Workers : \A job : GoodJob(job, run, w) => GoodJob(job, Swept(run), w)
<1>1. CASE run.status = "running" /\ run.stale /\ run.attempts < MaxAttempts
  <2>1. Swept(run) = [run EXCEPT !.status = "queued", !.holder = NoWorker,
                                 !.stale = FALSE, !.due = TRUE]
    BY <1>1 DEF Swept
  <2>2. /\ "queued" \in RunStatus
        /\ NoWorker \in Workers \cup {NoWorker}
    BY DEF RunStatus
  <2>3. Swept(run) \in Run
    BY <2>1, <2>2 DEF Run
  <2>4. /\ Swept(run).status = "queued"
        /\ Swept(run).report = run.report
        /\ Swept(run).attempts = run.attempts
    BY <2>1 DEF Run
  <2> QED BY <1>1, <2>3, <2>4 DEF GoodRun, GoodJob
<1>2. CASE ~(run.status = "running" /\ run.stale /\ run.attempts < MaxAttempts)
  <2>1. Swept(run) = run
    BY <1>2 DEF Swept
  <2> QED BY <2>1
<1> QED BY <1>1, <1>2

\* Starting a queued row gives it to its new holder.
LEMMA StartedRow ==
  ASSUME NEW run \in Run, GoodRun(run), run.status = "queued", NEW w \in Workers
  PROVE  /\ Started(run, w) \in Run
         /\ GoodRun(Started(run, w))
         /\ Started(run, w).report = run.report
         /\ Started(run, w).holder = w
<1>1. run.attempts \in Nat /\ run.attempts < MaxAttempts /\ run.attempts + 1 \in 0..MaxAttempts
  BY QueueConstants DEF GoodRun, Run
<1>2. "running" \in RunStatus /\ w \in Workers \cup {NoWorker}
  BY DEF RunStatus
<1>3. Started(run, w) = [run EXCEPT !.status = "running", !.attempts = run.attempts + 1,
                                    !.holder = w, !.stale = FALSE]
  BY DEF Started
<1>4. Started(run, w) \in Run
  BY <1>1, <1>2, <1>3 DEF Run
<1>5. /\ Started(run, w).status = "running"
      /\ Started(run, w).attempts = run.attempts + 1
      /\ Started(run, w).holder = w
      /\ Started(run, w).report = run.report
  BY <1>3 DEF Run
<1> QED BY <1>1, <1>4, <1>5 DEF GoodRun

-----------------------------------------------------------------------------
(***************************************************************************)
(* Steps that write one row.                                               *)
(***************************************************************************)
\* What such a step needs of the new row x of run k.
LEMMA OneRowStep ==
  ASSUME QueueInv, NEW k \in DOMAIN runs, NEW x \in Run,
         runs' = [runs EXCEPT ![k] = x],
         GoodRun(x), x.report = runs[k].report,
         Terminal(k) => x.status \in {"completed", "failed"} \/ k \in retried',
         x.attempts > 0 => runs[k].attempts > 0,
         UNCHANGED reportVars,
         retries' \in Nat, retried \subseteq retried', retried' \subseteq DOMAIN runs,
         workers' \in [Workers -> [at : WorkerStep, run : Nat]],
         \A w \in Workers : workers'[w] # Idle =>
           /\ workers'[w].run \in DOMAIN runs
           /\ GoodJob(workers'[w], runs'[workers'[w].run], w)
  PROVE  QueueInv'
<1>1. runs \in Seq(Run) /\ \A n \in DOMAIN runs : runs[n] \in Run /\ GoodRun(runs[n])
  BY RunByRun DEF QueueInv, TypeOK
<1>2. runs' \in Seq(Run) /\ DOMAIN runs' = DOMAIN runs
  BY <1>1
<1>3. \A n \in DOMAIN runs : runs'[n] = IF n = k THEN x ELSE runs[n]
  OBVIOUS
<1>4. \A n \in DOMAIN runs : GoodRun(runs'[n])
  BY <1>1, <1>3
<1>5. TypeOK'
  BY <1>2, <1>4 DEF TypeOK, QueueInv, reportVars, GoodRun
<1>6. \A n \in DOMAIN runs : Terminal(n) => Terminal(n)' \/ n \in retried'
  BY <1>3 DEF Terminal
<1>7. \A m \in DOMAIN runs : runs'[m].attempts > 0 => runs[m].attempts > 0
  BY <1>3
<1>8. \A n \in DOMAIN runs : runs'[n].report = runs[n].report
  BY <1>3
<1> QED BY <1>2, <1>4, <1>5, <1>6, <1>7, <1>8, RowStep

\* A step that touches rows in place and leaves the workers alone.
LEMMA QuietRowStep ==
  ASSUME QueueInv, NEW k \in DOMAIN runs, NEW x \in Run,
         runs' = [runs EXCEPT ![k] = x],
         GoodRun(x), x.report = runs[k].report,
         Terminal(k) => x.status \in {"completed", "failed"} \/ k \in retried',
         x.attempts > 0 => runs[k].attempts > 0,
         UNCHANGED <<reportVars, workers>>,
         retries' \in Nat, retried \subseteq retried', retried' \subseteq DOMAIN runs,
         \A w \in Workers : \A job : GoodJob(job, runs[k], w) => GoodJob(job, x, w)
  PROVE  QueueInv'
<1>1. \A w \in Workers : workers[w] # Idle =>
        workers[w].run \in DOMAIN runs /\ GoodJob(workers[w], runs[workers[w].run], w)
  BY RunByRun DEF QueueInv, TypeOK
<1>2. \A n \in DOMAIN runs : runs'[n] = IF n = k THEN x ELSE runs[n]
  BY DEF QueueInv, TypeOK
<1>3. \A w \in Workers : workers'[w] # Idle =>
        workers'[w].run \in DOMAIN runs /\ GoodJob(workers'[w], runs'[workers'[w].run], w)
  BY <1>1, <1>2
<1>4. workers' \in [Workers -> [at : WorkerStep, run : Nat]]
  BY DEF QueueInv, TypeOK
<1> QED BY <1>3, <1>4, OneRowStep

\* Where a job is after Goto.
LEMMA GotoJob ==
  ASSUME TypeOK, NEW w \in Workers, workers[w] # Idle, NEW at \in WorkerStep, Goto(w, at)
  PROVE  /\ workers' \in [Workers -> [at : WorkerStep, run : Nat]]
         /\ \A v \in Workers \ {w} : workers'[v] = workers[v]
         /\ workers'[w] # Idle => workers'[w] = [workers[w] EXCEPT !.at = at]
         /\ workers'[w] # Idle => workers'[w].at = at /\ workers'[w].run = workers[w].run
<1>1. workers \in [Workers -> [at : WorkerStep, run : Nat]]
  BY DEF TypeOK
<1>2. Idle \in [at : WorkerStep, run : Nat]
  BY DEF Idle, WorkerStep
<1>3. [workers[w] EXCEPT !.at = at] \in [at : WorkerStep, run : Nat]
  BY <1>1
<1>4. workers' = [workers EXCEPT ![w] = IF at = "idle" THEN Idle ELSE [workers[w] EXCEPT !.at = at]]
  BY DEF Goto
<1>5. workers'[w] = IF at = "idle" THEN Idle ELSE [workers[w] EXCEPT !.at = at]
  BY <1>1, <1>4
<1>6. [workers[w] EXCEPT !.at = at].at = at /\ [workers[w] EXCEPT !.at = at].run = workers[w].run
  BY <1>1
<1> QED BY <1>1, <1>2, <1>3, <1>4, <1>5, <1>6

\* A worker moves on and writes the row of its run.
LEMMA WorkerRowStep ==
  ASSUME QueueInv, NEW w \in Workers, workers[w] # Idle, NEW at \in WorkerStep, Goto(w, at),
         NEW x \in Run, Write(w, x), GoodRun(x),
         x.report = runs[workers[w].run].report,
         Terminal(workers[w].run) => x.status \in {"completed", "failed"},
         x.attempts = runs[workers[w].run].attempts,
         UNCHANGED <<reportVars, retryVars>>,
         \A v \in Workers \ {w} : \A job :
           GoodJob(job, runs[workers[w].run], v) => GoodJob(job, x, v),
         at # "idle" => GoodJob([workers[w] EXCEPT !.at = at], x, w)
  PROVE  QueueInv'
<1> DEFINE k == workers[w].run
<1>1. \A v \in Workers : workers[v] # Idle =>
        workers[v].run \in DOMAIN runs /\ GoodJob(workers[v], runs[workers[v].run], v)
  BY RunByRun DEF QueueInv, TypeOK
<1>2. k \in DOMAIN runs /\ runs' = [runs EXCEPT ![k] = x]
  BY <1>1 DEF Write
<1>3. TypeOK /\ \A n \in DOMAIN runs : runs'[n] = IF n = k THEN x ELSE runs[n]
  BY <1>2 DEF QueueInv, TypeOK
<1>4. /\ workers' \in [Workers -> [at : WorkerStep, run : Nat]]
      /\ \A v \in Workers \ {w} : workers'[v] = workers[v]
      /\ workers'[w] # Idle => workers'[w] = [workers[w] EXCEPT !.at = at]
      /\ workers'[w] # Idle => workers'[w].at = at /\ workers'[w].run = k
  BY <1>3, GotoJob
<1>5. workers'[w] # Idle => at # "idle"
  BY <1>3 DEF Goto, TypeOK
<1>6. \A v \in Workers : workers'[v] # Idle =>
        workers'[v].run \in DOMAIN runs /\ GoodJob(workers'[v], runs'[workers'[v].run], v)
  BY <1>1, <1>2, <1>3, <1>4, <1>5
<1>7. retries' \in Nat /\ retried \subseteq retried' /\ retried' \subseteq DOMAIN runs
  BY <1>3 DEF TypeOK, retryVars
<1>8. x.attempts > 0 => runs[k].attempts > 0
  OBVIOUS
<1>9. UNCHANGED reportVars
  OBVIOUS
<1> HIDE DEF k
<1> QED BY <1>2, <1>4, <1>6, <1>7, <1>8, <1>9, OneRowStep DEF k

\* A worker moves on and writes nothing.
LEMMA WorkerMoves ==
  ASSUME QueueInv, NEW w \in Workers, workers[w] # Idle, NEW at \in WorkerStep, Goto(w, at),
         UNCHANGED <<reportVars, runs, retryVars>>,
         at # "idle" => GoodJob([workers[w] EXCEPT !.at = at], runs[workers[w].run], w)
  PROVE  QueueInv'
<1> DEFINE k == workers[w].run  x == runs[k]
<1>1. runs \in Seq(Run) /\ k \in DOMAIN runs /\ x \in Run /\ GoodRun(x)
  BY RunByRun DEF QueueInv, TypeOK
<1>2. runs' = [runs EXCEPT ![k] = x]
  BY <1>1
<1>3. Write(w, x)
  BY <1>2 DEF Write
<1>4. Terminal(k) => x.status \in {"completed", "failed"}
  BY DEF Terminal
<1>5. UNCHANGED <<reportVars, retryVars>>
  OBVIOUS
<1> QED BY <1>1, <1>3, <1>4, <1>5, WorkerRowStep

-----------------------------------------------------------------------------
(***************************************************************************)
(* Reports                                                                 *)
(***************************************************************************)
\* Enqueueing, with whatever else the calling function did to the report.
LEMMA EnqueueStep ==
  ASSUME QueueInv, NEW r \in Reports, NEW c \in Contents, EnqueueReportAiRun(r, c),
         content' \in [Reports -> Contents \cup {NoContent}], answering' \subseteq Reports,
         UNCHANGED <<workers, retryVars>>
  PROVE  QueueInv'
<1>1. /\ TypeOK
      /\ runs \in Seq(Run)
      /\ \A n \in DOMAIN runs : runs[n] \in Run /\ GoodRun(runs[n])
      /\ \A w \in Workers : workers[w] # Idle =>
           workers[w].run \in DOMAIN runs /\ GoodJob(workers[w], runs[workers[w].run], w)
  BY RunByRun DEF QueueInv, TypeOK
<1>2. CASE UNCHANGED runs
  <2>1. TypeOK'
    BY <1>1, <1>2 DEF TypeOK, retryVars
  <2> QED BY <1>2, <2>1
          DEF QueueInv, CompletedHasResult, HeldWork, Holds, PriorsFinished, SameProgram,
              Terminal, retryVars
<1>3. CASE runs' = Append([n \in DOMAIN runs |-> Supersede(runs[n], r)], Queued(r, c))
  <2> DEFINE old == [n \in DOMAIN runs |-> Supersede(runs[n], r)]
  <2>1. \A n \in DOMAIN runs :
          /\ Supersede(runs[n], r) \in Run
          /\ Supersede(runs[n], r).status = runs[n].status
          /\ Supersede(runs[n], r).attempts = runs[n].attempts
          /\ Supersede(runs[n], r).report = runs[n].report
          /\ Supersede(runs[n], r).holder = runs[n].holder
          /\ Supersede(runs[n], r).fingerprint = runs[n].fingerprint
          /\ runs[n].result # "none" => Supersede(runs[n], r).result # "none"
    BY <1>1 DEF Supersede, Run
  <2>2. Queued(r, c) \in Run /\ GoodRun(Queued(r, c)) /\ Queued(r, c).attempts = 0
    BY QueuedRow DEF Queued
  <2>3. old \in Seq(Run) /\ Len(old) = Len(runs) /\ DOMAIN old = DOMAIN runs
    BY <1>1, <2>1
  <2>4. /\ runs' \in Seq(Run)
        /\ DOMAIN runs' = DOMAIN runs \cup {Len(runs) + 1}
        /\ \A n \in DOMAIN runs : runs'[n] = Supersede(runs[n], r)
        /\ runs'[Len(runs) + 1] = Queued(r, c)
    <3>1. runs' = Append(old, Queued(r, c))
      BY <1>3
    <3>2. \A n \in DOMAIN runs : old[n] = Supersede(runs[n], r)
      OBVIOUS
    <3> HIDE DEF old
    <3> QED BY <1>1, <2>2, <2>3, <3>1, <3>2
  <2> HIDE DEF old
  <2>5. \A n \in DOMAIN runs' : GoodRun(runs'[n])
    BY <1>1, <2>1, <2>2, <2>4 DEF GoodRun
  <2>6. \A w \in Workers : workers'[w] # Idle =>
          workers'[w].run \in DOMAIN runs /\ GoodJob(workers'[w], runs'[workers'[w].run], w)
    BY <1>1, <2>1, <2>4 DEF GoodJob
  <2>7. TypeOK'
    BY <1>1, <2>4, <2>5, <2>6 DEF TypeOK, GoodRun, retryVars
  <2>8. CompletedHasResult'
    BY <2>5 DEF CompletedHasResult, GoodRun
  <2>9. HeldWork'
    BY <2>6 DEF HeldWork, Holds, GoodJob
  <2>10. ASSUME NEW n \in DOMAIN runs', NEW m \in DOMAIN runs',
                n < m, SameProgram(n, m)', runs'[m].attempts > 0
         PROVE  Terminal(n)' \/ n \in retried'
    <3>1. m \in DOMAIN runs /\ n \in DOMAIN runs
      BY <1>1, <2>2, <2>4, <2>10
    <3>2. SameProgram(n, m) /\ runs[m].attempts > 0
      BY <2>1, <2>4, <2>10, <3>1 DEF SameProgram
    <3>3. Terminal(n) \/ n \in retried
      BY <2>10, <3>1, <3>2 DEF QueueInv, PriorsFinished
    <3> QED BY <2>1, <2>4, <3>1, <3>3 DEF Terminal, retryVars
  <2>11. PriorsFinished'
    BY <2>5, <2>10 DEF PriorsFinished, GoodRun
  <2> QED BY <2>7, <2>8, <2>9, <2>11 DEF QueueInv
<1> QED BY <1>2, <1>3 DEF EnqueueReportAiRun

\* A retry takes no evidence from anybody who still holds the run: nobody does.
LEMMA RetryStep ==
  ASSUME QueueInv, NEW r \in Reports, RetryReportAiRun(r)
  PROVE  QueueInv'
<1>1. PICK n \in RunsOf(r) :
        /\ runs' = [runs EXCEPT ![n] = Queued(r, runs[n].hash)]
        /\ retried' = retried \cup {n}
        /\ retries' = retries + 1
        /\ UNCHANGED <<reportVars, workers>>
  BY DEF RetryReportAiRun
<1> DEFINE x == Queued(r, runs[n].hash)
<1>2. n \in DOMAIN runs /\ runs[n].report = r /\ runs[n] \in Run
  BY <1>1 DEF RunsOf, QueueInv, TypeOK
<1>3. x \in Run /\ GoodRun(x) /\ x.report = runs[n].report
  BY <1>2, QueuedRow DEF Run
<1>4. x.attempts = 0 /\ x.status = "queued"
  BY DEF Queued
<1>5. \A w \in Workers : \A job : GoodJob(job, x, w)
  BY <1>4 DEF GoodJob
<1>6. retries' \in Nat /\ retried \subseteq retried' /\ retried' \subseteq DOMAIN runs /\ n \in retried'
  BY <1>1, <1>2 DEF QueueInv, TypeOK
<1>7. runs' = [runs EXCEPT ![n] = x] /\ UNCHANGED <<reportVars, workers>>
  BY <1>1
<1>8. ~(x.attempts > 0)
  BY <1>4
<1> HIDE DEF x
<1> QED BY <1>2, <1>3, <1>5, <1>6, <1>7, <1>8, QuietRowStep

\* Requesting information and editing do not touch the queue.
LEMMA ReportStep ==
  ASSUME QueueInv, content' \in [Reports -> Contents \cup {NoContent}],
         answering' \subseteq Reports, UNCHANGED <<runs, workers, retryVars>>
  PROVE  QueueInv'
<1>1. TypeOK'
  BY DEF QueueInv, TypeOK, retryVars
<1> QED BY <1>1 DEF QueueInv, CompletedHasResult, HeldWork, Holds, PriorsFinished,
                    SameProgram, Terminal, retryVars

-----------------------------------------------------------------------------
(***************************************************************************)
(* Time and claims                                                         *)
(***************************************************************************)
\* The passing of time touches one row and nothing the invariant says of it.
LEMMA TimeStep ==
  ASSUME QueueInv, NEW n \in DOMAIN runs, LeaseExpires(n) \/ FallsDue(n)
  PROVE  QueueInv'
<1> DEFINE lapsed == [runs[n] EXCEPT !.stale = TRUE]
           due    == [runs[n] EXCEPT !.due = TRUE]
<1>1. runs[n] \in Run /\ GoodRun(runs[n])
  BY RunByRun DEF QueueInv, TypeOK
<1>2. ASSUME NEW x \in {lapsed, due}
      PROVE  /\ x \in Run
             /\ x.status = runs[n].status
             /\ x.attempts = runs[n].attempts
             /\ x.holder = runs[n].holder
             /\ x.report = runs[n].report
             /\ x.fingerprint = runs[n].fingerprint
             /\ x.result = runs[n].result
  BY <1>1, <1>2 DEF Run
<1>3. PICK x \in {lapsed, due} :
        runs' = [runs EXCEPT ![n] = x] /\ UNCHANGED <<reportVars, workers, retryVars>>
  BY DEF LeaseExpires, FallsDue
<1>4. \A w \in Workers : \A job : GoodJob(job, runs[n], w) => GoodJob(job, x, w)
  BY <1>2 DEF GoodJob
<1>5. GoodRun(x) /\ (Terminal(n) => x.status \in {"completed", "failed"})
  BY <1>1, <1>2 DEF GoodRun, Terminal
<1>6. retries' \in Nat /\ retried \subseteq retried' /\ retried' \subseteq DOMAIN runs
  BY <1>3 DEF QueueInv, TypeOK, retryVars
<1>7. /\ x \in Run /\ x.report = runs[n].report
      /\ x.attempts > 0 => runs[n].attempts > 0
      /\ UNCHANGED <<reportVars, workers>>
  BY <1>2, <1>3
<1> QED BY <1>3, <1>4, <1>5, <1>6, <1>7, QuietRowStep

\* A claim sweeps every row and starts at most the head of one program.
LEMMA ClaimStep ==
  ASSUME QueueInv, NEW w \in Workers, ClaimAiTriageRun(w)
  PROVE  QueueInv'
<1>1. /\ TypeOK
      /\ runs \in Seq(Run)
      /\ \A n \in DOMAIN runs : runs[n] \in Run /\ GoodRun(runs[n])
      /\ \A v \in Workers : workers[v] # Idle =>
           workers[v].run \in DOMAIN runs /\ GoodJob(workers[v], runs[workers[v].run], v)
  BY RunByRun DEF QueueInv, TypeOK
<1>2. /\ workers[w] = Idle
      /\ UNCHANGED <<content, answering, retried, retries>>
  BY DEF ClaimAiTriageRun, reportVars, retryVars
<1>3. \A n \in DOMAIN runs :
        /\ Swept(runs[n]) \in Run
        /\ GoodRun(Swept(runs[n]))
        /\ Swept(runs[n]).report = runs[n].report
        /\ Swept(runs[n]).attempts = runs[n].attempts
        /\ Terminal(n) => Swept(runs[n]) = runs[n]
        /\ \A v \in Workers : \A job : GoodJob(job, runs[n], v) => GoodJob(job, Swept(runs[n]), v)
  BY <1>1, SweptRow DEF Terminal
<1>4. CASE runs' = [n \in DOMAIN runs |-> Swept(runs[n])] /\ UNCHANGED workers
  <2>1. /\ DOMAIN runs' = DOMAIN runs
        /\ runs' \in Seq(Run)
        /\ \A n \in DOMAIN runs : runs'[n] = Swept(runs[n])
    BY <1>1, <1>3, <1>4
  <2>2. TypeOK'
    BY <1>1, <1>2, <1>3, <1>4, <2>1 DEF TypeOK, GoodRun
  <2>3. \A n \in DOMAIN runs : Terminal(n) => Terminal(n)'
    BY <1>3, <2>1 DEF Terminal
  <2>4. /\ \A n \in DOMAIN runs : GoodRun(runs'[n])
        /\ \A n \in DOMAIN runs : runs'[n].report = runs[n].report
        /\ \A m \in DOMAIN runs : runs'[m].attempts > 0 => runs[m].attempts > 0
        /\ \A v \in Workers :
             workers'[v] # Idle => GoodJob(workers'[v], runs'[workers'[v].run], v)
    BY <1>1, <1>3, <1>4, <2>1
  <2> QED BY <1>2, <2>1, <2>2, <2>3, <2>4, RowStep
<1>5. ASSUME NEW k \in DOMAIN runs, MayStart(k),
             runs' = [m \in DOMAIN runs |->
                        IF m = k THEN Started(Swept(runs[k]), w) ELSE Swept(runs[m])],
             workers' = [workers EXCEPT ![w] = [at |-> "analysing", run |-> k]]
      PROVE  QueueInv'
  <2>1. Swept(runs[k]).status = "queued" /\ \A n \in Prior(k) : Terminal(n)
    BY <1>5 DEF MayStart
  <2>2. /\ Started(Swept(runs[k]), w) \in Run
        /\ GoodRun(Started(Swept(runs[k]), w))
        /\ Started(Swept(runs[k]), w).report = runs[k].report
        /\ Started(Swept(runs[k]), w).holder = w
    BY <1>3, <2>1, StartedRow
  <2>3. /\ DOMAIN runs' = DOMAIN runs
        /\ runs' \in Seq(Run)
        /\ runs'[k] = Started(Swept(runs[k]), w)
        /\ \A n \in DOMAIN runs \ {k} : runs'[n] = Swept(runs[n])
    BY <1>1, <1>3, <1>5, <2>2
  <2>4. /\ workers' \in [Workers -> [at : WorkerStep, run : Nat]]
        /\ workers'[w] = [at |-> "analysing", run |-> k]
        /\ \A v \in Workers \ {w} : workers'[v] = workers[v]
    BY <1>1, <1>5 DEF TypeOK, WorkerStep
  <2>5. \A n \in DOMAIN runs : GoodRun(runs'[n]) /\ runs'[n].report = runs[n].report
    BY <1>3, <2>2, <2>3
  <2>6. ~Terminal(k)
    <3>1. Terminal(k) => Swept(runs[k]).status \in {"completed", "failed"}
      BY <1>3 DEF Terminal
    <3> QED BY <2>1, <3>1
  <2>7. \A n \in DOMAIN runs : Terminal(n) => Terminal(n)'
    BY <1>3, <2>3, <2>6 DEF Terminal
  <2>8. ASSUME NEW m \in DOMAIN runs, runs'[m].attempts > 0
        PROVE  runs[m].attempts > 0 \/ \A n \in Prior(m) : Terminal(n)'
    <3>1. CASE m = k
      BY <2>1, <2>7, <3>1 DEF Prior
    <3>2. CASE m # k
      BY <1>3, <2>3, <2>8, <3>2
    <3> QED BY <3>1, <3>2
  <2>9. ASSUME NEW v \in Workers, workers'[v] # Idle
        PROVE  /\ workers'[v].run \in DOMAIN runs
               /\ GoodJob(workers'[v], runs'[workers'[v].run], v)
    <3>1. CASE v = w
      BY <2>4, <3>1 DEF GoodJob
    <3>2. CASE v # w
      <4>1. /\ workers[v] # Idle /\ workers'[v] = workers[v]
            /\ workers[v].run \in DOMAIN runs
            /\ GoodJob(workers[v], runs[workers[v].run], v)
        BY <1>1, <2>4, <2>9, <3>2
      <4>2. CASE workers[v].run = k
        BY <2>2, <2>3, <3>2, <4>1, <4>2 DEF GoodJob
      <4>3. CASE workers[v].run # k
        BY <1>3, <2>3, <4>1, <4>3
      <4> QED BY <4>1, <4>2, <4>3
    <3> QED BY <3>1, <3>2
  <2>10. TypeOK'
    <3>1. \A v \in Workers : workers'[v] = Idle \/ workers'[v].run \in DOMAIN runs'
      BY <2>3, <2>9
    <3>2. \A n \in DOMAIN runs' : runs'[n].status = "queued" => runs'[n].attempts < MaxAttempts
      BY <2>3, <2>5 DEF GoodRun
    <3> QED BY <1>1, <1>2, <2>3, <2>4, <3>1, <3>2 DEF TypeOK
  <2> QED BY <1>2, <2>3, <2>5, <2>7, <2>8, <2>9, <2>10, RowStep
<1> QED BY <1>4, <1>5 DEF ClaimAiTriageRun

-----------------------------------------------------------------------------
(***************************************************************************)
(* Work                                                                    *)
(***************************************************************************)
\* A loop that is at a step of runOnce has a run, and no other loop's row is
\* meant by `holder = w'.
LEMMA WorkerFacts ==
  ASSUME QueueInv, NEW w \in Workers, workers[w] # Idle
  PROVE  /\ workers[w] \in [at : WorkerStep, run : Nat]
         /\ workers[w].run \in DOMAIN runs
         /\ runs[workers[w].run] \in Run
         /\ GoodRun(runs[workers[w].run])
         /\ GoodJob(workers[w], runs[workers[w].run], w)
         /\ \A at \in WorkerStep : [workers[w] EXCEPT !.at = at].at = at
<1>1. workers[w] \in [at : WorkerStep, run : Nat] /\ workers[w].run \in DOMAIN runs
  BY DEF QueueInv, TypeOK
<1>2. runs[workers[w].run] \in Run
  BY <1>1 DEF QueueInv, TypeOK
<1>3. \A at \in WorkerStep : [workers[w] EXCEPT !.at = at].at = at
  BY <1>1
<1> QED BY <1>1, <1>2, <1>3, RunByRun

\* The provider's answer takes the loop on; only a loop that holds its run and
\* has its fingerprint goes on to insert a result.
LEMMA AskProviderStep ==
  ASSUME QueueInv, NEW w \in Workers, AskProvider(w)
  PROVE  QueueInv'
<1>1. workers[w] # Idle /\ UNCHANGED <<reportVars, runs, retryVars>>
  BY DEF AskProvider, Idle
<1>2. GoodJob(workers[w], runs[workers[w].run], w)
  BY <1>1, WorkerFacts
<1>3. CASE workers[w].at = "analysing" /\ Goto(w, "saveFingerprint")
  <2>1. "saveFingerprint" \in WorkerStep
    BY DEF WorkerStep
  <2>2. [workers[w] EXCEPT !.at = "saveFingerprint"].at = "saveFingerprint"
    BY <1>1, <2>1, WorkerFacts
  <2>3. GoodJob([workers[w] EXCEPT !.at = "saveFingerprint"], runs[workers[w].run], w)
    BY <2>2 DEF GoodJob
  <2> QED BY <1>1, <1>3, <2>1, <2>3, WorkerMoves
<1>4. CASE workers[w].at = "comparing" /\ Goto(w, "insertResult")
  <2>1. "insertResult" \in WorkerStep
    BY DEF WorkerStep
  <2>2. [workers[w] EXCEPT !.at = "insertResult"].at = "insertResult"
    BY <1>1, <2>1, WorkerFacts
  <2>3. GoodJob([workers[w] EXCEPT !.at = "insertResult"], runs[workers[w].run], w)
    BY <1>2, <1>4, <2>2 DEF GoodJob
  <2> QED BY <1>1, <1>4, <2>1, <2>3, WorkerMoves
<1>5. ASSUME NEW at \in {"requeue", "fail"}, Goto(w, at)
      PROVE  QueueInv'
  <2>1. at \in WorkerStep
    BY DEF WorkerStep
  <2>2. [workers[w] EXCEPT !.at = at].at = at
    BY <1>1, <2>1, WorkerFacts
  <2>3. GoodJob([workers[w] EXCEPT !.at = at], runs[workers[w].run], w)
    BY <2>2 DEF GoodJob
  <2> QED BY <1>1, <1>5, <2>1, <2>3, WorkerMoves
<1> QED BY <1>3, <1>4, <1>5 DEF AskProvider

\* The fingerprint is there before the loop compares.
LEMMA PersistFingerprintStep ==
  ASSUME QueueInv, NEW w \in Workers, PersistFingerprint(w)
  PROVE  QueueInv'
<1> DEFINE run == runs[workers[w].run]
           x == [run EXCEPT !.fingerprint = TRUE]
<1>1. workers[w] # Idle /\ UNCHANGED <<reportVars, retryVars>>
  BY DEF PersistFingerprint, Idle
<1>2. run \in Run /\ GoodRun(run)
  BY <1>1, WorkerFacts
<1>3. "comparing" \in WorkerStep /\ "fail" \in WorkerStep
  BY DEF WorkerStep
<1>4. /\ [workers[w] EXCEPT !.at = "comparing"].at = "comparing"
      /\ [workers[w] EXCEPT !.at = "fail"].at = "fail"
  BY <1>1, <1>3, WorkerFacts
<1>5. CASE Holds(w) /\ Write(w, x) /\ Goto(w, "comparing")
  <2>1. /\ x \in Run /\ x.report = run.report /\ x.status = run.status
        /\ x.attempts = run.attempts /\ x.holder = run.holder
        /\ x.fingerprint = TRUE /\ x.result = run.result
    BY <1>2 DEF Run
  <2>2. run.status = "running" /\ run.holder = w
    BY <1>5 DEF Holds
  <2>3. GoodRun(x) /\ ~Terminal(workers[w].run)
    BY <1>2, <2>1, <2>2 DEF GoodRun, Terminal
  <2>4. \A v \in Workers \ {w} : \A job : GoodJob(job, x, v)
    BY <2>1, <2>2 DEF GoodJob
  <2>5. GoodJob([workers[w] EXCEPT !.at = "comparing"], x, w)
    BY <1>4, <2>1 DEF GoodJob
  <2>6. x.report = runs[workers[w].run].report /\ x.attempts = runs[workers[w].run].attempts
    BY <2>1
  <2> HIDE DEF x
  <2> QED BY <1>1, <1>3, <1>5, <2>1, <2>3, <2>4, <2>5, <2>6, WorkerRowStep
<1>6. CASE ~Holds(w) /\ Goto(w, "fail") /\ UNCHANGED runs
  <2>1. GoodJob([workers[w] EXCEPT !.at = "fail"], runs[workers[w].run], w)
    BY <1>4 DEF GoodJob
  <2> QED BY <1>1, <1>3, <1>6, <2>1, WorkerMoves
<1> QED BY <1>5, <1>6 DEF PersistFingerprint

\* Inserting a result without the lease harms nobody.
LEMMA PersistReadyStep ==
  ASSUME QueueInv, NEW w \in Workers, PersistReady(w)
  PROVE  QueueInv'
<1> DEFINE run == runs[workers[w].run]
           x == [run EXCEPT !.result = IF @ = "none" THEN "current" ELSE @]
<1>1. /\ workers[w] # Idle /\ workers[w].at = "insertResult"
      /\ Write(w, x) /\ Goto(w, "finishReady") /\ UNCHANGED <<reportVars, retryVars>>
  BY DEF PersistReady, Idle
<1>2. run \in Run /\ GoodRun(run) /\ GoodJob(workers[w], run, w)
  BY <1>1, WorkerFacts
<1>3. "finishReady" \in WorkerStep
  BY DEF WorkerStep
<1>4. [workers[w] EXCEPT !.at = "finishReady"].at = "finishReady"
  BY <1>1, <1>3, WorkerFacts
<1>5. /\ x \in Run /\ x.report = run.report /\ x.status = run.status
      /\ x.attempts = run.attempts /\ x.holder = run.holder
      /\ x.fingerprint = run.fingerprint /\ x.result # "none"
  BY <1>2 DEF Run
<1>6. GoodRun(x) /\ (Terminal(workers[w].run) => x.status \in {"completed", "failed"})
  BY <1>2, <1>5 DEF GoodRun, Terminal
<1>7. \A v \in Workers \ {w} : \A job : GoodJob(job, runs[workers[w].run], v) => GoodJob(job, x, v)
  BY <1>5 DEF GoodJob
<1>8. GoodJob([workers[w] EXCEPT !.at = "finishReady"], x, w)
  BY <1>1, <1>2, <1>4, <1>5 DEF GoodJob
<1>9. x.report = runs[workers[w].run].report /\ x.attempts = runs[workers[w].run].attempts
  BY <1>5
<1> HIDE DEF x
<1> QED BY <1>1, <1>3, <1>5, <1>6, <1>7, <1>8, <1>9, WorkerRowStep

\* Only a loop that still holds the run completes it, and it has the
\* fingerprint and the result by then.
LEMMA FinishReadyStep ==
  ASSUME QueueInv, NEW w \in Workers, FinishReady(w)
  PROVE  QueueInv'
<1> DEFINE run == runs[workers[w].run]
           x == [run EXCEPT !.status = "completed"]
<1>1. /\ workers[w] # Idle /\ workers[w].at = "finishReady"
      /\ UNCHANGED <<reportVars, retryVars>>
  BY DEF FinishReady, Idle
<1>2. run \in Run /\ GoodRun(run) /\ GoodJob(workers[w], run, w)
  BY <1>1, WorkerFacts
<1>3. "idle" \in WorkerStep /\ "fail" \in WorkerStep
  BY DEF WorkerStep
<1>4. [workers[w] EXCEPT !.at = "fail"].at = "fail"
  BY <1>1, <1>3, WorkerFacts
<1>5. CASE Holds(w) /\ Write(w, x) /\ Goto(w, "idle")
  <2>1. "completed" \in RunStatus
    BY DEF RunStatus
  <2>2. /\ x \in Run /\ x.report = run.report /\ x.status = "completed"
        /\ x.attempts = run.attempts
        /\ x.fingerprint = run.fingerprint /\ x.result = run.result
    BY <1>2, <2>1 DEF Run
  <2>3. run.status = "running" /\ run.holder = w
    BY <1>5 DEF Holds
  <2>4. GoodRun(x)
    BY <1>1, <1>2, <2>2, <2>3 DEF GoodRun, GoodJob
  <2>5. \A v \in Workers : \A job : GoodJob(job, x, v)
    BY <2>2 DEF GoodJob
  <2>6. x.report = runs[workers[w].run].report /\ x.attempts = runs[workers[w].run].attempts
    BY <2>2
  <2> HIDE DEF x
  <2> QED BY <1>1, <1>3, <1>5, <2>2, <2>4, <2>5, <2>6, WorkerRowStep
<1>6. CASE ~Holds(w) /\ Goto(w, IF run.status = "completed" THEN "idle" ELSE "fail") /\ UNCHANGED runs
  <2>1. GoodJob([workers[w] EXCEPT !.at = "fail"], runs[workers[w].run], w)
    BY <1>4 DEF GoodJob
  <2>2. CASE run.status = "completed"
    <3>1. Goto(w, "idle")
      BY <1>6, <2>2
    <3> QED BY <1>1, <1>3, <1>6, <3>1, WorkerMoves
  <2>3. CASE run.status # "completed"
    <3>1. Goto(w, "fail")
      BY <1>6, <2>3
    <3> QED BY <1>1, <1>3, <1>6, <2>1, <3>1, WorkerMoves
  <2> QED BY <2>2, <2>3
<1> QED BY <1>5, <1>6 DEF FinishReady

\* A failure is recorded by the holder only: the run waits again while it has
\* attempts left, or is over.
LEMMA PersistUnavailableStep ==
  ASSUME QueueInv, NEW w \in Workers, PersistUnavailable(w)
  PROVE  QueueInv'
<1> DEFINE run == runs[workers[w].run]
           again == [run EXCEPT !.status = "queued", !.due = FALSE]
           over  == [run EXCEPT !.status = "failed"]
<1>1. /\ workers[w] # Idle /\ Goto(w, "idle") /\ UNCHANGED <<reportVars, retryVars>>
  BY DEF PersistUnavailable, Idle
<1>2. run \in Run /\ GoodRun(run)
  BY <1>1, WorkerFacts
<1>3. "idle" \in WorkerStep /\ "queued" \in RunStatus /\ "failed" \in RunStatus
  BY DEF WorkerStep, RunStatus
<1>4. /\ again \in Run /\ again.report = run.report /\ again.status = "queued"
      /\ again.attempts = run.attempts
  BY <1>2, <1>3 DEF Run
<1>5. /\ over \in Run /\ over.report = run.report /\ over.status = "failed"
      /\ over.attempts = run.attempts
  BY <1>2, <1>3 DEF Run
<1>6. ASSUME Holds(w), NEW x \in {again, over}, Write(w, x),
             x = again => run.attempts < MaxAttempts
      PROVE  QueueInv'
  <2>1. run.status = "running" /\ ~Terminal(workers[w].run)
    BY <1>6 DEF Holds, Terminal
  <2>2. /\ x \in Run /\ x.status \in {"queued", "failed"}
        /\ x.report = runs[workers[w].run].report
        /\ x.attempts = runs[workers[w].run].attempts
    BY <1>4, <1>5, <1>6
  <2>3. GoodRun(x)
    BY <1>2, <1>4, <1>5, <1>6, <2>1 DEF GoodRun
  <2>4. \A v \in Workers : \A job : GoodJob(job, x, v)
    BY <2>2 DEF GoodJob
  <2> QED BY <1>1, <1>3, <1>6, <2>1, <2>2, <2>3, <2>4, WorkerRowStep
<1>7. CASE UNCHANGED runs
  BY <1>1, <1>3, <1>7, WorkerMoves
<1>8. CASE Holds(w) /\ workers[w].at = "requeue" /\ run.attempts < MaxAttempts
  <2>1. Write(w, again)
    BY <1>8 DEF PersistUnavailable
  <2> QED BY <1>6, <1>8, <2>1
<1>9. CASE Holds(w) /\ ~(workers[w].at = "requeue" /\ run.attempts < MaxAttempts)
  <2>1. Write(w, over)
    BY <1>9 DEF PersistUnavailable
  <2>2. over # again
    BY <1>4, <1>5
  <2> QED BY <1>6, <1>9, <2>1, <2>2
<1>10. ~Holds(w) => UNCHANGED runs
  BY DEF PersistUnavailable
<1> QED BY <1>7, <1>8, <1>9, <1>10

\* A failing database and a lost loop write nothing.
LEMMA StopStep ==
  ASSUME QueueInv, NEW w \in Workers, DatabaseFails(w) \/ Lose(w)
  PROVE  QueueInv'
<1>1. workers[w] # Idle /\ UNCHANGED <<reportVars, runs, retryVars>>
  BY DEF DatabaseFails, Lose, Idle
<1>2. "idle" \in WorkerStep /\ "fail" \in WorkerStep
  BY DEF WorkerStep
<1>3. CASE Goto(w, "fail")
  <2>1. [workers[w] EXCEPT !.at = "fail"].at = "fail"
    BY <1>1, <1>2, WorkerFacts
  <2>2. GoodJob([workers[w] EXCEPT !.at = "fail"], runs[workers[w].run], w)
    BY <2>1 DEF GoodJob
  <2> QED BY <1>1, <1>2, <1>3, <2>2, WorkerMoves
<1>4. CASE Goto(w, "idle")
  BY <1>1, <1>2, <1>4, WorkerMoves
<1> QED BY <1>3, <1>4 DEF DatabaseFails, Lose

-----------------------------------------------------------------------------
(***************************************************************************)
(* The theorems                                                            *)
(***************************************************************************)
\* Every step of the queue preserves the invariant.
THEOREM NextQueueInv == QueueInv /\ [Next]_vars => QueueInv'
<1> SUFFICES ASSUME QueueInv, [Next]_vars PROVE QueueInv'
  OBVIOUS
<1>1. TypeOK
  BY DEF QueueInv
<1>2. ASSUME NEW r \in Reports, NEW c \in Contents,
             SubmitReport(r, c) \/ EditReport(r, c) \/ ResubmitReport(r, c)
      PROVE  QueueInv'
  <2>1. content' \in [Reports -> Contents \cup {NoContent}] /\ answering' \subseteq Reports
    BY <1>1, <1>2 DEF SubmitReport, EditReport, ResubmitReport, TypeOK
  <2>2. CASE EditReport(r, c)
    BY <2>1, <2>2, ReportStep DEF EditReport
  <2>3. CASE SubmitReport(r, c) \/ ResubmitReport(r, c)
    <3>1. EnqueueReportAiRun(r, c) /\ UNCHANGED <<workers, retryVars>>
      BY <2>3 DEF SubmitReport, ResubmitReport
    <3> QED BY <2>1, <3>1, EnqueueStep
  <2> QED BY <1>2, <2>2, <2>3
<1>3. ASSUME NEW r \in Reports, RequestInformation(r) \/ RetryReportAiRun(r)
      PROVE  QueueInv'
  <2>1. CASE RequestInformation(r)
    <3>1. content' \in [Reports -> Contents \cup {NoContent}] /\ answering' \subseteq Reports
      BY <1>1, <2>1 DEF RequestInformation, TypeOK
    <3> QED BY <2>1, <3>1, ReportStep DEF RequestInformation
  <2> QED BY <1>3, <2>1, RetryStep
<1>4. ASSUME NEW n \in DOMAIN runs, LeaseExpires(n) \/ FallsDue(n)
      PROVE  QueueInv'
  BY <1>4, TimeStep
<1>5. ASSUME NEW w \in Workers,
             ClaimAiTriageRun(w) \/ Step(w) \/ DatabaseFails(w) \/ Lose(w)
      PROVE  QueueInv'
  BY <1>5, ClaimStep, AskProviderStep, PersistFingerprintStep, PersistReadyStep,
     FinishReadyStep, PersistUnavailableStep, StopStep DEF Step
<1>6. CASE UNCHANGED vars
  <2>1. UNCHANGED <<content, answering, runs, workers, retryVars>>
    BY <1>6 DEF vars, reportVars, retryVars
  <2>2. content' \in [Reports -> Contents \cup {NoContent}] /\ answering' \subseteq Reports
    BY <1>1, <2>1 DEF TypeOK
  <2> QED BY <2>1, <2>2, ReportStep
<1> QED BY <1>2, <1>3, <1>4, <1>5, <1>6 DEF Next

\* The invariant holds throughout: every completed run has its evidence, every
\* holder has recorded what its step presupposes, and whatever precedes a
\* started run in its program is over unless it was retried by hand.
THEOREM QueueInvHolds == Spec => []QueueInv
BY InitQueueInv, NextQueueInv, PTL DEF Spec

\* Rows and jobs keep their types, no run is tried more often than allowed, and
\* a run waits only while it has an attempt left.
THEOREM QueueTypeCorrect == Spec => []TypeOK
<1>1. QueueInv => TypeOK
  BY DEF QueueInv
<1> QED BY <1>1, QueueInvHolds, PTL

\* No run counts as completed without its fingerprint and its result, for any
\* number of worker loops, attempts and retries.
THEOREM CompletedHasResultHolds == Spec => []CompletedHasResult
<1>1. QueueInv => CompletedHasResult
  BY DEF QueueInv
<1> QED BY <1>1, QueueInvHolds, PTL

\* Crashes, lapsed leases and automatic attempts never make two runs of a
\* program execute together, however many programs share the queue.
THEOREM AloneUnlessRetriedHolds == Spec => []AloneUnlessRetried
<1>1. QueueInv => AloneUnlessRetried
  <2> SUFFICES ASSUME QueueInv, NEW n \in DOMAIN runs, NEW m \in DOMAIN runs,
                      n < m, SameProgram(n, m),
                      runs[n].status = "running", runs[m].status = "running"
               PROVE  n \in retried
    BY DEF AloneUnlessRetried
  <2>1. runs[m].attempts > 0
    BY DEF QueueInv, PriorsFinished
  <2>2. ~Terminal(n)
    BY DEF Terminal
  <2> QED BY <2>1, <2>2 DEF QueueInv, PriorsFinished
<1> QED BY <1>1, QueueInvHolds, PTL

\* A run that is completed stays so in the next step: a worker writes a status
\* only while it holds a running run, a claim starts queued ones, and a retry
\* passes over a run that has its result.
LEMMA CompletedStays ==
  ASSUME QueueInv, Next, NEW n \in DOMAIN runs, runs[n].status = "completed"
  PROVE  n \in DOMAIN runs' /\ runs'[n].status = "completed"
<1>1. runs \in Seq(Run) /\ runs[n] \in Run /\ runs[n].result # "none"
  BY DEF QueueInv, TypeOK, CompletedHasResult
<1>2. CASE UNCHANGED runs
  BY <1>2
<1>3. ASSUME NEW r \in Reports, NEW c \in Contents,
             runs' = Append([k \in DOMAIN runs |-> Supersede(runs[k], r)], Queued(r, c))
      PROVE  n \in DOMAIN runs' /\ runs'[n].status = "completed"
  <2> DEFINE old == [k \in DOMAIN runs |-> Supersede(runs[k], r)]
  <2>1. \A k \in DOMAIN runs : Supersede(runs[k], r) \in Run
    <3> SUFFICES ASSUME NEW k \in DOMAIN runs PROVE Supersede(runs[k], r) \in Run
      OBVIOUS
    <3>1. runs[k] \in Run
      BY <1>1
    <3> QED BY <3>1 DEF Supersede, Run
  <2>2. old \in Seq(Run) /\ DOMAIN old = DOMAIN runs /\ old[n] = Supersede(runs[n], r)
    BY <1>1, <2>1
  <2>3. Supersede(runs[n], r).status = "completed"
    BY <1>1 DEF Supersede, Run
  <2>4. runs' = Append(old, Queued(r, c))
    BY <1>3
  <2> HIDE DEF old
  <2>5. n \in DOMAIN runs' /\ runs'[n] = old[n]
    BY <2>2, <2>4
  <2> QED BY <2>2, <2>3, <2>5
<1>4. ASSUME NEW k \in DOMAIN runs, NEW x, runs' = [runs EXCEPT ![k] = x],
             k = n => x.status = "completed"
      PROVE  n \in DOMAIN runs' /\ runs'[n].status = "completed"
  BY <1>1, <1>4
<1>5. ASSUME NEW r \in Reports, RetryReportAiRun(r)
      PROVE  n \in DOMAIN runs' /\ runs'[n].status = "completed"
  <2>1. PICK k \in RunsOf(r) :
          /\ runs[k].status = "failed" \/ (runs[k].status = "completed" /\ runs[k].result = "none")
          /\ runs' = [runs EXCEPT ![k] = Queued(r, runs[k].hash)]
    BY <1>5 DEF RetryReportAiRun
  <2>2. k # n
    BY <1>1, <2>1
  <2>3. k \in DOMAIN runs
    BY DEF RunsOf
  <2> QED BY <1>4, <2>1, <2>2, <2>3
<1>6. ASSUME NEW k \in DOMAIN runs, LeaseExpires(k) \/ FallsDue(k)
      PROVE  n \in DOMAIN runs' /\ runs'[n].status = "completed"
  <2>1. CASE LeaseExpires(k)
    BY <1>1, <2>1 DEF LeaseExpires
  <2>2. CASE FallsDue(k)
    <3>1. [runs[k] EXCEPT !.due = TRUE].status = runs[k].status
      BY <1>1 DEF Run
    <3>2. runs' = [runs EXCEPT ![k] = [runs[k] EXCEPT !.due = TRUE]]
      BY <2>2 DEF FallsDue
    <3> QED BY <1>4, <3>1, <3>2
  <2> QED BY <1>6, <2>1, <2>2
<1>7. ASSUME NEW w \in Workers, ClaimAiTriageRun(w)
      PROVE  n \in DOMAIN runs' /\ runs'[n].status = "completed"
  <2>1. Swept(runs[n]) = runs[n]
    BY DEF Swept
  <2>2. ~MayStart(n)
    BY <2>1 DEF MayStart
  <2> QED BY <1>7, <2>1, <2>2 DEF ClaimAiTriageRun
<1>8. ASSUME NEW w \in Workers, Step(w) \/ DatabaseFails(w) \/ Lose(w)
      PROVE  n \in DOMAIN runs' /\ runs'[n].status = "completed"
  <2> DEFINE k == workers[w].run
  <2>1. workers[w] # Idle
    BY <1>8 DEF Step, AskProvider, PersistFingerprint, PersistReady, FinishReady,
                PersistUnavailable, DatabaseFails, Lose, Idle
  <2>2. k \in DOMAIN runs /\ runs[k] \in Run
    BY <2>1, WorkerFacts
  <2>3. Holds(w) => k # n
    BY DEF Holds
  <2>4. ASSUME Holds(w), NEW x, Write(w, x)
        PROVE  n \in DOMAIN runs' /\ runs'[n].status = "completed"
    BY <1>4, <2>2, <2>3, <2>4 DEF Write
  <2>5. CASE PersistReady(w)
    <3> DEFINE x == [runs[k] EXCEPT !.result = IF @ = "none" THEN "current" ELSE @]
    <3>1. x.status = runs[k].status
      BY <2>2 DEF Run
    <3>2. runs' = [runs EXCEPT ![k] = x]
      BY <2>5 DEF PersistReady, Write
    <3> HIDE DEF x
    <3> QED BY <1>4, <2>2, <3>1, <3>2
  <2>6. CASE PersistFingerprint(w)
    BY <1>2, <2>4, <2>6 DEF PersistFingerprint
  <2>7. CASE FinishReady(w)
    BY <1>2, <2>4, <2>7 DEF FinishReady
  <2>8. CASE PersistUnavailable(w)
    BY <1>2, <2>4, <2>8 DEF PersistUnavailable
  <2>9. CASE AskProvider(w) \/ DatabaseFails(w) \/ Lose(w)
    BY <1>2, <2>9 DEF AskProvider, DatabaseFails, Lose
  <2> QED BY <1>8, <2>5, <2>6, <2>7, <2>8, <2>9 DEF Step
<1>9. ASSUME NEW r \in Reports, NEW c \in Contents,
             SubmitReport(r, c) \/ EditReport(r, c) \/ ResubmitReport(r, c)
      PROVE  n \in DOMAIN runs' /\ runs'[n].status = "completed"
  BY <1>2, <1>3, <1>9 DEF SubmitReport, EditReport, ResubmitReport, EnqueueReportAiRun
<1>10. ASSUME NEW r \in Reports, RequestInformation(r)
       PROVE  n \in DOMAIN runs' /\ runs'[n].status = "completed"
  BY <1>2, <1>10 DEF RequestInformation
<1> QED BY <1>5, <1>6, <1>7, <1>8, <1>9, <1>10 DEF Next

\* A completed run is final and keeps a result, whatever a loop with an old
\* claim or a late retry still writes.
THEOREM CompletedIsFinalHolds == Spec => CompletedIsFinal
<1>1. QueueInv /\ QueueInv' /\ [Next]_vars =>
        [\A n \in DOMAIN runs :
           runs[n].status = "completed" =>
             runs'[n].status = "completed" /\ runs'[n].result # "none"]_vars
  <2> SUFFICES ASSUME QueueInv, QueueInv', Next, NEW n \in DOMAIN runs,
                      runs[n].status = "completed"
               PROVE  runs'[n].status = "completed" /\ runs'[n].result # "none"
    OBVIOUS
  <2>1. n \in DOMAIN runs' /\ runs'[n].status = "completed"
    BY CompletedStays
  <2> QED BY <2>1 DEF QueueInv, CompletedHasResult
<1> QED BY <1>1, QueueInvHolds, PTL DEF Spec, CompletedIsFinal
=============================================================================
