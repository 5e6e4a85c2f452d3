------------------------- MODULE DocumentProcessing -------------------------
(***************************************************************************)
(* Understanding and indexing of a Source.  The API begins a run with      *)
(* start() or, after a failure or a review, with reprocess()               *)
(* (document_processing_postgres.py); a run has one job, which workers     *)
(* claim through the SQL function of migration 0011 and process            *)
(* (document_processing_worker.py): load the original, ask the models,     *)
(* complete the run, index the facts, close the job.  Each of these is a   *)
(* transaction of its own, none but the last looks at the lease, and       *)
(* nothing renews a lease, so two workers may go through them at once.     *)
(*                                                                         *)
(* A job is a pair <<source, n>>, n the number of its run.  What a model   *)
(* answers is "review" or a member of Facts: two attempts may differ.      *)
(***************************************************************************)
EXTENDS Naturals, FiniteSets

CONSTANTS
  Sources,
  Bound,           \* sources stored as xlsx, docx, pptx or wav
  Reviewable,      \* sources stored as docx or pptx
  Facts,           \* key facts a model may find
  Workers,
  MaxRuns,         \* bound on the runs of a source
  MaxDisturbances, \* bound on worker deaths and premature lease expirations
  None

Runs == 1 .. MaxRuns
Jobs == Sources \X Runs
Review == "review"
Answers == Facts \cup {Review}

ASSUME DocumentAssumption ==
  /\ Reviewable \subseteq Bound /\ Bound \subseteq Sources
  /\ Review \notin Facts
  /\ MaxRuns \in Nat /\ MaxDisturbances \in Nat
  /\ None \notin Jobs /\ None \notin Answers

VARIABLES
  source,    \* sources.state
  latest,    \* number of runs begun for a source
  run,       \* processing_runs.state
  stored,    \* understanding_results of the run
  index,     \* index_versions of the source: <<run, facts>>
  job,       \* document_processing_jobs
  history,   \* document_processing_job_attempts
  worker,    \* what each worker process holds between its steps
  disturbed

canon == <<source, latest, run, stored, index>>
queue == <<job, history>>
vars == <<source, latest, run, stored, index, job, history, worker, disturbed>>

SourceState == {"registered", "processing", "ready", "needs_review", "failed", "waiting_model"}
RunState == {"absent", "understanding", "completed", "failed"}
Terminal == {"completed", "failed"}
JobState == {"absent", "pending", "leased", "completed", "dead_letter"}
JobRow == [state: JobState, attempt: Nat, version: Nat, expired: BOOLEAN]
NoJob == [state |-> "absent", attempt |-> 0, version |-> 0, expired |-> FALSE]
Pending == [state |-> "pending", attempt |-> 0, version |-> 1, expired |-> FALSE]
AttemptRow == [attempt: Nat, outcome: {"completed", "dead_letter", "lease_lost"}]

Phase == {"idle", "claimed", "loaded", "understood", "failing", "indexing",
          "closing", "rejecting"}
WorkerState == [phase: Phase, job: Jobs \cup {None}, version: Nat, attempt: Nat,
                answer: Answers \cup {None}, retryable: BOOLEAN]
Idle == [phase |-> "idle", job |-> None, version |-> 0, attempt |-> 0, answer |-> None,
         retryable |-> FALSE]

Init ==
  /\ source = [s \in Sources |-> "registered"]
  /\ latest = [s \in Sources |-> 0]
  /\ run = [j \in Jobs |-> "absent"]
  /\ stored = [j \in Jobs |-> None]
  /\ index = [s \in Sources |-> {}]
  /\ job = [j \in Jobs |-> NoJob]
  /\ history = [j \in Jobs |-> {}]
  /\ worker = [w \in Workers |-> Idle]
  /\ disturbed = 0

---------------------------------------------------------------------------
(* Beginning a run.                                                        *)

Begun(s, n) ==
  /\ source' = [source EXCEPT ![s] = "processing"]
  /\ latest' = [latest EXCEPT ![s] = n]
  /\ run' = [run EXCEPT ![<<s, n>>] = "understanding"]
  /\ job' = [job EXCEPT ![<<s, n>>] = IF @.state = "absent" THEN Pending ELSE @]
  /\ UNCHANGED <<stored, index, history, worker, disturbed>>

\* Mutant: an initial run that has ended is begun again.
SubmitEndedRun(s) ==
  /\ 1 \in Runs
  /\ source[s] \in {"registered", "waiting_model", "needs_review", "failed"}
  /\ Begun(s, 1)

\* The initial run, whose id depends on the source version alone.  A source whose
\* initial run is still being understood is left as it is.
Submit(s) ==
  /\ 1 \in Runs
  /\ source[s] \in {"registered", "waiting_model", "needs_review", "failed"}
  /\ run[<<s, 1>>] \in {"absent", "understanding"}
  /\ Begun(s, 1)

Active(s) == \E n \in Runs : \/ run[<<s, n>>] = "understanding"
                             \/ job[<<s, n>>].state \in {"pending", "leased"}

FailedRetry(s) ==
  LET j == <<s, latest[s]>> IN
  /\ source[s] \in {"failed", "waiting_model"}
  /\ run[j] = "failed" /\ job[j].state = "dead_letter"

ReviewRetry(s) ==
  LET j == <<s, latest[s]>> IN
  /\ s \in Reviewable /\ source[s] = "needs_review"
  /\ run[j] = "completed" /\ job[j].state = "completed"
  /\ stored[j] = Review

Retryable(s) == latest[s] > 0 /\ ~Active(s) /\ (FailedRetry(s) \/ ReviewRetry(s))

Reprocess(s) ==
  /\ latest[s] < MaxRuns
  /\ Retryable(s)
  /\ Begun(s, latest[s] + 1)

---------------------------------------------------------------------------
(* The queue: claim_document_processing_job, complete, fail_terminal.      *)

\* Mutant: migration 0008, which claimed pending jobs only.
ClaimablePending(j) == job[j].state = "pending"
Claimable(j) ==
  \/ job[j].state = "pending"
  \/ job[j].state = "leased" /\ job[j].expired

\* Taking over an expired lease files the lost attempt.
\* Mutant: the takeover leaves no trace.
HistoryAfterSilentClaim(j) == history[j]
HistoryAfterClaim(j) ==
  IF job[j].state = "leased" /\ ~\E a \in history[j] : a.attempt = job[j].attempt
  THEN history[j] \cup {[attempt |-> job[j].attempt, outcome |-> "lease_lost"]}
  ELSE history[j]

\* The SQL claim; max_attempts is not looked at.
Claim(w, j) ==
  /\ worker[w].phase = "idle"
  /\ Claimable(j)
  /\ history' = [history EXCEPT ![j] = HistoryAfterClaim(j)]
  /\ job' = [job EXCEPT ![j] = [state |-> "leased", attempt |-> @.attempt + 1,
                                version |-> @.version + 1, expired |-> FALSE]]
  /\ worker' = [worker EXCEPT ![w] =
       [phase |-> "claimed", job |-> j, version |-> job[j].version + 1,
        attempt |-> job[j].attempt + 1, answer |-> None, retryable |-> FALSE]]
  /\ UNCHANGED <<canon, disturbed>>

\* _assert_lease: an expired lease is refused even if nobody took it over.
HoldsLease(w) ==
  LET row == job[worker[w].job] IN
  /\ row.state = "leased" /\ ~row.expired
  /\ row.version = worker[w].version /\ row.attempt = worker[w].attempt

\* The job and its attempt row end together.
Settle(w, outcome) ==
  LET j == worker[w].job IN
  /\ HoldsLease(w)
  /\ ~\E a \in history[j] : a.attempt = worker[w].attempt
  /\ job' = [job EXCEPT ![j].state = outcome, ![j].version = @ + 1, ![j].expired = FALSE]
  /\ history' = [history EXCEPT ![j] =
       @ \cup {[attempt |-> worker[w].attempt, outcome |-> outcome]}]
  /\ worker' = [worker EXCEPT ![w] = Idle]
  /\ UNCHANGED <<canon, disturbed>>

Close(w) == worker[w].phase = "closing" /\ Settle(w, "completed")
Reject(w) == worker[w].phase = "rejecting" /\ Settle(w, "dead_letter")

---------------------------------------------------------------------------
(* Processing: process_existing, _execute, index_result.                   *)

Moves(w, phase) == worker' = [worker EXCEPT ![w].phase = phase]
Fails(w, retryable) ==
  worker' = [worker EXCEPT ![w].phase = "failing", ![w].retryable = retryable]

Load(w) ==
  /\ worker[w].phase = "claimed"
  /\ Moves(w, "loaded")
  /\ UNCHANGED <<canon, queue, disturbed>>

\* Once the run is known to belong to the source a bad original fails the run; an
\* error before that, or in authorize_readiness_run, goes straight to the queue.
LoadFails(w, known, retryable) ==
  /\ worker[w].phase = "claimed"
  /\ IF known THEN Fails(w, retryable) ELSE Moves(w, "rejecting")
  /\ UNCHANGED <<canon, queue, disturbed>>

Understand(w, answer) ==
  /\ worker[w].phase = "loaded"
  /\ worker' = [worker EXCEPT ![w].phase = "understood", ![w].answer = answer]
  /\ UNCHANGED <<canon, queue, disturbed>>

\* The models, the validation of their answer or the completing transaction raise.
ExecutionRaises(w, retryable) ==
  /\ worker[w].phase \in {"loaded", "understood"}
  /\ Fails(w, retryable)
  /\ UNCHANGED <<canon, queue, disturbed>>

\* The transitions of a run carry ids made of the run, the target and the version, so
\* a second worker's transitions of a completed run are replays and succeed; the bound
\* formats insist on an untouched run.
\* Mutant: a bound format replays like any other.
AcceptsResultReplayed(w) == run[worker[w].job] \in {"understanding", "completed"}
AcceptsResult(w) ==
  LET j == worker[w].job IN
  run[j] \in (IF j[1] \in Bound THEN {"understanding"} ELSE {"understanding", "completed"})

\* The stored result is the first one: INSERT ... ON CONFLICT DO NOTHING.
StoredAfter(w) == IF stored[worker[w].job] = None THEN worker[w].answer ELSE stored[worker[w].job]

CompleteRun(w, ack) ==
  LET j == worker[w].job
      s == j[1]
      review == worker[w].answer = Review
  IN
  /\ worker[w].phase = "understood"
  /\ AcceptsResult(w)
  /\ review => source[s] = "processing"
  /\ run' = [run EXCEPT ![j] = "completed"]
  /\ stored' = [stored EXCEPT ![j] = StoredAfter(w)]
  /\ source' = [source EXCEPT ![s] = IF review THEN "needs_review" ELSE @]
  /\ IF ack THEN Moves(w, IF review THEN "closing" ELSE "indexing") ELSE Fails(w, TRUE)
  /\ UNCHANGED <<latest, index, queue, disturbed>>

\* _fail: a finished run is left alone, and so is a source that is not processing.
\* Mutant: a late failure reaches a finished run.
FailableAlways(j) == TRUE
Failable(j) == run[j] \notin Terminal

FailedAs(w) == IF worker[w].retryable THEN "waiting_model" ELSE "failed"

FailRun(w) ==
  LET j == worker[w].job
      s == j[1]
  IN
  /\ worker[w].phase = "failing"
  /\ IF Failable(j)
       THEN /\ run' = [run EXCEPT ![j] = "failed"]
            /\ source' = [source EXCEPT ![s] =
                 IF @ = "processing" THEN FailedAs(w) ELSE @]
       ELSE UNCHANGED <<run, source>>
  /\ Moves(w, "rejecting")
  /\ UNCHANGED <<latest, stored, index, queue, disturbed>>

\* The failing transaction raises in its turn: the job is rejected all the same.
FailRunRaises(w) ==
  /\ worker[w].phase = "failing"
  /\ Moves(w, "rejecting")
  /\ UNCHANGED <<canon, queue, disturbed>>

\* The newest understanding of the source must be the worker's own.
Newest(j) ==
  /\ stored[j] # None
  /\ \A n \in Runs : stored[<<j[1], n>>] # None => n <= j[2]

Indexable(s) == source[s] = "processing"

\* index_result reads the newest understanding, compares its facts and passes the
\* source through indexing to ready.
Index(w, n, ack) ==
  LET s == worker[w].job[1]
      j == <<s, n>>
  IN
  /\ worker[w].phase = "indexing"
  /\ Newest(j) /\ stored[j] = worker[w].answer
  /\ Indexable(s)
  /\ index' = [index EXCEPT ![s] = @ \cup {<<n, stored[j]>>}]
  /\ source' = [source EXCEPT ![s] = "ready"]
  /\ Moves(w, IF ack THEN "closing" ELSE "rejecting")
  /\ UNCHANGED <<latest, run, stored, queue, disturbed>>

\* A fact that no page supports, another worker's result, a source that is no longer
\* processing, a failing database.  Nobody fails the run: it is completed.
IndexRaises(w) ==
  /\ worker[w].phase = "indexing"
  /\ Moves(w, "rejecting")
  /\ UNCHANGED <<canon, queue, disturbed>>

---------------------------------------------------------------------------
(* Lost leases, deaths and time.                                           *)

\* DOCUMENT_JOB_LEASE_LOST leaves run_forever; the container is started again.
LeaseLost(w) ==
  /\ worker[w].phase \in {"closing", "rejecting"}
  /\ ~HoldsLease(w)
  /\ worker' = [worker EXCEPT ![w] = Idle]
  /\ UNCHANGED <<canon, queue, disturbed>>

Abandon(w) ==
  /\ worker[w].phase # "idle"
  /\ disturbed < MaxDisturbances
  /\ worker' = [worker EXCEPT ![w] = Idle]
  /\ disturbed' = disturbed + 1
  /\ UNCHANGED <<canon, queue>>

Working(j) == \E w \in Workers : worker[w].job = j /\ worker[w].version = job[j].version

LeaseExpires(j) ==
  /\ job[j].state = "leased" /\ ~job[j].expired /\ ~Working(j)
  /\ job' = [job EXCEPT ![j].expired = TRUE]
  /\ UNCHANGED <<canon, history, worker, disturbed>>

LeaseExpiresEarly(j) ==
  /\ job[j].state = "leased" /\ ~job[j].expired /\ Working(j)
  /\ disturbed < MaxDisturbances
  /\ job' = [job EXCEPT ![j].expired = TRUE]
  /\ disturbed' = disturbed + 1
  /\ UNCHANGED <<canon, history, worker>>

---------------------------------------------------------------------------
Process(w) ==
  \/ Load(w)
  \/ \E known, retryable \in BOOLEAN : LoadFails(w, known, retryable)
  \/ \E answer \in Answers : Understand(w, answer)
  \/ \E retryable \in BOOLEAN : ExecutionRaises(w, retryable)
  \/ \E ack \in BOOLEAN : CompleteRun(w, ack)
  \/ FailRun(w) \/ FailRunRaises(w)
  \/ \E n \in Runs, ack \in BOOLEAN : Index(w, n, ack)
  \/ IndexRaises(w)
  \/ Close(w) \/ Reject(w) \/ LeaseLost(w)

RunOnce(w) == (\E j \in Jobs : Claim(w, j)) \/ Process(w)

Next ==
  \/ \E s \in Sources : Submit(s) \/ Reprocess(s)
  \/ \E w \in Workers : RunOnce(w) \/ Abandon(w)
  \/ \E j \in Jobs : LeaseExpires(j) \/ LeaseExpiresEarly(j)

Spec == Init /\ [][Next]_vars

\* run_forever polls for ever and is restarted when it ends, every call of a model has a
\* timeout, and time passes.
Fairness ==
  /\ \A w \in Workers : WF_vars(RunOnce(w))
  /\ \A j \in Jobs : WF_vars(LeaseExpires(j))

FairSpec == Spec /\ Fairness

---------------------------------------------------------------------------
(* Properties.                                                             *)

\* Every row satisfies the CHECK constraints of migrations 0003 and 0008, and a busy
\* worker holds a job.
TypeOK ==
  /\ source \in [Sources -> SourceState]
  /\ latest \in [Sources -> 0 .. MaxRuns]
  /\ run \in [Jobs -> RunState]
  /\ stored \in [Jobs -> Answers \cup {None}]
  /\ index \in [Sources -> SUBSET (Runs \X Answers)]
  /\ job \in [Jobs -> JobRow]
  /\ history \in [Jobs -> SUBSET AttemptRow]
  /\ worker \in [Workers -> WorkerState]
  /\ \A w \in Workers : worker[w].phase # "idle" => worker[w].job \in Jobs
  /\ disturbed \in Nat

Settled == {"completed", "dead_letter"}

\* The attempt history has exactly one row for every attempt that is over, and the last
\* row of a settled job says how it settled, although takeovers file the attempts of
\* workers that may still be running.
HistoryExact ==
  \A j \in Jobs :
    /\ \A a, b \in history[j] : a.attempt = b.attempt => a = b
    /\ \A a \in history[j] :
         /\ a.attempt >= 1 /\ a.attempt <= job[j].attempt
         /\ job[j].state = "leased" => a.attempt < job[j].attempt
    /\ \A k \in 1 .. job[j].attempt :
         k < job[j].attempt \/ job[j].state \in Settled => \E a \in history[j] : a.attempt = k
    /\ job[j].state \in Settled =>
         [attempt |-> job[j].attempt, outcome |-> job[j].state] \in history[j]

\* Only the newest run of a source is ever open: all earlier ones are finished and their
\* jobs settled.
OneOpenRun ==
  \A s \in Sources, n \in Runs :
    /\ n < latest[s] => run[<<s, n>>] \in Terminal /\ job[<<s, n>>].state \in Settled
    /\ n > latest[s] => run[<<s, n>>] = "absent" /\ job[<<s, n>>].state = "absent"

\* The state a user sees on a source is the outcome of its newest run.  A ready source
\* has exactly one index, built from the facts stored for that run; a source to be
\* reviewed has a finished run and, in a bound format, a stored conflict.
SourceAgrees ==
  \A s \in Sources :
    LET j == <<s, latest[s]>> IN
    /\ source[s] = "registered" <=> latest[s] = 0
    /\ source[s] = "processing" => run[j] \in {"understanding", "completed"}
    /\ source[s] \in {"failed", "waiting_model"} => run[j] = "failed"
    /\ source[s] = "needs_review" => run[j] = "completed" /\ (s \in Bound => stored[j] = Review)
    /\ source[s] = "ready" => /\ run[j] = "completed" /\ stored[j] \in Facts
                              /\ index[s] = {<<latest[s], stored[j]>>}
    /\ source[s] # "ready" => index[s] = {}

\* A job that was closed as completed left its source usable or waiting for a reviewer.
CompletedUsable ==
  \A s \in Sources, n \in Runs :
    job[<<s, n>>].state = "completed" =>
      /\ run[<<s, n>>] = "completed"
      /\ n = latest[s] => source[s] \in {"ready", "needs_review"}

Holding(w, j) == worker[w].phase # "idle" /\ worker[w].job = j

\* "A late notification for an old Run must not fail a Source that a newer manual Run is
\* currently processing": a worker that still holds an old run changes no source, run,
\* result or index.
LateRunHarmless ==
  [][\A w \in Workers, j \in Jobs :
       Holding(w, j) /\ worker'[w] # worker[w] /\ j[2] < latest[j[1]] => canon' = canon]_vars

\* A finished run keeps its verdict and its result, and a ready source stays ready,
\* whichever of several workers on the same job comes last.
VerdictFinal ==
  [][/\ \A j \in Jobs : /\ run[j] \in Terminal => run'[j] = run[j]
                        /\ stored[j] # None => stored'[j] = stored[j]
     /\ \A s \in Sources : source[s] = "ready" =>
          source'[s] = "ready" /\ index'[s] = index[s]]_vars

Lifecycle == INSTANCE SourceLifecycle WITH state <- source, round <- latest

\* Document processing implements the life cycle it promises for a source.
ImplementsLifecycle == Lifecycle!LifecycleSpec

\* Every job ends, although workers die and leases run out under them.
JobsSettle == \A j \in Jobs : job[j].state = "pending" ~> job[j].state \in Settled

\* A source, its runs, their jobs and the index agree, and at most one run is open.
RunsAgree == TypeOK /\ OneOpenRun /\ SourceAgrees /\ CompletedUsable

\* Workers that lost their job, or hold an old one, disturb nothing.
LateWorkersHarmless == VerdictFinal /\ LateRunHarmless
=============================================================================
