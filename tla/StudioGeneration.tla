-------------------------- MODULE StudioGeneration --------------------------
(***************************************************************************)
(* Asynchronous Studio generation.  The API plans and admits a typed job   *)
(* (studio_execution.py, studio_execution_postgres.py) or enqueues a       *)
(* legacy one (studio_workspace_postgres.py); workers claim jobs through   *)
(* the SQL function of migration 0027 and process them                     *)
(* (studio_generation_worker.py).  A typed job calls a paid provider, at   *)
(* most once, between two transactions: the dispatch claim, whose run_steps*)
(* row is the only evidence that a call may have been made, and the finish,*)
(* which accounts for it and publishes.  A worker that meets the start row *)
(* of somebody else's dispatch records the run as uncertain and never      *)
(* sends.                                                                  *)
(*                                                                         *)
(* Every transaction is one action, and so is the provider call.  All that *)
(* `_current' compares (model, sources, session, policy) is one version    *)
(* number per job, world[j].  Time is the flags `due' and `expired'.       *)
(***************************************************************************)
EXTENDS Naturals, FiniteSets

CONSTANTS
  Typed,         \* jobs with an execution_plan_id
  Legacy,        \* jobs of the template branch
  StepUp,        \* typed jobs whose egress policy asks for a step-up
  Workers,
  MaxAttempts,   \* studio_generation_jobs.max_attempts, and retry()'s budget
  MaxChanges,    \* bound on changes of a job's world
  MaxDisturbances, \* bound on worker deaths and premature lease expirations
  None

Jobs == Typed \cup Legacy

ASSUME StudioAssumption ==
  /\ Typed \cap Legacy = {}
  /\ StepUp \subseteq Typed
  /\ MaxAttempts \in Nat \ {0}
  /\ MaxChanges \in Nat
  /\ MaxDisturbances \in Nat
  /\ None \notin Jobs

VARIABLES
  world,     \* version of everything _current looks at
  plan,      \* generation_settings_snapshots: the plan of a typed job
  grant,     \* the step-up authorization bound to the plan
  job,       \* studio_generation_jobs
  start,     \* run_steps "start": dispatch_job_version, 0 when absent
  run,       \* runs.state
  terminal,  \* run_steps "terminal" and "terminal-observed"
  ledger,    \* model_attempts with its cost ("attempt"), cost of a mere start
  output,    \* the job's studio output exists
  sent,      \* calls of the provider
  worker,    \* what each worker thread holds between its steps
  clock,     \* last next_attempt_at handed out
  disturbed

admission == <<plan, grant>>
execution == <<start, run, terminal, ledger, output>>
vars == <<world, plan, grant, job, start, run, terminal, ledger, output, sent,
          worker, clock, disturbed>>

Held == {"leased", "generating"}
Settled == {"completed", "failed", "unavailable"}
JobState == {"absent", "queued"} \cup Held \cup Settled

NoPlan == [made |-> FALSE, epoch |-> 0, expired |-> FALSE]
NoJob == [state |-> "absent", attempt |-> 0, version |-> 0, due |-> FALSE,
          expired |-> FALSE, at |-> 0]
NoTerminal == [kind |-> "none", status |-> "none", observed |-> FALSE]
Idle == [phase |-> "idle", job |-> None, version |-> 0, attempt |-> 0, reply |-> "none"]

Phase == {"idle", "claimed", "looking", "opening", "opened", "dispatched", "replied",
          "uncertain", "recovering", "marking", "failing",
          "working", "made", "unavailable", "permanent", "transient"}
Reply == {"none", "typed", "insufficient", "error"}
JobRow == [state: JobState, attempt: Nat, version: Nat, due: BOOLEAN, expired: BOOLEAN,
           at: Nat]
PlanRow == [made: BOOLEAN, epoch: Nat, expired: BOOLEAN]
TerminalRow == [kind: {"none", "terminal", "uncertain"}, status: {"none"} \cup Settled,
                observed: BOOLEAN]
WorkerState == [phase: Phase, job: Jobs \cup {None}, version: Nat, attempt: Nat, reply: Reply]

Init ==
  /\ world = [j \in Jobs |-> 0]
  /\ plan = [j \in Jobs |-> NoPlan]
  /\ grant = [j \in Jobs |-> "none"]
  /\ job = [j \in Jobs |-> NoJob]
  /\ start = [j \in Jobs |-> 0]
  /\ run = [j \in Jobs |-> "absent"]
  /\ terminal = [j \in Jobs |-> NoTerminal]
  /\ ledger = [j \in Jobs |-> {}]
  /\ output = [j \in Jobs |-> FALSE]
  /\ sent = [j \in Jobs |-> 0]
  /\ worker = [w \in Workers |-> Idle]
  /\ clock = 0
  /\ disturbed = 0

---------------------------------------------------------------------------
(* Admission: authorize and enqueue, each a chain of transactions.         *)

\* prepare: the plan is pinned to the world its payload was built from.
Prepare(j) ==
  /\ ~plan[j].made
  /\ plan' = [plan EXCEPT ![j] = [made |-> TRUE, epoch |-> world[j], expired |-> FALSE]]
  /\ UNCHANGED <<world, grant, job, execution, sent, worker, clock, disturbed>>

\* authorize: a re-authenticated user gets a step-up bound to the plan.
IssueGrant(j) ==
  /\ j \in StepUp /\ plan[j].made
  /\ grant[j] = "none"
  /\ grant' = [grant EXCEPT ![j] = "issued"]
  /\ UNCHANGED <<world, plan, job, execution, sent, worker, clock, disturbed>>

\* enqueue, first transaction: identity consumes the step-up.  Consuming it again
\* under the same key is a replay, so a consumed grant stays usable for the plan.
ConsumeGrant(j) ==
  /\ grant[j] = "issued"
  /\ grant' = [grant EXCEPT ![j] = "consumed"]
  /\ UNCHANGED <<world, plan, job, execution, sent, worker, clock, disturbed>>

Consented(j) == j \in StepUp => grant[j] = "consumed"

Queued == [state |-> "queued", attempt |-> 0, version |-> 1, due |-> TRUE,
           expired |-> FALSE, at |-> clock + 1]

Current(j) == plan[j].epoch = world[j]

\* enqueue, second transaction: admission row and job row.
Admit(j) ==
  /\ plan[j].made /\ ~plan[j].expired
  /\ Consented(j)
  /\ Current(j)
  /\ job[j].state = "absent"
  /\ job' = [job EXCEPT ![j] = Queued]
  /\ clock' = clock + 1
  /\ UNCHANGED <<world, admission, execution, sent, worker, disturbed>>

EnqueueLegacy(j) ==
  /\ job[j].state = "absent"
  /\ job' = [job EXCEPT ![j] = Queued]
  /\ clock' = clock + 1
  /\ UNCHANGED <<world, admission, execution, sent, worker, disturbed>>

---------------------------------------------------------------------------
(* The queue: claim_studio_generation_job, start, retry, finish.           *)

\* Mutant: the takeover of migration 0024, which only looked at leased rows.
EligibleLeasedOnly(j) ==
  \/ job[j].state = "queued" /\ job[j].due
  \/ job[j].state = "leased" /\ job[j].expired
Eligible(j) ==
  \/ job[j].state = "queued" /\ job[j].due
  \/ job[j].state \in Held /\ job[j].expired

\* The candidate is chosen by next_attempt_at alone ...
Candidate(j) == Eligible(j) /\ \A k \in Jobs : Eligible(k) => job[j].at <= job[k].at

\* ... and only then held against its attempt budget.
Claim(w, j) ==
  /\ worker[w].phase = "idle"
  /\ Candidate(j)
  /\ job[j].attempt < MaxAttempts
  /\ job' = [job EXCEPT ![j].state = "leased", ![j].attempt = @ + 1, ![j].version = @ + 1,
                        ![j].expired = FALSE]
  /\ worker' = [worker EXCEPT ![w] =
       [phase |-> "claimed", job |-> j, version |-> job[j].version + 1,
        attempt |-> job[j].attempt + 1, reply |-> "none"]]
  /\ UNCHANGED <<world, admission, execution, sent, clock, disturbed>>

\* The condition of every conditional UPDATE of a claimed job.
\* Mutant: the version is not compared.
HoldsJobAnyVersion(w) == job[worker[w].job].state \in Held
HoldsJob(w) == /\ job[worker[w].job].state \in Held
               /\ job[worker[w].job].version = worker[w].version

Moves(w, phase) == worker' = [worker EXCEPT ![w].phase = phase]

\* What an exception leads to: recovery for a typed job, retry for a legacy one.
Handler(w) == IF worker[w].job \in Typed THEN "recovering" ELSE "transient"
\* The phase after a committed transaction, whose answer may be lost.
Acked(w, ack, phase) == IF ack THEN phase ELSE Handler(w)

Start(w, ack) ==
  LET j == worker[w].job IN
  /\ worker[w].phase = "claimed"
  /\ job[j].state = "leased" /\ HoldsJob(w)
  /\ job' = [job EXCEPT ![j].state = "generating"]
  /\ Moves(w, Acked(w, ack, IF j \in Typed THEN "looking" ELSE "working"))
  /\ UNCHANGED <<world, admission, execution, sent, clock, disturbed>>

\* The conditional UPDATE that ends a job.
Ended(j, status) ==
  job' = [job EXCEPT ![j].state = status, ![j].version = @ + 1, ![j].expired = FALSE]

---------------------------------------------------------------------------
(* A typed job: StudioExecutionService.process.                            *)

\* Mutant: the start row is looked up per lease instead of per plan.
HasStartedThisLease(w) == start[worker[w].job] = worker[w].version
HasStarted(w) == start[worker[w].job] # 0

Look(w) ==
  /\ worker[w].phase = "looking"
  /\ Moves(w, IF HasStarted(w) THEN "uncertain" ELSE "opening")
  /\ UNCHANGED <<world, admission, job, execution, sent, clock, disturbed>>

\* The payload is rebuilt and must come out as the plan pinned it.
Open(w) ==
  /\ worker[w].phase = "opening"
  /\ Current(worker[w].job)
  /\ Moves(w, "opened")
  /\ UNCHANGED <<world, admission, job, execution, sent, clock, disturbed>>

\* The dispatch claim: repository.claim.
Dispatch(w, ack) ==
  LET j == worker[w].job IN
  /\ worker[w].phase = "opened"
  /\ Current(j)
  /\ job[j].state = "generating" /\ HoldsJob(w)
  /\ HasStarted(w) \/ ~plan[j].expired
  /\ IF HasStarted(w)
       THEN UNCHANGED <<start, run>>
       ELSE /\ start' = [start EXCEPT ![j] = worker[w].version]
            /\ run' = [run EXCEPT ![j] = "generating"]
  /\ Moves(w, Acked(w, ack, IF HasStarted(w) THEN "uncertain" ELSE "dispatched"))
  /\ UNCHANGED <<world, admission, job, terminal, ledger, output, sent, clock, disturbed>>

\* prepared.send().  A StudioError or an insufficient answer ends unavailable, a
\* transport error ends uncertain, anything unforeseen goes to the handler.
Send(w, reply) ==
  /\ worker[w].phase = "dispatched"
  /\ sent' = [sent EXCEPT ![worker[w].job] = @ + 1]
  /\ worker' = [worker EXCEPT ![w].reply = reply,
                              ![w].phase = IF reply = "none" THEN "recovering" ELSE "replied"]
  /\ UNCHANGED <<world, admission, job, execution, clock, disturbed>>

\* The status finish gives the job.
Status(reply, current, published) ==
  IF published THEN "completed"
  ELSE IF reply = "insufficient" /\ current THEN "unavailable" ELSE "failed"

\* repository.finish.  After somebody declared the run uncertain the observation
\* is only filed; before that it ends the run, the job and the terminal row even
\* if the lease has moved on, but only a current lease publishes.
Finish(w, saves, ack) ==
  LET j == worker[w].job
      late == terminal[j].kind = "uncertain"
      current == job[j].state = "generating" /\ HoldsJob(w)
      published == worker[w].reply = "typed" /\ current /\ Current(j) /\ saves
      status == Status(worker[w].reply, current, published)
  IN
  /\ worker[w].phase = "replied"
  /\ start[j] = worker[w].version
  /\ job[j].version >= worker[w].version
  /\ ledger' = [ledger EXCEPT ![j] = @ \cup {"attempt"}]
  /\ \/ /\ late /\ job[j].state = "failed"
        /\ terminal' = [terminal EXCEPT ![j].observed = TRUE]
        /\ UNCHANGED <<job, run, output>>
     \/ /\ ~late /\ job[j].state \in Held
        /\ run' = [run EXCEPT ![j] = IF published THEN "completed" ELSE "failed"]
        /\ terminal' = [terminal EXCEPT ![j] =
             [kind |-> "terminal", status |-> status, observed |-> FALSE]]
        /\ output' = [output EXCEPT ![j] = published]
        /\ Ended(j, status)
  /\ worker' = [worker EXCEPT ![w] = IF ack THEN Idle ELSE [@ EXCEPT !.phase = "recovering"]]
  /\ UNCHANGED <<world, admission, start, sent, clock, disturbed>>

\* A start is no proof that the provider was called: only the start is charged.
UncertainLedger(j) == ledger[j] \cup {"start"}

\* repository.mark_uncertain, from process or from recover_uncertain.  An existing
\* terminal row is the answer; otherwise the caller must still hold the job.
MarkUncertain(w, ack) ==
  LET j == worker[w].job IN
  /\ worker[w].phase \in {"uncertain", "marking"}
  /\ \/ terminal[j].kind # "none" /\ UNCHANGED <<job, run, terminal, ledger>>
     \/ /\ terminal[j].kind = "none" /\ HoldsJob(w)
        /\ ledger' = [ledger EXCEPT ![j] = UncertainLedger(j)]
        /\ run' = [run EXCEPT ![j] = "failed"]
        /\ terminal' = [terminal EXCEPT ![j] =
             [kind |-> "uncertain", status |-> "failed", observed |-> FALSE]]
        /\ Ended(j, "failed")
  /\ worker' = [worker EXCEPT ![w] = IF ack \/ @.phase = "marking" THEN Idle
                                     ELSE [@ EXCEPT !.phase = "recovering"]]
  /\ UNCHANGED <<world, admission, start, output, sent, clock, disturbed>>

\* The exception branch of run_once: recover_uncertain, else finish as failed.
Recover(w) ==
  /\ worker[w].phase = "recovering"
  /\ Moves(w, IF HasStarted(w) THEN "marking" ELSE "failing")
  /\ UNCHANGED <<world, admission, job, execution, sent, clock, disturbed>>

FailJob(w) ==
  /\ worker[w].phase = "failing"
  /\ HoldsJob(w)
  /\ Ended(worker[w].job, "failed")
  /\ worker' = [worker EXCEPT ![w] = Idle]
  /\ UNCHANGED <<world, admission, execution, sent, clock, disturbed>>

---------------------------------------------------------------------------
(* A legacy job: create_generation is one idempotent transaction that does *)
(* not look at the lease.                                                  *)

Generate(w, outcome) ==
  /\ worker[w].phase = "working"
  /\ output' = [output EXCEPT ![worker[w].job] = @ \/ outcome = "made"]
  /\ Moves(w, outcome)
  /\ UNCHANGED <<world, admission, job, start, run, terminal, ledger, sent, clock, disturbed>>

\* queue.retry below the budget, with the next attempt a delay away.
Retry(w) ==
  LET j == worker[w].job IN
  /\ worker[w].phase = "transient" /\ worker[w].attempt < MaxAttempts
  /\ HoldsJob(w)
  /\ job' = [job EXCEPT ![j].state = "queued", ![j].version = @ + 1, ![j].due = FALSE,
                        ![j].expired = FALSE]
  /\ worker' = [worker EXCEPT ![w] = Idle]
  /\ UNCHANGED <<world, admission, execution, sent, clock, disturbed>>

LegacyStatus(w) ==
  CASE worker[w].phase = "made" -> "completed"
    [] worker[w].phase = "unavailable" -> "unavailable"
    [] OTHER -> "failed"

\* queue.finish.  If its answer is lost after a generated output, the exception
\* branch follows; after an error it leaves run_once.
Conclude(w, ack) ==
  /\ \/ worker[w].phase \in {"made", "unavailable", "permanent"}
     \/ worker[w].phase = "transient" /\ worker[w].attempt >= MaxAttempts
  /\ HoldsJob(w)
  /\ Ended(worker[w].job, LegacyStatus(w))
  /\ worker' = [worker EXCEPT ![w] = IF ack \/ @.phase # "made" THEN Idle
                                     ELSE [@ EXCEPT !.phase = "transient"]]
  /\ UNCHANGED <<world, admission, execution, sent, clock, disturbed>>

---------------------------------------------------------------------------
(* Exceptions, lost leases, deaths, time and the rest of the world.        *)

\* Any step inside the try block may raise: a changed world, a lost lease, an
\* expired plan, a failing database.
Raises(w) ==
  /\ worker[w].phase \in {"claimed", "looking", "opening", "opened", "replied", "uncertain",
                          "made"}
  /\ Moves(w, Handler(w))
  /\ UNCHANGED <<world, admission, job, execution, sent, clock, disturbed>>

\* A conditional UPDATE of a handler finds the job taken over: the error is logged
\* and the worker polls again.
LeaseLost(w) ==
  /\ \/ worker[w].phase = "marking" /\ terminal[worker[w].job].kind = "none"
     \/ worker[w].phase \in {"failing", "unavailable", "permanent", "transient"}
  /\ ~HoldsJob(w)
  /\ worker' = [worker EXCEPT ![w] = Idle]
  /\ UNCHANGED <<world, admission, job, execution, sent, clock, disturbed>>

\* The worker process dies, or a handler fails for want of a database.
Abandon(w) ==
  /\ worker[w].phase # "idle"
  /\ disturbed < MaxDisturbances
  /\ worker' = [worker EXCEPT ![w] = Idle]
  /\ disturbed' = disturbed + 1
  /\ UNCHANGED <<world, admission, job, execution, sent, clock>>

Working(j) == \E w \in Workers : worker[w].job = j /\ worker[w].version = job[j].version

\* A job nobody works on outlives its lease ...
LeaseExpires(j) ==
  /\ job[j].state \in Held /\ ~job[j].expired /\ ~Working(j)
  /\ job' = [job EXCEPT ![j].expired = TRUE]
  /\ UNCHANGED <<world, admission, execution, sent, worker, clock, disturbed>>

\* ... and a slow worker's job may do so too: nothing renews a lease.
LeaseExpiresEarly(j) ==
  /\ job[j].state \in Held /\ ~job[j].expired /\ Working(j)
  /\ disturbed < MaxDisturbances
  /\ job' = [job EXCEPT ![j].expired = TRUE]
  /\ disturbed' = disturbed + 1
  /\ UNCHANGED <<world, admission, execution, sent, worker, clock>>

\* next_attempt_at passes: the job now precedes exactly the jobs queued later.
BecomesDue(j) ==
  /\ job[j].state = "queued" /\ ~job[j].due
  /\ job' = [job EXCEPT ![j].due = TRUE, ![j].at = clock + 1]
  /\ clock' = clock + 1
  /\ UNCHANGED <<world, admission, execution, sent, worker, disturbed>>

PlanExpires(j) ==
  /\ plan[j].made /\ ~plan[j].expired /\ start[j] = 0
  /\ plan' = [plan EXCEPT ![j].expired = TRUE]
  /\ UNCHANGED <<world, grant, job, execution, sent, worker, clock, disturbed>>

\* A session ends, a model or policy is changed, a source is replaced.
WorldChanges(j) ==
  /\ plan[j].made /\ world[j] < MaxChanges
  /\ world' = [world EXCEPT ![j] = @ + 1]
  /\ UNCHANGED <<admission, job, execution, sent, worker, clock, disturbed>>

---------------------------------------------------------------------------
Admission(j) ==
  \/ Prepare(j) \/ IssueGrant(j) \/ ConsumeGrant(j) \/ Admit(j)

TypedStep(w) ==
  \/ Look(w) \/ Open(w)
  \/ \E ack \in BOOLEAN : Dispatch(w, ack) \/ MarkUncertain(w, ack)
  \/ \E reply \in Reply : Send(w, reply)
  \/ \E saves, ack \in BOOLEAN : Finish(w, saves, ack)
  \/ Recover(w) \/ FailJob(w)

LegacyStep(w) ==
  \/ \E outcome \in {"made", "unavailable", "permanent", "transient"} : Generate(w, outcome)
  \/ Retry(w)
  \/ \E ack \in BOOLEAN : Conclude(w, ack)

Process(w) ==
  \/ \E ack \in BOOLEAN : Start(w, ack)
  \/ TypedStep(w) \/ LegacyStep(w)
  \/ Raises(w) \/ LeaseLost(w)

RunOnce(w) == (\E j \in Jobs : Claim(w, j)) \/ Process(w)

Next ==
  \/ \E j \in Typed : Admission(j) \/ PlanExpires(j) \/ WorldChanges(j)
  \/ \E j \in Legacy : EnqueueLegacy(j)
  \/ \E w \in Workers : RunOnce(w) \/ Abandon(w)
  \/ \E j \in Jobs : LeaseExpires(j) \/ LeaseExpiresEarly(j) \/ BecomesDue(j)

Spec == Init /\ [][Next]_vars

\* run_forever polls for ever, every external call has a timeout, and time passes.
Fairness ==
  /\ \A w \in Workers : WF_vars(RunOnce(w))
  /\ \A j \in Jobs : WF_vars(LeaseExpires(j)) /\ WF_vars(BecomesDue(j))

FairSpec == Spec /\ Fairness

---------------------------------------------------------------------------
(* Properties.                                                             *)

\* Every row satisfies the CHECK constraints of migrations 0024, 0027 and 0028 and
\* every worker holds a job exactly while it is busy.
TypeOK ==
  /\ world \in [Jobs -> Nat]
  /\ plan \in [Jobs -> PlanRow]
  /\ grant \in [Jobs -> {"none", "issued", "consumed"}]
  /\ job \in [Jobs -> JobRow]
  /\ start \in [Jobs -> Nat]
  /\ run \in [Jobs -> {"absent", "generating", "completed", "failed"}]
  /\ terminal \in [Jobs -> TerminalRow]
  /\ ledger \in [Jobs -> SUBSET {"attempt", "start"}]
  /\ output \in [Jobs -> BOOLEAN]
  /\ sent \in [Jobs -> Nat]
  /\ worker \in [Workers -> WorkerState]
  /\ \A w \in Workers : worker[w].phase # "idle" => worker[w].job \in Jobs
  /\ clock \in Nat
  /\ disturbed \in Nat

\* The provider is called at most once for a plan, whatever leases expire, workers
\* die or commits go unanswered: StudioExecutionService's promise that no worker
\* sends again.
SentAtMostOnce == \A j \in Jobs : sent[j] <= 1

\* A model attempt is on record only for a call that was really made, although the
\* worker that closes a run is often not the one that dispatched it.
AttemptWasSent == \A j \in Jobs : "attempt" \in ledger[j] => sent[j] = 1

\* The four places that know how a dispatched job ended tell the same story: the job
\* row, its terminal row, the run and the published output.
RecordsAgree ==
  \A j \in Typed :
    /\ start[j] # 0 <=> run[j] # "absent"
    /\ run[j] \in {"completed", "failed"} <=> terminal[j].kind # "none"
    /\ start[j] # 0 /\ job[j].state \in Settled => terminal[j].status = job[j].state
    /\ terminal[j].kind # "none" => job[j].state \in Settled
    /\ output[j] <=> run[j] = "completed"
    /\ run[j] = "completed" <=> job[j].state = "completed"

\* Nothing is sent on behalf of a user whose policy asks for a step-up before that
\* step-up was consumed.
ConsentBeforeSend == \A j \in StepUp : sent[j] > 0 => grant[j] = "consumed"

\* A settled typed job is final: late observations are filed beside it, and neither
\* the job, the run, the verdict nor the output changes again.
SettledFinal ==
  [][\A j \in Typed : job[j].state \in Settled =>
        /\ job'[j] = job[j] /\ run'[j] = run[j] /\ output'[j] = output[j]
        /\ terminal'[j].kind = terminal[j].kind /\ terminal'[j].status = terminal[j].status]_vars

\* A job whose lease ran out on its last attempt: no claim passes its budget, and
\* while it is the oldest no claim gets past it.
Exhausted(j) == Candidate(j) /\ job[j].attempt >= MaxAttempts

\* A queued job ends, whatever workers die on it, unless a job that lost its last
\* attempt heads the queue (claim_studio_generation_job, which chooses the oldest
\* eligible row before it looks at the budget).
JobsSettle ==
  \A j \in Jobs :
    job[j].state = "queued" ~> (job[j].state \in Settled \/ \E k \in Jobs : Exhausted(k))

\* Job, run, verdict, cost and output tell one story, and nothing is billed or sent
\* that was not sent or consented to.
RecordsTrue == TypeOK /\ RecordsAgree /\ AttemptWasSent /\ ConsentBeforeSend

\* Every queued job ends, and what has ended stays.
SettleForGood == SettledFinal /\ JobsSettle
=============================================================================
