---------------------- MODULE DocumentProcessingProofs ----------------------
(***************************************************************************)
(* Theorems about DocumentProcessing, for every number of sources, workers,*)
(* runs and disturbances and every set of facts a model may find.          *)
(***************************************************************************)
EXTENDS DocumentProcessing, TLAPS

USE DocumentAssumption

LEMMA JobPair ==
  /\ \A j \in Jobs : j = <<j[1], j[2]>> /\ j[1] \in Sources /\ j[2] \in Runs
  /\ \A s \in Sources, n \in Runs : /\ <<s, n>> \in Jobs
                                    /\ <<s, n>>[1] = s /\ <<s, n>>[2] = n
  /\ Runs \subseteq Nat
BY DEF Jobs, Runs

---------------------------------------------------------------------------
(* Type correctness.                                                       *)

BusyHasJob == \A w \in Workers : worker[w].phase # "idle" => worker[w].job \in Jobs
WorkersTyped == worker \in [Workers -> WorkerState] /\ BusyHasJob

LEMMA MovesTyped ==
  ASSUME WorkersTyped, NEW w \in Workers, NEW p \in Phase, worker[w].phase # "idle",
         NEW answer \in Answers \cup {None}, NEW retryable \in BOOLEAN,
         worker' = [worker EXCEPT ![w] = [@ EXCEPT !.phase = p, !.answer = answer,
                                                   !.retryable = retryable]]
  PROVE  WorkersTyped'
<1>1. worker[w] \in WorkerState /\ worker[w].job \in Jobs
  BY DEF WorkersTyped, BusyHasJob
<1>2. [worker[w] EXCEPT !.phase = p, !.answer = answer, !.retryable = retryable] \in WorkerState
  BY <1>1 DEF WorkerState
<1>3. [worker[w] EXCEPT !.phase = p, !.answer = answer, !.retryable = retryable].job
        = worker[w].job
  BY <1>1 DEF WorkerState
<1> QED
  BY <1>1, <1>2, <1>3 DEF WorkersTyped, BusyHasJob

\* A worker's row is its old row with another phase, answer or retryable flag.
LEMMA MovesShape ==
  ASSUME WorkersTyped, NEW w \in Workers
  PROVE  /\ \A p \in Phase : Moves(w, p) =>
              worker' = [worker EXCEPT ![w] = [@ EXCEPT !.phase = p, !.answer = worker[w].answer,
                                                        !.retryable = worker[w].retryable]]
         /\ \A r \in BOOLEAN : Fails(w, r) =>
              worker' = [worker EXCEPT ![w] = [@ EXCEPT !.phase = "failing",
                                                        !.answer = worker[w].answer,
                                                        !.retryable = r]]
         /\ worker[w].answer \in Answers \cup {None} /\ worker[w].retryable \in BOOLEAN
<1>1. worker[w] \in WorkerState
  BY DEF WorkersTyped
<1>2. \A p \in Phase : [worker[w] EXCEPT !.phase = p] =
        [worker[w] EXCEPT !.phase = p, !.answer = worker[w].answer,
                          !.retryable = worker[w].retryable]
  BY <1>1 DEF WorkerState
<1>3. \A r \in BOOLEAN : [worker[w] EXCEPT !.phase = "failing", !.retryable = r] =
        [worker[w] EXCEPT !.phase = "failing", !.answer = worker[w].answer, !.retryable = r]
  BY <1>1 DEF WorkerState
<1> QED
  BY <1>1, <1>2, <1>3 DEF Moves, Fails, WorkerState, WorkersTyped

\* The steps in which a busy worker only moves on.
Quiet(w) ==
  \/ Load(w)
  \/ \E known, retryable \in BOOLEAN : LoadFails(w, known, retryable)
  \/ \E answer \in Answers : Understand(w, answer)
  \/ \E retryable \in BOOLEAN : ExecutionRaises(w, retryable)
  \/ FailRunRaises(w) \/ IndexRaises(w) \/ LeaseLost(w)

LEMMA IdleTyped ==
  ASSUME WorkersTyped, NEW w \in Workers, worker' = [worker EXCEPT ![w] = Idle]
  PROVE  WorkersTyped'
<1>1. Idle \in WorkerState /\ Idle.phase = "idle"
  BY DEF Idle, WorkerState, Phase
<1> QED
  BY <1>1 DEF WorkersTyped, BusyHasJob

LEMMA BusyPhases ==
  {"claimed", "loaded", "understood", "failing", "indexing", "closing", "rejecting"}
    \subseteq Phase
BY DEF Phase

LEMMA MoveTyped ==
  ASSUME WorkersTyped, NEW w \in Workers, worker[w].phase # "idle",
         \/ \E p \in Phase : Moves(w, p)
         \/ \E r \in BOOLEAN : Fails(w, r)
  PROVE  WorkersTyped'
<1>0. worker[w].answer \in Answers \cup {None} /\ worker[w].retryable \in BOOLEAN
  BY MovesShape
<1>1. ASSUME NEW p \in Phase, Moves(w, p) PROVE WorkersTyped'
  <2>1. worker' = [worker EXCEPT ![w] = [@ EXCEPT !.phase = p, !.answer = worker[w].answer,
                                                  !.retryable = worker[w].retryable]]
    BY <1>1, MovesShape
  <2> QED
    BY <1>0, <2>1, MovesTyped
<1>2. ASSUME NEW r \in BOOLEAN, Fails(w, r) PROVE WorkersTyped'
  <2>1. worker' = [worker EXCEPT ![w] = [@ EXCEPT !.phase = "failing",
                                                  !.answer = worker[w].answer, !.retryable = r]]
    BY <1>2, MovesShape
  <2> QED
    BY <1>0, <2>1, MovesTyped, BusyPhases
<1> QED
  BY <1>1, <1>2

LEMMA QuietTyped ==
  ASSUME WorkersTyped, NEW w \in Workers, Quiet(w)
  PROVE  WorkersTyped' /\ canon' = canon /\ queue' = queue /\ disturbed' = disturbed
<1>1. CASE Load(w) \/ FailRunRaises(w) \/ IndexRaises(w)
  BY <1>1, MoveTyped, BusyPhases DEF Load, FailRunRaises, IndexRaises
<1>2. ASSUME NEW known \in BOOLEAN, NEW retryable \in BOOLEAN, LoadFails(w, known, retryable)
      PROVE  WorkersTyped' /\ canon' = canon /\ queue' = queue /\ disturbed' = disturbed
  BY <1>2, MoveTyped, BusyPhases DEF LoadFails
<1>3. ASSUME NEW answer \in Answers, Understand(w, answer)
      PROVE  WorkersTyped' /\ canon' = canon /\ queue' = queue /\ disturbed' = disturbed
  <2>1. worker[w] \in WorkerState /\ worker[w].retryable \in BOOLEAN
    BY MovesShape DEF WorkersTyped
  <2>2. [worker[w] EXCEPT !.phase = "understood", !.answer = answer] =
          [worker[w] EXCEPT !.phase = "understood", !.answer = answer,
                            !.retryable = worker[w].retryable]
    BY <2>1 DEF WorkerState
  <2>3. worker' = [worker EXCEPT ![w] = [@ EXCEPT !.phase = "understood", !.answer = answer,
                                                  !.retryable = worker[w].retryable]]
    BY <1>3, <2>2 DEF Understand, WorkersTyped
  <2>4. WorkersTyped'
    <3>1. worker[w].phase # "idle" /\ answer \in Answers \cup {None} /\ "understood" \in Phase
      BY <1>3, BusyPhases DEF Understand
    <3> QED
      BY <2>1, <2>3, <3>1, MovesTyped
  <2> QED
    BY <1>3, <2>4 DEF Understand
<1>4. ASSUME NEW retryable \in BOOLEAN, ExecutionRaises(w, retryable)
      PROVE  WorkersTyped' /\ canon' = canon /\ queue' = queue /\ disturbed' = disturbed
  BY <1>4, MoveTyped DEF ExecutionRaises
<1>5. CASE LeaseLost(w)
  BY <1>5, IdleTyped DEF LeaseLost
<1> QED
  BY <1>1, <1>2, <1>3, <1>4, <1>5 DEF Quiet

LEMMA QueueTyped ==
  ASSUME TypeOK, NEW j \in Jobs,
         \/ LeaseExpires(j) \/ LeaseExpiresEarly(j)
         \/ \E w \in Workers : Claim(w, j)
  PROVE  TypeOK' /\ canon' = canon
<1>0. job[j] \in JobRow /\ disturbed + 1 \in Nat /\ WorkersTyped
  BY DEF TypeOK, WorkersTyped, BusyHasJob
<1>1. CASE LeaseExpires(j) \/ LeaseExpiresEarly(j)
  <2>1. [job[j] EXCEPT !.expired = TRUE] \in JobRow
    BY <1>0 DEF JobRow
  <2>2. job' = [job EXCEPT ![j].expired = TRUE]
    BY <1>1 DEF LeaseExpires, LeaseExpiresEarly
  <2>3. job' \in [Jobs -> JobRow]
    BY <2>1, <2>2 DEF TypeOK
  <2> QED
    BY <1>0, <1>1, <2>3 DEF LeaseExpires, LeaseExpiresEarly, TypeOK, canon
<1>2. ASSUME NEW w \in Workers, Claim(w, j) PROVE TypeOK' /\ canon' = canon
  <2>1. job[j].attempt \in Nat /\ job[j].attempt + 1 \in Nat /\ job[j].version + 1 \in Nat
    BY <1>0 DEF JobRow
  <2>2. [state |-> "leased", attempt |-> job[j].attempt + 1, version |-> job[j].version + 1,
         expired |-> FALSE] \in JobRow
    BY <2>1 DEF JobRow, JobState
  <2>3. [phase |-> "claimed", job |-> j, version |-> job[j].version + 1,
         attempt |-> job[j].attempt + 1, answer |-> None, retryable |-> FALSE] \in WorkerState
    BY <2>1 DEF WorkerState, Phase
  <2>4. job' \in [Jobs -> JobRow]
    BY <1>2, <2>2 DEF Claim, TypeOK
  <2>5. WorkersTyped'
    BY <1>0, <1>2, <2>3 DEF Claim, WorkersTyped, BusyHasJob
  <2>6. HistoryAfterClaim(j) \in SUBSET AttemptRow
    <3>1. [attempt |-> job[j].attempt, outcome |-> "lease_lost"] \in AttemptRow
      BY <2>1 DEF AttemptRow
    <3> QED
      BY <3>1 DEF HistoryAfterClaim, TypeOK
  <2>7. history' \in [Jobs -> SUBSET AttemptRow]
    BY <1>2, <2>6 DEF Claim, TypeOK
  <2> QED
    BY <1>2, <2>4, <2>5, <2>7 DEF Claim, TypeOK, WorkersTyped, BusyHasJob, canon
<1> QED
  BY <1>1, <1>2

LEMMA SettleTyped ==
  ASSUME TypeOK, NEW w \in Workers, Close(w) \/ Reject(w)
  PROVE  TypeOK' /\ canon' = canon
<1>1. PICK outcome \in {"completed", "dead_letter"} :
        Settle(w, outcome) /\ worker[w].phase # "idle"
  BY DEF Close, Reject
<1> DEFINE j == worker[w].job
<1>2. j \in Jobs /\ job[j] \in JobRow /\ worker[w].attempt \in Nat /\ WorkersTyped
  BY <1>1 DEF TypeOK, WorkerState, WorkersTyped, BusyHasJob
<1>3. [job[j] EXCEPT !.state = outcome, !.version = @ + 1, !.expired = FALSE] \in JobRow
  <2>1. job[j].version + 1 \in Nat /\ outcome \in JobState
    BY <1>2 DEF JobRow, JobState
  <2> QED
    BY <1>2, <2>1 DEF JobRow
<1>4. job' \in [Jobs -> JobRow]
  BY <1>1, <1>2, <1>3 DEF Settle, TypeOK
<1>5. [attempt |-> worker[w].attempt, outcome |-> outcome] \in AttemptRow
  BY <1>2 DEF AttemptRow
<1>6. history' \in [Jobs -> SUBSET AttemptRow]
  BY <1>1, <1>2, <1>5 DEF Settle, TypeOK
<1>7. WorkersTyped'
  BY <1>1, <1>2, IdleTyped DEF Settle
<1> QED
  BY <1>1, <1>4, <1>6, <1>7 DEF Settle, TypeOK, WorkersTyped, BusyHasJob, canon

LEMMA BegunTyped ==
  ASSUME TypeOK, NEW s \in Sources, Submit(s) \/ Reprocess(s)
  PROVE  TypeOK'
<1>1. PICK n \in Runs : Begun(s, n)
  <2>1. CASE Submit(s)
    BY <2>1 DEF Submit
  <2>2. CASE Reprocess(s)
    <3>1. latest[s] \in 0 .. MaxRuns /\ latest[s] < MaxRuns
      BY <2>2 DEF Reprocess, TypeOK
    <3>2. latest[s] + 1 \in Runs
      BY <3>1 DEF Runs
    <3> QED
      BY <2>2, <3>2 DEF Reprocess
  <2> QED
    BY <2>1, <2>2
<1>2. <<s, n>> \in Jobs /\ n \in 0 .. MaxRuns
  BY JobPair DEF Runs
<1>3. Pending \in JobRow
  BY DEF Pending, JobRow, JobState
<1> QED
  BY <1>1, <1>2, <1>3 DEF Begun, TypeOK, SourceState, RunState

LEMMA CanonTyped ==
  ASSUME TypeOK, NEW w \in Workers,
         \/ \E ack \in BOOLEAN : CompleteRun(w, ack)
         \/ FailRun(w)
         \/ \E n \in Runs, ack \in BOOLEAN : Index(w, n, ack)
  PROVE  TypeOK' /\ queue' = queue
<1> DEFINE j == worker[w].job
<1>0. worker[w].phase # "idle"
  BY DEF CompleteRun, FailRun, Index
<1>1. j \in Jobs /\ j[1] \in Sources /\ WorkersTyped /\ worker[w].answer \in Answers \cup {None}
  BY <1>0, JobPair DEF TypeOK, WorkersTyped, BusyHasJob, WorkerState
<1>2. ASSUME NEW ack \in BOOLEAN, CompleteRun(w, ack) PROVE TypeOK' /\ queue' = queue
  <2>1. WorkersTyped'
    BY <1>0, <1>1, <1>2, MoveTyped, BusyPhases DEF CompleteRun
  <2>2. StoredAfter(w) \in Answers \cup {None}
    BY <1>1 DEF StoredAfter, TypeOK
  <2>3. source' \in [Sources -> SourceState]
    BY <1>1, <1>2 DEF CompleteRun, TypeOK, SourceState
  <2>4. run' \in [Jobs -> RunState] /\ stored' \in [Jobs -> Answers \cup {None}]
    BY <1>1, <1>2, <2>2 DEF CompleteRun, TypeOK, RunState
  <2> QED
    BY <1>2, <2>1, <2>3, <2>4 DEF CompleteRun, TypeOK, WorkersTyped, BusyHasJob, queue
<1>3. ASSUME FailRun(w) PROVE TypeOK' /\ queue' = queue
  <2>1. WorkersTyped'
    BY <1>0, <1>1, <1>3, MoveTyped, BusyPhases DEF FailRun
  <2>2. source' \in [Sources -> SourceState]
    BY <1>1, <1>3 DEF FailRun, FailedAs, TypeOK, SourceState
  <2>3. run' \in [Jobs -> RunState]
    BY <1>1, <1>3 DEF FailRun, TypeOK, RunState
  <2> QED
    BY <1>3, <2>1, <2>2, <2>3 DEF FailRun, TypeOK, WorkersTyped, BusyHasJob, queue
<1>4. ASSUME NEW n \in Runs, NEW ack \in BOOLEAN, Index(w, n, ack) PROVE TypeOK' /\ queue' = queue
  <2>1. WorkersTyped'
    BY <1>0, <1>1, <1>4, MoveTyped, BusyPhases DEF Index
  <2>2. source' \in [Sources -> SourceState]
    BY <1>1, <1>4 DEF Index, TypeOK, SourceState
  <2>3. <<j[1], n>> \in Jobs
    BY <1>1, JobPair
  <2>4. stored[<<j[1], n>>] \in Answers
    BY <1>4, <2>3 DEF Index, Newest, TypeOK
  <2>5. index' \in [Sources -> SUBSET (Runs \X Answers)]
    BY <1>1, <1>4, <2>4 DEF Index, TypeOK
  <2> QED
    BY <1>4, <2>1, <2>2, <2>5 DEF Index, TypeOK, WorkersTyped, BusyHasJob, queue
<1> QED
  BY <1>2, <1>3, <1>4

\* The steps of a worker, sorted by what they may change.
LEMMA ProcessSplit ==
  ASSUME NEW w \in Workers, Process(w)
  PROVE  \/ Quiet(w) \/ Close(w) \/ Reject(w)
         \/ \E ack \in BOOLEAN : CompleteRun(w, ack)
         \/ FailRun(w)
         \/ \E n \in Runs, ack \in BOOLEAN : Index(w, n, ack)
BY DEF Process, Quiet

LEMMA InitTyped == Init => TypeOK
BY DEF Init, TypeOK, SourceState, RunState, JobRow, NoJob, JobState, WorkerState, Phase, Idle

LEMMA NextTyped == TypeOK /\ [Next]_vars => TypeOK'
<1> SUFFICES ASSUME TypeOK, [Next]_vars PROVE TypeOK'
  OBVIOUS
<1>0. WorkersTyped
  BY DEF TypeOK, WorkersTyped, BusyHasJob
<1>1. ASSUME NEW s \in Sources, Submit(s) \/ Reprocess(s) PROVE TypeOK'
  BY <1>1, BegunTyped
<1>2. ASSUME NEW w \in Workers, NEW j \in Jobs, Claim(w, j) PROVE TypeOK'
  BY <1>2, QueueTyped
<1>3. ASSUME NEW w \in Workers, Process(w) PROVE TypeOK'
  <2>1. CASE Quiet(w)
    BY <1>0, <2>1, QuietTyped DEF TypeOK, WorkersTyped, BusyHasJob, canon, queue
  <2>2. CASE Close(w) \/ Reject(w)
    BY <2>2, SettleTyped
  <2> QED
    BY <1>3, <2>1, <2>2, ProcessSplit, CanonTyped
<1>4. ASSUME NEW w \in Workers, Abandon(w) PROVE TypeOK'
  <2>1. WorkersTyped'
    BY <1>0, <1>4, IdleTyped DEF Abandon
  <2>2. disturbed' \in Nat
    BY <1>4 DEF Abandon, TypeOK
  <2> QED
    BY <1>4, <2>1, <2>2 DEF Abandon, TypeOK, WorkersTyped, BusyHasJob, canon, queue
<1>5. ASSUME NEW j \in Jobs, LeaseExpires(j) \/ LeaseExpiresEarly(j) PROVE TypeOK'
  BY <1>5, QueueTyped
<1>6. CASE UNCHANGED vars
  BY <1>6 DEF vars, TypeOK
<1> QED
  BY <1>1, <1>2, <1>3, <1>4, <1>5, <1>6 DEF Next, RunOnce

\* Every row keeps its type, and a busy worker holds a job.
THEOREM TypeCorrect == Spec => []TypeOK
BY InitTyped, NextTyped, PTL DEF Spec

---------------------------------------------------------------------------
(* The inductive invariant.                                                *)

\* A run has a stored result exactly when it is completed.
StoredInv == \A j \in Jobs : run[j] = "completed" <=> stored[j] # None

\* An earlier run was left behind failed, or completed with a conflict in a bound format:
\* this is what keeps its late workers from touching anything.
OldRunInv ==
  \A s \in Sources, n \in Runs :
    n < latest[s] /\ run[<<s, n>>] = "completed" => s \in Bound /\ stored[<<s, n>>] = Review

\* What a worker knows in each of its phases.
WorkerFact(w) ==
  LET j == worker[w].job
      s == j[1]
  IN
  /\ run[j] # "absent"
  /\ worker[w].phase = "understood" => worker[w].answer \in Answers
  /\ worker[w].phase = "indexing" => /\ run[j] = "completed" /\ worker[w].answer \in Facts
                                     /\ s \in Bound => stored[j] = worker[w].answer
  /\ worker[w].phase = "closing" => /\ run[j] = "completed"
                                    /\ j[2] = latest[s] => source[s] \in {"ready", "needs_review"}

WorkerInv == \A w \in Workers : worker[w].phase # "idle" => WorkerFact(w)

CanonInv == StoredInv /\ OldRunInv /\ SourceAgrees
IInv == TypeOK /\ OneOpenRun /\ CanonInv /\ WorkerInv /\ CompletedUsable

---------------------------------------------------------------------------
(* What the invariant says about the steps that change the canon.          *)

LEMMA SubmitFacts ==
  ASSUME TypeOK, OneOpenRun, SourceAgrees, NEW s \in Sources, Submit(s)
  PROVE  latest[s] = 0 /\ source[s] = "registered" /\ 1 \in Runs
<1>1. 1 \in Runs /\ latest[s] \in 0 .. MaxRuns /\ MaxRuns \in Nat
  BY DEF Submit, TypeOK
<1>2. CASE latest[s] = 1
  BY <1>2 DEF Submit, SourceAgrees
<1>3. CASE 1 < latest[s]
  BY <1>1, <1>3 DEF Submit, OneOpenRun, Terminal
<1>4. CASE latest[s] = 0
  BY <1>1, <1>4 DEF SourceAgrees
<1> QED
  BY <1>1, <1>2, <1>3, <1>4

\* A run begins after all the others are over.
LEMMA BegunFacts ==
  ASSUME TypeOK, OneOpenRun, SourceAgrees, StoredInv, NEW s \in Sources, Submit(s) \/ Reprocess(s)
  PROVE  \E n \in Runs :
           /\ n = latest[s] + 1 /\ Begun(s, n)
           /\ run[<<s, n>>] = "absent" /\ job[<<s, n>>].state = "absent"
           /\ stored[<<s, n>>] = None
           /\ source[s] # "ready" /\ source[s] # "processing"
           /\ \A m \in Runs : m < n => run[<<s, m>>] \in Terminal /\ job[<<s, m>>].state \in Settled
           /\ latest[s] # 0 /\ run[<<s, latest[s]>>] = "completed" =>
                s \in Bound /\ stored[<<s, latest[s]>>] = Review
           /\ \/ latest[s] = 0 /\ source[s] = "registered"
              \/ source[s] \in {"failed", "waiting_model"}
              \/ source[s] = "needs_review" /\ s \in Reviewable
<1> DEFINE n == latest[s] + 1
<1>1. latest[s] \in 0 .. MaxRuns /\ MaxRuns \in Nat
  BY DEF TypeOK
<1>2. n \in Runs /\ Begun(s, n) /\ n > latest[s]
  <2>1. CASE Submit(s)
    BY <2>1, SubmitFacts DEF Submit
  <2>2. CASE Reprocess(s)
    BY <1>1, <2>2 DEF Reprocess, Runs
  <2> QED
    BY <1>1, <2>1, <2>2
<1>3. run[<<s, n>>] = "absent" /\ job[<<s, n>>].state = "absent" /\ <<s, n>> \in Jobs
  BY <1>2, JobPair DEF OneOpenRun
<1>4. stored[<<s, n>>] = None
  BY <1>3 DEF StoredInv
<1>5. /\ source[s] # "ready" /\ source[s] # "processing"
      /\ \/ latest[s] = 0 /\ source[s] = "registered"
         \/ source[s] \in {"failed", "waiting_model"}
         \/ source[s] = "needs_review" /\ s \in Reviewable
  <2>1. CASE Submit(s)
    BY <2>1, SubmitFacts
  <2>2. CASE Reprocess(s)
    BY <2>2 DEF Reprocess, Retryable, FailedRetry, ReviewRetry
  <2> QED
    BY <2>1, <2>2
<1>6. latest[s] # 0 => /\ run[<<s, latest[s]>>] \in Terminal
                       /\ job[<<s, latest[s]>>].state \in Settled
                       /\ run[<<s, latest[s]>>] = "completed" =>
                            s \in Bound /\ stored[<<s, latest[s]>>] = Review
  <2>1. CASE Submit(s)
    BY <2>1, SubmitFacts
  <2>2. CASE Reprocess(s)
    BY <2>2 DEF Reprocess, Retryable, FailedRetry, ReviewRetry, Terminal, Settled
  <2> QED
    BY <2>1, <2>2
<1>7. \A m \in Runs : m < n => run[<<s, m>>] \in Terminal /\ job[<<s, m>>].state \in Settled
  <2> SUFFICES ASSUME NEW m \in Runs, m < n
               PROVE  run[<<s, m>>] \in Terminal /\ job[<<s, m>>].state \in Settled
    OBVIOUS
  <2>1. m \in Nat /\ m >= 1
    BY DEF Runs
  <2>2. CASE m = latest[s]
    BY <1>6, <2>1, <2>2
  <2>3. CASE m < latest[s]
    BY <2>3 DEF OneOpenRun
  <2> QED
    BY <1>1, <2>1, <2>2, <2>3
<1> QED
  BY <1>2, <1>3, <1>4, <1>5, <1>6, <1>7

\* A run that is open is the newest of its source, which is being processed.
LEMMA OpenFacts ==
  ASSUME TypeOK, OneOpenRun, CanonInv, NEW j \in Jobs, run[j] = "understanding"
  PROVE  j[2] = latest[j[1]] /\ source[j[1]] = "processing" /\ stored[j] = None
<1> DEFINE s == j[1]
           n == j[2]
<1>1. s \in Sources /\ n \in Runs /\ j = <<s, n>> /\ latest[s] \in 0 .. MaxRuns
      /\ MaxRuns \in Nat /\ n \in Nat
  BY JobPair DEF TypeOK
<1>2. ~(n < latest[s]) /\ ~(n > latest[s])
  BY <1>1 DEF OneOpenRun, Terminal
<1>3. n = latest[s] /\ latest[s] # 0
  BY <1>1, <1>2 DEF Runs
<1>4. source[s] \in SourceState
  BY <1>1 DEF TypeOK
<1>5. run[<<s, latest[s]>>] = "understanding"
  BY <1>1, <1>3
<1>6. source[s] = "processing"
  BY <1>1, <1>3, <1>4, <1>5 DEF CanonInv, SourceAgrees, SourceState
<1>7. stored[j] = None
  BY DEF CanonInv, StoredInv
<1> QED
  BY <1>3, <1>6, <1>7

LEMMA CompleteFacts ==
  ASSUME TypeOK, OneOpenRun, CanonInv, WorkerInv,
         NEW w \in Workers, NEW ack \in BOOLEAN, CompleteRun(w, ack)
  PROVE  LET j == worker[w].job
             s == j[1]
         IN  /\ j \in Jobs /\ s \in Sources /\ j = <<s, latest[s]>> /\ j[2] = latest[s]
             /\ worker[w].answer \in Answers
             /\ \/ run[j] = "understanding" /\ source[s] = "processing" /\ stored[j] = None
                \/ run[j] = "completed" /\ s \notin Bound /\ stored[j] # None
<1> DEFINE j == worker[w].job
           s == j[1]
<1>1. j \in Jobs /\ s \in Sources /\ j[2] \in Runs /\ j = <<s, j[2]>>
      /\ latest[s] \in 0 .. MaxRuns /\ MaxRuns \in Nat /\ j[2] \in Nat
  BY JobPair DEF CompleteRun, TypeOK
<1>2. worker[w].answer \in Answers
  BY DEF CompleteRun, WorkerInv, WorkerFact
<1>3. CASE run[j] = "understanding"
  BY <1>1, <1>2, <1>3, OpenFacts
<1>4. CASE run[j] = "completed" /\ s \notin Bound
  <2>1. ~(j[2] < latest[s])
    BY <1>1, <1>4 DEF CanonInv, OldRunInv
  <2>2. ~(j[2] > latest[s])
    BY <1>1, <1>4 DEF OneOpenRun
  <2>3. j[2] = latest[s]
    BY <1>1, <2>1, <2>2
  <2> QED
    BY <1>1, <1>2, <1>4, <2>3 DEF CanonInv, StoredInv
<1>5. \/ run[j] = "understanding"
      \/ run[j] = "completed" /\ s \notin Bound
  BY DEF CompleteRun, AcceptsResult
<1> QED
  BY <1>3, <1>4, <1>5

LEMMA FailFacts ==
  ASSUME TypeOK, OneOpenRun, CanonInv, WorkerInv, NEW w \in Workers, FailRun(w)
  PROVE  LET j == worker[w].job
             s == j[1]
         IN  \/ canon' = canon
             \/ /\ j \in Jobs /\ s \in Sources /\ j = <<s, latest[s]>> /\ j[2] = latest[s]
                /\ run[j] = "understanding" /\ source[s] = "processing" /\ stored[j] = None
                /\ run' = [run EXCEPT ![j] = "failed"]
                /\ source' = [source EXCEPT ![s] = FailedAs(w)]
                /\ UNCHANGED <<latest, stored, index>>
<1> DEFINE j == worker[w].job
           s == j[1]
<1>1. j \in Jobs /\ s \in Sources /\ j = <<s, j[2]>> /\ run[j] # "absent"
  BY JobPair DEF FailRun, TypeOK, WorkerInv, WorkerFact
<1>2. CASE Failable(j)
  <2>1. run[j] = "understanding"
    BY <1>1, <1>2 DEF Failable, Terminal, TypeOK, RunState
  <2>2. j[2] = latest[s] /\ source[s] = "processing" /\ stored[j] = None
    BY <1>1, <2>1, OpenFacts
  <2>3. /\ run' = [run EXCEPT ![j] = "failed"]
        /\ source' = [source EXCEPT ![s] = FailedAs(w)]
        /\ UNCHANGED <<latest, stored, index>>
    BY <1>2, <2>2 DEF FailRun
  <2> QED
    BY <1>1, <2>1, <2>2, <2>3
<1>3. CASE ~Failable(j)
  BY <1>3 DEF FailRun, canon
<1> QED
  BY <1>2, <1>3

LEMMA IndexFacts ==
  ASSUME TypeOK, OneOpenRun, CanonInv, WorkerInv, NEW w \in Workers,
         NEW n \in Runs, NEW ack \in BOOLEAN, Index(w, n, ack)
  PROVE  LET j == worker[w].job
             s == j[1]
         IN  /\ j \in Jobs /\ s \in Sources /\ j = <<s, latest[s]>> /\ j[2] = latest[s]
             /\ n = latest[s]
             /\ run[j] = "completed" /\ source[s] = "processing" /\ stored[j] \in Facts
             /\ source' = [source EXCEPT ![s] = "ready"]
             /\ index' = [index EXCEPT ![s] = {<<latest[s], stored[j]>>}]
             /\ UNCHANGED <<latest, run, stored>>
<1> DEFINE j == worker[w].job
           s == j[1]
<1>1. j \in Jobs /\ s \in Sources /\ j[2] \in Runs /\ j = <<s, j[2]>>
      /\ latest[s] \in 0 .. MaxRuns /\ MaxRuns \in Nat /\ j[2] \in Nat /\ n \in Nat
      /\ <<s, n>> \in Jobs /\ <<s, n>>[1] = s /\ <<s, n>>[2] = n
  BY JobPair DEF Index, TypeOK
<1>2. run[j] = "completed" /\ worker[w].answer \in Facts
      /\ (s \in Bound => stored[j] = worker[w].answer)
  BY DEF Index, WorkerInv, WorkerFact
<1>3. ~(j[2] < latest[s])
  BY <1>1, <1>2 DEF CanonInv, OldRunInv
<1>4. ~(j[2] > latest[s])
  BY <1>1, <1>2 DEF OneOpenRun
<1>5. j[2] = latest[s]
  BY <1>1, <1>3, <1>4
<1>6. stored[j] # None
  BY <1>1, <1>2 DEF CanonInv, StoredInv
<1>7. /\ stored[<<s, n>>] # None /\ stored[<<s, n>>] = worker[w].answer
      /\ source[s] = "processing"
      /\ \A m \in Runs : stored[<<s, m>>] # None => m <= n
      /\ source' = [source EXCEPT ![s] = "ready"]
      /\ index' = [index EXCEPT ![s] = @ \cup {<<n, stored[<<s, n>>]>>}]
      /\ UNCHANGED <<latest, run, stored>>
  BY <1>1 DEF Index, Newest, Indexable
<1>8. j[2] <= n
  BY <1>1, <1>6, <1>7
<1>9. ~(n > latest[s])
  BY <1>1, <1>7 DEF OneOpenRun, CanonInv, StoredInv
<1>10. n = latest[s]
  BY <1>1, <1>5, <1>8, <1>9
<1>11. index[s] = {}
  BY <1>1, <1>7 DEF CanonInv, SourceAgrees
<1>12. index' = [index EXCEPT ![s] = {<<latest[s], stored[j]>>}]
  BY <1>1, <1>5, <1>7, <1>10, <1>11, ZenonT(60) DEF TypeOK
<1> QED
  BY <1>1, <1>2, <1>5, <1>7, <1>10, <1>12

---------------------------------------------------------------------------
(* The canon moves forward only, along the edges of the life cycle.        *)

RunProgress ==
  \A j \in Jobs : /\ run[j] # "absent" => run'[j] # "absent"
                  /\ run[j] \in Terminal => run'[j] = run[j]
                  /\ stored[j] # None => stored'[j] = stored[j]

SourceProgress ==
  \A s \in Sources :
    /\ source[s] = "ready" => source'[s] = "ready" /\ index'[s] = index[s]
    /\ source[s] \in {"ready", "needs_review"} /\ latest'[s] = latest[s]
         => source'[s] \in {"ready", "needs_review"}
    /\ latest'[s] # latest[s] => latest'[s] \in Runs /\ run[<<s, latest'[s]>>] = "absent"

LifecycleStep == Lifecycle!LifecycleNext \/ UNCHANGED <<source, latest>>

CanonStep == RunProgress /\ SourceProgress /\ LifecycleStep

LEMMA QuietCanon ==
  ASSUME TypeOK, CanonInv, canon' = canon
  PROVE  CanonInv' /\ CanonStep
BY DEF canon, CanonInv, StoredInv, OldRunInv, SourceAgrees, CanonStep, RunProgress,
       SourceProgress, LifecycleStep

LEMMA BegunCanon ==
  ASSUME TypeOK, OneOpenRun, CanonInv, NEW s \in Sources, Submit(s) \/ Reprocess(s)
  PROVE  CanonInv' /\ CanonStep /\ OneOpenRun'
<1>0. CanonInv => StoredInv /\ OldRunInv /\ SourceAgrees
  BY DEF CanonInv
<1>1. PICK n \in Runs :
        /\ n = latest[s] + 1 /\ Begun(s, n)
        /\ run[<<s, n>>] = "absent" /\ job[<<s, n>>].state = "absent"
        /\ stored[<<s, n>>] = None
        /\ source[s] # "ready" /\ source[s] # "processing"
        /\ \A m \in Runs : m < n => run[<<s, m>>] \in Terminal /\ job[<<s, m>>].state \in Settled
        /\ latest[s] # 0 /\ run[<<s, latest[s]>>] = "completed" =>
             s \in Bound /\ stored[<<s, latest[s]>>] = Review
        /\ \/ latest[s] = 0 /\ source[s] = "registered"
           \/ source[s] \in {"failed", "waiting_model"}
           \/ source[s] = "needs_review" /\ s \in Reviewable
  BY <1>0, BegunFacts
<1>2. <<s, n>> \in Jobs /\ n \in Nat /\ n >= 1 /\ latest[s] \in Nat
  BY JobPair DEF Runs, TypeOK
<1>3. \A t \in Sources, m \in Runs : <<t, m>> \in Jobs /\ (<<t, m>> = <<s, n>> => t = s /\ m = n)
  BY JobPair
<1>4. /\ run'[<<s, n>>] = "understanding" /\ stored' = stored /\ index' = index
      /\ \A j \in Jobs : j # <<s, n>> => run'[j] = run[j] /\ job'[j] = job[j]
      /\ latest'[s] = n /\ source'[s] = "processing"
      /\ \A t \in Sources : t # s => latest'[t] = latest[t] /\ source'[t] = source[t]
      /\ job'[<<s, n>>] = Pending
  BY <1>1, <1>2 DEF Begun, TypeOK
<1>5. StoredInv'
  BY <1>0, <1>1, <1>4 DEF StoredInv
<1>6. OldRunInv'
  <2> SUFFICES ASSUME NEW t \in Sources, NEW m \in Runs, m < latest'[t],
                      run'[<<t, m>>] = "completed"
               PROVE  t \in Bound /\ stored'[<<t, m>>] = Review
    BY DEF OldRunInv
  <2>1. m \in Nat /\ m >= 1 /\ <<t, m>> \in Jobs
    BY <1>3 DEF Runs
  <2>2. <<t, m>> # <<s, n>> /\ run[<<t, m>>] = "completed"
    BY <1>4, <2>1
  <2>3. CASE t # s
    BY <1>0, <1>4, <2>2, <2>3 DEF OldRunInv
  <2>4. CASE t = s /\ m < latest[s]
    BY <1>0, <1>4, <2>2, <2>4 DEF OldRunInv
  <2>5. CASE t = s /\ m = latest[s]
    BY <1>1, <1>4, <2>1, <2>2, <2>5
  <2> QED
    BY <1>1, <1>2, <1>4, <2>1, <2>3, <2>4, <2>5
<1>7. SourceAgrees'
  <2> SUFFICES ASSUME NEW t \in Sources
               PROVE  LET j == <<t, latest'[t]>> IN
                      /\ source'[t] = "registered" <=> latest'[t] = 0
                      /\ source'[t] = "processing" => run'[j] \in {"understanding", "completed"}
                      /\ source'[t] \in {"failed", "waiting_model"} => run'[j] = "failed"
                      /\ source'[t] = "needs_review" =>
                           run'[j] = "completed" /\ (t \in Bound => stored'[j] = Review)
                      /\ source'[t] = "ready" =>
                           /\ run'[j] = "completed" /\ stored'[j] \in Facts
                           /\ index'[t] = {<<latest'[t], stored'[j]>>}
                      /\ source'[t] # "ready" => index'[t] = {}
    BY DEF SourceAgrees
  <2>1. CASE t = s
    BY <1>0, <1>1, <1>2, <1>4, <2>1 DEF SourceAgrees
  <2>2. CASE t # s
    <3>1. CASE latest[t] = 0
      BY <1>0, <1>4, <2>2, <3>1 DEF SourceAgrees, TypeOK, SourceState
    <3>2. CASE latest[t] # 0
      <4>1. latest[t] \in Runs
        BY <3>2 DEF TypeOK, Runs
      <4>2. <<t, latest[t]>> \in Jobs /\ <<t, latest[t]>> # <<s, n>>
        BY <1>3, <2>2, <4>1
      <4>3. run'[<<t, latest[t]>>] = run[<<t, latest[t]>>] /\ latest'[t] = latest[t]
            /\ source'[t] = source[t]
        BY <1>4, <2>2, <4>2
      <4> QED
        BY <1>0, <1>4, <4>3 DEF SourceAgrees
    <3> QED
      BY <3>1, <3>2
  <2> QED
    BY <2>1, <2>2
<1>8. RunProgress
  BY <1>1, <1>4 DEF RunProgress, Terminal
<1>9. SourceProgress
  <2> SUFFICES ASSUME NEW t \in Sources
               PROVE  /\ source[t] = "ready" => source'[t] = "ready" /\ index'[t] = index[t]
                      /\ source[t] \in {"ready", "needs_review"} /\ latest'[t] = latest[t]
                           => source'[t] \in {"ready", "needs_review"}
                      /\ latest'[t] # latest[t] =>
                           latest'[t] \in Runs /\ run[<<t, latest'[t]>>] = "absent"
    BY DEF SourceProgress
  <2> QED
    BY <1>1, <1>2, <1>4
<1>10. LifecycleStep
  <2>1. source' = [source EXCEPT ![s] = "processing"] /\ latest' = [latest EXCEPT ![s] = n]
    BY <1>1 DEF Begun
  <2>2. CASE latest[s] = 0 /\ source[s] = "registered"
    <3>1. n = 1
      BY <1>1, <2>2
    <3>2. Lifecycle!Begin(s)
      BY <2>1, <2>2, <3>1 DEF Lifecycle!Begin
    <3> QED
      BY <3>2 DEF LifecycleStep, Lifecycle!LifecycleNext
  <2>3. CASE \/ source[s] \in {"failed", "waiting_model"}
             \/ source[s] = "needs_review" /\ s \in Reviewable
    <3>1. latest' = [latest EXCEPT ![s] = @ + 1]
      BY <1>1, <2>1
    <3>2. Lifecycle!Repeat(s)
      BY <2>1, <2>3, <3>1 DEF Lifecycle!Repeat
    <3> QED
      BY <3>2 DEF LifecycleStep, Lifecycle!LifecycleNext
  <2>4. \/ latest[s] = 0 /\ source[s] = "registered"
        \/ source[s] \in {"failed", "waiting_model"}
        \/ source[s] = "needs_review" /\ s \in Reviewable
    BY <1>1
  <2> QED
    BY ONLY <2>2, <2>3, <2>4
<1>11. OneOpenRun'
  <2> SUFFICES ASSUME NEW t \in Sources, NEW m \in Runs
               PROVE  /\ m < latest'[t] => run'[<<t, m>>] \in Terminal
                                           /\ job'[<<t, m>>].state \in Settled
                      /\ m > latest'[t] => run'[<<t, m>>] = "absent"
                                           /\ job'[<<t, m>>].state = "absent"
    BY DEF OneOpenRun
  <2>1. m \in Nat /\ <<t, m>> \in Jobs
    BY <1>3 DEF Runs
  <2>2. CASE t # s
    <3>1. <<t, m>> # <<s, n>>
      BY <1>3, <2>2
    <3> QED
      BY <1>4, <2>1, <2>2, <3>1 DEF OneOpenRun
  <2>3. CASE t = s /\ m # n
    <3>1. <<t, m>> # <<s, n>>
      BY <1>3, <2>3
    <3> QED
      BY <1>1, <1>2, <1>4, <2>1, <2>3, <3>1 DEF OneOpenRun
  <2>4. CASE t = s /\ m = n
    BY <1>2, <1>4, <2>4
  <2> QED
    BY <2>2, <2>3, <2>4
<1> QED
  BY <1>5, <1>6, <1>7, <1>8, <1>9, <1>10, <1>11 DEF CanonInv, CanonStep

\* A step that touches the newest run of one source and keeps what was decided.
LEMMA PointCanon ==
  ASSUME TypeOK, TypeOK', OneOpenRun, CanonInv, NEW s \in Sources, latest[s] # 0,
         \A i \in Jobs : i # <<s, latest[s]>> => run'[i] = run[i] /\ stored'[i] = stored[i],
         \A t \in Sources : t # s => source'[t] = source[t] /\ index'[t] = index[t],
         latest' = latest, job' = job,
         run'[<<s, latest[s]>>] \in Terminal,
         run'[<<s, latest[s]>>] = "completed" <=> stored'[<<s, latest[s]>>] # None,
         run[<<s, latest[s]>>] \in Terminal => run'[<<s, latest[s]>>] = run[<<s, latest[s]>>],
         stored[<<s, latest[s]>>] # None =>
           stored'[<<s, latest[s]>>] = stored[<<s, latest[s]>>],
         \/ /\ source'[s] = source[s] /\ index'[s] = index[s]
            /\ run'[<<s, latest[s]>>] = "completed"
            /\ \/ source[s] = "processing"
               \/ source[s] \in {"ready", "needs_review"} /\ run[<<s, latest[s]>>] = "completed"
         \/ /\ source[s] = "processing"
            /\ \/ /\ source'[s] \in {"failed", "waiting_model"}
                  /\ run'[<<s, latest[s]>>] = "failed" /\ index'[s] = {}
               \/ /\ source'[s] = "needs_review" /\ run'[<<s, latest[s]>>] = "completed"
                  /\ index'[s] = {} /\ (s \in Bound => stored'[<<s, latest[s]>>] = Review)
               \/ /\ source'[s] = "ready" /\ run'[<<s, latest[s]>>] = "completed"
                  /\ stored'[<<s, latest[s]>>] \in Facts
                  /\ index'[s] = {<<latest[s], stored'[<<s, latest[s]>>]>>}
  PROVE  CanonInv' /\ CanonStep /\ OneOpenRun'
<1> DEFINE n == latest[s]
           j == <<s, n>>
<1>0. StoredInv /\ OldRunInv /\ SourceAgrees
  BY DEF CanonInv
<1>1. n \in Runs /\ n \in Nat /\ j \in Jobs
  BY JobPair DEF Runs, TypeOK
<1>2. \A t \in Sources, m \in Runs : <<t, m>> \in Jobs /\ (<<t, m>> = j => t = s /\ m = n)
  BY <1>1, JobPair
<1>3. /\ \A i \in Jobs : i # j => run'[i] = run[i] /\ stored'[i] = stored[i]
      /\ \A t \in Sources : t # s => source'[t] = source[t] /\ index'[t] = index[t]
  OBVIOUS
<1>4. StoredInv'
  BY <1>0, <1>3 DEF StoredInv
<1>5. \A t \in Sources, m \in Runs : m < latest[t] \/ m > latest[t] \/ t # s => <<t, m>> # j
  <2> SUFFICES ASSUME NEW t \in Sources, NEW m \in Runs,
                      m < latest[t] \/ m > latest[t] \/ t # s, <<t, m>> = j
               PROVE  FALSE
    OBVIOUS
  <2>1. t = s /\ m = n
    BY <1>2
  <2> QED
    BY <1>1, <2>1
<1>6. OldRunInv'
  BY <1>0, <1>2, <1>3, <1>5 DEF OldRunInv
<1>7. OneOpenRun'
  BY <1>2, <1>3, <1>5, ZenonT(60) DEF OneOpenRun
<1>8. RunProgress
  BY <1>3 DEF RunProgress, Terminal
<1>9. SourceProgress
  BY <1>3 DEF SourceProgress
<1>10. SourceAgrees'
  <2> SUFFICES ASSUME NEW t \in Sources
               PROVE  LET i == <<t, latest'[t]>> IN
                      /\ source'[t] = "registered" <=> latest'[t] = 0
                      /\ source'[t] = "processing" => run'[i] \in {"understanding", "completed"}
                      /\ source'[t] \in {"failed", "waiting_model"} => run'[i] = "failed"
                      /\ source'[t] = "needs_review" =>
                           run'[i] = "completed" /\ (t \in Bound => stored'[i] = Review)
                      /\ source'[t] = "ready" =>
                           /\ run'[i] = "completed" /\ stored'[i] \in Facts
                           /\ index'[t] = {<<latest'[t], stored'[i]>>}
                      /\ source'[t] # "ready" => index'[t] = {}
    BY DEF SourceAgrees
  <2>1. CASE t = s
    <3>1. CASE source[s] \in {"ready", "needs_review"}
      <4>1. /\ source'[s] = source[s] /\ index'[s] = index[s] /\ run[j] = "completed"
            /\ run'[j] = "completed"
        BY <3>1
      <4>2. stored'[j] = stored[j]
        BY <1>0, <1>1, <4>1 DEF StoredInv
      <4> QED
        BY <1>0, <2>1, <3>1, <4>1, <4>2 DEF SourceAgrees
    <3>2. CASE source[s] = "processing"
      BY <1>0, <2>1, <3>2 DEF SourceAgrees
    <3> QED
      BY <3>1, <3>2
  <2>2. CASE t # s
    <3>1. CASE latest[t] = 0
      BY <1>0, <1>3, <2>2, <3>1 DEF SourceAgrees, TypeOK, SourceState
    <3>2. CASE latest[t] # 0
      <4>1. latest[t] \in Runs
        BY <3>2 DEF TypeOK, Runs
      <4>2. <<t, latest[t]>> \in Jobs /\ <<t, latest[t]>> # j
        BY <1>2, <2>2, <4>1
      <4>3. run'[<<t, latest[t]>>] = run[<<t, latest[t]>>] /\ source'[t] = source[t]
            /\ stored'[<<t, latest[t]>>] = stored[<<t, latest[t]>>] /\ index'[t] = index[t]
        BY <1>3, <2>2, <4>2
      <4> QED
        BY <1>0, <4>3 DEF SourceAgrees
    <3> QED
      BY <3>1, <3>2
  <2> QED
    BY <2>1, <2>2
<1>11. LifecycleStep
  <2> DEFINE v == source'[s]
  <2>1. CASE v = source[s]
    <3>1. source' = source
      BY <1>3, <2>1 DEF TypeOK
    <3> QED
      BY <3>1 DEF LifecycleStep
  <2>2. CASE source[s] = "processing" /\ v \in {"ready", "needs_review", "failed", "waiting_model"}
    <3>1. source' = [source EXCEPT ![s] = v]
      BY <1>3 DEF TypeOK
    <3>2. Lifecycle!Decide(s, v) /\ v \in Lifecycle!Verdict
      BY <2>2, <3>1 DEF Lifecycle!Decide, Lifecycle!Verdict
    <3> QED
      BY <3>2 DEF LifecycleStep, Lifecycle!LifecycleNext
  <2> QED
    BY <2>1, <2>2
<1> QED
  BY <1>0, <1>4, <1>6, <1>7, <1>8, <1>9, <1>10, <1>11 DEF CanonInv, CanonStep

LEMMA CompleteCanon ==
  ASSUME TypeOK, OneOpenRun, CanonInv, WorkerInv,
         NEW w \in Workers, NEW ack \in BOOLEAN, CompleteRun(w, ack)
  PROVE  CanonInv' /\ CanonStep /\ OneOpenRun'
<1> DEFINE j == worker[w].job
           s == j[1]
           v == IF worker[w].answer = Review THEN "needs_review" ELSE source[s]
           a == StoredAfter(w)
<1>1. /\ j \in Jobs /\ s \in Sources /\ j = <<s, latest[s]>> /\ j[2] = latest[s]
      /\ worker[w].answer \in Answers
      /\ \/ run[j] = "understanding" /\ source[s] = "processing" /\ stored[j] = None
         \/ run[j] = "completed" /\ s \notin Bound /\ stored[j] # None
  BY CompleteFacts
<1>2. latest[s] # 0
  BY <1>1, JobPair DEF Runs
<1>3. /\ \A i \in Jobs : i # <<s, latest[s]>> => run'[i] = run[i] /\ stored'[i] = stored[i]
      /\ \A t \in Sources : t # s => source'[t] = source[t] /\ index'[t] = index[t]
      /\ run'[<<s, latest[s]>>] = "completed" /\ stored'[<<s, latest[s]>>] = a
      /\ source'[s] = v /\ index'[s] = index[s]
      /\ latest' = latest /\ job' = job
      /\ worker[w].answer = Review => source[s] = "processing"
  BY <1>1 DEF CompleteRun, queue, TypeOK
<1>4. TypeOK'
  BY CanonTyped
<1>5. /\ a \in Answers \cup {None} /\ a # None
      /\ stored[j] # None => a = stored[j]
      /\ stored[j] = None => a = worker[w].answer
  BY <1>1 DEF StoredAfter, TypeOK
<1>6. source[s] \in SourceState /\ SourceAgrees
  BY <1>1 DEF TypeOK, CanonInv
<1>7. \/ v = source[s] /\ v \in {"ready", "needs_review", "processing"}
         /\ (v = "ready" => run[j] = "completed") /\ (v = "needs_review" => run[j] = "completed")
      \/ /\ source[s] = "processing" /\ v = "needs_review" /\ index[s] = {}
         /\ (s \in Bound => a = Review)
  <2>1. CASE worker[w].answer = Review
    BY <1>1, <1>3, <1>5, <1>6, <2>1 DEF SourceAgrees
  <2>2. CASE worker[w].answer # Review
    BY <1>1, <1>2, <1>6, <2>2 DEF SourceAgrees, SourceState
  <2> QED
    BY <2>1, <2>2
<1>8. run[<<s, latest[s]>>] \in Terminal => "completed" = run[<<s, latest[s]>>]
  BY <1>1 DEF Terminal
<1>9. "completed" \in Terminal
  BY DEF Terminal
<1>10. /\ run'[<<s, latest[s]>>] \in Terminal
       /\ run'[<<s, latest[s]>>] = "completed" <=> stored'[<<s, latest[s]>>] # None
       /\ run[<<s, latest[s]>>] \in Terminal => run'[<<s, latest[s]>>] = run[<<s, latest[s]>>]
       /\ stored[<<s, latest[s]>>] # None => stored'[<<s, latest[s]>>] = stored[<<s, latest[s]>>]
  BY <1>1, <1>3, <1>5, <1>8, <1>9
<1>11. \/ /\ source'[s] = source[s] /\ index'[s] = index[s] /\ run'[<<s, latest[s]>>] = "completed"
          /\ \/ source[s] = "processing"
             \/ source[s] \in {"ready", "needs_review"} /\ run[<<s, latest[s]>>] = "completed"
       \/ /\ source[s] = "processing"
          /\ source'[s] = "needs_review" /\ run'[<<s, latest[s]>>] = "completed"
          /\ index'[s] = {} /\ (s \in Bound => stored'[<<s, latest[s]>>] = Review)
  BY <1>1, <1>3, <1>7
<1> HIDE DEF j, s, v, a
<1> QED
  BY <1>1, <1>2, <1>3, <1>4, <1>10, <1>11, PointCanon

LEMMA FailCanon ==
  ASSUME TypeOK, OneOpenRun, CanonInv, WorkerInv, NEW w \in Workers, FailRun(w)
  PROVE  CanonInv' /\ CanonStep /\ OneOpenRun'
<1> DEFINE j == worker[w].job
           s == j[1]
<1>0. job' = job
  BY DEF FailRun, queue
<1>1. CASE canon' = canon
  <2>1. OneOpenRun'
    BY <1>0, <1>1 DEF OneOpenRun, canon
  <2> QED
    BY <1>1, <2>1, QuietCanon
<1>2. CASE /\ j \in Jobs /\ s \in Sources /\ j = <<s, latest[s]>> /\ j[2] = latest[s]
           /\ run[j] = "understanding" /\ source[s] = "processing" /\ stored[j] = None
           /\ run' = [run EXCEPT ![j] = "failed"]
           /\ source' = [source EXCEPT ![s] = FailedAs(w)]
           /\ UNCHANGED <<latest, stored, index>>
  <2>1. latest[s] # 0
    BY <1>2, JobPair DEF Runs
  <2>2. /\ \A i \in Jobs : i # <<s, latest[s]>> => run'[i] = run[i] /\ stored'[i] = stored[i]
        /\ \A t \in Sources : t # s => source'[t] = source[t] /\ index'[t] = index[t]
        /\ run'[<<s, latest[s]>>] = "failed" /\ stored'[<<s, latest[s]>>] = None
        /\ source'[s] = FailedAs(w) /\ latest' = latest
    BY <1>2 DEF TypeOK
  <2>3. index'[s] = {}
    BY <1>2 DEF CanonInv, SourceAgrees
  <2>4. FailedAs(w) \in {"failed", "waiting_model"} /\ "failed" \in Terminal
    BY DEF FailedAs, Terminal
  <2>5. ~(run[<<s, latest[s]>>] \in Terminal) /\ stored[<<s, latest[s]>>] = None
    BY <1>2 DEF Terminal
  <2>6. TypeOK'
    BY CanonTyped
  <2> QED
    BY <1>0, <1>2, <2>1, <2>2, <2>3, <2>4, <2>5, <2>6, PointCanon
<1> QED
  BY <1>1, <1>2, FailFacts

LEMMA IndexCanon ==
  ASSUME TypeOK, OneOpenRun, CanonInv, WorkerInv, NEW w \in Workers,
         NEW n \in Runs, NEW ack \in BOOLEAN, Index(w, n, ack)
  PROVE  CanonInv' /\ CanonStep /\ OneOpenRun'
<1> DEFINE j == worker[w].job
           s == j[1]
<1>0. job' = job
  BY DEF Index, queue
<1>1. /\ j \in Jobs /\ s \in Sources /\ j = <<s, latest[s]>> /\ j[2] = latest[s]
      /\ run[j] = "completed" /\ source[s] = "processing" /\ stored[j] \in Facts
      /\ source' = [source EXCEPT ![s] = "ready"]
      /\ index' = [index EXCEPT ![s] = {<<latest[s], stored[j]>>}]
      /\ UNCHANGED <<latest, run, stored>>
  BY IndexFacts
<1>2. latest[s] # 0
  BY <1>1, JobPair DEF Runs
<1>3. /\ \A t \in Sources : t # s => source'[t] = source[t] /\ index'[t] = index[t]
      /\ source'[s] = "ready" /\ index'[s] = {<<latest[s], stored[j]>>}
  BY <1>1 DEF TypeOK
<1>4. stored[j] # None /\ "completed" \in Terminal
  BY <1>1 DEF Answers, Terminal
<1>5. TypeOK'
  BY CanonTyped
<1>6. /\ run' = run /\ stored' = stored /\ latest' = latest
      /\ run[<<s, latest[s]>>] = "completed" /\ stored[<<s, latest[s]>>] \in Facts
      /\ stored[<<s, latest[s]>>] # None
      /\ index'[s] = {<<latest[s], stored[<<s, latest[s]>>]>>}
  BY <1>1, <1>3, <1>4
<1>7. s \in Sources /\ source[s] = "processing"
  BY <1>1
<1> HIDE DEF j, s
<1> QED
  BY <1>0, <1>2, <1>3, <1>4, <1>5, <1>6, <1>7, PointCanon

---------------------------------------------------------------------------
(* The workers.                                                            *)

\* What a worker knows stays true while the others move.
LEMMA OthersKeepFacts ==
  ASSUME TypeOK, WorkerInv, RunProgress, SourceProgress,
         NEW v \in Workers, worker'[v] = worker[v], worker[v].phase # "idle"
  PROVE  WorkerFact(v)'
<1> DEFINE j == worker[v].job
           s == j[1]
<1>1. j \in Jobs /\ s \in Sources /\ j[2] \in Runs /\ j = <<s, j[2]>> /\ WorkerFact(v)
  BY JobPair DEF TypeOK, WorkerInv
<1>2. /\ run'[j] # "absent"
      /\ run[j] = "completed" => run'[j] = "completed"
      /\ stored[j] # None => stored'[j] = stored[j]
  BY <1>1 DEF RunProgress, WorkerFact, Terminal
<1>3. CASE worker[v].phase = "indexing"
  <2>1. run[j] = "completed" /\ worker[v].answer \in Facts
        /\ (s \in Bound => stored[j] = worker[v].answer)
    BY <1>1, <1>3 DEF WorkerFact
  <2>2. s \in Bound => stored'[j] = worker[v].answer
    BY <1>2, <2>1 DEF Answers
  <2> QED
    BY <1>2, <1>3, <2>1, <2>2 DEF WorkerFact
<1>4. CASE worker[v].phase = "closing"
  <2>1. /\ run[j] = "completed"
        /\ j[2] = latest[s] => source[s] \in {"ready", "needs_review"}
    BY <1>1, <1>4 DEF WorkerFact
  <2>2. j[2] = latest'[s] => latest'[s] = latest[s]
    BY <1>1, <2>1 DEF SourceProgress
  <2>3. j[2] = latest'[s] => source'[s] \in {"ready", "needs_review"}
    BY <1>1, <2>1, <2>2 DEF SourceProgress
  <2> QED
    BY <1>2, <1>4, <2>1, <2>3 DEF WorkerFact
<1>5. CASE worker[v].phase \notin {"indexing", "closing"}
  BY <1>1, <1>2, <1>5 DEF WorkerFact
<1> QED
  BY <1>3, <1>4, <1>5

LEMMA WorkersKeepFacts ==
  ASSUME TypeOK, WorkerInv, CanonStep, NEW w \in Workers,
         \A v \in Workers : v # w => worker'[v] = worker[v],
         worker'[w].phase # "idle" => WorkerFact(w)'
  PROVE  WorkerInv'
<1> SUFFICES ASSUME NEW v \in Workers, worker'[v].phase # "idle" PROVE WorkerFact(v)'
  BY DEF WorkerInv
<1>1. CASE v = w
  BY <1>1
<1>2. CASE v # w
  BY <1>2, OthersKeepFacts DEF CanonStep
<1> QED
  BY <1>1, <1>2

\* A worker that moves to a phase about which nothing is claimed.
Unclaimed == {"claimed", "loaded", "failing", "rejecting"}

LEMMA MoveFact ==
  ASSUME TypeOK, WorkerInv, CanonStep, NEW w \in Workers, worker[w].phase # "idle",
         worker'[w].job = worker[w].job, worker'[w].phase \in Unclaimed
  PROVE  WorkerFact(w)'
<1>1. worker[w].job \in Jobs /\ run[worker[w].job] # "absent"
  BY DEF TypeOK, WorkerInv, WorkerFact
<1>2. run'[worker[w].job] # "absent"
  BY <1>1 DEF CanonStep, RunProgress
<1> QED
  BY <1>2 DEF WorkerFact, Unclaimed

\* What a move does to the worker's own row and to the others.
LEMMA MoveRow ==
  ASSUME TypeOK, NEW w \in Workers
  PROVE  /\ \A p : Moves(w, p) => /\ worker'[w].phase = p /\ worker'[w].job = worker[w].job
                                  /\ worker'[w].answer = worker[w].answer
                                  /\ \A v \in Workers : v # w => worker'[v] = worker[v]
         /\ \A r : Fails(w, r) => /\ worker'[w].phase = "failing"
                                  /\ worker'[w].job = worker[w].job
                                  /\ \A v \in Workers : v # w => worker'[v] = worker[v]
         /\ worker' = [worker EXCEPT ![w] = Idle] =>
              worker'[w].phase = "idle" /\ \A v \in Workers : v # w => worker'[v] = worker[v]
<1>1. worker \in [Workers -> WorkerState] /\ worker[w] \in WorkerState
  BY DEF TypeOK
<1> QED
  BY <1>1 DEF Moves, Fails, Idle, WorkerState

LEMMA QuietWorkers ==
  ASSUME TypeOK, CanonInv, WorkerInv, NEW w \in Workers, Quiet(w)
  PROVE  WorkerInv'
<1>0. WorkersTyped
  BY DEF TypeOK, WorkersTyped, BusyHasJob
<1>1. CanonStep
  BY <1>0, QuietTyped, QuietCanon
<1>2. CASE Load(w) \/ FailRunRaises(w) \/ IndexRaises(w)
  <2>1. PICK p \in Unclaimed : Moves(w, p) /\ worker[w].phase # "idle"
    BY <1>2 DEF Load, FailRunRaises, IndexRaises, Unclaimed
  <2>2. WorkerFact(w)'
    BY <1>1, <2>1, MoveRow, MoveFact
  <2> QED
    BY <1>1, <2>1, <2>2, MoveRow, WorkersKeepFacts
<1>3. ASSUME NEW known \in BOOLEAN, NEW retryable \in BOOLEAN, LoadFails(w, known, retryable)
      PROVE  WorkerInv'
  <2>1. /\ worker[w].phase # "idle" /\ worker'[w].phase \in Unclaimed
        /\ worker'[w].job = worker[w].job
        /\ \A v \in Workers : v # w => worker'[v] = worker[v]
    BY <1>3, MoveRow DEF LoadFails, Unclaimed
  <2>2. WorkerFact(w)'
    BY <1>1, <2>1, MoveFact
  <2> QED
    BY <1>1, <2>1, <2>2, WorkersKeepFacts
<1>4. ASSUME NEW answer \in Answers, Understand(w, answer) PROVE WorkerInv'
  <2>1. /\ worker[w].phase # "idle" /\ worker'[w].phase = "understood"
        /\ worker'[w].answer = answer /\ worker'[w].job = worker[w].job
        /\ \A v \in Workers : v # w => worker'[v] = worker[v]
    <3>1. worker \in [Workers -> WorkerState] /\ worker[w] \in WorkerState
      BY DEF TypeOK
    <3> QED
      BY <1>4, <3>1 DEF Understand, WorkerState
  <2>2. run'[worker[w].job] # "absent"
    BY <1>1, <2>1 DEF CanonStep, RunProgress, TypeOK, WorkerInv, WorkerFact
  <2>3. WorkerFact(w)'
    BY <2>1, <2>2 DEF WorkerFact
  <2> QED
    BY <1>1, <2>1, <2>3, WorkersKeepFacts
<1>5. ASSUME NEW retryable \in BOOLEAN, ExecutionRaises(w, retryable) PROVE WorkerInv'
  <2>1. /\ worker[w].phase # "idle" /\ worker'[w].phase \in Unclaimed
        /\ worker'[w].job = worker[w].job
        /\ \A v \in Workers : v # w => worker'[v] = worker[v]
    BY <1>5, MoveRow DEF ExecutionRaises, Unclaimed
  <2>2. WorkerFact(w)'
    BY <1>1, <2>1, MoveFact
  <2> QED
    BY <1>1, <2>1, <2>2, WorkersKeepFacts
<1>6. CASE LeaseLost(w)
  <2>1. worker'[w].phase = "idle" /\ \A v \in Workers : v # w => worker'[v] = worker[v]
    BY <1>6, MoveRow DEF LeaseLost
  <2> QED
    BY <1>1, <2>1, WorkersKeepFacts
<1> QED
  BY <1>2, <1>3, <1>4, <1>5, <1>6 DEF Quiet

\* A worker that has nothing left in hand.
LEMMA DoneWorkers ==
  ASSUME TypeOK, WorkerInv, CanonStep, NEW w \in Workers, worker' = [worker EXCEPT ![w] = Idle]
  PROVE  WorkerInv'
<1>1. worker'[w].phase = "idle" /\ \A v \in Workers : v # w => worker'[v] = worker[v]
  BY MoveRow
<1> QED
  BY <1>1, WorkersKeepFacts

\* The claimed job is not absent, so its run has begun.
LEMMA ClaimWorkers ==
  ASSUME TypeOK, OneOpenRun, CanonInv, WorkerInv, NEW w \in Workers, NEW j \in Jobs, Claim(w, j),
         \A i \in Jobs : job[i].state # "absent" => run[i] # "absent"
  PROVE  WorkerInv'
<1>1. canon' = canon
  BY DEF Claim
<1>2. CanonStep
  BY <1>1, QuietCanon
<1>3. worker'[w].phase = "claimed" /\ worker'[w].job = j
      /\ \A v \in Workers : v # w => worker'[v] = worker[v]
  BY DEF Claim, TypeOK
<1>4. run'[j] # "absent"
  BY <1>1 DEF Claim, Claimable, canon
<1>5. WorkerFact(w)'
  BY <1>3, <1>4 DEF WorkerFact
<1> QED
  BY <1>2, <1>3, <1>5, WorkersKeepFacts

LEMMA CanonWorkers ==
  ASSUME TypeOK, OneOpenRun, CanonInv, WorkerInv, NEW w \in Workers,
         \/ \E ack \in BOOLEAN : CompleteRun(w, ack)
         \/ FailRun(w)
         \/ \E n \in Runs, ack \in BOOLEAN : Index(w, n, ack)
  PROVE  WorkerInv'
<1> DEFINE j == worker[w].job
           s == j[1]
<1>1. ASSUME NEW ack \in BOOLEAN, CompleteRun(w, ack) PROVE WorkerInv'
  <2>1. CanonStep
    BY <1>1, CompleteCanon
  <2>2. /\ j \in Jobs /\ s \in Sources /\ j = <<s, latest[s]>> /\ j[2] = latest[s]
        /\ worker[w].answer \in Answers
        /\ \/ run[j] = "understanding" /\ source[s] = "processing" /\ stored[j] = None
           \/ run[j] = "completed" /\ s \notin Bound /\ stored[j] # None
    BY <1>1, CompleteFacts
  <2>3. run'[j] = "completed" /\ stored'[j] = StoredAfter(w)
        /\ source'[s] = (IF worker[w].answer = Review THEN "needs_review" ELSE source[s])
    BY <1>1, <2>2 DEF CompleteRun, TypeOK
  <2>4. s \in Bound => stored'[j] = worker[w].answer
    BY <2>2, <2>3 DEF StoredAfter
  <2>5. worker'[w].job = j /\ \A v \in Workers : v # w => worker'[v] = worker[v]
    BY <1>1, MoveRow DEF CompleteRun
  <2>6. CASE ~ack
    <3>1. worker'[w].phase = "failing"
      BY <1>1, <2>6, MoveRow DEF CompleteRun
    <3>2. WorkerFact(w)'
      BY <2>3, <2>5, <3>1 DEF WorkerFact
    <3> QED
      BY <2>1, <2>5, <3>2, WorkersKeepFacts
  <2>7. CASE ack /\ worker[w].answer = Review
    <3>1. worker'[w].phase = "closing"
      BY <1>1, <2>7, MoveRow DEF CompleteRun
    <3>2. source'[s] = "needs_review"
      BY <2>3, <2>7
    <3>3. WorkerFact(w)'
      BY <2>3, <2>5, <3>1, <3>2 DEF WorkerFact
    <3> QED
      BY <2>1, <2>5, <3>3, WorkersKeepFacts
  <2>8. CASE ack /\ worker[w].answer # Review
    <3>1. worker'[w].phase = "indexing" /\ worker'[w].answer = worker[w].answer
      BY <1>1, <2>8, MoveRow DEF CompleteRun
    <3>2. worker[w].answer \in Facts
      BY <2>2, <2>8 DEF Answers
    <3>3. WorkerFact(w)'
      BY <2>3, <2>4, <2>5, <3>1, <3>2 DEF WorkerFact
    <3> QED
      BY <2>1, <2>5, <3>3, WorkersKeepFacts
  <2> QED
    BY <2>6, <2>7, <2>8
<1>2. ASSUME FailRun(w) PROVE WorkerInv'
  <2>1. CanonStep
    BY <1>2, FailCanon
  <2>2. /\ worker[w].phase # "idle" /\ worker'[w].phase \in Unclaimed
        /\ worker'[w].job = worker[w].job
        /\ \A v \in Workers : v # w => worker'[v] = worker[v]
    BY <1>2, MoveRow DEF FailRun, Unclaimed
  <2>3. WorkerFact(w)'
    BY <2>1, <2>2, MoveFact
  <2> QED
    BY <2>1, <2>2, <2>3, WorkersKeepFacts
<1>3. ASSUME NEW n \in Runs, NEW ack \in BOOLEAN, Index(w, n, ack) PROVE WorkerInv'
  <2>1. CanonStep
    BY <1>3, IndexCanon
  <2>2. /\ j \in Jobs /\ s \in Sources
        /\ run[j] = "completed" /\ source' = [source EXCEPT ![s] = "ready"]
        /\ UNCHANGED <<latest, run, stored>>
    BY <1>3, IndexFacts
  <2>3. source'[s] = "ready" /\ run'[j] = "completed"
    BY <2>2 DEF TypeOK
  <2>4. /\ worker'[w].phase \in {"closing", "rejecting"} /\ worker'[w].job = j
        /\ \A v \in Workers : v # w => worker'[v] = worker[v]
    BY <1>3, MoveRow DEF Index
  <2>5. WorkerFact(w)'
    BY <2>3, <2>4 DEF WorkerFact
  <2> QED
    BY <2>1, <2>4, <2>5, WorkersKeepFacts
<1> QED
  BY <1>1, <1>2, <1>3

---------------------------------------------------------------------------
(* The queue.                                                              *)

\* A job exists only for a run that has begun, and is open only for the newest one.
LEMMA JobFacts ==
  ASSUME TypeOK, OneOpenRun, CanonInv, NEW j \in Jobs
  PROVE  /\ job[j].state # "absent" => run[j] # "absent"
         /\ job[j].state \in {"pending", "leased"} => j[2] = latest[j[1]]
<1> DEFINE s == j[1]
           n == j[2]
<1>1. /\ s \in Sources /\ n \in Runs /\ j = <<s, n>> /\ latest[s] \in 0 .. MaxRuns
      /\ MaxRuns \in Nat /\ n \in Nat /\ n >= 1 /\ source[s] \in SourceState
  BY JobPair DEF TypeOK, Runs
<1>2. CASE n < latest[s]
  BY <1>1, <1>2 DEF OneOpenRun, Terminal, Settled
<1>3. CASE n > latest[s]
  BY <1>1, <1>3 DEF OneOpenRun
<1>4. CASE n = latest[s]
  <2>1. run[<<s, latest[s]>>] # "absent"
    BY <1>1, <1>4 DEF CanonInv, SourceAgrees, SourceState
  <2> QED
    BY <1>1, <1>4, <2>1
<1> QED
  BY <1>1, <1>2, <1>3, <1>4

\* A step that only changes the row of an open job.
LEMMA OpenJobStep ==
  ASSUME TypeOK, OneOpenRun, CanonInv, canon' = canon, NEW j \in Jobs,
         job[j].state \in {"pending", "leased"},
         \A i \in Jobs : i # j => job'[i] = job[i]
  PROVE  OneOpenRun'
<1> SUFFICES ASSUME NEW s \in Sources, NEW n \in Runs
             PROVE  /\ n < latest[s] => run[<<s, n>>] \in Terminal
                                        /\ job'[<<s, n>>].state \in Settled
                    /\ n > latest[s] => run[<<s, n>>] = "absent"
                                        /\ job'[<<s, n>>].state = "absent"
  BY DEF OneOpenRun, canon
<1>1. <<s, n>> \in Jobs /\ <<s, n>>[1] = s /\ <<s, n>>[2] = n
      /\ n \in Nat /\ latest[s] \in Nat
  BY JobPair DEF TypeOK
<1>2. CASE n # latest[s]
  <2>1. <<s, n>> # j
    BY <1>1, <1>2, JobFacts
  <2> QED
    BY <1>1, <2>1 DEF OneOpenRun
<1>3. CASE n = latest[s]
  BY <1>1, <1>3
<1> QED
  BY <1>2, <1>3

LEMMA UsableKept ==
  ASSUME TypeOK, CompletedUsable, CanonStep,
         \A j \in Jobs : job'[j].state = "completed" =>
           \/ job[j].state = "completed"
           \/ /\ run'[j] = "completed"
              /\ j[2] = latest'[j[1]] => source'[j[1]] \in {"ready", "needs_review"}
  PROVE  CompletedUsable'
<1> SUFFICES ASSUME NEW s \in Sources, NEW n \in Runs, job'[<<s, n>>].state = "completed"
             PROVE  /\ run'[<<s, n>>] = "completed"
                    /\ n = latest'[s] => source'[s] \in {"ready", "needs_review"}
  BY DEF CompletedUsable
<1>1. <<s, n>> \in Jobs /\ <<s, n>>[1] = s /\ <<s, n>>[2] = n
  BY JobPair
<1>2. CASE job[<<s, n>>].state = "completed"
  <2>1. /\ run[<<s, n>>] = "completed"
        /\ n = latest[s] => source[s] \in {"ready", "needs_review"}
    BY <1>2 DEF CompletedUsable
  <2>2. run'[<<s, n>>] = "completed"
    BY <1>1, <2>1 DEF CanonStep, RunProgress, Terminal
  <2>3. n = latest'[s] => latest'[s] = latest[s]
    BY <2>1 DEF CanonStep, SourceProgress
  <2> QED
    BY <2>1, <2>2, <2>3 DEF CanonStep, SourceProgress
<1>3. CASE job[<<s, n>>].state # "completed"
  BY <1>1, <1>3
<1> QED
  BY <1>2, <1>3

LEMMA QueueInv ==
  ASSUME IInv, NEW j \in Jobs,
         \/ LeaseExpires(j) \/ LeaseExpiresEarly(j)
         \/ \E w \in Workers : Claim(w, j)
  PROVE  IInv' /\ CanonStep /\ canon' = canon
<1>0. TypeOK /\ OneOpenRun /\ CanonInv /\ WorkerInv /\ CompletedUsable
  BY DEF IInv
<1>1. TypeOK' /\ canon' = canon
  BY <1>0, QueueTyped
<1>2. CanonInv' /\ CanonStep
  BY <1>0, <1>1, QuietCanon
<1>3. /\ job[j].state \in {"pending", "leased"} /\ job'[j].state = "leased"
      /\ \A i \in Jobs : i # j => job'[i] = job[i]
  <2>1. CASE LeaseExpires(j) \/ LeaseExpiresEarly(j)
    <3>1. job[j] \in JobRow /\ job' = [job EXCEPT ![j].expired = TRUE] /\ job[j].state = "leased"
      BY <1>0, <2>1 DEF LeaseExpires, LeaseExpiresEarly, TypeOK
    <3> QED
      BY <1>0, <3>1 DEF TypeOK, JobRow
  <2>2. CASE \E w \in Workers : Claim(w, j)
    BY <1>0, <2>2 DEF Claim, Claimable, TypeOK
  <2> QED
    BY <2>1, <2>2
<1>4. OneOpenRun'
  BY <1>0, <1>1, <1>3, OpenJobStep
<1>5. CompletedUsable'
  <2>1. \A i \in Jobs : job'[i].state = "completed" => job[i].state = "completed"
    BY <1>3
  <2> QED
    BY <1>0, <1>2, <2>1, UsableKept
<1>6. WorkerInv'
  <2>1. CASE LeaseExpires(j) \/ LeaseExpiresEarly(j)
    BY <1>0, <1>1, <2>1 DEF LeaseExpires, LeaseExpiresEarly, WorkerInv, WorkerFact, canon
  <2>2. ASSUME NEW w \in Workers, Claim(w, j) PROVE WorkerInv'
    <3>1. \A i \in Jobs : job[i].state # "absent" => run[i] # "absent"
      BY <1>0, JobFacts
    <3> QED
      BY <1>0, <2>2, <3>1, ClaimWorkers
  <2> QED
    BY <2>1, <2>2
<1> QED
  BY <1>1, <1>2, <1>4, <1>5, <1>6 DEF IInv

LEMMA SettleInv ==
  ASSUME IInv, NEW w \in Workers, Close(w) \/ Reject(w)
  PROVE  IInv' /\ CanonStep /\ canon' = canon
<1> DEFINE j == worker[w].job
<1>0. TypeOK /\ OneOpenRun /\ CanonInv /\ WorkerInv /\ CompletedUsable
  BY DEF IInv
<1>1. TypeOK' /\ canon' = canon
  BY <1>0, SettleTyped
<1>2. CanonInv' /\ CanonStep
  BY <1>0, <1>1, QuietCanon
<1>3. PICK outcome \in {"completed", "dead_letter"} :
        /\ Settle(w, outcome)
        /\ outcome = "completed" => worker[w].phase = "closing"
        /\ worker[w].phase # "idle"
  BY DEF Close, Reject
<1>4. j \in Jobs /\ job[j] \in JobRow /\ j[1] \in Sources
  BY <1>0, <1>3, JobPair DEF TypeOK
<1>5. /\ job[j].state = "leased" /\ job'[j].state = outcome
      /\ \A i \in Jobs : i # j => job'[i] = job[i]
  BY <1>0, <1>3, <1>4 DEF Settle, HoldsLease, TypeOK, JobRow
<1>6. OneOpenRun'
  BY <1>0, <1>1, <1>4, <1>5, OpenJobStep
<1>7. outcome = "completed" =>
        /\ run'[j] = "completed"
        /\ j[2] = latest'[j[1]] => source'[j[1]] \in {"ready", "needs_review"}
  BY <1>0, <1>1, <1>3 DEF WorkerInv, WorkerFact, canon
<1>8. CompletedUsable'
  <2>1. \A i \in Jobs : job'[i].state = "completed" =>
          \/ job[i].state = "completed"
          \/ /\ run'[i] = "completed"
             /\ i[2] = latest'[i[1]] => source'[i[1]] \in {"ready", "needs_review"}
    BY <1>5, <1>7
  <2> QED
    BY <1>0, <1>2, <2>1, UsableKept
<1>9. WorkerInv'
  BY <1>0, <1>2, <1>3, DoneWorkers DEF Settle
<1> QED
  BY <1>1, <1>2, <1>6, <1>8, <1>9 DEF IInv

LEMMA BegunInv ==
  ASSUME IInv, NEW s \in Sources, Submit(s) \/ Reprocess(s)
  PROVE  IInv' /\ CanonStep /\ worker' = worker
<1>0. TypeOK /\ OneOpenRun /\ CanonInv /\ WorkerInv /\ CompletedUsable
  BY DEF IInv
<1>1. TypeOK'
  BY <1>0, BegunTyped
<1>2. CanonInv' /\ CanonStep /\ OneOpenRun'
  BY <1>0, BegunCanon
<1>3. worker' = worker /\ \A j \in Jobs : job'[j].state = "completed" => job[j].state = "completed"
  <2>1. PICK n \in Runs : Begun(s, n)
    BY <1>0, BegunFacts DEF CanonInv
  <2>2. <<s, n>> \in Jobs
    BY JobPair
  <2> QED
    BY <1>0, <2>1, <2>2 DEF Begun, Pending, TypeOK
<1>4. CompletedUsable'
  BY <1>0, <1>2, <1>3, UsableKept
<1>5. WorkerInv'
  <2> SUFFICES ASSUME NEW v \in Workers, worker'[v].phase # "idle" PROVE WorkerFact(v)'
    BY DEF WorkerInv
  <2> QED
    BY <1>0, <1>2, <1>3, OthersKeepFacts DEF CanonStep
<1> QED
  BY <1>1, <1>2, <1>3, <1>4, <1>5 DEF IInv

\* A worker on an old run leaves the canon alone; one on the newest keeps the invariant.
LEMMA ProcessInv ==
  ASSUME IInv, NEW w \in Workers, Process(w) \/ Abandon(w)
  PROVE  /\ IInv' /\ CanonStep
         /\ canon' = canon \/ worker[w].job[2] = latest[worker[w].job[1]]
         /\ \A v \in Workers : v # w => worker'[v] = worker[v]
<1>0. TypeOK /\ OneOpenRun /\ CanonInv /\ WorkerInv /\ CompletedUsable
  BY DEF IInv
<1>t. TypeOK'
  BY <1>0, NextTyped DEF Next, RunOnce
<1>1. CASE Quiet(w) \/ Abandon(w)
  <2>1. canon' = canon /\ queue' = queue
    <3>1. WorkersTyped
      BY <1>0 DEF TypeOK, WorkersTyped, BusyHasJob
    <3> QED
      BY <1>1, <3>1, QuietTyped DEF Abandon
  <2>2. CanonInv' /\ CanonStep
    BY <1>0, <2>1, QuietCanon
  <2>3. OneOpenRun' /\ CompletedUsable'
    BY <1>0, <2>1 DEF OneOpenRun, CompletedUsable, canon, queue
  <2>4. WorkerInv'
    BY <1>0, <1>1, <2>2, QuietWorkers, DoneWorkers DEF Abandon
  <2>5. \A v \in Workers : v # w => worker'[v] = worker[v]
    BY <1>0, <1>1, MoveRow DEF Quiet, Load, LoadFails, Understand, ExecutionRaises,
         FailRunRaises, IndexRaises, LeaseLost, Abandon, TypeOK
  <2> QED
    BY <1>t, <2>1, <2>2, <2>3, <2>4, <2>5 DEF IInv
<1>2. CASE Close(w) \/ Reject(w)
  <2>1. IInv' /\ CanonStep /\ canon' = canon
    BY <1>2, SettleInv
  <2>2. \A v \in Workers : v # w => worker'[v] = worker[v]
    BY <1>0, <1>2, MoveRow DEF Close, Reject, Settle
  <2> QED
    BY <2>1, <2>2
<1>3. CASE \/ \E ack \in BOOLEAN : CompleteRun(w, ack)
           \/ FailRun(w)
           \/ \E n \in Runs, ack \in BOOLEAN : Index(w, n, ack)
  <2>1. CanonInv' /\ CanonStep /\ OneOpenRun'
    BY <1>0, <1>3, CompleteCanon, FailCanon, IndexCanon
  <2>2. queue' = queue
    BY <1>0, <1>3, CanonTyped
  <2>3. CompletedUsable'
    <3>1. \A j \in Jobs : job'[j].state = "completed" => job[j].state = "completed"
      BY <2>2 DEF queue
    <3> QED
      BY <1>0, <2>1, <3>1, UsableKept
  <2>4. WorkerInv'
    BY <1>0, <1>3, CanonWorkers
  <2>5. canon' = canon \/ worker[w].job[2] = latest[worker[w].job[1]]
    BY <1>0, <1>3, CompleteFacts, FailFacts, IndexFacts
  <2>6. \A v \in Workers : v # w => worker'[v] = worker[v]
    BY <1>0, <1>3, MoveRow DEF CompleteRun, FailRun, Index
  <2> QED
    BY <1>t, <2>1, <2>3, <2>4, <2>5, <2>6 DEF IInv
<1> QED
  BY <1>1, <1>2, <1>3, ProcessSplit

---------------------------------------------------------------------------
(* The theorems.                                                           *)

LEMMA InitInv == Init => IInv
<1> SUFFICES ASSUME Init PROVE IInv
  OBVIOUS
<1>1. TypeOK
  BY InitTyped
<1>2. CanonInv
  BY JobPair DEF Init, CanonInv, StoredInv, OldRunInv, SourceAgrees
<1>3. OneOpenRun /\ CompletedUsable
  BY JobPair DEF Init, OneOpenRun, CompletedUsable, NoJob, Runs
<1>4. WorkerInv
  BY DEF Init, WorkerInv, Idle
<1> QED
  BY <1>1, <1>2, <1>3, <1>4 DEF IInv

LEMMA NextInv == IInv /\ [Next]_vars => IInv' /\ CanonStep
<1> SUFFICES ASSUME IInv, [Next]_vars PROVE IInv' /\ CanonStep
  OBVIOUS
<1>1. CASE UNCHANGED vars
  <2>1. canon' = canon
    BY <1>1 DEF vars, canon
  <2>2. CanonStep
    BY <2>1, QuietCanon DEF IInv
  <2>3. IInv'
    BY <1>1 DEF vars, IInv, TypeOK, OneOpenRun, CanonInv, StoredInv, OldRunInv, SourceAgrees,
         WorkerInv, WorkerFact, CompletedUsable
  <2> QED
    BY <2>2, <2>3
<1>2. CASE Next
  BY <1>2, BegunInv, QueueInv, ProcessInv DEF Next, RunOnce
<1> QED
  BY <1>1, <1>2

\* The inductive invariant holds throughout: open runs, verdicts, stored results and what
\* each worker knows of them fit together.
THEOREM InvCorrect == Spec => []IInv
<1>1. IInv /\ [Next]_vars => IInv'
  BY NextInv
<1> QED
  BY <1>1, InitInv, PTL DEF Spec

\* Only the newest run of a source is open, for any number of workers and lost leases.
THEOREM OneOpenRunCorrect == Spec => []OneOpenRun
<1>1. IInv => OneOpenRun
  BY DEF IInv
<1> QED
  BY <1>1, InvCorrect, PTL

\* The state shown on a source is the outcome of its newest run, and a ready source has
\* exactly the index of the facts stored for it.
THEOREM SourceAgreesCorrect == Spec => []SourceAgrees
<1>1. IInv => SourceAgrees
  BY DEF IInv, CanonInv
<1> QED
  BY <1>1, InvCorrect, PTL

\* A completed job leaves a source that is usable or waits for a reviewer.
THEOREM CompletedUsableCorrect == Spec => []CompletedUsable
<1>1. IInv => CompletedUsable
  BY DEF IInv
<1> QED
  BY <1>1, InvCorrect, PTL

\* No worker overturns a verdict: terminal runs, stored results and ready sources stay.
THEOREM VerdictFinalCorrect == Spec => VerdictFinal
<1>1. IInv /\ [Next]_vars =>
        [/\ \A j \in Jobs : /\ run[j] \in Terminal => run'[j] = run[j]
                            /\ stored[j] # None => stored'[j] = stored[j]
         /\ \A s \in Sources : source[s] = "ready" =>
              source'[s] = "ready" /\ index'[s] = index[s]]_vars
  BY NextInv DEF CanonStep, RunProgress, SourceProgress
<1> QED
  BY <1>1, InvCorrect, PTL DEF Spec, VerdictFinal

\* A worker that still holds an old run changes no source, run, result or index.
THEOREM LateRunHarmlessCorrect == Spec => LateRunHarmless
<1>1. ASSUME IInv, Next, NEW w \in Workers, NEW j \in Jobs,
             Holding(w, j), worker'[w] # worker[w], j[2] < latest[j[1]]
      PROVE  canon' = canon
  <2>0. TypeOK
    BY <1>1 DEF IInv
  <2>1. j[1] \in Sources /\ j[2] \in Nat /\ latest[j[1]] \in Nat
    BY <2>0, JobPair DEF TypeOK
  <2>2. ASSUME NEW s \in Sources, Submit(s) \/ Reprocess(s) PROVE canon' = canon
    BY <1>1, <2>2, BegunInv
  <2>3. ASSUME NEW v \in Workers, Process(v) \/ Abandon(v) PROVE canon' = canon
    <3>1. canon' = canon \/ worker[v].job[2] = latest[worker[v].job[1]]
      BY <1>1, <2>3, ProcessInv
    <3>2. v = w
      BY <1>1, <2>3, ProcessInv
    <3> QED
      BY <1>1, <2>1, <3>1, <3>2 DEF Holding
  <2>4. ASSUME NEW i \in Jobs,
               \/ LeaseExpires(i) \/ LeaseExpiresEarly(i)
               \/ \E v \in Workers : Claim(v, i)
        PROVE  canon' = canon
    BY <1>1, <2>4, QueueInv
  <2> QED
    BY <1>1, <2>2, <2>3, <2>4 DEF Next, RunOnce
<1>2. IInv /\ [Next]_vars =>
        [\A w \in Workers, j \in Jobs :
           Holding(w, j) /\ worker'[w] # worker[w] /\ j[2] < latest[j[1]] => canon' = canon]_vars
  BY <1>1
<1> QED
  BY <1>2, InvCorrect, PTL DEF Spec, LateRunHarmless

\* Every behaviour of the workers is a behaviour of the abstract life cycle of a source.
THEOREM LifecycleRefined == Spec => ImplementsLifecycle
<1>1. Init => Lifecycle!LifecycleInit
  BY DEF Init, Lifecycle!LifecycleInit
<1>2. IInv /\ [Next]_vars => [Lifecycle!LifecycleNext]_(Lifecycle!lifecycleVars)
  BY NextInv DEF CanonStep, LifecycleStep, Lifecycle!lifecycleVars
<1> QED
  BY <1>1, <1>2, InvCorrect, PTL DEF Spec, ImplementsLifecycle, Lifecycle!LifecycleSpec

\* Sources, runs, jobs and index agree for any number of sources, workers and runs: the
\* property the run document checks.
THEOREM RunsAgreeCorrect == Spec => []RunsAgree
BY TypeCorrect, OneOpenRunCorrect, SourceAgreesCorrect, CompletedUsableCorrect, PTL
   DEF RunsAgree

\* No worker that lost its job or holds an old one changes what was decided, although
\* neither complete nor index_result looks at a lease.
THEOREM LateWorkersHarmlessCorrect == Spec => LateWorkersHarmless
BY VerdictFinalCorrect, LateRunHarmlessCorrect, PTL DEF LateWorkersHarmless

(***************************************************************************)
(* The attempt history.                                                    *)
(***************************************************************************)

\* A job row and its history: HistoryExact, and that a job is on its first attempt or a
\* later one exactly when it was claimed.
HistoryOf(r, h) ==
  /\ r.state \in {"absent", "pending"} => r.attempt = 0
  /\ r.state = "leased" => r.attempt >= 1
  /\ \A a, b \in h : a.attempt = b.attempt => a = b
  /\ \A a \in h : /\ a.attempt >= 1 /\ a.attempt <= r.attempt
                  /\ r.state = "leased" => a.attempt < r.attempt
  /\ \A k \in 1 .. r.attempt :
       k < r.attempt \/ r.state \in Settled => \E a \in h : a.attempt = k
  /\ r.state \in Settled => [attempt |-> r.attempt, outcome |-> r.state] \in h

HistoryInv == \A j \in Jobs : HistoryOf(job[j], history[j])

\* An attempt that is over is filed: by the worker that settles the job, or by the one
\* that takes the lease over.
LEMMA Filed ==
  ASSUME NEW r \in JobRow, NEW h \in SUBSET AttemptRow, HistoryOf(r, h), r.state = "leased",
         NEW outcome \in {"completed", "dead_letter", "lease_lost"}
  PROVE  LET row == [attempt |-> r.attempt, outcome |-> outcome]
             g == h \cup {row}
         IN  /\ \A a, b \in g : a.attempt = b.attempt => a = b
             /\ \A a \in g : a.attempt >= 1 /\ a.attempt <= r.attempt
             /\ \A k \in 1 .. r.attempt : \E a \in g : a.attempt = k
<1> DEFINE row == [attempt |-> r.attempt, outcome |-> outcome]
           g == h \cup {row}
<1>1. r.attempt \in Nat /\ r.attempt >= 1 /\ row.attempt = r.attempt
  BY DEF JobRow, HistoryOf
<1>2. \A a \in h : a.attempt \in Nat /\ a.attempt >= 1 /\ a.attempt < r.attempt
  BY <1>1 DEF HistoryOf, AttemptRow
<1> HIDE DEF row
<1>3. \A a \in h : a.attempt # row.attempt
  BY <1>1, <1>2
<1>4. \A a, b \in g : a.attempt = b.attempt => a = b
  BY <1>3 DEF HistoryOf
<1>5. \A a \in g : a.attempt >= 1 /\ a.attempt <= r.attempt
  BY <1>1, <1>2
<1>6. ASSUME NEW k \in 1 .. r.attempt PROVE \E a \in g : a.attempt = k
  <2>1. CASE k = r.attempt
    BY <1>1, <2>1
  <2>2. CASE k < r.attempt
    BY <2>2 DEF HistoryOf
  <2> QED
    BY <1>1, <2>1, <2>2
<1> QED
  BY <1>4, <1>5, <1>6 DEF row

\* One job row and one history change; the others are as they were.
LEMMA HistoryStep ==
  ASSUME TypeOK, HistoryInv, NEW j \in Jobs, NEW r, NEW h, HistoryOf(r, h),
         job' = [job EXCEPT ![j] = r], history' = [history EXCEPT ![j] = h]
  PROVE  HistoryInv'
<1>1. /\ job'[j] = r /\ history'[j] = h
      /\ \A i \in Jobs : i # j => job'[i] = job[i] /\ history'[i] = history[i]
  BY DEF TypeOK
<1> QED
  BY <1>1 DEF HistoryInv

LEMMA ClaimHistory ==
  ASSUME TypeOK, HistoryInv, NEW w \in Workers, NEW j \in Jobs, Claim(w, j)
  PROVE  HistoryInv'
<1> DEFINE n == [state |-> "leased", attempt |-> job[j].attempt + 1,
                 version |-> job[j].version + 1, expired |-> FALSE]
<1>1. job' = [job EXCEPT ![j] = n] /\ history' = [history EXCEPT ![j] = HistoryAfterClaim(j)] /\ Claimable(j)
  BY DEF Claim
<1>2. /\ job[j] \in JobRow /\ history[j] \in SUBSET AttemptRow /\ HistoryOf(job[j], history[j])
      /\ job[j].attempt \in Nat
  BY DEF TypeOK, HistoryInv, JobRow
<1>3. n.state = "leased" /\ n.attempt = job[j].attempt + 1 /\ n.state \notin Settled
  BY DEF Settled
<1> HIDE DEF n
<1>4. HistoryOf(n, HistoryAfterClaim(j))
  <2>1. CASE job[j].state = "pending"
    <3>1. HistoryAfterClaim(j) = history[j] /\ job[j].attempt = 0
      BY <1>2, <2>1 DEF HistoryAfterClaim, HistoryOf
    <3>2. \A a \in history[j] : FALSE
      BY <1>2, <3>1 DEF HistoryOf, AttemptRow
    <3> QED
      BY <1>3, <3>1, <3>2 DEF HistoryOf
  <2>2. CASE job[j].state = "leased"
    <3> DEFINE g == history[j] \cup {[attempt |-> job[j].attempt, outcome |-> "lease_lost"]}
    <3>1. ~\E a \in history[j] : a.attempt = job[j].attempt
      BY <1>2, <2>2 DEF HistoryOf, AttemptRow
    <3>2. HistoryAfterClaim(j) = g
      BY <2>2, <3>1 DEF HistoryAfterClaim
    <3>3. /\ \A a, b \in g : a.attempt = b.attempt => a = b
          /\ \A a \in g : a.attempt >= 1 /\ a.attempt <= job[j].attempt
          /\ \A k \in 1 .. job[j].attempt : \E a \in g : a.attempt = k
      BY <1>2, <2>2, Filed
    <3>4. \A a \in g : a.attempt \in Nat
      BY <1>2 DEF AttemptRow
    <3> HIDE DEF g
    <3>5. \A a \in g : a.attempt >= 1 /\ a.attempt < n.attempt
      BY <1>2, <1>3, <3>3, <3>4
    <3>6. \A k \in 1 .. n.attempt : k < n.attempt => \E a \in g : a.attempt = k
      BY <1>2, <1>3, <3>3
    <3> QED
      BY <1>2, <1>3, <3>2, <3>3, <3>4, <3>5, <3>6 DEF HistoryOf
  <2> QED
    BY <1>1, <2>1, <2>2 DEF Claimable
<1> QED
  BY <1>1, <1>4, HistoryStep

LEMMA SettleHistory ==
  ASSUME TypeOK, HistoryInv, NEW w \in Workers, NEW outcome \in Settled,
         worker[w].phase # "idle", Settle(w, outcome)
  PROVE  HistoryInv'
<1>1. PICK j \in Jobs : j = worker[w].job
  BY DEF TypeOK
<1>2. /\ job[j] \in JobRow /\ history[j] \in SUBSET AttemptRow /\ HistoryOf(job[j], history[j])
      /\ job[j].attempt \in Nat
  BY DEF TypeOK, HistoryInv, JobRow
<1> DEFINE n == [job[j] EXCEPT !.state = outcome, !.version = job[j].version + 1, !.expired = FALSE]
           g == history[j] \cup {[attempt |-> job[j].attempt, outcome |-> outcome]}
<1>3. /\ job[j].state = "leased" /\ worker[w].attempt = job[j].attempt
      /\ history' = [history EXCEPT ![j] = g]
  BY <1>1 DEF Settle, HoldsLease
<1>4. job' = [job EXCEPT ![j] = n]
  BY <1>1 DEF Settle, TypeOK
<1>5. n.state = outcome /\ n.attempt = job[j].attempt
  BY <1>2 DEF JobRow
<1>6. outcome \in {"completed", "dead_letter", "lease_lost"} /\ outcome \notin {"absent", "pending", "leased"}
  BY DEF Settled
<1>7. /\ \A a, b \in g : a.attempt = b.attempt => a = b
      /\ \A a \in g : a.attempt >= 1 /\ a.attempt <= job[j].attempt
      /\ \A k \in 1 .. job[j].attempt : \E a \in g : a.attempt = k
  BY <1>2, <1>3, <1>6, Filed
<1>8. [attempt |-> job[j].attempt, outcome |-> outcome] \in g
  OBVIOUS
<1> HIDE DEF n, g
<1>9. HistoryOf(n, g)
  BY <1>5, <1>6, <1>7, <1>8 DEF HistoryOf
<1> QED
  BY <1>3, <1>4, <1>9, HistoryStep

LEMMA NextHistory == TypeOK /\ HistoryInv /\ [Next]_vars => HistoryInv'
<1> SUFFICES ASSUME TypeOK, HistoryInv, [Next]_vars PROVE HistoryInv'
  OBVIOUS
<1>1. ASSUME UNCHANGED <<job, history>> PROVE HistoryInv'
  BY <1>1 DEF HistoryInv
<1>2. ASSUME NEW s \in Sources, NEW n \in Runs, Begun(s, n) PROVE HistoryInv'
  <2>1. PICK j \in Jobs : j = <<s, n>>
    BY DEF Jobs
  <2>2. UNCHANGED history /\ history = [history EXCEPT ![j] = history[j]]
        /\ job' = [job EXCEPT ![j] = IF job[j].state = "absent" THEN Pending ELSE job[j]]
    BY <1>2, <2>1 DEF Begun, TypeOK
  <2>3. HistoryOf(job[j], history[j]) /\ job[j] \in JobRow /\ history[j] \in SUBSET AttemptRow
    BY DEF HistoryInv, TypeOK
  <2>4. CASE job[j].state = "absent"
    <3>1. \A a \in history[j] : FALSE
      BY <2>3, <2>4 DEF HistoryOf, AttemptRow
    <3>2. Pending.state = "pending" /\ Pending.attempt = 0 /\ Pending.state \notin Settled
      BY DEF Pending, Settled
    <3>3. HistoryOf(Pending, history[j])
      BY <3>1, <3>2 DEF HistoryOf
    <3> QED
      BY <2>2, <2>4, <3>3, HistoryStep
  <2>5. CASE job[j].state # "absent"
    BY <2>2, <2>3, <2>5, HistoryStep
  <2> QED
    BY <2>4, <2>5
<1>3. ASSUME NEW j \in Jobs, LeaseExpires(j) \/ LeaseExpiresEarly(j) PROVE HistoryInv'
  <2> DEFINE n == [job[j] EXCEPT !.expired = TRUE]
  <2>1. HistoryOf(job[j], history[j]) /\ job[j] \in JobRow
    BY DEF HistoryInv, TypeOK
  <2>2. n.state = job[j].state /\ n.attempt = job[j].attempt
    BY <2>1 DEF JobRow
  <2>3. job' = [job EXCEPT ![j] = n] /\ UNCHANGED history /\ history = [history EXCEPT ![j] = history[j]]
    BY <1>3 DEF LeaseExpires, LeaseExpiresEarly, TypeOK
  <2> HIDE DEF n
  <2>4. HistoryOf(n, history[j])
    BY <2>1, <2>2 DEF HistoryOf
  <2> QED
    BY <2>3, <2>4, HistoryStep
<1>4. ASSUME NEW s \in Sources, Submit(s) \/ Reprocess(s) PROVE HistoryInv'
  <2>1. CASE Submit(s)
    BY <1>2, <2>1 DEF Submit
  <2>2. CASE Reprocess(s)
    <3>1. latest[s] + 1 \in Runs
      BY <2>2, DocumentAssumption DEF Reprocess, Retryable, TypeOK, Runs
    <3> QED
      BY <1>2, <2>2, <3>1 DEF Reprocess
  <2> QED
    BY <1>4, <2>1, <2>2
<1>5. ASSUME NEW w \in Workers, Process(w) PROVE HistoryInv'
  <2>1. CASE Close(w) \/ Reject(w)
    BY <2>1, SettleHistory DEF Close, Reject, Settled
  <2>2. CASE ~(Close(w) \/ Reject(w))
    <3>1. UNCHANGED queue
      BY <1>5, <2>2 DEF Process, Load, LoadFails, Understand, ExecutionRaises, CompleteRun, FailRun,
                        FailRunRaises, Index, IndexRaises, LeaseLost, queue
    <3> QED
      BY <1>1, <3>1 DEF queue
  <2> QED
    BY <2>1, <2>2
<1>6. ASSUME NEW w \in Workers, Abandon(w) PROVE HistoryInv'
  BY <1>1, <1>6 DEF Abandon, queue
<1>7. CASE UNCHANGED vars
  BY <1>1, <1>7 DEF vars
<1> QED
  BY <1>3, <1>4, <1>5, <1>6, <1>7, ClaimHistory DEF Next, RunOnce

\* The attempt history has one row for every attempt that is over, the last of a settled
\* job saying how it settled, whichever worker filed it.
THEOREM HistoryExactCorrect == Spec => []HistoryExact
<1>1. Init => HistoryInv
  <2>1. HistoryOf(NoJob, {})
    BY DEF HistoryOf, NoJob, Settled
  <2> QED
    BY <2>1 DEF Init, HistoryInv
<1>2. HistoryInv => HistoryExact
  BY DEF HistoryInv, HistoryOf, HistoryExact
<1> QED
  BY <1>1, <1>2, InitTyped, NextTyped, NextHistory, PTL DEF Spec
=============================================================================
