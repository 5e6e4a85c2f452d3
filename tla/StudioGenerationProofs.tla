----------------------- MODULE StudioGenerationProofs -----------------------
(***************************************************************************)
(* Theorems about StudioGeneration, for every number of typed and legacy   *)
(* jobs, workers, attempts, changes of the world and disturbances.         *)
(***************************************************************************)
EXTENDS StudioGeneration, TLAPS

USE StudioAssumption

LEMMA InitTyped == Init => TypeOK
BY DEF Init, TypeOK, PlanRow, NoPlan, JobRow, NoJob, JobState, TerminalRow, NoTerminal,
       WorkerState, Phase, Reply, Idle

---------------------------------------------------------------------------
(* Type correctness.                                                       *)

\* A busy worker that moves on keeps its job; an idle one has none.
LEMMA MovesTyped ==
  ASSUME TypeOK, NEW w \in Workers, NEW p \in Phase, worker[w].phase # "idle",
         worker' = [worker EXCEPT ![w].phase = p]
  PROVE  /\ worker' \in [Workers -> WorkerState]
         /\ \A v \in Workers : worker'[v].phase # "idle" => worker'[v].job \in Jobs
<1>1. worker[w] \in WorkerState /\ worker[w].job \in Jobs
  BY DEF TypeOK
<1>2. [worker[w] EXCEPT !.phase = p] \in WorkerState
  BY <1>1 DEF WorkerState
<1> QED
  BY <1>1, <1>2 DEF TypeOK

LEMMA IdleTyped ==
  ASSUME TypeOK, NEW w \in Workers, worker' = [worker EXCEPT ![w] = Idle]
  PROVE  /\ worker' \in [Workers -> WorkerState]
         /\ \A v \in Workers : worker'[v].phase # "idle" => worker'[v].job \in Jobs
<1>1. Idle \in WorkerState /\ Idle.phase = "idle"
  BY DEF Idle, WorkerState, Phase, Reply
<1> QED
  BY <1>1 DEF TypeOK

\* The updates of a job row yield a job row.
LEMMA JobTyped ==
  ASSUME TypeOK, NEW j \in Jobs, NEW r \in JobRow, job' = [job EXCEPT ![j] = r]
  PROVE  job' \in [Jobs -> JobRow]
BY DEF TypeOK

LEMMA EndedTyped ==
  ASSUME TypeOK, NEW j \in Jobs, NEW status \in Settled, Ended(j, status)
  PROVE  job' \in [Jobs -> JobRow]
<1>1. job[j] \in JobRow
  BY DEF TypeOK
<1>2. [job[j] EXCEPT !.state = status, !.version = @ + 1, !.expired = FALSE] \in JobRow
  <2>1. job[j].version + 1 \in Nat /\ status \in JobState
    BY <1>1 DEF JobRow, JobState
  <2> QED
    BY <1>1, <2>1 DEF JobRow
<1>3. job' = [job EXCEPT ![j] =
               [job[j] EXCEPT !.state = status, !.version = @ + 1, !.expired = FALSE]]
  BY DEF Ended, TypeOK
<1> QED
  BY <1>2, <1>3, JobTyped

\* The worker rows and the rest of the state, whatever the action.
BusyHasJob == \A w \in Workers : worker[w].phase # "idle" => worker[w].job \in Jobs

LEMMA AdmissionTyped ==
  ASSUME TypeOK, NEW j \in Typed,
         Admission(j) \/ PlanExpires(j) \/ WorldChanges(j)
  PROVE  TypeOK'
<1> USE DEF admission, execution
<1>0. j \in Jobs /\ plan[j] \in PlanRow
  BY DEF TypeOK, Jobs
<1>1. CASE Prepare(j)
  BY <1>0, <1>1 DEF Prepare, TypeOK, PlanRow
<1>2. CASE IssueGrant(j) \/ ConsumeGrant(j)
  BY <1>0, <1>2 DEF IssueGrant, ConsumeGrant, TypeOK
<1>3. CASE Admit(j)
  <2>1. Queued \in JobRow /\ clock + 1 \in Nat
    BY DEF Queued, JobRow, JobState, TypeOK
  <2> QED
    BY <1>0, <1>3, <2>1 DEF Admit, TypeOK
<1>4. CASE PlanExpires(j)
  <2>1. [plan[j] EXCEPT !.expired = TRUE] \in PlanRow
    BY <1>0 DEF PlanRow
  <2> QED
    BY <1>0, <1>4, <2>1 DEF PlanExpires, TypeOK
<1>5. CASE WorldChanges(j)
  BY <1>0, <1>5 DEF WorldChanges, TypeOK
<1> QED
  BY <1>1, <1>2, <1>3, <1>4, <1>5 DEF Admission

LEMMA QueueTyped ==
  ASSUME TypeOK, NEW j \in Jobs,
         \/ EnqueueLegacy(j) \/ LeaseExpires(j) \/ LeaseExpiresEarly(j) \/ BecomesDue(j)
         \/ \E w \in Workers : Claim(w, j)
  PROVE  TypeOK'
<1> USE DEF admission, execution
<1>0. job[j] \in JobRow /\ clock + 1 \in Nat /\ disturbed + 1 \in Nat
  BY DEF TypeOK
<1>1. CASE EnqueueLegacy(j)
  <2>1. Queued \in JobRow
    BY DEF Queued, JobRow, JobState, TypeOK
  <2> QED
    BY <1>0, <1>1, <2>1 DEF EnqueueLegacy, TypeOK
<1>2. CASE LeaseExpires(j) \/ LeaseExpiresEarly(j)
  <2>1. [job[j] EXCEPT !.expired = TRUE] \in JobRow
    BY <1>0 DEF JobRow
  <2>2. job' = [job EXCEPT ![j].expired = TRUE]
    BY <1>2 DEF LeaseExpires, LeaseExpiresEarly
  <2>3. job' \in [Jobs -> JobRow]
    BY <2>1, <2>2 DEF TypeOK
  <2>4. disturbed' \in Nat
    BY <1>2 DEF LeaseExpires, LeaseExpiresEarly, TypeOK
  <2> QED
    BY <1>2, <2>3, <2>4 DEF LeaseExpires, LeaseExpiresEarly, TypeOK
<1>3. CASE BecomesDue(j)
  <2>1. [job[j] EXCEPT !.due = TRUE, !.at = clock + 1] \in JobRow
    BY <1>0 DEF JobRow
  <2> QED
    BY <1>0, <1>3, <2>1 DEF BecomesDue, TypeOK
<1>4. ASSUME NEW w \in Workers, Claim(w, j) PROVE TypeOK'
  <2>1. job[j].attempt + 1 \in Nat /\ job[j].version + 1 \in Nat
    BY <1>0 DEF JobRow
  <2>2. [job[j] EXCEPT !.state = "leased", !.attempt = @ + 1, !.version = @ + 1,
                       !.expired = FALSE] \in JobRow
    BY <1>0, <2>1 DEF JobRow, JobState, Held
  <2>3. [phase |-> "claimed", job |-> j, version |-> job[j].version + 1,
         attempt |-> job[j].attempt + 1, reply |-> "none"] \in WorkerState
    BY <2>1 DEF WorkerState, Phase, Reply
  <2>4. job' \in [Jobs -> JobRow]
    BY <1>4, <2>2 DEF Claim, TypeOK
  <2>5. worker' \in [Workers -> WorkerState] /\ BusyHasJob'
    BY <1>4, <2>3 DEF Claim, TypeOK, BusyHasJob
  <2> QED
    BY <1>4, <2>4, <2>5 DEF Claim, TypeOK, BusyHasJob
<1> QED
  BY <1>1, <1>2, <1>3, <1>4

LEMMA ProcessTyped ==
  ASSUME TypeOK, NEW w \in Workers, Process(w) \/ Abandon(w)
  PROVE  TypeOK'
<1> USE DEF admission, execution
<1> DEFINE j == worker[w].job
           WorkerOK == worker' \in [Workers -> WorkerState] /\ BusyHasJob'
<1>0. /\ worker[w].phase # "idle" => j \in Jobs
      /\ worker[w] \in WorkerState /\ worker[w].version \in Nat
  BY DEF TypeOK, WorkerState
<1>r. j \in Jobs => /\ job[j] \in JobRow /\ job[j].version + 1 \in Nat
                    /\ terminal[j] \in TerminalRow /\ ledger[j] \in SUBSET {"attempt", "start"}
  BY DEF TypeOK, JobRow
<1>h. Handler(w) \in Phase
  BY DEF Handler, Phase
<1>1. ASSUME NEW ack \in BOOLEAN, Start(w, ack) PROVE TypeOK'
  <2>1. [job[j] EXCEPT !.state = "generating"] \in JobRow
    BY <1>0, <1>r, <1>1 DEF Start, JobRow, JobState, Held
  <2>2. job' \in [Jobs -> JobRow]
    BY <1>0, <1>1, <2>1 DEF Start, TypeOK
  <2>3. WorkerOK
    BY <1>h, <1>1, MovesTyped DEF Start, Moves, Acked, Phase, BusyHasJob
  <2> QED
    BY <1>1, <2>2, <2>3 DEF Start, TypeOK, BusyHasJob
<1>2. CASE Look(w) \/ Open(w) \/ Recover(w) \/ Raises(w)
  <2>1. WorkerOK
    BY <1>h, <1>2, MovesTyped DEF Look, Open, Recover, Raises, Moves, Phase, BusyHasJob
  <2> QED
    BY <1>2, <2>1 DEF Look, Open, Recover, Raises, TypeOK, BusyHasJob
<1>3. ASSUME NEW ack \in BOOLEAN, Dispatch(w, ack) PROVE TypeOK'
  <2>1. WorkerOK
    BY <1>h, <1>3, MovesTyped DEF Dispatch, Moves, Acked, Phase, BusyHasJob
  <2>2. start' \in [Jobs -> Nat]
    BY <1>0, <1>3 DEF Dispatch, TypeOK
  <2>3. run' \in [Jobs -> {"absent", "generating", "completed", "failed"}]
    BY <1>0, <1>3 DEF Dispatch, TypeOK
  <2> QED
    BY <1>3, <2>1, <2>2, <2>3 DEF Dispatch, TypeOK, BusyHasJob
<1>4. ASSUME NEW reply \in Reply, Send(w, reply) PROVE TypeOK'
  <2>1. \A p \in Phase : [worker[w] EXCEPT !.reply = reply, !.phase = p] \in WorkerState
    BY <1>0 DEF WorkerState
  <2>2. \E p \in Phase : worker' = [worker EXCEPT ![w] =
                                     [worker[w] EXCEPT !.reply = reply, !.phase = p]]
    BY <1>4 DEF Send, Phase, TypeOK
  <2>3. WorkerOK
    <3>1. PICK p \in Phase : worker' = [worker EXCEPT ![w] =
                                     [worker[w] EXCEPT !.reply = reply, !.phase = p]]
      BY <2>2
    <3>2. [worker[w] EXCEPT !.reply = reply, !.phase = p].job = j
      BY <1>0 DEF WorkerState
    <3>3. j \in Jobs
      BY <1>0, <1>4 DEF Send
    <3> QED
      BY <3>1, <3>2, <3>3, <2>1 DEF TypeOK, BusyHasJob
  <2> QED
    BY <1>0, <1>4, <2>3 DEF Send, TypeOK, BusyHasJob
<1>5. ASSUME NEW saves \in BOOLEAN, NEW ack \in BOOLEAN, Finish(w, saves, ack) PROVE TypeOK'
  <2>0. j \in Jobs
    BY <1>0, <1>5 DEF Finish
  <2>1. PICK status \in Settled, published \in BOOLEAN :
          \/ /\ terminal' = [terminal EXCEPT ![j].observed = TRUE]
             /\ UNCHANGED <<job, run, output>>
          \/ /\ run' = [run EXCEPT ![j] = IF published THEN "completed" ELSE "failed"]
             /\ terminal' = [terminal EXCEPT ![j] =
                  [kind |-> "terminal", status |-> status, observed |-> FALSE]]
             /\ output' = [output EXCEPT ![j] = published]
             /\ Ended(j, status)
    <3> DEFINE current == job[j].state = "generating" /\ HoldsJob(w)
               published == worker[w].reply = "typed" /\ current /\ Current(j) /\ saves
               status == Status(worker[w].reply, current, published)
    <3>1. status \in Settled /\ published \in BOOLEAN
      BY <1>5 DEF Status, Settled
    <3> HIDE DEF published, status
    <3> QED
      BY <1>5, <3>1 DEF Finish, published, status
  <2>2. terminal' \in [Jobs -> TerminalRow]
    <3>1. [terminal[j] EXCEPT !.observed = TRUE] \in TerminalRow
      BY <2>0, <1>r DEF TerminalRow
    <3>2. [kind |-> "terminal", status |-> status, observed |-> FALSE] \in TerminalRow
      BY <2>1 DEF TerminalRow
    <3> QED
      BY <2>0, <2>1, <3>1, <3>2 DEF TypeOK
  <2>3. job' \in [Jobs -> JobRow]
    BY <2>0, <2>1, EndedTyped DEF TypeOK
  <2>4. /\ run' \in [Jobs -> {"absent", "generating", "completed", "failed"}]
        /\ output' \in [Jobs -> BOOLEAN]
    BY <2>0, <2>1 DEF TypeOK
  <2>5. ledger' \in [Jobs -> SUBSET {"attempt", "start"}]
    BY <1>5, <2>0, <1>r DEF Finish, TypeOK
  <2>6. WorkerOK
    <3>1. \/ worker' = [worker EXCEPT ![w] = Idle]
          \/ worker' = [worker EXCEPT ![w].phase = "recovering"]
      BY <1>5 DEF Finish, TypeOK
    <3>2. worker[w].phase # "idle" /\ "recovering" \in Phase
      BY <1>5 DEF Finish, Phase
    <3> QED
      BY <3>1, <3>2, IdleTyped, MovesTyped DEF BusyHasJob
  <2> QED
    BY <1>5, <2>2, <2>3, <2>4, <2>5, <2>6 DEF Finish, TypeOK, BusyHasJob
<1>6. ASSUME NEW ack \in BOOLEAN, MarkUncertain(w, ack) PROVE TypeOK'
  <2>0. j \in Jobs
    BY <1>0, <1>6 DEF MarkUncertain
  <2>2. terminal' \in [Jobs -> TerminalRow]
    <3>1. [kind |-> "uncertain", status |-> "failed", observed |-> FALSE] \in TerminalRow
      BY DEF TerminalRow, Settled
    <3> QED
      BY <1>6, <2>0, <3>1 DEF MarkUncertain, TypeOK
  <2>3. job' \in [Jobs -> JobRow]
    <3>1. "failed" \in Settled
      BY DEF Settled
    <3> QED
      BY <1>6, <2>0, <3>1, EndedTyped DEF MarkUncertain, TypeOK
  <2>4. run' \in [Jobs -> {"absent", "generating", "completed", "failed"}]
    BY <1>6, <2>0 DEF MarkUncertain, TypeOK
  <2>5. ledger' \in [Jobs -> SUBSET {"attempt", "start"}]
    BY <1>6, <2>0, <1>r DEF MarkUncertain, UncertainLedger, TypeOK
  <2>6. WorkerOK
    <3>1. \/ worker' = [worker EXCEPT ![w] = Idle]
          \/ worker' = [worker EXCEPT ![w].phase = "recovering"]
      BY <1>6 DEF MarkUncertain, TypeOK
    <3>2. worker[w].phase # "idle" /\ "recovering" \in Phase
      BY <1>6 DEF MarkUncertain, Phase
    <3> QED
      BY <3>1, <3>2, IdleTyped, MovesTyped DEF BusyHasJob
  <2> QED
    BY <1>6, <2>2, <2>3, <2>4, <2>5, <2>6 DEF MarkUncertain, TypeOK, BusyHasJob
<1>7. CASE FailJob(w) \/ \E ack \in BOOLEAN : Conclude(w, ack)
  <2>1. j \in Jobs /\ \E status \in Settled : Ended(j, status)
    BY <1>0, <1>7 DEF FailJob, Conclude, LegacyStatus, Settled
  <2>2. job' \in [Jobs -> JobRow]
    BY <2>1, EndedTyped
  <2>3. WorkerOK
    <3>1. \/ worker' = [worker EXCEPT ![w] = Idle]
          \/ worker' = [worker EXCEPT ![w].phase = "transient"]
      BY <1>7 DEF FailJob, Conclude, TypeOK
    <3>2. worker[w].phase # "idle" /\ "transient" \in Phase
      BY <1>7 DEF FailJob, Conclude, Phase
    <3> QED
      BY <3>1, <3>2, IdleTyped, MovesTyped DEF BusyHasJob
  <2> QED
    BY <1>7, <2>2, <2>3 DEF FailJob, Conclude, TypeOK, BusyHasJob
<1>8. ASSUME NEW outcome \in {"made", "unavailable", "permanent", "transient"},
             Generate(w, outcome)
      PROVE  TypeOK'
  <2>1. WorkerOK
    BY <1>8, MovesTyped DEF Generate, Moves, Phase, BusyHasJob
  <2>2. output' \in [Jobs -> BOOLEAN]
    BY <1>0, <1>8 DEF Generate, TypeOK
  <2> QED
    BY <1>8, <2>1, <2>2 DEF Generate, TypeOK, BusyHasJob
<1>9. CASE Retry(w)
  <2>1. [job[j] EXCEPT !.state = "queued", !.version = @ + 1, !.due = FALSE,
                       !.expired = FALSE] \in JobRow
    BY <1>0, <1>r, <1>9 DEF Retry, JobRow, JobState
  <2>2. job' \in [Jobs -> JobRow]
    BY <1>0, <1>9, <2>1 DEF Retry, TypeOK
  <2>3. WorkerOK
    BY <1>9, IdleTyped DEF Retry, BusyHasJob
  <2> QED
    BY <1>9, <2>2, <2>3 DEF Retry, TypeOK, BusyHasJob
<1>10. CASE LeaseLost(w) \/ Abandon(w)
  <2>1. WorkerOK /\ disturbed' \in Nat
    BY <1>10, IdleTyped DEF LeaseLost, Abandon, BusyHasJob, TypeOK
  <2> QED
    BY <1>10, <2>1 DEF LeaseLost, Abandon, TypeOK, BusyHasJob
<1> QED
  BY <1>1, <1>2, <1>3, <1>4, <1>5, <1>6, <1>7, <1>8, <1>9, <1>10
  DEF Process, TypedStep, LegacyStep

LEMMA NextTyped == TypeOK /\ [Next]_vars => TypeOK'
<1> SUFFICES ASSUME TypeOK, [Next]_vars PROVE TypeOK'
  OBVIOUS
<1>1. CASE UNCHANGED vars
  BY <1>1 DEF vars, TypeOK
<1>2. CASE Next
  BY <1>2, AdmissionTyped, QueueTyped, ProcessTyped DEF Next, RunOnce, Jobs
<1> QED
  BY <1>1, <1>2

\* Every row keeps its type: the states, verdicts and ledger entries stay inside what
\* the tables' CHECK constraints allow, and no busy worker is without a job.
THEOREM TypeCorrect == Spec => []TypeOK
<1>1. Init => TypeOK
  BY InitTyped
<1>2. TypeOK /\ [Next]_vars => TypeOK'
  BY NextTyped
<1> QED
  BY <1>1, <1>2, PTL DEF Spec

---------------------------------------------------------------------------
(* The provider is called at most once.                                    *)

\* SentAtMostOnce is not inductive: it needs that the right to send is handed out
\* once, by the insertion of the start row, and used up by the call.
DispatchInv ==
  /\ \A w \in Workers : worker[w].phase # "idle" => worker[w].version # 0
  /\ \A j \in Jobs : start[j] = 0 => sent[j] = 0
  /\ \A w \in Workers : worker[w].phase = "dispatched" =>
       start[worker[w].job] # 0 /\ sent[worker[w].job] = 0
  /\ \A v, w \in Workers :
       /\ worker[v].phase = "dispatched" /\ worker[w].phase = "dispatched"
       /\ worker[v].job = worker[w].job
       => v = w
  /\ \A w \in Workers : worker[w].phase = "replied" => sent[worker[w].job] = 1
  /\ SentAtMostOnce
  /\ AttemptWasSent

\* How a step of worker w that neither dispatches, sends nor finishes can change
\* its row: it goes idle, or to another phase, or takes a new job.
QuietRow(w, r) ==
  /\ worker' = [worker EXCEPT ![w] = r]
  /\ r.phase \notin {"dispatched", "replied"}
  /\ r.phase # "idle" => r.version # 0

LEMMA QuietStep ==
  ASSUME TypeOK, DispatchInv, NEW w \in Workers, NEW r, QuietRow(w, r),
         start' = start, sent' = sent,
         \A j \in Jobs : "attempt" \in ledger'[j] => "attempt" \in ledger[j]
  PROVE  DispatchInv'
<1>1. \A v \in Workers : v # w => worker'[v] = worker[v]
  BY DEF QuietRow, TypeOK
<1>2. worker'[w] = r
  BY DEF QuietRow, TypeOK
<1> QED
  BY <1>1, <1>2 DEF QuietRow, DispatchInv, SentAtMostOnce, AttemptWasSent

\* A busy worker's row after a change of phase.
LEMMA MovesQuiet ==
  ASSUME TypeOK, DispatchInv, NEW w \in Workers, worker[w].phase # "idle",
         NEW p \in Phase \ {"dispatched", "replied"},
         worker' = [worker EXCEPT ![w].phase = p]
  PROVE  \E r : QuietRow(w, r)
<1>1. worker[w] \in WorkerState
  BY DEF TypeOK
<1>2. worker' = [worker EXCEPT ![w] = [worker[w] EXCEPT !.phase = p]]
  BY DEF TypeOK
<1>3. /\ [worker[w] EXCEPT !.phase = p].phase = p
      /\ [worker[w] EXCEPT !.phase = p].version = worker[w].version
  BY <1>1 DEF WorkerState
<1> QED
  BY <1>2, <1>3 DEF QuietRow, DispatchInv

LEMMA IdleQuiet ==
  ASSUME NEW w \in Workers, worker' = [worker EXCEPT ![w] = Idle]
  PROVE  \E r : QuietRow(w, r)
<1>1. QuietRow(w, Idle)
  BY DEF QuietRow, Idle
<1> QED
  BY <1>1

LEMMA InitDispatch == Init => DispatchInv
BY DEF Init, DispatchInv, SentAtMostOnce, AttemptWasSent, Idle

LEMMA NextDispatch == TypeOK /\ DispatchInv /\ [Next]_vars => DispatchInv'
<1> SUFFICES ASSUME TypeOK, DispatchInv, [Next]_vars PROVE DispatchInv'
  OBVIOUS
<1> USE DEF admission, execution
<1>1. CASE UNCHANGED vars
  BY <1>1 DEF vars, DispatchInv, SentAtMostOnce, AttemptWasSent, Jobs
<1>2. ASSUME NEW j \in Jobs,
             \/ Admission(j) \/ PlanExpires(j) \/ WorldChanges(j) \/ EnqueueLegacy(j)
             \/ LeaseExpires(j) \/ LeaseExpiresEarly(j) \/ BecomesDue(j)
      PROVE  DispatchInv'
  <2>1. UNCHANGED <<start, sent, ledger, worker>>
    BY <1>2 DEF Admission, Prepare, IssueGrant, ConsumeGrant, Admit, PlanExpires, WorldChanges,
                EnqueueLegacy, LeaseExpires, LeaseExpiresEarly, BecomesDue
  <2> QED
    BY <2>1 DEF DispatchInv, SentAtMostOnce, AttemptWasSent
<1>3. ASSUME NEW w \in Workers, NEW j \in Jobs, Claim(w, j)
      PROVE  DispatchInv'
  <2> DEFINE r == [phase |-> "claimed", job |-> j, version |-> job[j].version + 1,
                   attempt |-> job[j].attempt + 1, reply |-> "none"]
  <2>1. job[j].version \in Nat
    BY DEF TypeOK, JobRow
  <2>2. QuietRow(w, r)
    BY <1>3, <2>1 DEF Claim, QuietRow
  <2>3. UNCHANGED <<start, sent, ledger>>
    BY <1>3 DEF Claim
  <2> QED
    BY <2>2, <2>3, QuietStep
<1>4. ASSUME NEW w \in Workers,
             \/ \E ack \in BOOLEAN : Start(w, ack) \/ MarkUncertain(w, ack) \/ Conclude(w, ack)
             \/ Look(w) \/ Open(w) \/ Recover(w) \/ FailJob(w) \/ Retry(w)
             \/ \E outcome \in {"made", "unavailable", "permanent", "transient"} :
                  Generate(w, outcome)
             \/ Raises(w) \/ LeaseLost(w) \/ Abandon(w)
      PROVE  DispatchInv'
  <2>1. UNCHANGED <<start, sent>>
    BY <1>4 DEF Start, MarkUncertain, Conclude, Look, Open, Recover, FailJob, Retry, Generate,
                Raises, LeaseLost, Abandon
  <2>2. \A j \in Jobs : "attempt" \in ledger'[j] => "attempt" \in ledger[j]
    <3>1. CASE \E ack \in BOOLEAN : MarkUncertain(w, ack)
      BY <3>1 DEF MarkUncertain, UncertainLedger, TypeOK
    <3>2. CASE UNCHANGED ledger
      BY <3>2
    <3> QED
      BY <1>4, <3>1, <3>2 DEF Start, Conclude, Look, Open, Recover, FailJob, Retry, Generate,
                Raises, LeaseLost, Abandon
  <2>3. worker[w].phase # "idle"
    BY <1>4 DEF Start, MarkUncertain, Conclude, Look, Open, Recover, FailJob, Retry, Generate,
                Raises, LeaseLost, Abandon
  <2>4. \/ worker' = [worker EXCEPT ![w] = Idle]
        \/ \E p \in Phase \ {"dispatched", "replied"} : worker' = [worker EXCEPT ![w].phase = p]
    <3>1. CASE FailJob(w) \/ Retry(w) \/ LeaseLost(w) \/ Abandon(w)
      BY <3>1 DEF FailJob, Retry, LeaseLost, Abandon
    <3>2. CASE \/ \E ack \in BOOLEAN : Start(w, ack)
               \/ Look(w) \/ Open(w) \/ Recover(w) \/ Raises(w)
               \/ \E outcome \in {"made", "unavailable", "permanent", "transient"} :
                    Generate(w, outcome)
      BY <3>2 DEF Start, Look, Open, Recover, Raises, Generate, Moves, Acked, Handler, Phase
    <3>3. CASE \E ack \in BOOLEAN : MarkUncertain(w, ack) \/ Conclude(w, ack)
      <4>1. \/ worker' = [worker EXCEPT ![w] = Idle]
            \/ worker' = [worker EXCEPT ![w].phase = "recovering"]
            \/ worker' = [worker EXCEPT ![w].phase = "transient"]
        BY <3>3 DEF MarkUncertain, Conclude, TypeOK
      <4> QED
        BY <4>1 DEF Phase
    <3> QED
      BY <1>4, <3>1, <3>2, <3>3
  <2>5. \E r : QuietRow(w, r)
    BY <2>3, <2>4, IdleQuiet, MovesQuiet
  <2> QED
    BY <2>1, <2>2, <2>5, QuietStep
<1>5. ASSUME NEW w \in Workers, NEW ack \in BOOLEAN, Dispatch(w, ack)
      PROVE  DispatchInv'
  <2> DEFINE j == worker[w].job
  <2>0. worker[w].phase = "opened" /\ j \in Jobs /\ worker[w].version # 0
    BY <1>5 DEF Dispatch, TypeOK, DispatchInv
  <2>1. UNCHANGED <<sent, ledger>>
    BY <1>5 DEF Dispatch
  <2>2. CASE HasStarted(w) \/ ~ack
    <3>1. \E p \in {"uncertain", "recovering", "transient"} :
            worker' = [worker EXCEPT ![w].phase = p]
      BY <1>5, <2>2 DEF Dispatch, Moves, Acked, Handler
    <3>2. \E r : QuietRow(w, r)
      BY <2>0, <3>1, MovesQuiet DEF Phase
    <3>3. CASE start' = start
      BY <2>1, <3>2, <3>3, QuietStep
    <3>4. CASE start[j] = 0 /\ start' = [start EXCEPT ![j] = worker[w].version]
      <4>1. \A i \in Jobs : start'[i] = 0 => start[i] = 0
        BY <2>0, <3>4 DEF TypeOK
      <4>2. \A i \in Jobs : start[i] # 0 => start'[i] # 0
        BY <2>0, <3>4 DEF TypeOK
      <4>3. PICK r : QuietRow(w, r)
        BY <3>2
      <4>4. (\A v \in Workers : v # w => worker'[v] = worker[v]) /\ worker'[w] = r
        BY <4>3 DEF QuietRow, TypeOK
      <4> QED
        BY <2>1, <4>1, <4>2, <4>3, <4>4
        DEF QuietRow, DispatchInv, SentAtMostOnce, AttemptWasSent, TypeOK
    <3> QED
      BY <1>5, <3>3, <3>4 DEF Dispatch, HasStarted
  <2>3. CASE ~HasStarted(w) /\ ack
    <3>1. start[j] = 0 /\ start' = [start EXCEPT ![j] = worker[w].version]
      BY <1>5, <2>3 DEF Dispatch, HasStarted
    <3>2. worker' = [worker EXCEPT ![w].phase = "dispatched"]
      BY <1>5, <2>3 DEF Dispatch, Moves, Acked
    <3>3. \A i \in Jobs : /\ start'[i] = 0 => start[i] = 0
                          /\ start[i] # 0 => start'[i] # 0
      BY <2>0, <3>1 DEF TypeOK
    <3>4. /\ worker'[w].phase = "dispatched" /\ worker'[w].job = j
          /\ worker'[w].version = worker[w].version
      BY <3>2 DEF TypeOK, WorkerState
    <3>5. \A v \in Workers : v # w => worker'[v] = worker[v]
      BY <3>2 DEF TypeOK
    <3>6. sent[j] = 0 /\ start'[j] # 0
      BY <2>0, <3>1 DEF DispatchInv, TypeOK
    <3>7. \A v \in Workers : worker[v].phase = "dispatched" => worker[v].job # j
      BY <3>1 DEF DispatchInv
    <3> QED
      BY <2>0, <2>1, <3>3, <3>4, <3>5, <3>6, <3>7
      DEF DispatchInv, SentAtMostOnce, AttemptWasSent, TypeOK
  <2> QED
    BY <2>2, <2>3
<1>6. ASSUME NEW w \in Workers, NEW reply \in Reply, Send(w, reply)
      PROVE  DispatchInv'
  <2> DEFINE j == worker[w].job
  <2>0. worker[w].phase = "dispatched" /\ j \in Jobs /\ worker[w].version # 0
    BY <1>6 DEF Send, TypeOK, DispatchInv
  <2>1. start[j] # 0 /\ sent[j] = 0 /\ UNCHANGED <<start, ledger>>
    BY <1>6, <2>0 DEF Send, DispatchInv
  <2>2. \A i \in Jobs : sent'[i] = IF i = j THEN 1 ELSE sent[i]
    BY <1>6, <2>0, <2>1 DEF Send, TypeOK
  <2>3. /\ worker'[w].phase \in {"recovering", "replied"} /\ worker'[w].job = j
        /\ worker'[w].version = worker[w].version
    BY <1>6 DEF Send, TypeOK, WorkerState
  <2>4. \A v \in Workers : v # w => worker'[v] = worker[v]
    BY <1>6 DEF Send, TypeOK
  <2>5. \A v \in Workers : v # w /\ worker[v].phase = "dispatched" => worker[v].job # j
    BY <2>0 DEF DispatchInv
  <2>6. \A v \in Workers : worker[v].phase = "replied" => worker[v].job # j
    BY <2>1 DEF DispatchInv
  <2>7. \A v \in Workers : worker[v].phase # "idle" => worker[v].job \in Jobs
    BY DEF TypeOK
  <2> QED
    BY <2>0, <2>1, <2>2, <2>3, <2>4, <2>5, <2>6, <2>7
    DEF DispatchInv, SentAtMostOnce, AttemptWasSent
<1>7. ASSUME NEW w \in Workers, NEW saves \in BOOLEAN, NEW ack \in BOOLEAN, Finish(w, saves, ack)
      PROVE  DispatchInv'
  <2> DEFINE j == worker[w].job
  <2>0. worker[w].phase = "replied" /\ j \in Jobs /\ sent[j] = 1
    BY <1>7 DEF Finish, TypeOK, DispatchInv
  <2>1. UNCHANGED <<start, sent>>
    BY <1>7 DEF Finish
  <2>2. \A i \in Jobs : "attempt" \in ledger'[i] => "attempt" \in ledger[i] \/ i = j
    BY <1>7, <2>0 DEF Finish, TypeOK
  <2>3. \/ worker' = [worker EXCEPT ![w] = Idle]
        \/ worker' = [worker EXCEPT ![w].phase = "recovering"]
    BY <1>7 DEF Finish, TypeOK
  <2>4. PICK r : QuietRow(w, r)
    BY <2>0, <2>3, IdleQuiet, MovesQuiet DEF Phase
  <2>5. (\A v \in Workers : v # w => worker'[v] = worker[v]) /\ worker'[w] = r
    BY <2>4 DEF QuietRow, TypeOK
  <2> QED
    BY <2>0, <2>1, <2>2, <2>4, <2>5
    DEF QuietRow, DispatchInv, SentAtMostOnce, AttemptWasSent, TypeOK
<1> QED
  BY <1>1, <1>2, <1>3, <1>4, <1>5, <1>6, <1>7
  DEF Next, RunOnce, Process, TypedStep, LegacyStep, Jobs

LEMMA DispatchInvariant == Spec => [](TypeOK /\ DispatchInv)
<1>1. Init => TypeOK /\ DispatchInv
  BY InitTyped, InitDispatch
<1>2. TypeOK /\ DispatchInv /\ [Next]_vars => (TypeOK /\ DispatchInv)'
  BY NextTyped, NextDispatch
<1> QED
  BY <1>1, <1>2, PTL DEF Spec

\* StudioExecutionService never sends a plan's payload twice: not after a takeover,
\* not after a crash, not when the answer to the dispatch commit is lost.
THEOREM SingleDispatch == Spec => []SentAtMostOnce
<1>1. TypeOK /\ DispatchInv => SentAtMostOnce
  BY DEF DispatchInv
<1> QED
  BY <1>1, DispatchInvariant, PTL

\* Every model_attempts row stands for a provider call that was made: closing a run
\* from its start row alone never invents one.
THEOREM AttemptsAreCalls == Spec => []AttemptWasSent
<1>1. TypeOK /\ DispatchInv => AttemptWasSent
  BY DEF DispatchInv
<1> QED
  BY <1>1, DispatchInvariant, PTL

---------------------------------------------------------------------------
(* Consent, and the agreement of the records.                              *)

LegacyPhase == {"working", "made", "unavailable", "permanent", "transient"}
TypedPhase == Phase \ (LegacyPhase \cup {"idle", "claimed"})

\* Who may act on a job: a version is held by one worker, never by a future one, and
\* each branch of run_once keeps to its own kind of job.
OwnerInv ==
  /\ \A w \in Workers : worker[w].phase # "idle" =>
       /\ job[worker[w].job].state # "absent"
       /\ worker[w].version <= job[worker[w].job].version
  /\ \A v, w \in Workers :
       /\ worker[v].phase # "idle" /\ worker[w].phase # "idle"
       /\ worker[v].job = worker[w].job /\ worker[v].version = worker[w].version
       => v = w
  /\ \A w \in Workers : worker[w].phase \in LegacyPhase => worker[w].job \in Legacy
  /\ \A w \in Workers : worker[w].phase \in TypedPhase => worker[w].job \in Typed

\* What the handlers remember of the start row stays true while they hold the job.
RecordInv ==
  /\ \A j \in StepUp : job[j].state # "absent" => grant[j] = "consumed"
  /\ \A j \in Jobs : start[j] # 0 => job[j].state # "absent"
  /\ \A w \in Workers : worker[w].phase \in {"uncertain", "marking", "dispatched", "replied"} =>
       start[worker[w].job] # 0
  /\ \A w \in Workers : worker[w].phase = "failing" /\ HoldsJob(w) =>
       start[worker[w].job] = 0
  /\ \A j \in Typed : run[j] = "generating" => start[j] # 0 /\ job[j].state \in Held
  /\ RecordsAgree

\* A version number, once given to a job, is never given again.
LEMMA EndedGrows ==
  ASSUME TypeOK, NEW j \in Jobs, NEW status \in Settled, Ended(j, status), NEW i \in Jobs
  PROVE  /\ job'[i].version >= job[i].version
         /\ job[i].state # "absent" => job'[i].state # "absent"
<1>1. job[i] \in JobRow /\ job[i].version \in Nat /\ job[j] \in JobRow
  BY DEF TypeOK, JobRow
<1>2. i # j => job'[i] = job[i]
  BY DEF Ended, TypeOK
<1>3. job'[j].version = job[j].version + 1 /\ job'[j].state = status
  BY <1>1 DEF Ended, TypeOK, JobRow
<1> QED
  BY <1>1, <1>2, <1>3 DEF Settled

LEMMA JobsGrow ==
  ASSUME TypeOK, [Next]_vars, NEW i \in Jobs, job[i].state # "absent"
  PROVE  job'[i].version >= job[i].version /\ job'[i].state # "absent"
<1> USE DEF admission, execution
<1> DEFINE Grows == job'[i].version >= job[i].version /\ job'[i].state # "absent"
<1>0. job[i] \in JobRow /\ job[i].version \in Nat
  BY DEF TypeOK, JobRow
<1>1. CASE UNCHANGED job
  BY <1>0, <1>1
<1>2. ASSUME NEW j \in Jobs, Admit(j) \/ EnqueueLegacy(j)
      PROVE  Grows
  <2>1. i # j /\ job'[i] = job[i]
    BY <1>2 DEF Admit, EnqueueLegacy, TypeOK
  <2> QED
    BY <1>0, <2>1
<1>3. ASSUME NEW w \in Workers, NEW j \in Jobs, Claim(w, j)
      PROVE  Grows
  <2>1. i # j => job'[i] = job[i]
    BY <1>3 DEF Claim, TypeOK
  <2>2. i = j => job'[i].version = job[i].version + 1 /\ job'[i].state = "leased"
    BY <1>0, <1>3 DEF Claim, TypeOK, JobRow
  <2> QED
    BY <1>0, <2>1, <2>2
<1>4. ASSUME NEW j \in Jobs, LeaseExpires(j) \/ LeaseExpiresEarly(j) \/ BecomesDue(j)
      PROVE  Grows
  <2>1. \/ job' = [job EXCEPT ![j].expired = TRUE]
        \/ job' = [job EXCEPT ![j].due = TRUE, ![j].at = clock + 1]
    BY <1>4 DEF LeaseExpires, LeaseExpiresEarly, BecomesDue
  <2>2. i # j => job'[i] = job[i]
    BY <2>1 DEF TypeOK
  <2>3. CASE job' = [job EXCEPT ![j].expired = TRUE]
    BY <1>0, <2>2, <2>3 DEF TypeOK, JobRow
  <2>4. CASE job' = [job EXCEPT ![j].due = TRUE, ![j].at = clock + 1]
    BY <1>0, <2>2, <2>4 DEF TypeOK, JobRow
  <2> QED
    BY <2>1, <2>3, <2>4
<1>5. ASSUME NEW w \in Workers, Retry(w) \/ \E ack \in BOOLEAN : Start(w, ack)
      PROVE  Grows
  <2>1. worker[w].job \in Jobs
    BY <1>5 DEF Retry, Start, TypeOK
  <2>2. i # worker[w].job => job'[i] = job[i]
    BY <1>5, <2>1 DEF Retry, Start, TypeOK
  <2>3. i = worker[w].job => /\ job'[i].version \in {job[i].version, job[i].version + 1}
                            /\ job'[i].state \in {"queued", "generating"}
    BY <1>0, <1>5, <2>1, SMTT(30) DEF Retry, Start, TypeOK, JobRow
  <2> QED
    BY <1>0, <2>2, <2>3
<1>6. ASSUME NEW w \in Workers,
             \/ \E saves, ack \in BOOLEAN : Finish(w, saves, ack)
             \/ \E ack \in BOOLEAN : MarkUncertain(w, ack) \/ Conclude(w, ack)
             \/ FailJob(w)
      PROVE  Grows
  <2>1. worker[w].job \in Jobs
    BY <1>6 DEF Finish, MarkUncertain, Conclude, FailJob, TypeOK
  <2>2. job' = job \/ \E status \in Settled : Ended(worker[w].job, status)
    BY <1>6 DEF Finish, MarkUncertain, Conclude, FailJob, Status, LegacyStatus, Settled
  <2> QED
    BY <1>1, <2>1, <2>2, EndedGrows
<1>7. \/ UNCHANGED job
      \/ \E j \in Jobs : \/ Admit(j) \/ EnqueueLegacy(j) \/ LeaseExpires(j)
                         \/ LeaseExpiresEarly(j) \/ BecomesDue(j)
                         \/ \E w \in Workers : Claim(w, j)
      \/ \E w \in Workers :
           \/ Retry(w) \/ FailJob(w)
           \/ \E ack \in BOOLEAN : Start(w, ack) \/ MarkUncertain(w, ack) \/ Conclude(w, ack)
           \/ \E saves, ack \in BOOLEAN : Finish(w, saves, ack)
  BY DEF Next, vars, RunOnce, Process, TypedStep, LegacyStep, Jobs, Admission, Prepare,
         IssueGrant, ConsumeGrant, PlanExpires, WorldChanges, Look, Open, Dispatch, Send,
         Recover, Generate, Raises, LeaseLost, Abandon
<1> QED
  BY <1>1, <1>2, <1>3, <1>4, <1>5, <1>6, <1>7

\* A worker in the course of run_once keeps its job and version, and moves only to
\* phases of its branch.
KeepsRow(w) ==
  /\ worker[w].phase # "idle"
  /\ worker'[w].job = worker[w].job /\ worker'[w].version = worker[w].version
  /\ worker'[w].phase \in LegacyPhase => worker[w].job \in Legacy
  /\ worker'[w].phase \in TypedPhase => worker[w].job \in Typed

LEMMA ProcessRow ==
  ASSUME TypeOK, OwnerInv, NEW w \in Workers, Process(w) \/ Abandon(w)
  PROVE  /\ \A v \in Workers : v # w => worker'[v] = worker[v]
         /\ worker'[w] = Idle \/ KeepsRow(w)
<1> USE DEF admission, execution
<1> DEFINE j == worker[w].job
           Rows == /\ \A v \in Workers : v # w => worker'[v] = worker[v]
                   /\ worker'[w] = Idle \/ KeepsRow(w)
<1>0. worker[w] \in WorkerState /\ (worker[w].phase # "idle" => j \in Jobs)
  BY DEF TypeOK
<1>m. ASSUME NEW p \in Phase, worker[w].phase # "idle",
             worker' = [worker EXCEPT ![w].phase = p],
             p \in LegacyPhase => j \in Legacy, p \in TypedPhase => j \in Typed
      PROVE  Rows
  <2>1. worker'[w].phase = p /\ worker'[w].job = j /\ worker'[w].version = worker[w].version
    BY <1>0, <1>m DEF TypeOK, WorkerState
  <2>2. \A v \in Workers : v # w => worker'[v] = worker[v]
    BY <1>m DEF TypeOK
  <2> QED
    BY <1>m, <2>1, <2>2 DEF KeepsRow
<1>i. ASSUME worker' = [worker EXCEPT ![w] = Idle] PROVE Rows
  BY <1>i DEF TypeOK
<1>k. /\ worker[w].phase \in LegacyPhase => j \in Legacy
      /\ worker[w].phase \in TypedPhase => j \in Typed
      /\ worker[w].phase # "idle" /\ j \notin Typed => j \in Legacy
  BY <1>0 DEF OwnerInv, Jobs
<1>h. worker[w].phase # "idle" =>
        /\ Handler(w) \in Phase
        /\ Handler(w) \in LegacyPhase => j \in Legacy
        /\ Handler(w) \in TypedPhase => j \in Typed
  BY <1>k DEF Handler, Phase, LegacyPhase, TypedPhase
<1>1. ASSUME NEW ack \in BOOLEAN, Start(w, ack) PROVE Rows
  <2> DEFINE p == Acked(w, ack, IF j \in Typed THEN "looking" ELSE "working")
  <2>1. worker[w].phase # "idle" /\ worker' = [worker EXCEPT ![w].phase = p]
    BY <1>1 DEF Start, Moves
  <2>2. p \in Phase /\ (p \in LegacyPhase => j \in Legacy) /\ (p \in TypedPhase => j \in Typed)
    BY <1>h, <1>k, <2>1 DEF Acked, Phase, LegacyPhase, TypedPhase
  <2> QED
    BY <1>m, <2>1, <2>2
<1>2. CASE Look(w) \/ Open(w) \/ Recover(w)
  <2>1. PICK p \in {"uncertain", "opening", "opened", "marking", "failing"} :
          worker' = [worker EXCEPT ![w].phase = p]
    BY <1>2 DEF Look, Open, Recover, Moves
  <2>2. worker[w].phase # "idle" /\ j \in Typed
    BY <1>2, <1>k DEF Look, Open, Recover, TypedPhase, LegacyPhase, Phase
  <2> QED
    BY <1>m, <2>1, <2>2 DEF Phase, LegacyPhase
<1>3. CASE Raises(w)
  BY <1>h, <1>m, <1>3 DEF Raises, Moves
<1>4. ASSUME NEW ack \in BOOLEAN, Dispatch(w, ack) PROVE Rows
  <2>1. worker[w].phase # "idle" /\ j \in Typed
    BY <1>4, <1>k DEF Dispatch, TypedPhase, LegacyPhase, Phase
  <2>2. PICK p \in {"uncertain", "dispatched", "recovering"} :
          worker' = [worker EXCEPT ![w].phase = p]
    BY <1>4, <2>1 DEF Dispatch, Moves, Acked, Handler
  <2> QED
    BY <1>m, <2>1, <2>2 DEF Phase, LegacyPhase
<1>5. ASSUME NEW reply \in Reply, Send(w, reply) PROVE Rows
  <2>1. worker[w].phase # "idle" /\ j \in Typed
    BY <1>5, <1>k DEF Send, TypedPhase, LegacyPhase, Phase
  <2>2. /\ worker'[w].phase \in {"recovering", "replied"} /\ worker'[w].job = j
        /\ worker'[w].version = worker[w].version
    BY <1>0, <1>5 DEF Send, TypeOK, WorkerState
  <2>3. \A v \in Workers : v # w => worker'[v] = worker[v]
    BY <1>5 DEF Send, TypeOK
  <2> QED
    BY <2>1, <2>2, <2>3 DEF KeepsRow, LegacyPhase
<1>6. CASE \/ \E saves, ack \in BOOLEAN : Finish(w, saves, ack)
           \/ \E ack \in BOOLEAN : MarkUncertain(w, ack)
  <2>1. worker[w].phase # "idle" /\ j \in Typed
    BY <1>6, <1>k DEF Finish, MarkUncertain, TypedPhase, LegacyPhase, Phase
  <2>2. \/ worker' = [worker EXCEPT ![w] = Idle]
        \/ worker' = [worker EXCEPT ![w].phase = "recovering"]
    BY <1>6 DEF Finish, MarkUncertain, TypeOK
  <2> QED
    BY <1>i, <1>m, <2>1, <2>2 DEF Phase, LegacyPhase
<1>7. CASE FailJob(w) \/ Retry(w) \/ LeaseLost(w) \/ Abandon(w)
  BY <1>i, <1>7 DEF FailJob, Retry, LeaseLost, Abandon
<1>8. ASSUME NEW ack \in BOOLEAN, Conclude(w, ack) PROVE Rows
  <2>1. worker[w].phase # "idle" /\ j \in Legacy
    BY <1>8, <1>k DEF Conclude, LegacyPhase
  <2>2. \/ worker' = [worker EXCEPT ![w] = Idle]
        \/ worker' = [worker EXCEPT ![w].phase = "transient"]
    BY <1>8 DEF Conclude, TypeOK
  <2> QED
    BY <1>i, <1>m, <2>1, <2>2 DEF Phase, LegacyPhase, TypedPhase
<1>9. ASSUME NEW outcome \in {"made", "unavailable", "permanent", "transient"},
             Generate(w, outcome)
      PROVE  Rows
  <2>1. worker[w].phase # "idle" /\ j \in Legacy
    BY <1>9, <1>k DEF Generate, LegacyPhase
  <2> QED
    BY <1>m, <1>9, <2>1 DEF Generate, Moves, Phase, LegacyPhase, TypedPhase
<1> QED
  BY <1>1, <1>2, <1>3, <1>4, <1>5, <1>6, <1>7, <1>8, <1>9 DEF Process, TypedStep, LegacyStep

LEMMA InitOwner == Init => OwnerInv
BY DEF Init, OwnerInv, Idle, LegacyPhase, TypedPhase

LEMMA NextOwner == TypeOK /\ OwnerInv /\ [Next]_vars => OwnerInv'
<1> SUFFICES ASSUME TypeOK, OwnerInv, [Next]_vars PROVE OwnerInv'
  OBVIOUS
<1> USE DEF admission, execution
<1>0. TypeOK'
  BY NextTyped
<1>g. \A v \in Workers : worker[v].phase # "idle" =>
        /\ worker[v].job \in Jobs
        /\ job'[worker[v].job].state # "absent"
        /\ worker[v].version <= job'[worker[v].job].version
  <2> SUFFICES ASSUME NEW v \in Workers, worker[v].phase # "idle"
               PROVE  /\ worker[v].job \in Jobs
                      /\ job'[worker[v].job].state # "absent"
                      /\ worker[v].version <= job'[worker[v].job].version
    OBVIOUS
  <2>1. worker[v].job \in Jobs /\ worker[v].version \in Nat
    BY DEF TypeOK, WorkerState
  <2>2. job[worker[v].job].version \in Nat /\ job'[worker[v].job].version \in Nat
    BY <1>0, <2>1 DEF TypeOK, JobRow
  <2> QED
    BY <2>1, <2>2, JobsGrow DEF OwnerInv
<1>1. CASE UNCHANGED worker
  BY <1>1, <1>g DEF OwnerInv
<1>2. ASSUME NEW w \in Workers, Process(w) \/ Abandon(w) PROVE OwnerInv'
  <2>1. /\ \A v \in Workers : v # w => worker'[v] = worker[v]
        /\ worker'[w] = Idle \/ KeepsRow(w)
    BY <1>2, ProcessRow
  <2>2. Idle.phase = "idle" /\ "idle" \notin LegacyPhase /\ "idle" \notin TypedPhase
    BY DEF Idle, LegacyPhase, TypedPhase
  <2> QED
    BY <1>g, <2>1, <2>2 DEF OwnerInv, KeepsRow
<1>3. ASSUME NEW w \in Workers, NEW j \in Jobs, Claim(w, j) PROVE OwnerInv'
  <2>1. job[j].version \in Nat /\ job[j] \in JobRow
    BY DEF TypeOK, JobRow
  <2>2. job'[j].version = job[j].version + 1 /\ job'[j].state = "leased"
    BY <1>3, <2>1 DEF Claim, TypeOK, JobRow
  <2>3. /\ worker'[w].phase = "claimed" /\ worker'[w].job = j
        /\ worker'[w].version = job[j].version + 1
    BY <1>3 DEF Claim, TypeOK
  <2>4. \A v \in Workers : v # w => worker'[v] = worker[v]
    BY <1>3 DEF Claim, TypeOK
  <2>5. \A v \in Workers : worker[v].phase # "idle" /\ worker[v].job = j =>
          worker[v].version # job[j].version + 1
    BY <2>1 DEF OwnerInv, TypeOK, WorkerState
  <2>6. "claimed" \notin LegacyPhase /\ "claimed" \notin TypedPhase
    BY DEF LegacyPhase, TypedPhase
  <2> QED
    BY <1>g, <2>1, <2>2, <2>3, <2>4, <2>5, <2>6 DEF OwnerInv
<1>4. \/ UNCHANGED worker
      \/ \E w \in Workers : \/ Process(w) \/ Abandon(w)
                            \/ \E j \in Jobs : Claim(w, j)
  BY DEF Next, vars, RunOnce, Admission, Prepare, IssueGrant, ConsumeGrant, Admit, PlanExpires,
         WorldChanges, EnqueueLegacy, LeaseExpires, LeaseExpiresEarly, BecomesDue
<1> QED
  BY <1>1, <1>2, <1>3, <1>4

---------------------------------------------------------------------------
\* A worker that holds its job after a step of somebody else held it before.
LEMMA HoldsBackward ==
  ASSUME TypeOK, OwnerInv, [Next]_vars, NEW v \in Workers, worker[v].phase # "idle",
         worker'[v].job = worker[v].job, worker'[v].version = worker[v].version, HoldsJob(v)'
  PROVE  HoldsJob(v)
<1> USE DEF admission, execution
<1> DEFINE i == worker[v].job
<1>0. /\ i \in Jobs /\ worker[v].version \in Nat /\ job[i] \in JobRow /\ job[i].version \in Nat
      /\ worker[v].version <= job[i].version /\ job[i].state # "absent"
  BY DEF TypeOK, WorkerState, JobRow, OwnerInv
<1>1. job'[i].state \in Held /\ job'[i].version = worker[v].version
  BY DEF HoldsJob
<1>2. job'[i].version >= job[i].version
  BY <1>0, JobsGrow
<1>3. job'[i].version = job[i].version
  BY <1>0, <1>1, <1>2
<1>4. CASE job'[i] = job[i]
  BY <1>1, <1>4 DEF HoldsJob
<1>5. ASSUME NEW w \in Workers, NEW j \in Jobs, Claim(w, j), i = j PROVE FALSE
  <2>1. job'[i].version = job[i].version + 1
    BY <1>0, <1>5 DEF Claim, TypeOK, JobRow
  <2> QED
    BY <1>0, <1>3, <2>1
<1>6. ASSUME NEW w \in Workers, NEW status \in Settled, i = worker[w].job, Ended(i, status)
      PROVE  FALSE
  <2>1. job'[i].version = job[i].version + 1
    BY <1>0, <1>6 DEF Ended, TypeOK, JobRow
  <2> QED
    BY <1>0, <1>3, <2>1
<1>7. ASSUME NEW w \in Workers, Retry(w), i = worker[w].job PROVE FALSE
  <2>1. job'[i].version = job[i].version + 1
    BY <1>0, <1>7 DEF Retry, TypeOK, JobRow
  <2> QED
    BY <1>0, <1>3, <2>1
<1>8. ASSUME NEW w \in Workers, NEW ack \in BOOLEAN, Start(w, ack) PROVE HoldsJob(v)
  <2>1. CASE i = worker[w].job
    BY <1>1, <1>3, <1>8, <2>1 DEF Start, HoldsJob
  <2>2. CASE i # worker[w].job
    BY <1>0, <1>4, <1>8, <2>2 DEF Start, TypeOK
  <2> QED
    BY <2>1, <2>2
<1>9. ASSUME NEW j \in Jobs, LeaseExpires(j) \/ LeaseExpiresEarly(j) \/ BecomesDue(j)
      PROVE  HoldsJob(v)
  <2>1. CASE i = j
    <3>1. CASE BecomesDue(j)
      <4>1. job'[i].state = job[i].state
        BY <1>0, <3>1 DEF BecomesDue, TypeOK, JobRow
      <4> QED
        BY <1>1, <1>3, <4>1 DEF HoldsJob
    <3>2. CASE LeaseExpires(j) \/ LeaseExpiresEarly(j)
      BY <1>1, <1>3, <2>1, <3>2 DEF LeaseExpires, LeaseExpiresEarly, HoldsJob
    <3> QED
      BY <1>9, <3>1, <3>2
  <2>2. CASE i # j
    <3>1. job'[i] = job[i]
      BY <1>0, <1>9, <2>2 DEF LeaseExpires, LeaseExpiresEarly, BecomesDue, TypeOK
    <3> QED
      BY <1>4, <3>1
  <2> QED
    BY <2>1, <2>2
<1>10. ASSUME NEW j \in Jobs, Admit(j) \/ EnqueueLegacy(j) PROVE HoldsJob(v)
  <2>1. job'[i] = job[i]
    BY <1>0, <1>10 DEF Admit, EnqueueLegacy, TypeOK
  <2> QED
    BY <1>4, <2>1
<1>11. ASSUME NEW w \in Workers,
             \/ \E saves, ack \in BOOLEAN : Finish(w, saves, ack)
             \/ \E ack \in BOOLEAN : MarkUncertain(w, ack) \/ Conclude(w, ack)
             \/ FailJob(w)
      PROVE  HoldsJob(v)
  <2>1. worker[w].job \in Jobs
    BY <1>11 DEF Finish, MarkUncertain, Conclude, FailJob, TypeOK
  <2>2. job' = job \/ \E status \in Settled : Ended(worker[w].job, status)
    BY <1>11 DEF Finish, MarkUncertain, Conclude, FailJob, Status, LegacyStatus, Settled
  <2>3. CASE i # worker[w].job
    <3>1. job'[i] = job[i]
      BY <1>0, <2>1, <2>2, <2>3 DEF Ended, TypeOK
    <3> QED
      BY <1>4, <3>1
  <2>4. CASE i = worker[w].job
    BY <1>4, <1>6, <2>2, <2>4
  <2> QED
    BY <2>3, <2>4
<1>12. ASSUME NEW w \in Workers, Retry(w) \/ \E j \in Jobs : Claim(w, j) PROVE HoldsJob(v)
  <2>1. ASSUME NEW j \in Jobs, Claim(w, j) PROVE job'[i] = job[i]
    BY <1>0, <1>5, <2>1 DEF Claim, TypeOK
  <2>2. ASSUME Retry(w) PROVE job'[i] = job[i]
    BY <1>0, <1>7, <2>2 DEF Retry, TypeOK
  <2> QED
    BY <1>4, <1>12, <2>1, <2>2
<1>13. \/ UNCHANGED job
       \/ \E j \in Jobs : \/ Admit(j) \/ EnqueueLegacy(j) \/ LeaseExpires(j)
                          \/ LeaseExpiresEarly(j) \/ BecomesDue(j)
       \/ \E w \in Workers :
            \/ Retry(w) \/ FailJob(w)
            \/ \E j \in Jobs : Claim(w, j)
            \/ \E ack \in BOOLEAN : Start(w, ack) \/ MarkUncertain(w, ack) \/ Conclude(w, ack)
            \/ \E saves, ack \in BOOLEAN : Finish(w, saves, ack)
  BY ZenonT(60) DEF Next, vars, RunOnce, Process, TypedStep, LegacyStep, Jobs, Admission, Prepare,
         IssueGrant, ConsumeGrant, PlanExpires, WorldChanges, Look, Open, Dispatch, Send,
         Recover, Generate, Raises, LeaseLost, Abandon
<1> QED
  BY <1>4, <1>8, <1>9, <1>10, <1>11, <1>12, <1>13

\* The agreement of the records survives every step that leaves them, and the
\* settled state of typed jobs, alone.
Neutral ==
  /\ UNCHANGED <<start, run>>
  /\ \A i \in Typed :
       /\ output'[i] = output[i]
       /\ terminal'[i].kind = terminal[i].kind /\ terminal'[i].status = terminal[i].status
       /\ job[i].state \in Settled \/ job'[i].state \in Settled => job'[i].state = job[i].state
       /\ job[i].state \in Held => job'[i].state \in Held

LEMMA NeutralAgrees ==
  ASSUME RecordInv, Neutral
  PROVE  /\ RecordsAgree'
         /\ \A j \in Typed : run'[j] = "generating" => start'[j] # 0 /\ job'[j].state \in Held
BY DEF RecordInv, RecordsAgree, Neutral, Settled

\* Steps of the queue, the clock and the clients are neutral, and so are those of a
\* worker that writes no record.
LEMMA QueueNeutral ==
  ASSUME TypeOK, OwnerInv,
         \/ UNCHANGED vars
         \/ \E j \in Typed : Admission(j) \/ PlanExpires(j) \/ WorldChanges(j)
         \/ \E j \in Legacy : EnqueueLegacy(j)
         \/ \E j \in Jobs : \/ LeaseExpires(j) \/ LeaseExpiresEarly(j) \/ BecomesDue(j)
                            \/ \E w \in Workers : Claim(w, j)
  PROVE  Neutral
<1> USE DEF admission, execution
<1>0. \A i \in Jobs : job[i] \in JobRow
  BY DEF TypeOK
<1>1. UNCHANGED <<start, run, output, terminal>>
  BY DEF vars, Admission, Prepare, IssueGrant, ConsumeGrant, Admit, PlanExpires, WorldChanges,
         EnqueueLegacy, LeaseExpires, LeaseExpiresEarly, BecomesDue, Claim
<1>2. ASSUME NEW i \in Typed
      PROVE  /\ job[i].state \in Settled \/ job'[i].state \in Settled => job'[i].state = job[i].state
             /\ job[i].state \in Held => job'[i].state \in Held
  <2> DEFINE Same == job'[i].state = job[i].state
  <2>0. i \in Jobs
    BY DEF Jobs
  <2>1. CASE UNCHANGED job
    BY <2>1
  <2>2. ASSUME NEW j \in Jobs, Admit(j) \/ EnqueueLegacy(j)
        PROVE  Same \/ (job[i].state = "absent" /\ job'[i].state = "queued")
    <3>1. job[j].state = "absent" /\ job' = [job EXCEPT ![j] = Queued] /\ Queued.state = "queued"
      BY <2>2 DEF Admit, EnqueueLegacy, Queued
    <3> QED
      BY <2>0, <3>1 DEF TypeOK
  <2>3. ASSUME NEW j \in Jobs, LeaseExpires(j) \/ LeaseExpiresEarly(j) PROVE Same
    <3>1. job' = [job EXCEPT ![j].expired = TRUE]
      BY <2>3 DEF LeaseExpires, LeaseExpiresEarly
    <3>2. i # j => job'[i] = job[i]
      BY <2>0, <3>1 DEF TypeOK
    <3>3. job[j] \in JobRow
      BY <1>0
    <3>4. job'[j].state = job[j].state
      BY <3>1, <3>3 DEF TypeOK, JobRow
    <3> QED
      BY <3>2, <3>4
  <2>4. ASSUME NEW j \in Jobs, BecomesDue(j) PROVE Same
    BY <1>0, <2>0, <2>4 DEF BecomesDue, TypeOK, JobRow
  <2>5. ASSUME NEW j \in Jobs, NEW w \in Workers, Claim(w, j)
        PROVE  Same \/ (job[i].state \in {"queued"} \cup Held /\ job'[i].state = "leased")
    <3>1. job[j].state \in {"queued"} \cup Held
      BY <2>5 DEF Claim, Candidate, Eligible
    <3>2. i # j => job'[i] = job[i]
      BY <2>0, <2>5, ZenonT(60) DEF Claim, TypeOK
    <3>3. job[j] \in JobRow
      BY <1>0
    <3>4. job'[j].state = "leased"
      BY <2>5, <3>3 DEF Claim, TypeOK, JobRow
    <3> QED
      BY <3>1, <3>2, <3>4
  <2>6. \/ UNCHANGED job
        \/ \E j \in Jobs : \/ Admit(j) \/ EnqueueLegacy(j) \/ LeaseExpires(j)
                           \/ LeaseExpiresEarly(j) \/ BecomesDue(j)
                           \/ \E w \in Workers : Claim(w, j)
    BY DEF vars, Jobs, Admission, Prepare, IssueGrant, ConsumeGrant, PlanExpires, WorldChanges
  <2> QED
    BY <2>1, <2>2, <2>3, <2>4, <2>5, <2>6 DEF Held, Settled
<1> QED
  BY <1>1, <1>2 DEF Neutral

LEMMA WorkNeutral ==
  ASSUME TypeOK, OwnerInv, NEW w \in Workers,
         \/ \E ack \in BOOLEAN : Start(w, ack) \/ Conclude(w, ack)
         \/ Look(w) \/ Open(w) \/ Recover(w) \/ Retry(w)
         \/ \E reply \in Reply : Send(w, reply)
         \/ \E outcome \in {"made", "unavailable", "permanent", "transient"} : Generate(w, outcome)
         \/ Raises(w) \/ LeaseLost(w) \/ Abandon(w)
  PROVE  Neutral
<1> USE DEF admission, execution
<1> DEFINE j == worker[w].job
<1>0. worker[w].phase # "idle" /\ j \in Jobs /\ job[j] \in JobRow
  BY DEF TypeOK, Start, Conclude, Look, Open, Recover, Retry, Send, Generate, Raises, LeaseLost,
         Abandon
<1>1. UNCHANGED <<start, run, terminal>>
  BY DEF Start, Conclude, Look, Open, Recover, Retry, Send, Generate, Raises, LeaseLost, Abandon
<1>2. CASE \/ Retry(w) \/ \E ack \in BOOLEAN : Conclude(w, ack)
           \/ \E outcome \in {"made", "unavailable", "permanent", "transient"} : Generate(w, outcome)
  <2>1. j \in Legacy
    BY <1>2 DEF Retry, Conclude, Generate, OwnerInv, LegacyPhase
  <2>2. \A i \in Typed : i # j
    BY <2>1
  <2>3. \A i \in Typed : output'[i] = output[i]
    BY <1>0, <1>2, <2>2 DEF Retry, Conclude, Generate, TypeOK, Jobs
  <2>4. \A i \in Typed : job'[i] = job[i]
    BY <1>0, <1>2, <2>2 DEF Retry, Conclude, Generate, Ended, TypeOK, Jobs
  <2> QED
    BY <1>1, <2>3, <2>4 DEF Neutral
<1>3. CASE \E ack \in BOOLEAN : Start(w, ack)
  <2>1. output' = output /\ job' = [job EXCEPT ![j].state = "generating"] /\ job[j].state = "leased"
    BY <1>3 DEF Start
  <2>2. \A i \in Typed : job'[i].state = IF i = j THEN "generating" ELSE job[i].state
    BY <1>0, <2>1 DEF TypeOK, JobRow, Jobs
  <2> QED
    BY <1>1, <2>1, <2>2 DEF Neutral, Held, Settled
<1>4. CASE UNCHANGED <<job, output>>
  BY <1>1, <1>4 DEF Neutral
<1> QED
  BY <1>2, <1>3, <1>4 DEF Look, Open, Recover, Send, Raises, LeaseLost, Abandon

\* The writers of the records.
LEMMA DispatchAgrees ==
  ASSUME TypeOK, DispatchInv, OwnerInv, RecordInv, NEW w \in Workers, NEW ack \in BOOLEAN,
         Dispatch(w, ack)
  PROVE  /\ RecordsAgree'
         /\ \A i \in Typed : run'[i] = "generating" => start'[i] # 0 /\ job'[i].state \in Held
<1> DEFINE j == worker[w].job
<1>0. /\ j \in Typed /\ j \in Jobs /\ worker[w].version # 0
      /\ job[j].state = "generating" /\ UNCHANGED <<job, terminal, output>>
  BY DEF Dispatch, DispatchInv, OwnerInv, TypedPhase, LegacyPhase, Phase, Jobs
<1>1. CASE UNCHANGED <<start, run>>
  <2>1. Neutral
    BY <1>0, <1>1 DEF Neutral
  <2> QED
    BY <2>1, NeutralAgrees
<1>2. CASE ~HasStarted(w)
  <2>1. /\ start[j] = 0
        /\ start' = [start EXCEPT ![j] = worker[w].version]
        /\ run' = [run EXCEPT ![j] = "generating"]
    BY <1>2 DEF Dispatch, HasStarted
  <2>2. run[j] = "absent" /\ terminal[j].kind = "none" /\ ~output[j]
    BY <1>0, <2>1 DEF RecordInv, RecordsAgree
  <2>3. \A i \in Typed : /\ start'[i] = IF i = j THEN worker[w].version ELSE start[i]
                         /\ run'[i] = IF i = j THEN "generating" ELSE run[i]
    BY <2>1 DEF TypeOK, Jobs
  <2> QED
    BY <1>0, <2>2, <2>3 DEF RecordInv, RecordsAgree, Settled, Held
<1> QED
  BY <1>1, <1>2 DEF Dispatch

LEMMA EndedRow ==
  ASSUME TypeOK, NEW j \in Jobs, NEW status, Ended(j, status)
  PROVE  \A i \in Jobs : job'[i].state = IF i = j THEN status ELSE job[i].state
<1>1. job[j] \in JobRow
  BY DEF TypeOK
<1>2. job'[j].state = status
  BY <1>1 DEF Ended, TypeOK, JobRow
<1>3. \A i \in Jobs : i # j => job'[i] = job[i]
  BY DEF Ended, TypeOK
<1> QED
  BY <1>2, <1>3

LEMMA FinishAgrees ==
  ASSUME TypeOK, OwnerInv, RecordInv, NEW w \in Workers, NEW saves \in BOOLEAN,
         NEW ack \in BOOLEAN, Finish(w, saves, ack)
  PROVE  /\ RecordsAgree'
         /\ \A i \in Typed : run'[i] = "generating" => start'[i] # 0 /\ job'[i].state \in Held
<1> DEFINE j == worker[w].job
           current == job[j].state = "generating" /\ HoldsJob(w)
           published == worker[w].reply = "typed" /\ current /\ Current(j) /\ saves
           status == Status(worker[w].reply, current, published)
<1>0. j \in Typed /\ j \in Jobs /\ start[j] # 0 /\ UNCHANGED start
  BY DEF Finish, OwnerInv, RecordInv, TypedPhase, LegacyPhase, Phase, Jobs
<1>s. published \in BOOLEAN /\ status \in Settled /\ (status = "completed" <=> published)
  BY DEF Status, Settled
<1>1. \/ /\ terminal' = [terminal EXCEPT ![j].observed = TRUE]
         /\ UNCHANGED <<job, run, output>>
      \/ /\ terminal[j].kind # "uncertain" /\ job[j].state \in Held
         /\ run' = [run EXCEPT ![j] = IF published THEN "completed" ELSE "failed"]
         /\ terminal' = [terminal EXCEPT ![j] =
              [kind |-> "terminal", status |-> status, observed |-> FALSE]]
         /\ output' = [output EXCEPT ![j] = published]
         /\ Ended(j, status)
  BY DEF Finish
<1> HIDE DEF published, status
<1>2. CASE /\ terminal' = [terminal EXCEPT ![j].observed = TRUE]
           /\ UNCHANGED <<job, run, output>>
  <2>1. terminal[j] \in TerminalRow
    BY <1>0 DEF TypeOK
  <2>2. \A i \in Typed : /\ terminal'[i].kind = terminal[i].kind
                         /\ terminal'[i].status = terminal[i].status
    <3>1. ASSUME NEW i \in Typed, i # j PROVE terminal'[i] = terminal[i]
      BY <1>0, <1>2, <3>1 DEF TypeOK, Jobs
    <3>2. terminal'[j].kind = terminal[j].kind /\ terminal'[j].status = terminal[j].status
      BY <1>0, <1>2, <2>1 DEF TypeOK, TerminalRow
    <3> QED
      BY <3>1, <3>2
  <2>3. Neutral
    BY <1>0, <1>2, <2>2 DEF Neutral
  <2> QED
    BY <2>3, NeutralAgrees
<1>3. CASE /\ terminal[j].kind # "uncertain" /\ job[j].state \in Held
           /\ run' = [run EXCEPT ![j] = IF published THEN "completed" ELSE "failed"]
           /\ terminal' = [terminal EXCEPT ![j] =
                [kind |-> "terminal", status |-> status, observed |-> FALSE]]
           /\ output' = [output EXCEPT ![j] = published]
           /\ Ended(j, status)
  <2>1. \A i \in Jobs : job'[i].state = IF i = j THEN status ELSE job[i].state
    BY <1>0, <1>3, EndedRow
  <2>2. \A i \in Typed : i # j => /\ run'[i] = run[i] /\ terminal'[i] = terminal[i]
                                 /\ output'[i] = output[i] /\ job'[i].state = job[i].state
    BY <1>0, <1>3, <2>1 DEF TypeOK, Jobs
  <2>3. /\ run'[j] = IF published THEN "completed" ELSE "failed"
        /\ terminal'[j].kind = "terminal" /\ terminal'[j].status = status
        /\ output'[j] = published /\ job'[j].state = status
    BY <1>0, <1>3, <2>1 DEF TypeOK
  <2>4. ASSUME NEW i \in Typed, i # j
        PROVE  /\ start'[i] # 0 <=> run'[i] # "absent"
               /\ run'[i] \in {"completed", "failed"} <=> terminal'[i].kind # "none"
               /\ start'[i] # 0 /\ job'[i].state \in Settled => terminal'[i].status = job'[i].state
               /\ terminal'[i].kind # "none" => job'[i].state \in Settled
               /\ output'[i] <=> run'[i] = "completed"
               /\ run'[i] = "completed" <=> job'[i].state = "completed"
               /\ run'[i] = "generating" => start'[i] # 0 /\ job'[i].state \in Held
    BY <1>0, <2>2, <2>4 DEF RecordInv, RecordsAgree
  <2>5. /\ start'[j] # 0 <=> run'[j] # "absent"
        /\ run'[j] \in {"completed", "failed"} <=> terminal'[j].kind # "none"
        /\ start'[j] # 0 /\ job'[j].state \in Settled => terminal'[j].status = job'[j].state
        /\ terminal'[j].kind # "none" => job'[j].state \in Settled
        /\ output'[j] <=> run'[j] = "completed"
        /\ run'[j] = "completed" <=> job'[j].state = "completed"
        /\ run'[j] = "generating" => start'[j] # 0 /\ job'[j].state \in Held
    BY <1>0, <1>s, <2>3
  <2> QED
    BY <2>4, <2>5 DEF RecordsAgree
<1> QED
  BY <1>1, <1>2, <1>3

LEMMA MarkAgrees ==
  ASSUME TypeOK, OwnerInv, RecordInv, NEW w \in Workers,
         (\E ack \in BOOLEAN : MarkUncertain(w, ack)) \/ FailJob(w)
  PROVE  /\ RecordsAgree'
         /\ \A i \in Typed : run'[i] = "generating" => start'[i] # 0 /\ job'[i].state \in Held
<1> USE DEF execution
<1> DEFINE j == worker[w].job
<1>0. j \in Typed /\ j \in Jobs /\ UNCHANGED <<start, output>>
  BY DEF MarkUncertain, FailJob, OwnerInv, TypedPhase, LegacyPhase, Phase, Jobs
<1>1. CASE UNCHANGED <<job, run, terminal>>
  <2>1. Neutral
    BY <1>0, <1>1 DEF Neutral
  <2> QED
    BY <2>1, NeutralAgrees
<1>2. CASE \E ack \in BOOLEAN : MarkUncertain(w, ack) /\ terminal[j].kind = "none"
  <2>0. /\ start[j] # 0 /\ job[j].state \in Held
        /\ run' = [run EXCEPT ![j] = "failed"]
        /\ terminal' = [terminal EXCEPT ![j] =
             [kind |-> "uncertain", status |-> "failed", observed |-> FALSE]]
        /\ Ended(j, "failed")
    BY <1>2 DEF MarkUncertain, HoldsJob, RecordInv
  <2>1. \A i \in Jobs : job'[i].state = IF i = j THEN "failed" ELSE job[i].state
    BY <1>0, <2>0, EndedRow
  <2>2. \A i \in Typed : i # j => /\ run'[i] = run[i] /\ terminal'[i] = terminal[i]
                                 /\ job'[i].state = job[i].state
    BY <1>0, <2>0, <2>1 DEF TypeOK, Jobs
  <2>3. /\ run'[j] = "failed" /\ job'[j].state = "failed"
        /\ terminal'[j].kind = "uncertain" /\ terminal'[j].status = "failed"
    BY <1>0, <2>0, <2>1 DEF TypeOK
  <2>4. ~output[j]
    BY <1>0, <1>2 DEF RecordInv, RecordsAgree
  <2> QED
    BY <1>0, <2>0, <2>2, <2>3, <2>4 DEF RecordInv, RecordsAgree, Settled
<1>3. CASE FailJob(w)
  <2>0. start[j] = 0 /\ job[j].state \in Held /\ Ended(j, "failed") /\ UNCHANGED <<run, terminal>>
    BY <1>3 DEF FailJob, HoldsJob, RecordInv
  <2>1. \A i \in Jobs : job'[i].state = IF i = j THEN "failed" ELSE job[i].state
    BY <1>0, <2>0, EndedRow
  <2>2. run[j] = "absent" /\ terminal[j].kind = "none"
    BY <1>0, <2>0 DEF RecordInv, RecordsAgree
  <2> QED
    BY <1>0, <2>0, <2>1, <2>2 DEF RecordInv, RecordsAgree, Jobs, Settled
<1> QED
  BY <1>1, <1>2, <1>3 DEF MarkUncertain

LEMMA NextAgrees ==
  ASSUME TypeOK, DispatchInv, OwnerInv, RecordInv, [Next]_vars
  PROVE  /\ RecordsAgree'
         /\ \A j \in Typed : run'[j] = "generating" => start'[j] # 0 /\ job'[j].state \in Held
<1> DEFINE Agrees == /\ RecordsAgree'
                     /\ \A j \in Typed : run'[j] = "generating" =>
                          start'[j] # 0 /\ job'[j].state \in Held
<1>1. CASE \/ UNCHANGED vars
           \/ \E j \in Typed : Admission(j) \/ PlanExpires(j) \/ WorldChanges(j)
           \/ \E j \in Legacy : EnqueueLegacy(j)
           \/ \E j \in Jobs : \/ LeaseExpires(j) \/ LeaseExpiresEarly(j) \/ BecomesDue(j)
                              \/ \E w \in Workers : Claim(w, j)
  BY <1>1, QueueNeutral, NeutralAgrees
<1>2. ASSUME NEW w \in Workers, Process(w) \/ Abandon(w) PROVE Agrees
  <2>1. CASE \/ \E ack \in BOOLEAN : Start(w, ack) \/ Conclude(w, ack)
             \/ Look(w) \/ Open(w) \/ Recover(w) \/ Retry(w)
             \/ \E reply \in Reply : Send(w, reply)
             \/ \E outcome \in {"made", "unavailable", "permanent", "transient"} :
                  Generate(w, outcome)
             \/ Raises(w) \/ LeaseLost(w) \/ Abandon(w)
    BY <2>1, WorkNeutral, NeutralAgrees
  <2>2. CASE \E ack \in BOOLEAN : Dispatch(w, ack)
    BY <2>2, DispatchAgrees
  <2>3. CASE \E saves, ack \in BOOLEAN : Finish(w, saves, ack)
    BY <2>3, FinishAgrees
  <2>4. CASE (\E ack \in BOOLEAN : MarkUncertain(w, ack)) \/ FailJob(w)
    BY <2>4, MarkAgrees
  <2> QED
    BY <1>2, <2>1, <2>2, <2>3, <2>4 DEF Process, TypedStep, LegacyStep
<1> QED
  BY <1>1, <1>2 DEF Next, RunOnce

\* A start row is written by the dispatch claim alone, and never taken back.
LEMMA StartKept ==
  ASSUME TypeOK, DispatchInv, [Next]_vars, NEW i \in Jobs
  PROVE  /\ start[i] # 0 => start'[i] # 0
         /\ start'[i] # start[i] => \E w \in Workers, ack \in BOOLEAN :
                                      Dispatch(w, ack) /\ worker[w].job = i
<1> USE DEF admission, execution
<1>1. CASE UNCHANGED start
  BY <1>1
<1>2. ASSUME NEW w \in Workers, NEW ack \in BOOLEAN, Dispatch(w, ack)
      PROVE  /\ start[i] # 0 => start'[i] # 0
             /\ start'[i] # start[i] => worker[w].job = i
  BY <1>2 DEF Dispatch, HasStarted, DispatchInv, TypeOK
<1>3. ASSUME NEW w \in Workers, RunOnce(w) \/ Abandon(w)
      PROVE  UNCHANGED start \/ \E ack \in BOOLEAN : Dispatch(w, ack)
  BY <1>3 DEF RunOnce, Process, TypedStep, LegacyStep, Claim, Start, Look, Open, Send, Finish,
              MarkUncertain, Recover, FailJob, Generate, Retry, Conclude, Raises, LeaseLost,
              Abandon
<1>4. UNCHANGED start \/ \E w \in Workers : RunOnce(w) \/ Abandon(w)
  BY DEF Next, vars, Admission, Prepare, IssueGrant, ConsumeGrant, Admit, PlanExpires,
         WorldChanges, EnqueueLegacy, LeaseExpires, LeaseExpiresEarly, BecomesDue
<1> QED
  BY <1>1, <1>2, <1>3, <1>4

\* A job comes into being by its admission alone.
LEMMA Appears ==
  ASSUME TypeOK, OwnerInv, [Next]_vars, NEW i \in Jobs,
         job[i].state = "absent", job'[i].state # "absent"
  PROVE  (i \in Typed /\ Admit(i)) \/ (i \in Legacy /\ EnqueueLegacy(i))
<1> USE DEF admission, execution
<1>1. ASSUME NEW j \in Typed, Admit(j) PROVE i = j
  BY <1>1 DEF Admit, TypeOK, Jobs
<1>2. ASSUME NEW j \in Legacy, EnqueueLegacy(j) PROVE i = j
  BY <1>2 DEF EnqueueLegacy, TypeOK, Jobs
<1>3. ASSUME NEW j \in Jobs,
             \/ LeaseExpires(j) \/ LeaseExpiresEarly(j) \/ BecomesDue(j)
             \/ \E w \in Workers : Claim(w, j)
      PROVE  FALSE
  <2>1. job[j].state # "absent"
    BY <1>3 DEF LeaseExpires, LeaseExpiresEarly, BecomesDue, Claim, Candidate, Eligible, Held
  <2>2. job'[i] = job[i]
    BY <1>3, <2>1 DEF LeaseExpires, LeaseExpiresEarly, BecomesDue, Claim, TypeOK
  <2> QED
    BY <2>2
<1>4. ASSUME NEW w \in Workers, Process(w) \/ Abandon(w) PROVE FALSE
  <2>1. worker[w].phase # "idle" => worker[w].job \in Jobs /\ job[worker[w].job].state # "absent"
    BY DEF OwnerInv, TypeOK
  <2>2. CASE UNCHANGED job
    BY <2>2
  <2>3. ASSUME NEW status \in Settled, Ended(worker[w].job, status), worker[w].phase # "idle"
        PROVE  FALSE
    BY <2>1, <2>3 DEF Ended, TypeOK
  <2>4. CASE Retry(w) \/ \E ack \in BOOLEAN : Start(w, ack)
    BY <2>1, <2>4 DEF Retry, Start, TypeOK
  <2>5. \/ UNCHANGED job
        \/ Retry(w) \/ \E ack \in BOOLEAN : Start(w, ack)
        \/ worker[w].phase # "idle" /\ \E status \in Settled : Ended(worker[w].job, status)
    BY <1>4 DEF Process, TypedStep, LegacyStep, Look, Open, Dispatch, Send, Recover, Generate,
                Raises, LeaseLost, Abandon, Finish, MarkUncertain, Conclude, FailJob, Status,
                LegacyStatus, Settled
  <2> QED
    BY <2>2, <2>3, <2>4, <2>5
<1>5. \/ UNCHANGED job
      \/ \E j \in Typed : Admit(j)
      \/ \E j \in Legacy : EnqueueLegacy(j)
      \/ \E j \in Jobs : \/ LeaseExpires(j) \/ LeaseExpiresEarly(j) \/ BecomesDue(j)
                         \/ \E w \in Workers : Claim(w, j)
      \/ \E w \in Workers : Process(w) \/ Abandon(w)
  BY DEF Next, vars, RunOnce, Admission, Prepare, IssueGrant, ConsumeGrant, PlanExpires,
         WorldChanges
<1> QED
  BY <1>1, <1>2, <1>3, <1>4, <1>5

\* A consumed step-up stays consumed.
LEMMA GrantKept ==
  ASSUME TypeOK, [Next]_vars, NEW i \in Jobs, grant[i] = "consumed"
  PROVE  grant'[i] = "consumed"
<1> USE DEF admission, execution
<1>0. ASSUME NEW w \in Workers, RunOnce(w) \/ Abandon(w) PROVE UNCHANGED grant
  BY <1>0 DEF RunOnce, Process, TypedStep, LegacyStep, Claim, Start, Look, Open, Dispatch, Send,
              Finish, MarkUncertain, Recover, FailJob, Generate, Retry, Conclude, Raises,
              LeaseLost, Abandon
<1>1. \/ UNCHANGED grant
      \/ \E j \in Typed : IssueGrant(j) \/ ConsumeGrant(j)
  BY <1>0 DEF Next, vars, Admission, Prepare, Admit, PlanExpires, WorldChanges, EnqueueLegacy,
              LeaseExpires, LeaseExpiresEarly, BecomesDue
<1>2. ASSUME NEW j \in Typed, IssueGrant(j) \/ ConsumeGrant(j) PROVE grant'[i] = "consumed"
  BY <1>2 DEF IssueGrant, ConsumeGrant, TypeOK
<1> QED
  BY <1>1, <1>2

Witness == {"uncertain", "marking", "dispatched", "replied"}

\* A worker reaches a phase that presumes a start row only by having seen or written
\* one, and "failing" only by having seen that there is none.
LEMMA PhaseSource ==
  ASSUME TypeOK, DispatchInv, OwnerInv, RecordInv, [Next]_vars, NEW v \in Workers,
         worker'[v].phase \in Witness \cup {"failing"}
  PROVE  \/ worker'[v] = worker[v]
         \/ /\ worker[v].phase # "idle" /\ worker'[v].job = worker[v].job
            /\ worker'[v].phase \in Witness => start'[worker[v].job] # 0
            /\ worker'[v].phase = "failing" => start'[worker[v].job] = 0
<1> USE DEF admission, execution
<1> DEFINE Source(w) == /\ worker[w].phase # "idle" /\ worker'[w].job = worker[w].job
                        /\ worker'[w].phase \in Witness => start'[worker[w].job] # 0
                        /\ worker'[w].phase = "failing" => start'[worker[w].job] = 0
<1>1. CASE UNCHANGED worker
  BY <1>1
<1>2. ASSUME NEW w \in Workers, NEW j \in Jobs, Claim(w, j) PROVE worker'[v] = worker[v]
  <2>1. worker'[w].phase = "claimed" /\ \A u \in Workers : u # w => worker'[u] = worker[u]
    BY <1>2 DEF Claim, TypeOK
  <2> QED
    BY <2>1 DEF Witness
<1>3. ASSUME NEW w \in Workers, Process(w) \/ Abandon(w)
      PROVE  worker'[v] = worker[v] \/ Source(v)
  <2>1. /\ \A u \in Workers : u # w => worker'[u] = worker[u]
        /\ worker'[w] = Idle \/ KeepsRow(w)
    BY <1>3, ProcessRow
  <2>2. CASE v = w /\ KeepsRow(w)
    <3>0. /\ worker[w].phase # "idle" /\ worker[w].job \in Jobs /\ worker'[w].job = worker[w].job
          /\ worker[w] \in WorkerState /\ worker[w].version # 0
      BY <2>2 DEF KeepsRow, TypeOK, DispatchInv
    <3>1. CASE Look(w) \/ Recover(w)
      <4>1. /\ start' = start
            /\ worker'[w].phase \in Witness => start[worker[w].job] # 0
            /\ worker'[w].phase = "failing" => start[worker[w].job] = 0
        BY <3>0, <3>1 DEF Look, Recover, Moves, HasStarted, TypeOK, WorkerState, Witness
      <4> QED
        BY <2>2, <3>0, <4>1
    <3>2. CASE \E ack \in BOOLEAN : Dispatch(w, ack)
      <4>1. start'[worker[w].job] # 0
        BY <3>0, <3>2 DEF Dispatch, HasStarted, TypeOK
      <4>2. worker'[w].phase # "failing"
        BY <3>0, <3>2 DEF Dispatch, Moves, Acked, Handler, TypeOK, WorkerState
      <4> QED
        BY <2>2, <3>0, <4>1, <4>2
    <3>3. CASE \E reply \in Reply : Send(w, reply)
      <4>1. start' = start /\ start[worker[w].job] # 0
        BY <3>3 DEF Send, DispatchInv
      <4>2. worker'[w].phase # "failing"
        BY <3>0, <3>3 DEF Send, TypeOK, WorkerState
      <4> QED
        BY <2>2, <3>0, <4>1, <4>2
    <3>4. CASE \/ \E ack \in BOOLEAN : Start(w, ack) \/ MarkUncertain(w, ack) \/ Conclude(w, ack)
               \/ \E saves, ack \in BOOLEAN : Finish(w, saves, ack)
               \/ \E outcome \in {"made", "unavailable", "permanent", "transient"} :
                    Generate(w, outcome)
               \/ Open(w) \/ FailJob(w) \/ Retry(w) \/ Raises(w) \/ LeaseLost(w) \/ Abandon(w)
      <4>1. CASE worker'[w] = Idle
        BY <2>2, <4>1 DEF Idle, Witness
      <4>2. CASE worker'[w].phase \in {"looking", "working", "recovering", "transient", "made",
                                       "unavailable", "permanent", "opened"}
        BY <2>2, <4>2 DEF Witness
      <4>3. CASE FailJob(w) \/ Retry(w) \/ LeaseLost(w) \/ Abandon(w)
        BY <4>1, <4>3 DEF FailJob, Retry, LeaseLost, Abandon, TypeOK
      <4>4. CASE \/ \E ack \in BOOLEAN : Start(w, ack)
                 \/ \E outcome \in {"made", "unavailable", "permanent", "transient"} :
                      Generate(w, outcome)
                 \/ Open(w) \/ Raises(w)
        BY <3>0, <4>2, <4>4
        DEF Start, Generate, Open, Raises, Moves, Acked, Handler, TypeOK, WorkerState
      <4>5. CASE \/ \E ack \in BOOLEAN : MarkUncertain(w, ack) \/ Conclude(w, ack)
                 \/ \E saves, ack \in BOOLEAN : Finish(w, saves, ack)
        <5>1. \/ worker' = [worker EXCEPT ![w] = Idle]
              \/ worker' = [worker EXCEPT ![w].phase = "recovering"]
              \/ worker' = [worker EXCEPT ![w].phase = "transient"]
          BY <4>5 DEF MarkUncertain, Conclude, Finish, TypeOK
        <5> QED
          BY <3>0, <4>1, <4>2, <5>1 DEF TypeOK, WorkerState
      <4> QED
        BY <3>4, <4>3, <4>4, <4>5
    <3> QED
      BY <1>3, <3>1, <3>2, <3>3, <3>4 DEF Process, TypedStep, LegacyStep
  <2>3. CASE worker'[w] = Idle
    BY <2>1, <2>3 DEF Idle, Witness
  <2> QED
    BY <2>1, <2>2, <2>3
<1>4. \/ UNCHANGED worker
      \/ \E w \in Workers : \/ Process(w) \/ Abandon(w)
                            \/ \E j \in Jobs : Claim(w, j)
  BY DEF Next, vars, RunOnce, Admission, Prepare, IssueGrant, ConsumeGrant, Admit, PlanExpires,
         WorldChanges, EnqueueLegacy, LeaseExpires, LeaseExpiresEarly, BecomesDue
<1> QED
  BY <1>1, <1>2, <1>3, <1>4

LEMMA InitRecord == Init => RecordInv
BY DEF Init, RecordInv, RecordsAgree, Idle, NoJob, NoTerminal, Settled, Held, Jobs

LEMMA NextRecord ==
  TypeOK /\ DispatchInv /\ OwnerInv /\ RecordInv /\ [Next]_vars => RecordInv'
<1> SUFFICES ASSUME TypeOK, DispatchInv, OwnerInv, RecordInv, [Next]_vars PROVE RecordInv'
  OBVIOUS
<1>0. \A w \in Workers : worker[w].phase # "idle" => worker[w].job \in Jobs
  BY DEF TypeOK
<1>1. ASSUME NEW j \in StepUp, job'[j].state # "absent" PROVE grant'[j] = "consumed"
  <2>1. j \in Typed /\ j \in Jobs
    BY DEF Jobs
  <2>2. grant[j] = "consumed"
    <3>1. CASE job[j].state # "absent"
      BY <3>1 DEF RecordInv
    <3>2. CASE job[j].state = "absent"
      <4>1. Admit(j)
        BY <1>1, <2>1, <3>2, Appears
      <4> QED
        BY <4>1 DEF Admit, Consented
    <3> QED
      BY <3>1, <3>2
  <2> QED
    BY <2>1, <2>2, GrantKept
<1>2. ASSUME NEW j \in Jobs, start'[j] # 0 PROVE job'[j].state # "absent"
  <2>1. job[j].state # "absent"
    <3>1. CASE start[j] # 0
      BY <3>1 DEF RecordInv
    <3>2. CASE start[j] = 0
      <4>1. PICK w \in Workers, ack \in BOOLEAN : Dispatch(w, ack) /\ worker[w].job = j
        BY <1>2, <3>2, StartKept
      <4> QED
        BY <4>1 DEF Dispatch
    <3> QED
      BY <3>1, <3>2
  <2> QED
    BY <2>1, JobsGrow
<1>3. ASSUME NEW w \in Workers, worker'[w].phase \in Witness PROVE start'[worker'[w].job] # 0
  <2>1. CASE worker'[w] = worker[w]
    <3>1. worker[w].job \in Jobs /\ start[worker[w].job] # 0
      BY <1>0, <1>3, <2>1 DEF RecordInv, Witness
    <3> QED
      BY <2>1, <3>1, StartKept
  <2>2. CASE worker'[w] # worker[w]
    BY <1>3, <2>2, PhaseSource
  <2> QED
    BY <2>1, <2>2
<1>4. ASSUME NEW w \in Workers, worker'[w].phase = "failing", HoldsJob(w)'
      PROVE  start'[worker'[w].job] = 0
  <2>1. CASE worker'[w] = worker[w]
    <3>1. worker[w].phase = "failing" /\ worker[w].job \in Jobs
      BY <1>0, <1>4, <2>1
    <3>2. HoldsJob(w)
      BY <1>4, <2>1, <3>1, HoldsBackward
    <3>3. start[worker[w].job] = 0
      BY <3>1, <3>2 DEF RecordInv
    <3>4. ASSUME start'[worker[w].job] # 0 PROVE FALSE
      <4>1. PICK u \in Workers, ack \in BOOLEAN : Dispatch(u, ack) /\ worker[u].job = worker[w].job
        BY <3>1, <3>3, <3>4, StartKept
      <4>2. worker[u].phase = "opened" /\ worker[u].version = worker[w].version
        BY <3>2, <4>1 DEF Dispatch, HoldsJob
      <4>3. u = w
        BY <3>1, <4>1, <4>2 DEF OwnerInv
      <4> QED
        BY <3>1, <4>2, <4>3
    <3> QED
      BY <2>1, <3>4
  <2>2. CASE worker'[w] # worker[w]
    BY <1>4, <2>2, PhaseSource
  <2> QED
    BY <2>1, <2>2
<1>5. /\ RecordsAgree'
      /\ \A j \in Typed : run'[j] = "generating" => start'[j] # 0 /\ job'[j].state \in Held
  BY NextAgrees
<1> QED
  BY <1>1, <1>2, <1>3, <1>4, <1>5 DEF RecordInv, Witness

LEMMA RecordInvariant == Spec => [](TypeOK /\ DispatchInv /\ OwnerInv /\ RecordInv)
<1>1. Init => TypeOK /\ DispatchInv /\ OwnerInv /\ RecordInv
  BY InitTyped, InitDispatch, InitOwner, InitRecord
<1>2. TypeOK /\ DispatchInv /\ OwnerInv /\ RecordInv /\ [Next]_vars
      => (TypeOK /\ DispatchInv /\ OwnerInv /\ RecordInv)'
  BY NextTyped, NextDispatch, NextOwner, NextRecord
<1> QED
  BY <1>1, <1>2, PTL DEF Spec

\* The job row, the run, the terminal row and the output of a dispatched job always
\* tell the same story, whichever worker closed it and whatever it crashed in between.
THEOREM RecordsConsistent == Spec => []RecordsAgree
<1>1. TypeOK /\ DispatchInv /\ OwnerInv /\ RecordInv => RecordsAgree
  BY DEF RecordInv
<1> QED
  BY <1>1, RecordInvariant, PTL

\* No provider call precedes the consumption of the step-up its policy asks for.
THEOREM ConsentFirst == Spec => []ConsentBeforeSend
<1>1. TypeOK /\ DispatchInv /\ OwnerInv /\ RecordInv => ConsentBeforeSend
  <2> SUFFICES ASSUME TypeOK, DispatchInv, RecordInv, NEW j \in StepUp, sent[j] > 0
               PROVE  grant[j] = "consumed"
    BY DEF ConsentBeforeSend
  <2>1. j \in Jobs
    BY DEF Jobs
  <2>2. start[j] # 0
    BY <2>1 DEF DispatchInv
  <2> QED
    BY <2>1, <2>2 DEF RecordInv
<1> QED
  BY <1>1, RecordInvariant, PTL

---------------------------------------------------------------------------
(* A settled job is final.                                                 *)

\* A worker step that touches a job at all finds it unsettled, or only files the
\* late observation.
LEMMA WorkerKeepsSettled ==
  ASSUME TypeOK, OwnerInv, NEW w \in Workers, Process(w) \/ Abandon(w),
         NEW i \in Typed, job[i].state \in Settled
  PROVE  /\ job'[i] = job[i] /\ run'[i] = run[i] /\ output'[i] = output[i]
         /\ terminal'[i].kind = terminal[i].kind /\ terminal'[i].status = terminal[i].status
<1> USE DEF admission, execution
<1> DEFINE j == worker[w].job
           Same == /\ job'[i] = job[i] /\ run'[i] = run[i] /\ output'[i] = output[i]
                   /\ terminal'[i].kind = terminal[i].kind
                   /\ terminal'[i].status = terminal[i].status
<1>0. i \in Jobs /\ job[i].state \notin Held
  BY DEF Jobs, Settled, Held
<1>j. worker[w].phase # "idle" => j \in Jobs
  BY DEF TypeOK
<1>1. CASE UNCHANGED <<job, run, output, terminal>>
  BY <1>1
<1>2. CASE \E ack \in BOOLEAN : Start(w, ack) \/ Conclude(w, ack)
  <2>1. j # i /\ worker[w].phase # "idle" /\ UNCHANGED <<run, output, terminal>>
    BY <1>0, <1>2 DEF Start, Conclude, HoldsJob
  <2>2. job'[i] = job[i]
    BY <1>0, <1>2, <1>j, <2>1 DEF Start, Conclude, Ended, TypeOK
  <2> QED
    BY <2>1, <2>2
<1>3. CASE FailJob(w) \/ Retry(w)
  <2>1. j # i /\ worker[w].phase # "idle" /\ UNCHANGED <<run, output, terminal>>
    BY <1>0, <1>3 DEF FailJob, Retry, HoldsJob
  <2>2. job'[i] = job[i]
    BY <1>0, <1>3, <1>j, <2>1 DEF FailJob, Retry, Ended, TypeOK
  <2> QED
    BY <2>1, <2>2
<1>4. CASE \E ack \in BOOLEAN : Dispatch(w, ack)
  <2>1. j # i /\ worker[w].phase # "idle" /\ UNCHANGED <<job, output, terminal>>
    BY <1>0, <1>4 DEF Dispatch, HoldsJob
  <2>2. run'[i] = run[i]
    BY <1>0, <1>4, <1>j, <2>1 DEF Dispatch, TypeOK
  <2> QED
    BY <2>1, <2>2
<1>5. CASE \E outcome \in {"made", "unavailable", "permanent", "transient"} : Generate(w, outcome)
  <2>1. j \in Legacy /\ UNCHANGED <<job, run, terminal>>
    BY <1>5 DEF Generate, OwnerInv, LegacyPhase
  <2>2. output'[i] = output[i]
    BY <1>0, <1>5, <1>j, <2>1 DEF Generate, TypeOK
  <2> QED
    BY <2>1, <2>2
<1>6. CASE \E ack \in BOOLEAN : MarkUncertain(w, ack)
  <2>1. CASE UNCHANGED <<job, run, terminal>>
    BY <1>6, <2>1 DEF MarkUncertain
  <2>2. CASE HoldsJob(w)
    <3>1. j # i /\ j \in Jobs
      BY <1>0, <1>6, <1>j, <2>2 DEF MarkUncertain, HoldsJob
    <3>2. run'[i] = run[i] /\ terminal'[i] = terminal[i] /\ output' = output
      BY <1>0, <1>6, <3>1 DEF MarkUncertain, TypeOK
    <3>3. job'[i] = job[i]
      BY <1>0, <1>6, <3>1 DEF MarkUncertain, Ended, TypeOK
    <3> QED
      BY <3>2, <3>3
  <2> QED
    BY <1>6, <2>1, <2>2 DEF MarkUncertain
<1>7. ASSUME NEW saves \in BOOLEAN, NEW ack \in BOOLEAN, Finish(w, saves, ack) PROVE Same
  <2>0. j \in Jobs
    BY <1>7, <1>j DEF Finish
  <2>1. CASE terminal' = [terminal EXCEPT ![j].observed = TRUE] /\ UNCHANGED <<job, run, output>>
    <3>1. terminal[i] \in TerminalRow
      BY <1>0 DEF TypeOK
    <3>2. terminal'[i].kind = terminal[i].kind /\ terminal'[i].status = terminal[i].status
      BY <1>0, <2>0, <2>1, <3>1 DEF TypeOK, TerminalRow
    <3> QED
      BY <2>1, <3>2
  <2>2. ASSUME NEW published, NEW status, job[j].state \in Held,
               run' = [run EXCEPT ![j] = IF published THEN "completed" ELSE "failed"],
               terminal' = [terminal EXCEPT ![j] =
                 [kind |-> "terminal", status |-> status, observed |-> FALSE]],
               output' = [output EXCEPT ![j] = published],
               Ended(j, status)
        PROVE  Same
    <3>1. j # i
      BY <1>0, <2>2
    <3>2. run'[i] = run[i] /\ terminal'[i] = terminal[i] /\ output'[i] = output[i]
      BY <1>0, <2>0, <2>2, <3>1 DEF TypeOK
    <3>3. job'[i] = job[i]
      BY <1>0, <2>0, <2>2, <3>1 DEF Ended, TypeOK
    <3> QED
      BY <3>2, <3>3
  <2> QED
    BY <1>7, <2>1, <2>2 DEF Finish
<1> QED
  BY <1>1, <1>2, <1>3, <1>4, <1>5, <1>6, <1>7
  DEF Process, TypedStep, LegacyStep, Look, Open, Send, Recover, Raises, LeaseLost, Abandon

LEMMA SettledStep ==
  ASSUME TypeOK, OwnerInv, [Next]_vars, NEW i \in Typed, job[i].state \in Settled
  PROVE  /\ job'[i] = job[i] /\ run'[i] = run[i] /\ output'[i] = output[i]
         /\ terminal'[i].kind = terminal[i].kind /\ terminal'[i].status = terminal[i].status
<1> USE DEF admission, execution
<1>0. i \in Jobs /\ job[i].state \notin Held \cup {"absent", "queued"}
  BY DEF Jobs, Settled, Held
<1>1. ASSUME NEW w \in Workers, Process(w) \/ Abandon(w)
      PROVE  /\ job'[i] = job[i] /\ run'[i] = run[i] /\ output'[i] = output[i]
             /\ terminal'[i].kind = terminal[i].kind /\ terminal'[i].status = terminal[i].status
  BY <1>1, WorkerKeepsSettled
<1>2. CASE UNCHANGED <<job, run, output, terminal>>
  BY <1>2
<1>3. ASSUME NEW j \in Jobs, \/ Admit(j) \/ EnqueueLegacy(j) \/ LeaseExpires(j)
                             \/ LeaseExpiresEarly(j) \/ BecomesDue(j)
                             \/ \E w \in Workers : Claim(w, j)
      PROVE  job'[i] = job[i] /\ UNCHANGED <<run, output, terminal>>
  <2>1. j # i
    BY <1>0, <1>3
    DEF Admit, EnqueueLegacy, LeaseExpires, LeaseExpiresEarly, BecomesDue, Claim, Candidate, Eligible
  <2> QED
    BY <1>0, <1>3, <2>1
    DEF Admit, EnqueueLegacy, LeaseExpires, LeaseExpiresEarly, BecomesDue, Claim, TypeOK
<1> QED
  BY <1>1, <1>2, <1>3
  DEF Next, vars, RunOnce, Jobs, Admission, Prepare, IssueGrant, ConsumeGrant, PlanExpires,
      WorldChanges

\* Once a typed job is settled no worker, however late, changes its verdict, its run
\* or its output.
THEOREM SettledIsFinal == Spec => SettledFinal
<1>1. TypeOK /\ OwnerInv /\ [Next]_vars =>
        [\A j \in Typed : job[j].state \in Settled =>
           /\ job'[j] = job[j] /\ run'[j] = run[j] /\ output'[j] = output[j]
           /\ terminal'[j].kind = terminal[j].kind /\ terminal'[j].status = terminal[j].status]_vars
  BY SettledStep
<1> QED
  BY <1>1, RecordInvariant, PTL DEF Spec, SettledFinal

\* Everything the tables say about a typed job is true of it, at every moment: the
\* property the run studio_mixed checks.
THEOREM RecordsTrueCorrect == Spec => []RecordsTrue
BY TypeCorrect, RecordsConsistent, AttemptsAreCalls, ConsentFirst, PTL DEF RecordsTrue
=============================================================================
