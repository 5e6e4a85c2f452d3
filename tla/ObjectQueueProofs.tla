------------------------- MODULE ObjectQueueProofs -------------------------
(***************************************************************************)
(* Theorems about ObjectQueue, for every number of objects, jobs, clients, *)
(* worker threads, shared worker ids, attempts and disturbances; at the    *)
(* end those about SyncTransfer.                                           *)
(***************************************************************************)
EXTENDS ObjectQueue, SyncTransfer, FiniteSetTheorems, TLAPS

USE DEF JobState, OutboxState

\* A busy worker thread works on a job.
WorkHasJob == \A p \in Procs : work[p].phase # "idle" => work[p].job \in Jobs

Typed == TypeOK /\ WorkHasJob

LEMMA InitTyped == Init => Typed
BY QueueAssumption
   DEF Init, Typed, TypeOK, WorkHasJob, NoRecord, NoJob, IdleClient, IdleWork, RecordRow,
       JobRow, Dedup, ClientState, WorkState

\* Moving a busy thread to another phase keeps it busy with the same job.
LEMMA MovesTyped ==
  ASSUME Typed, NEW p \in Procs, work[p].phase # "idle",
         NEW phase \in {"claimed", "copied", "verified", "failing"},
         NEW r \in BOOLEAN, Moves(p, phase, r)
  PROVE  work' \in [Procs -> WorkState] /\ WorkHasJob'
<1>1. [phase |-> phase, job |-> work[p].job, attempt |-> work[p].attempt,
       version |-> work[p].version, retryable |-> r] \in WorkState
  BY DEF Typed, TypeOK, WorkState
<1>2. work[p].job \in Jobs
  BY DEF Typed, WorkHasJob
<1> QED
  BY <1>1, <1>2 DEF Typed, TypeOK, WorkHasJob, Moves

\* So does letting a thread go idle.
LEMMA IdleTyped ==
  ASSUME Typed, NEW p \in Procs, work' = [work EXCEPT ![p] = IdleWork]
  PROVE  work' \in [Procs -> WorkState] /\ WorkHasJob'
<1>1. IdleWork \in WorkState
  BY DEF IdleWork, WorkState
<1> QED
  BY <1>1 DEF Typed, TypeOK, WorkHasJob, IdleWork

\* The row of a released job is a job row.
LEMMA ReleasedTyped ==
  ASSUME Typed, NEW j \in Jobs, NEW s \in JobState
  PROVE  Released(j, s) \in JobRow
<1>1. job[j] \in JobRow
  BY DEF Typed, TypeOK
<1> QED
  BY <1>1 DEF Released, JobRow

\* Updating one column of a row keeps it a row.
LEMMA StatusTyped ==
  ASSUME Typed, NEW o, NEW s \in {"pending", "completed", "failed"}
  PROVE  [record EXCEPT ![o].status = s] \in [Objects -> RecordRow]
<1>1. ASSUME NEW x \in Objects
      PROVE  [record[x] EXCEPT !.status = s] \in RecordRow
  <2>1. record[x] \in RecordRow
    BY DEF Typed, TypeOK
  <2> QED
    BY <2>1 DEF RecordRow
<1> QED
  BY <1>1 DEF Typed, TypeOK

\* Every action keeps the types.
LEMMA NextTyped == Typed /\ [Next]_vars => Typed'
<1> SUFFICES ASSUME Typed, [Next]_vars PROVE Typed'
  OBVIOUS
<1> USE QueueAssumption DEF store, tables, rest
<1>1. CASE UNCHANGED vars
  BY <1>1 DEF vars, Typed, TypeOK, WorkHasJob
<1>2. ASSUME NEW c \in Clients, NEW a \in Actors, NEW k \in Keys, NEW b \in Bytes,
             NEW o \in Objects, PutStaged(c, a, k, b, o)
      PROVE  Typed'
  BY <1>2 DEF PutStaged, ClientState, Typed, TypeOK, WorkHasJob
<1>3. ASSUME NEW c \in Clients, NEW j \in Jobs, Register(c, j)
      PROVE  Typed'
  BY <1>3 DEF Register, ClientState, IdleClient, RecordRow, JobRow, Dedup, Typed, TypeOK,
              WorkHasJob
<1>4. ASSUME NEW c \in Clients, Replay(c) \/ KeyReused(c) \/ RegisterRefused(c)
      PROVE  Typed'
  BY <1>4 DEF Replay, KeyReused, RegisterRefused, ClientState, IdleClient, Typed, TypeOK,
              WorkHasJob
<1>5. ASSUME NEW p \in Procs, NEW j \in Jobs, Claim(p, j)
      PROVE  Typed'
  BY <1>5 DEF Claim, NextAttempt, JobRow, WorkState, Typed, TypeOK, WorkHasJob
<1>6. ASSUME NEW p \in Procs, Copy(p) \/ StoreFails(p) \/ Verify(p) \/ CompleteRefused(p)
      PROVE  Typed'
  <2>1. work' \in [Procs -> WorkState] /\ WorkHasJob'
    BY <1>6, MovesTyped DEF Copy, StoreFails, Verify, CompleteRefused
  <2>2. final' \in [Objects -> Bytes \cup {None}] /\ staging' = staging
    <3>1. \/ final' = final /\ staging' = staging
          \/ final' = [final EXCEPT ![ObjectOf(p)] = staging[ObjectOf(p)]] /\ staging' = staging
      BY <1>6 DEF Copy, StoreFails, Verify, CompleteRefused
    <3>2. /\ final \in [Objects -> Bytes \cup {None}]
          /\ staging \in [Objects -> Bytes \cup {None}]
      BY DEF Typed, TypeOK
    <3> QED
      BY <3>1, <3>2
  <2>3. UNCHANGED <<tables, client, running, sent, disturbed>>
    BY <1>6 DEF Copy, StoreFails, Verify, CompleteRefused
  <2> QED
    BY <2>1, <2>2, <2>3 DEF Typed, TypeOK
<1>7. ASSUME NEW p \in Procs, Complete(p) \/ CompleteUnacknowledged(p) \/ Fail(p)
      PROVE  Typed'
  <2> DEFINE j == work[p].job
  <2>1. j \in Jobs /\ work[p].attempt \in Nat
    BY <1>7 DEF Complete, CompleteUnacknowledged, Fail, WorkState, Typed, TypeOK, WorkHasJob
  <2>2. record' \in [Objects -> RecordRow]
    <3>1. \/ record' = [record EXCEPT ![ObjectOf(p)].status = "completed"]
          \/ record' = [record EXCEPT ![ObjectOf(p)].status = "failed"]
          \/ record' = record
      BY <1>7 DEF Complete, CompleteUnacknowledged, CompleteTransaction, Fail, RecordAfterFail
    <3>2. /\ [record EXCEPT ![ObjectOf(p)].status = "completed"] \in [Objects -> RecordRow]
          /\ [record EXCEPT ![ObjectOf(p)].status = "failed"] \in [Objects -> RecordRow]
      BY StatusTyped
    <3> QED
      BY <3>1, <3>2 DEF Typed, TypeOK
  <2>3. \E s \in {"completed", "retry_wait", "dead_letter"} :
          /\ job' = [job EXCEPT ![j] = Released(j, s)]
          /\ attempts' = attempts \cup {<<j, work[p].attempt, s>>}
    BY <1>7 DEF Complete, CompleteUnacknowledged, CompleteTransaction, Fail
  <2>4. job' \in [Jobs -> JobRow]
    BY <2>1, <2>3, ReleasedTyped DEF Typed, TypeOK
  <2>5. attempts' \in SUBSET (Jobs \X Nat \X {"completed", "retry_wait", "dead_letter"})
    BY <2>1, <2>3 DEF Typed, TypeOK
  <2>6. work' \in [Procs -> WorkState] /\ WorkHasJob'
    BY <1>7, MovesTyped, IdleTyped DEF Complete, CompleteUnacknowledged, Fail
  <2>7. outbox' \in [Jobs -> OutboxState] /\ UNCHANGED <<staging, final, client, running, sent, disturbed>>
    BY <1>7
    DEF Complete, CompleteUnacknowledged, CompleteTransaction, Fail, OutboxAfterFail, Typed, TypeOK
  <2> QED
    BY <2>2, <2>4, <2>5, <2>6, <2>7 DEF Typed, TypeOK
<1>8. ASSUME NEW p \in Procs, FailLeaseLost(p) \/ Crash(p)
      PROVE  Typed'
  <2>1. work' \in [Procs -> WorkState] /\ WorkHasJob'
    BY <1>8, IdleTyped DEF FailLeaseLost, Crash
  <2>2. disturbed' \in Nat /\ running' \subseteq Procs /\ UNCHANGED <<store, tables, client, sent>>
    BY <1>8 DEF FailLeaseLost, Crash, Typed, TypeOK
  <2> QED
    BY <2>1, <2>2 DEF Typed, TypeOK
<1>9. ASSUME NEW j \in Jobs, BecomesDue(j) \/ LeaseExpires(j) \/ LeaseExpiresEarly(j)
      PROVE  Typed'
  <2>1. /\ [job[j] EXCEPT !.due = TRUE] \in JobRow
        /\ [job[j] EXCEPT !.expired = TRUE] \in JobRow
    <3>1. job[j] \in JobRow
      BY DEF Typed, TypeOK
    <3> QED
      BY <3>1 DEF JobRow
  <2>2. job' \in [Jobs -> JobRow]
    BY <1>9, <2>1 DEF BecomesDue, LeaseExpires, LeaseExpiresEarly, Typed, TypeOK
  <2>3. disturbed' \in Nat /\ UNCHANGED <<store, record, outbox, attempts, client, work, running, sent>>
    BY <1>9 DEF BecomesDue, LeaseExpires, LeaseExpiresEarly, Typed, TypeOK
  <2> QED
    BY <2>2, <2>3 DEF Typed, TypeOK, WorkHasJob
<1>10. ASSUME NEW j \in Jobs, NEW n \in Jobs, NEW rk \in ReprocessKeys, Reprocess(j, rk, n)
       PROVE  Typed'
  <2>1. record' \in [Objects -> RecordRow]
    BY <1>10, StatusTyped DEF Reprocess
  <2>2. [state |-> "pending", object |-> job[j].object, dedup |-> <<j, rk>>, attempt |-> 0,
         version |-> 1, owner |-> None, due |-> TRUE, expired |-> FALSE] \in JobRow
    <3>1. job[j] \in JobRow
      BY DEF Typed, TypeOK
    <3> QED
      BY <3>1 DEF JobRow, Dedup
  <2>3. job' \in [Jobs -> JobRow] /\ outbox' \in [Jobs -> OutboxState]
    BY <1>10, <2>2 DEF Reprocess, Typed, TypeOK
  <2> QED
    BY <1>10, <2>1, <2>3 DEF Reprocess, Typed, TypeOK, WorkHasJob
<1>11. ASSUME NEW p \in Procs, Starts(p) \/ Ends(p)
       PROVE  Typed'
  BY <1>11 DEF Starts, Ends, Typed, TypeOK, WorkHasJob
<1> QED
  BY <1>1, <1>2, <1>3, <1>4, <1>5, <1>6, <1>7, <1>8, <1>9, <1>10, <1>11
  DEF Next, Submit, ProcessClaimed

\* The variables keep their types in every behaviour of the queue.
THEOREM TypeCorrect == Spec => []TypeOK
<1>1. Spec => []Typed
  BY InitTyped, NextTyped, PTL DEF Spec
<1>2. Typed => TypeOK
  BY DEF Typed
<1> QED
  BY <1>1, <1>2, PTL

---------------------------------------------------------------------------
(***************************************************************************)
(* Leases.  What makes the version fence work is that a thread's version   *)
(* is never ahead of the row's, that it equals it only while the row is    *)
(* leased for the very attempt the thread took, and that no two busy       *)
(* threads hold the same version of one job.                               *)
(***************************************************************************)
Fenced ==
  \A p \in Procs : work[p].phase # "idle" =>
    /\ job[work[p].job].state # "absent"
    /\ work[p].version <= job[work[p].job].version
    /\ work[p].version = job[work[p].job].version =>
         /\ job[work[p].job].state = "leased"
         /\ work[p].attempt = job[work[p].job].attempt

VersionsDiffer ==
  \A p, q \in Procs :
    /\ p # q
    /\ work[p].phase # "idle"
    /\ work[q].phase # "idle"
    /\ work[p].job = work[q].job
    => work[p].version # work[q].version

\* Recorded attempts are past ones.
AttemptsPast ==
  \A a \in attempts :
    /\ job[a[1]].state # "absent"
    /\ a[2] <= job[a[1]].attempt
    /\ job[a[1]].state = "leased" => a[2] < job[a[1]].attempt

LeaseInv == Fenced /\ VersionsDiffer /\ AttemptsPast /\ HistoryConsistent

(* What a step does to the queue's bookkeeping: one of six things.         *)
Quiet == UNCHANGED <<job, work, attempts>>

Creates(j) ==
  /\ job[j].state = "absent"
  /\ \E r \in JobRow : r.state = "pending" /\ job' = [job EXCEPT ![j] = r]
  /\ UNCHANGED <<work, attempts>>

Ticks(j) ==
  /\ \E r \in JobRow :
       /\ r.state = job[j].state /\ r.object = job[j].object
       /\ r.attempt = job[j].attempt /\ r.version = job[j].version
       /\ job[j].state \notin Terminal
       /\ job' = [job EXCEPT ![j] = r]
  /\ UNCHANGED <<work, attempts>>

\* The thread drops its job or stays with it.
Proceeds(p) ==
  \E w \in WorkState :
    /\ \/ w.phase = "idle"
       \/ w.job = work[p].job /\ w.attempt = work[p].attempt /\ w.version = work[p].version
    /\ work' = [work EXCEPT ![p] = w]

Goes(p) ==
  /\ work[p].phase # "idle"
  /\ Proceeds(p)
  /\ UNCHANGED <<job, attempts>>

Settles(p, s) ==
  /\ work[p].phase # "idle"
  /\ HoldsLease(p)
  /\ job' = [job EXCEPT ![work[p].job] = Released(work[p].job, s)]
  /\ attempts' = attempts \cup {<<work[p].job, work[p].attempt, s>>}
  /\ Proceeds(p)

Outcome == {"completed", "retry_wait", "dead_letter"}

LEMMA MovesProceeds ==
  ASSUME Typed, NEW p \in Procs,
         NEW phase \in {"claimed", "copied", "verified", "failing"},
         NEW r \in BOOLEAN, Moves(p, phase, r)
  PROVE  Proceeds(p)
<1> DEFINE w == [phase |-> phase, job |-> work[p].job, attempt |-> work[p].attempt,
                 version |-> work[p].version, retryable |-> r]
<1>1. /\ w \in WorkState
      /\ w.job = work[p].job /\ w.attempt = work[p].attempt /\ w.version = work[p].version
  BY DEF Typed, TypeOK, WorkState
<1>2. work' = [work EXCEPT ![p] = w]
  BY DEF Moves
<1> HIDE DEF w
<1> QED
  BY <1>1, <1>2 DEF Proceeds

LEMMA IdleProceeds ==
  ASSUME NEW p \in Procs, work' = [work EXCEPT ![p] = IdleWork]
  PROVE  Proceeds(p)
<1>1. IdleWork \in WorkState /\ IdleWork.phase = "idle"
  BY DEF IdleWork, WorkState
<1> QED
  BY <1>1 DEF Proceeds

LEMMA StepKinds ==
  ASSUME Typed, [Next]_vars
  PROVE  \/ Quiet
         \/ \E j \in Jobs : Creates(j) \/ Ticks(j)
         \/ \E p \in Procs, j \in Jobs : Claim(p, j)
         \/ \E p \in Procs : Goes(p) \/ \E s \in Outcome : Settles(p, s)
<1> USE QueueAssumption DEF store, tables, rest
<1>1. CASE UNCHANGED vars
  BY <1>1 DEF vars, Quiet
<1>2. ASSUME NEW c \in Clients, NEW a \in Actors, NEW k \in Keys, NEW b \in Bytes,
             NEW o \in Objects, PutStaged(c, a, k, b, o)
      PROVE  Quiet
  BY <1>2 DEF PutStaged, Quiet
<1>3. ASSUME NEW c \in Clients, NEW j \in Jobs, Register(c, j)
      PROVE  Creates(j)
  <2>1. client[c] \in ClientState
    BY DEF Typed, TypeOK
  <2> QED
    BY <1>3, <2>1 DEF Register, Creates, ClientState, JobRow, Dedup
<1>4. ASSUME NEW c \in Clients, Replay(c) \/ KeyReused(c) \/ RegisterRefused(c)
      PROVE  Quiet
  BY <1>4 DEF Replay, KeyReused, RegisterRefused, Quiet
<1>5. ASSUME NEW p \in Procs, Copy(p) \/ StoreFails(p) \/ Verify(p) \/ CompleteRefused(p)
      PROVE  Goes(p)
  <2>1. Proceeds(p)
    BY <1>5, MovesProceeds DEF Copy, StoreFails, Verify, CompleteRefused
  <2> QED
    BY <1>5, <2>1 DEF Copy, StoreFails, Verify, CompleteRefused, Goes
<1>6. ASSUME NEW p \in Procs, Complete(p) \/ CompleteUnacknowledged(p) \/ Fail(p)
      PROVE  \E s \in Outcome : Settles(p, s)
  <2>1. Proceeds(p)
    BY <1>6, MovesProceeds, IdleProceeds DEF Complete, CompleteUnacknowledged, Fail
  <2> QED
    BY <1>6, <2>1
    DEF Complete, CompleteUnacknowledged, CompleteTransaction, Fail, Settles, Outcome
<1>7. ASSUME NEW p \in Procs, FailLeaseLost(p) \/ Crash(p)
      PROVE  Goes(p)
  <2>1. Proceeds(p)
    BY <1>7, IdleProceeds DEF FailLeaseLost, Crash
  <2> QED
    BY <1>7, <2>1 DEF FailLeaseLost, Crash, Goes
<1>8. ASSUME NEW j \in Jobs, BecomesDue(j) \/ LeaseExpires(j) \/ LeaseExpiresEarly(j)
      PROVE  Ticks(j)
  <2>1. job[j] \in JobRow
    BY DEF Typed, TypeOK
  <2>2. ASSUME NEW r, r \in {[job[j] EXCEPT !.due = TRUE], [job[j] EXCEPT !.expired = TRUE]}
        PROVE  /\ r \in JobRow /\ r.state = job[j].state /\ r.object = job[j].object
               /\ r.attempt = job[j].attempt /\ r.version = job[j].version
    BY <2>1, <2>2, ZenonT(60) DEF JobRow
  <2>3. \E r \in {[job[j] EXCEPT !.due = TRUE], [job[j] EXCEPT !.expired = TRUE]} :
          job' = [job EXCEPT ![j] = r]
    BY <1>8 DEF BecomesDue, LeaseExpires, LeaseExpiresEarly
  <2>4. job[j].state \notin Terminal /\ UNCHANGED <<work, attempts>>
    BY <1>8 DEF BecomesDue, LeaseExpires, LeaseExpiresEarly, Terminal
  <2> QED
    BY <2>2, <2>3, <2>4 DEF Ticks
<1>9. ASSUME NEW j \in Jobs, NEW n \in Jobs, NEW rk \in ReprocessKeys, Reprocess(j, rk, n)
      PROVE  Creates(n)
  <2>1. job[j] \in JobRow
    BY DEF Typed, TypeOK
  <2> QED
    BY <1>9, <2>1 DEF Reprocess, Creates, JobRow, Dedup
<1>10. ASSUME NEW p \in Procs, Starts(p) \/ Ends(p)
       PROVE  Quiet
  BY <1>10 DEF Starts, Ends, Quiet
<1> QED
  BY <1>1, <1>2, <1>3, <1>4, <1>5, <1>6, <1>7, <1>8, <1>9, <1>10
  DEF Next, Submit, ProcessClaimed

LEMMA InitLease == Init => LeaseInv
BY DEF Init, LeaseInv, Fenced, VersionsDiffer, AttemptsPast, HistoryConsistent, IdleWork

LEMMA NextLease == Typed /\ LeaseInv /\ [Next]_vars => LeaseInv'
<1> SUFFICES ASSUME Typed, LeaseInv, [Next]_vars PROVE LeaseInv'
  OBVIOUS
<1> USE DEF LeaseInv
<1>t. /\ job \in [Jobs -> JobRow] /\ work \in [Procs -> WorkState] /\ WorkHasJob
      /\ attempts \in SUBSET (Jobs \X Nat \X Outcome)
  BY DEF Typed, TypeOK, Outcome
<1>n. /\ \A j \in Jobs : job[j].version \in Nat /\ job[j].attempt \in Nat
      /\ \A p \in Procs : work[p].version \in Nat /\ work[p].attempt \in Nat
  BY <1>t DEF JobRow, WorkState
<1>a. \A a \in attempts : a[1] \in Jobs /\ a[2] \in Nat /\ a[3] \in Outcome
  BY <1>t
<1>1. CASE Quiet
  BY <1>1 DEF Quiet, Fenced, VersionsDiffer, AttemptsPast, HistoryConsistent
<1>2. ASSUME NEW j \in Jobs, Creates(j) PROVE LeaseInv'
  <2>1. PICK r \in JobRow : r.state = "pending" /\ job' = [job EXCEPT ![j] = r]
    BY <1>2 DEF Creates
  <2>2. \A i \in Jobs : i # j => job'[i] = job[i]
    BY <1>t, <2>1
  <2>3. job[j].state = "absent" /\ UNCHANGED <<work, attempts>>
    BY <1>2 DEF Creates
  <2>4. Fenced'
    BY <1>t, <2>2, <2>3 DEF Fenced, WorkHasJob
  <2>5. VersionsDiffer'
    BY <2>3 DEF VersionsDiffer
  <2>6. AttemptsPast' /\ HistoryConsistent'
    BY <1>a, <2>2, <2>3 DEF AttemptsPast, HistoryConsistent
  <2> QED
    BY <2>4, <2>5, <2>6
<1>3. ASSUME NEW j \in Jobs, Ticks(j) PROVE LeaseInv'
  <2>1. /\ \A i \in Jobs : /\ job'[i].state = job[i].state /\ job'[i].attempt = job[i].attempt
                           /\ job'[i].version = job[i].version
        /\ UNCHANGED <<work, attempts>>
    BY <1>3, <1>t DEF Ticks
  <2>2. Fenced' /\ VersionsDiffer'
    BY <1>t, <2>1 DEF Fenced, VersionsDiffer, WorkHasJob
  <2>3. AttemptsPast' /\ HistoryConsistent'
    BY <1>a, <2>1 DEF AttemptsPast, HistoryConsistent
  <2> QED
    BY <2>2, <2>3
<1>4. ASSUME NEW p \in Procs, NEW j \in Jobs, Claim(p, j) PROVE LeaseInv'
  <2>1. /\ job'[j].state = "leased" /\ job'[j].attempt = job[j].attempt + 1
        /\ job'[j].version = job[j].version + 1
        /\ \A i \in Jobs : i # j => job'[i] = job[i]
        /\ work'[p].phase = "claimed" /\ work'[p].job = j
        /\ work'[p].attempt = job[j].attempt + 1 /\ work'[p].version = job[j].version + 1
        /\ \A q \in Procs : q # p => work'[q] = work[q]
        /\ attempts' = attempts
    BY <1>4, <1>t DEF Claim, NextAttempt
  <2>2. job[j].state # "absent" /\ job[j].state \notin Terminal
    BY <1>4 DEF Claim, Claimable, Terminal
  <2>3. Fenced'
    <3> SUFFICES ASSUME NEW q \in Procs, work'[q].phase # "idle"
                 PROVE  /\ job'[work'[q].job].state # "absent"
                        /\ work'[q].version <= job'[work'[q].job].version
                        /\ work'[q].version = job'[work'[q].job].version =>
                             /\ job'[work'[q].job].state = "leased"
                             /\ work'[q].attempt = job'[work'[q].job].attempt
      BY DEF Fenced
    <3>1. CASE q = p
      BY <3>1, <2>1, <1>n
    <3>2. CASE q # p
      BY <3>2, <2>1, <1>n, <1>t DEF Fenced, WorkHasJob
    <3> QED
      BY <3>1, <3>2
  <2>4. VersionsDiffer'
    <3>1. \A q \in Procs : work[q].phase # "idle" /\ work[q].job = j
                           => work[q].version # job[j].version + 1
      BY <1>n DEF Fenced
    <3> QED
      BY <2>1, <3>1 DEF VersionsDiffer
  <2>5. AttemptsPast'
    BY <1>a, <1>n, <2>1, <2>2 DEF AttemptsPast
  <2>6. HistoryConsistent'
    BY <1>a, <2>1, <2>2 DEF HistoryConsistent
  <2> QED
    BY <2>3, <2>4, <2>5, <2>6
<1>5. ASSUME NEW p \in Procs, Goes(p) PROVE LeaseInv'
  <2>1. /\ work'[p].phase = "idle" \/ /\ work'[p].job = work[p].job
                                      /\ work'[p].attempt = work[p].attempt
                                      /\ work'[p].version = work[p].version
        /\ work[p].phase # "idle"
        /\ \A q \in Procs : q # p => work'[q] = work[q]
        /\ UNCHANGED <<job, attempts>>
    BY <1>5, <1>t DEF Goes, Proceeds
  <2>2. Fenced'
    BY <2>1 DEF Fenced
  <2>3. VersionsDiffer'
    BY <2>1 DEF VersionsDiffer
  <2>4. AttemptsPast' /\ HistoryConsistent'
    BY <2>1 DEF AttemptsPast, HistoryConsistent
  <2> QED
    BY <2>2, <2>3, <2>4
<1>6. ASSUME NEW p \in Procs, NEW s \in Outcome, Settles(p, s) PROVE LeaseInv'
  <2> DEFINE j == work[p].job
  <2>1. /\ j \in Jobs /\ work[p].phase # "idle"
        /\ job[j].state = "leased" /\ job[j].version = work[p].version
        /\ work[p].attempt = job[j].attempt
    BY <1>6, <1>t DEF Settles, HoldsLease, WorkHasJob, Fenced
  <2>2. /\ job'[j].state = s /\ job'[j].attempt = job[j].attempt
        /\ job'[j].version = job[j].version + 1
        /\ \A i \in Jobs : i # j => job'[i] = job[i]
        /\ attempts' = attempts \cup {<<j, work[p].attempt, s>>}
    BY <1>6, <1>t, <2>1 DEF Settles, Released
  <2>3. /\ work'[p].phase = "idle" \/ /\ work'[p].job = work[p].job
                                      /\ work'[p].attempt = work[p].attempt
                                      /\ work'[p].version = work[p].version
        /\ \A q \in Procs : q # p => work'[q] = work[q]
    BY <1>6, <1>t DEF Settles, Proceeds
  <2> HIDE DEF j
  <2>s. s # "absent" /\ s # "leased"
    BY DEF Outcome
  <2>4. Fenced'
    <3> SUFFICES ASSUME NEW q \in Procs, work'[q].phase # "idle"
                 PROVE  /\ job'[work'[q].job].state # "absent"
                        /\ work'[q].version <= job'[work'[q].job].version
                        /\ work'[q].version = job'[work'[q].job].version =>
                             /\ job'[work'[q].job].state = "leased"
                             /\ work'[q].attempt = job'[work'[q].job].attempt
      BY DEF Fenced
    <3>1. /\ work[q].phase # "idle" /\ work'[q].job = work[q].job
          /\ work'[q].version = work[q].version /\ work'[q].attempt = work[q].attempt
      BY <2>1, <2>3
    <3>2. work[q].job \in Jobs
      BY <3>1, <1>t DEF WorkHasJob
    <3>3. CASE work[q].job = j
      BY <3>1, <3>3, <2>1, <2>2, <2>s, <1>n DEF Fenced
    <3>4. CASE work[q].job # j
      BY <3>1, <3>2, <3>4, <2>2 DEF Fenced
    <3> QED
      BY <3>3, <3>4
  <2>5. VersionsDiffer'
    BY <2>1, <2>3 DEF VersionsDiffer
  <2>6. AttemptsPast'
    BY <1>a, <1>n, <2>1, <2>2, <2>s DEF AttemptsPast
  <2>7. HistoryConsistent'
    <3>1. \A a \in attempts : a[1] = j => a[2] < work[p].attempt /\ a[3] \notin Terminal
      BY <2>1, <1>a DEF AttemptsPast, HistoryConsistent, Terminal
    <3>2. \A a, b \in attempts' : a[1] = b[1] /\ a[2] = b[2] => a[3] = b[3]
      BY <3>1, <2>2, <1>a, <1>n DEF HistoryConsistent
    <3>3. \A a \in attempts' : a[3] \in Terminal =>
            job'[a[1]].state = a[3] /\ job'[a[1]].attempt = a[2]
      BY <3>1, <2>1, <2>2, <1>a DEF HistoryConsistent
    <3> QED
      BY <3>2, <3>3 DEF HistoryConsistent
  <2> QED
    BY <2>4, <2>5, <2>6, <2>7
<1> QED
  BY StepKinds, <1>1, <1>2, <1>3, <1>4, <1>5, <1>6

LEMMA LeaseInvariant == Spec => [](Typed /\ LeaseInv)
<1>1. Init => Typed /\ LeaseInv
  BY InitTyped, InitLease
<1>2. Typed /\ LeaseInv /\ [Next]_vars => (Typed /\ LeaseInv)'
  BY NextTyped, NextLease
<1> QED
  BY <1>1, <1>2, PTL DEF Spec

\* Two threads never pass _assert_lease for one job at the same moment, even if
\* they share a worker_id.
THEOREM LeaseFencing == Spec => []LeaseExclusive
<1>1. Typed /\ LeaseInv => LeaseExclusive
  BY DEF LeaseInv, VersionsDiffer, LeaseExclusive, Working, HoldsLease
<1> QED
  BY LeaseInvariant, <1>1, PTL

\* The job_attempts INSERT of complete and fail never meets its primary key.
THEOREM AttemptRowFree == Spec => []AttemptUnrecorded
<1>1. Typed /\ LeaseInv => AttemptUnrecorded
  <2> SUFFICES ASSUME Typed, LeaseInv, NEW p \in Procs, Working(p), NEW a \in attempts,
                      a[1] = work[p].job, a[2] = work[p].attempt
               PROVE  FALSE
    BY DEF AttemptUnrecorded
  <2>1. a[2] \in Nat /\ job[a[1]].attempt \in Nat
    BY DEF Typed, TypeOK, JobRow
  <2>2. job[a[1]].state = "leased" /\ a[2] = job[a[1]].attempt
    BY DEF Working, HoldsLease, LeaseInv, Fenced
  <2> QED
    BY <2>1, <2>2 DEF LeaseInv, AttemptsPast
<1> QED
  BY LeaseInvariant, <1>1, PTL

\* job_attempts holds one outcome per attempt, and a final one only for the
\* attempt that settled the job.
THEOREM HistoryCorrect == Spec => []HistoryConsistent
<1>1. Typed /\ LeaseInv => HistoryConsistent
  BY DEF LeaseInv
<1> QED
  BY LeaseInvariant, <1>1, PTL

\* No step changes the row of a completed or dead-lettered job.
THEOREM SettledJobs == Spec => SettledStays
<1>1. Typed /\ LeaseInv /\ [Next]_vars
      => [\A j \in Jobs : job[j].state \in Terminal => job'[j] = job[j]]_vars
  <2> SUFFICES ASSUME Typed, LeaseInv, [Next]_vars, NEW j \in Jobs, job[j].state \in Terminal
               PROVE  job'[j] = job[j]
    OBVIOUS
  <2>t. job \in [Jobs -> JobRow] /\ WorkHasJob
    BY DEF Typed, TypeOK
  <2>1. CASE Quiet
    BY <2>1 DEF Quiet
  <2>2. ASSUME NEW i \in Jobs, Creates(i) \/ Ticks(i) PROVE job'[j] = job[j]
    BY <2>2, <2>t DEF Creates, Ticks, Terminal
  <2>3. ASSUME NEW p \in Procs, NEW i \in Jobs, Claim(p, i) PROVE job'[j] = job[j]
    BY <2>3, <2>t DEF Claim, Claimable, Terminal
  <2>4. ASSUME NEW p \in Procs, Goes(p) PROVE job'[j] = job[j]
    BY <2>4 DEF Goes
  <2>5. ASSUME NEW p \in Procs, NEW s \in Outcome, Settles(p, s) PROVE job'[j] = job[j]
    BY <2>5, <2>t DEF Settles, HoldsLease, Terminal
  <2> QED
    BY StepKinds, <2>1, <2>2, <2>3, <2>4, <2>5
<1> QED
  BY LeaseInvariant, <1>1, PTL DEF Spec, SettledStays

---------------------------------------------------------------------------
(***************************************************************************)
(* The object store.  The staged blob of an id of the factory is written   *)
(* once, so whoever copies it, with or without a lease, copies the bytes   *)
(* the record describes (StoreInv).  The id of an upload belongs to one    *)
(* actor and key, so whatever lies under it was sent by them (SentInv).    *)
(***************************************************************************)
ClientsStaged ==
  \A c \in Clients : client[c].phase = "staged" =>
    /\ client[c].object \in Objects /\ client[c].bytes \in Bytes
    /\ client[c].object \in FreshIds => staging[client[c].object] = client[c].bytes

RecordsStaged ==
  \A o \in Objects : record[o].status # "absent" =>
    record[o].bytes \in Bytes /\ (o \in FreshIds => staging[o] = record[o].bytes)

FinalFaithful ==
  \A o \in Objects : final[o] # None =>
    record[o].status # "absent" /\ (o \in FreshIds => final[o] = record[o].bytes)

JobsRecorded ==
  \A j \in Jobs : job[j].state # "absent" =>
    job[j].object \in Objects /\ record[job[j].object].status # "absent"

CopiesStored ==
  /\ \A p \in Procs : work[p].phase \in {"copied", "verified"} =>
       job[work[p].job].state # "absent" /\ final[job[work[p].job].object] # None
  /\ \A j \in Jobs : job[j].state = "completed" => final[job[j].object] # None

StoreInv == ClientsStaged /\ RecordsStaged /\ FinalFaithful /\ JobsRecorded /\ CopiesStored

LEMMA InitStore == Init => StoreInv
BY DEF Init, StoreInv, ClientsStaged, RecordsStaged, FinalFaithful, JobsRecorded,
       CopiesStored, IdleClient, IdleWork, NoRecord, NoJob

LEMMA NextStore == Typed /\ LeaseInv /\ StoreInv /\ [Next]_vars => StoreInv'
<1> SUFFICES ASSUME Typed, LeaseInv, StoreInv, [Next]_vars PROVE StoreInv'
  OBVIOUS
<1> USE QueueAssumption DEF store, tables, rest
<1>t. /\ staging \in [Objects -> Bytes \cup {None}] /\ final \in [Objects -> Bytes \cup {None}]
      /\ record \in [Objects -> RecordRow] /\ job \in [Jobs -> JobRow]
      /\ client \in [Clients -> ClientState] /\ work \in [Procs -> WorkState] /\ WorkHasJob
  BY DEF Typed, TypeOK
<1>f. \A p \in Procs : work[p].phase # "idle" =>
        work[p].job \in Jobs /\ job[work[p].job].state # "absent"
  BY <1>t DEF LeaseInv, Fenced, WorkHasJob
<1>1. CASE UNCHANGED vars
  BY <1>1 DEF vars, StoreInv, ClientsStaged, RecordsStaged, FinalFaithful, JobsRecorded,
              CopiesStored
<1>2. ASSUME NEW c \in Clients, NEW a \in Actors, NEW k \in Keys, NEW b \in Bytes,
             NEW o \in Objects, PutStaged(c, a, k, b, o)
      PROVE  StoreInv'
  <2>1. /\ o \in FreshIds => staging[o] = None
        /\ staging' = [staging EXCEPT ![o] = b]
        /\ client'[c].object = o /\ client'[c].bytes = b
        /\ \A d \in Clients : d # c => client'[d] = client[d]
        /\ UNCHANGED <<final, record, job, work>>
    BY <1>2, <1>t DEF PutStaged, ChoosesId
  <2>2. ClientsStaged'
    BY <2>1, <1>t DEF StoreInv, ClientsStaged
  <2>3. RecordsStaged'
    BY <2>1, <1>t DEF StoreInv, RecordsStaged
  <2> QED
    BY <2>1, <2>2, <2>3 DEF StoreInv, FinalFaithful, JobsRecorded, CopiesStored
<1>3. ASSUME NEW c \in Clients, NEW j \in Jobs, Register(c, j)
      PROVE  StoreInv'
  <2> DEFINE o == client[c].object
  <2>1. /\ o \in Objects /\ client[c].bytes \in Bytes
        /\ o \in FreshIds => staging[o] = client[c].bytes
        /\ record[o].status = "absent" /\ job[j].state = "absent"
    BY <1>3 DEF Register, StoreInv, ClientsStaged
  <2>2. /\ record'[o].status = "pending" /\ record'[o].bytes = client[c].bytes
        /\ \A x \in Objects : x # o => record'[x] = record[x]
        /\ job'[j].state = "pending" /\ job'[j].object = o
        /\ \A i \in Jobs : i # j => job'[i] = job[i]
        /\ client'[c].phase = "idle"
        /\ \A d \in Clients : d # c => client'[d] = client[d]
        /\ UNCHANGED <<staging, final, work>>
    BY <1>3, <1>t, <2>1 DEF Register, IdleClient
  <2> HIDE DEF o
  <2>3. ClientsStaged' /\ RecordsStaged'
    BY <2>1, <2>2 DEF StoreInv, ClientsStaged, RecordsStaged
  <2>4. FinalFaithful'
    BY <2>1, <2>2 DEF StoreInv, FinalFaithful
  <2>5. JobsRecorded'
    BY <2>1, <2>2 DEF StoreInv, JobsRecorded
  <2>6. CopiesStored'
    BY <1>f, <2>1, <2>2 DEF StoreInv, CopiesStored
  <2> QED
    BY <2>3, <2>4, <2>5, <2>6 DEF StoreInv
<1>4. ASSUME NEW c \in Clients, Replay(c) \/ KeyReused(c) \/ RegisterRefused(c)
      PROVE  StoreInv'
  BY <1>4, <1>t DEF Replay, KeyReused, RegisterRefused, IdleClient, StoreInv, ClientsStaged,
     RecordsStaged, FinalFaithful, JobsRecorded, CopiesStored
<1>5. ASSUME NEW p \in Procs, NEW j \in Jobs, Claim(p, j)
      PROVE  StoreInv'
  <2>1. /\ job'[j].state = "leased" /\ job'[j].object = job[j].object
        /\ job[j].state # "absent"
        /\ \A i \in Jobs : i # j => job'[i] = job[i]
        /\ work'[p].phase = "claimed"
        /\ \A q \in Procs : q # p => work'[q] = work[q]
        /\ UNCHANGED <<staging, final, record, client>>
    BY <1>5, <1>t DEF Claim, Claimable
  <2>2. JobsRecorded'
    BY <2>1 DEF StoreInv, JobsRecorded
  <2>3. CopiesStored'
    BY <2>1, <1>f DEF StoreInv, CopiesStored
  <2> QED
    BY <2>1, <2>2, <2>3 DEF StoreInv, ClientsStaged, RecordsStaged, FinalFaithful
<1>6. ASSUME NEW p \in Procs, Copy(p)
      PROVE  StoreInv'
  <2> DEFINE o == job[work[p].job].object
  <2>1. /\ work[p].job \in Jobs /\ o \in Objects /\ record[o].status # "absent"
        /\ o \in FreshIds => staging[o] = record[o].bytes
        /\ staging[o] \in Bytes
        /\ job[work[p].job].state # "absent"
    BY <1>6, <1>f, <1>t DEF Copy, ObjectOf, StoreInv, JobsRecorded, RecordsStaged
  <2>2. /\ final'[o] = staging[o] /\ \A x \in Objects : x # o => final'[x] = final[x]
        /\ work'[p].job = work[p].job
        /\ \A q \in Procs : q # p => work'[q] = work[q]
        /\ UNCHANGED <<staging, record, job, client>>
    BY <1>6, <1>t, <2>1 DEF Copy, ObjectOf, Moves
  <2> HIDE DEF o
  <2>3. FinalFaithful'
    BY <2>1, <2>2 DEF StoreInv, FinalFaithful
  <2>4. \A x : final[x] # None /\ x \in Objects => final'[x] # None
    BY <2>1, <2>2
  <2>5. CopiesStored'
    <3>1. \A i \in Jobs : job[i].state # "absent" => job[i].object \in Objects
      BY DEF StoreInv, JobsRecorded
    <3>2. \A i \in Jobs : job'[i].state = "completed" => final'[job'[i].object] # None
      BY <2>2, <2>4, <3>1 DEF StoreInv, CopiesStored
    <3>3. ASSUME NEW q \in Procs, work'[q].phase \in {"copied", "verified"}
          PROVE  job'[work'[q].job].state # "absent" /\ final'[job'[work'[q].job].object] # None
      <4>1. CASE q = p
        BY <4>1, <2>1, <2>2 DEF o
      <4>2. CASE q # p
        BY <4>2, <3>1, <3>3, <1>f, <2>2, <2>4 DEF StoreInv, CopiesStored
      <4> QED
        BY <4>1, <4>2
    <3> QED
      BY <3>2, <3>3 DEF CopiesStored
  <2> QED
    BY <2>2, <2>3, <2>5 DEF StoreInv, ClientsStaged, RecordsStaged, JobsRecorded
<1>7. ASSUME NEW p \in Procs, StoreFails(p) \/ Verify(p) \/ CompleteRefused(p)
                             \/ FailLeaseLost(p) \/ Crash(p)
      PROVE  StoreInv'
  <2>1. /\ \/ work'[p].phase \notin {"copied", "verified"}
           \/ work[p].phase = "copied" /\ work'[p].job = work[p].job
        /\ \A q \in Procs : q # p => work'[q] = work[q]
        /\ UNCHANGED <<staging, final, record, job, client>>
    BY <1>7, <1>t DEF StoreFails, Verify, CompleteRefused, FailLeaseLost, Crash, Moves, IdleWork
  <2>2. CopiesStored'
    BY <2>1 DEF StoreInv, CopiesStored
  <2> QED
    BY <2>1, <2>2 DEF StoreInv, ClientsStaged, RecordsStaged, FinalFaithful, JobsRecorded
<1>8. ASSUME NEW p \in Procs, Complete(p) \/ CompleteUnacknowledged(p) \/ Fail(p)
      PROVE  StoreInv'
  <2> DEFINE j == work[p].job
  <2>1. /\ j \in Jobs /\ job[j].state # "absent" /\ work[p].phase # "idle"
        /\ job[j].object \in Objects
    BY <1>8, <1>f DEF Complete, CompleteUnacknowledged, Fail, StoreInv, JobsRecorded
  <2>2. /\ job'[j].state # "absent" /\ job'[j].object = job[j].object
        /\ job'[j].state = "completed" => work[p].phase = "verified"
        /\ \A i \in Jobs : i # j => job'[i] = job[i]
    <3>1. PICK s \in Outcome : /\ job' = [job EXCEPT ![j] = Released(j, s)]
                               /\ s = "completed" => work[p].phase = "verified"
      BY <1>8 DEF Complete, CompleteUnacknowledged, CompleteTransaction, Fail, Outcome
    <3>2. /\ Released(j, s).state = s /\ Released(j, s).object = job[j].object
          /\ s # "absent"
      BY DEF Released, Outcome
    <3>3. job'[j] = Released(j, s) /\ \A i \in Jobs : i # j => job'[i] = job[i]
      BY <1>t, <2>1, <3>1
    <3> HIDE DEF j
    <3> QED
      BY <3>1, <3>2, <3>3
  <2>3. \A x \in Objects : /\ record'[x].bytes = record[x].bytes
                           /\ record'[x].status = "absent" <=> record[x].status = "absent"
    <3>1. record[job[j].object].status # "absent"
      BY <2>1 DEF StoreInv, JobsRecorded
    <3>2. \/ record' = record
          \/ record' = [record EXCEPT ![job[j].object].status = "completed"]
          \/ record' = [record EXCEPT ![job[j].object].status = "failed"]
      <4>1. \/ record' = record
            \/ record' = [record EXCEPT ![ObjectOf(p)].status = "completed"]
            \/ record' = [record EXCEPT ![ObjectOf(p)].status = "failed"]
        BY <1>8 DEF Complete, CompleteUnacknowledged, CompleteTransaction, Fail, RecordAfterFail
      <4>2. ObjectOf(p) = job[j].object
        BY DEF ObjectOf
      <4> QED
        BY <4>1, <4>2
    <3> QED
      BY <1>t, <2>1, <3>1, <3>2, SMTT(30) DEF RecordRow
  <2>4. /\ work'[p].phase \notin {"copied", "verified"}
        /\ \A q \in Procs : q # p => work'[q] = work[q]
        /\ UNCHANGED <<staging, final, client>>
    BY <1>8, <1>t DEF Complete, CompleteUnacknowledged, Fail, Moves, IdleWork
  <2> HIDE DEF j
  <2>5. ClientsStaged' /\ RecordsStaged' /\ FinalFaithful'
    BY <2>3, <2>4 DEF StoreInv, ClientsStaged, RecordsStaged, FinalFaithful
  <2>6. JobsRecorded'
    BY <2>1, <2>2, <2>3 DEF StoreInv, JobsRecorded
  <2>7. CopiesStored'
    BY <1>f, <2>1, <2>2, <2>4 DEF StoreInv, CopiesStored, j
  <2> QED
    BY <2>5, <2>6, <2>7 DEF StoreInv
<1>9. ASSUME NEW j \in Jobs, BecomesDue(j) \/ LeaseExpires(j) \/ LeaseExpiresEarly(j)
      PROVE  StoreInv'
  <2>1. /\ \A i \in Jobs : job'[i].state = job[i].state /\ job'[i].object = job[i].object
        /\ UNCHANGED <<staging, final, record, client, work>>
    <3>1. /\ \/ job' = [job EXCEPT ![j].due = TRUE]
             \/ job' = [job EXCEPT ![j].expired = TRUE]
          /\ UNCHANGED <<staging, final, record, client, work>>
      BY <1>9 DEF BecomesDue, LeaseExpires, LeaseExpiresEarly
    <3>2. job \in [Jobs -> JobRow]
      BY <1>t
    <3>3. \A i \in Jobs : job'[i].state = job[i].state /\ job'[i].object = job[i].object
      BY <3>1, <3>2, SMTT(30) DEF JobRow
    <3> QED
      BY <3>1, <3>3
  <2>2. JobsRecorded' /\ CopiesStored'
    BY <1>f, <2>1 DEF StoreInv, JobsRecorded, CopiesStored
  <2> QED
    BY <2>1, <2>2 DEF StoreInv, ClientsStaged, RecordsStaged, FinalFaithful
<1>10. ASSUME NEW j \in Jobs, NEW n \in Jobs, NEW rk \in ReprocessKeys, Reprocess(j, rk, n)
       PROVE  StoreInv'
  <2>1. /\ job[j].state = "dead_letter" /\ job[n].state = "absent"
        /\ job[j].object \in Objects /\ record[job[j].object].status # "absent"
    BY <1>10 DEF Reprocess, StoreInv, JobsRecorded
  <2>2. /\ job'[n].state = "pending" /\ job'[n].object = job[j].object
        /\ \A i \in Jobs : i # n => job'[i] = job[i]
        /\ UNCHANGED <<staging, final, client, work>>
    BY <1>10, <1>t DEF Reprocess
  <2>3. \A x \in Objects : /\ record'[x].bytes = record[x].bytes
                           /\ record'[x].status = "absent" <=> record[x].status = "absent"
    BY <1>10, <1>t, <2>1 DEF Reprocess, RecordRow
  <2>4. ClientsStaged' /\ RecordsStaged' /\ FinalFaithful'
    BY <2>2, <2>3 DEF StoreInv, ClientsStaged, RecordsStaged, FinalFaithful
  <2>5. JobsRecorded'
    BY <2>1, <2>2, <2>3 DEF StoreInv, JobsRecorded
  <2>6. CopiesStored'
    BY <1>f, <2>1, <2>2 DEF StoreInv, CopiesStored
  <2> QED
    BY <2>4, <2>5, <2>6 DEF StoreInv
<1>11. ASSUME NEW p \in Procs, Starts(p) \/ Ends(p)
       PROVE  StoreInv'
  BY <1>11 DEF Starts, Ends, StoreInv, ClientsStaged, RecordsStaged, FinalFaithful, JobsRecorded,
     CopiesStored
<1> QED
  BY <1>1, <1>2, <1>3, <1>4, <1>5, <1>6, <1>7, <1>8, <1>9, <1>10, <1>11
  DEF Next, Submit, ProcessClaimed

\* Everything staged, stored or recorded was sent, and an id that is not the factory's was
\* only used by the actor and key it is the hash of.
SentUnder(o, b) == \E a \in Actors, k \in Keys : <<o, a, k, b>> \in sent
IdsOwn ==
  \A o \in Objects \ FreshIds, a \in Actors, k \in Keys, b \in Bytes :
    <<o, a, k, b>> \in sent => o = IdOf[<<a, k>>]
BlobsSent ==
  \A o \in Objects : /\ staging[o] # None => SentUnder(o, staging[o])
                     /\ final[o] # None => SentUnder(o, final[o])
RowsSent ==
  /\ \A c \in Clients : client[c].phase = "staged" =>
       <<client[c].object, client[c].actor, client[c].key, client[c].bytes>> \in sent
  /\ \A o \in Objects : record[o].status # "absent" =>
       <<o, record[o].actor, record[o].key, record[o].bytes>> \in sent
SentInv == IdsOwn /\ BlobsSent /\ RowsSent

LEMMA InitSent == Init => SentInv
BY DEF Init, SentInv, IdsOwn, BlobsSent, RowsSent, IdleClient, NoRecord

\* A step other than the three that move blobs or file them leaves what SentInv reads.
Unsent ==
  /\ UNCHANGED <<staging, final, sent>>
  /\ \A o \in Objects : /\ record'[o].bytes = record[o].bytes
                        /\ record'[o].actor = record[o].actor
                        /\ record'[o].key = record[o].key
                        /\ record'[o].status # "absent" => record[o].status # "absent"
  /\ \A c \in Clients : client'[c] = client[c] \/ client'[c].phase = "idle"

LEMMA UnsentStep == ASSUME SentInv, Unsent PROVE SentInv'
<1>1. IdsOwn' /\ BlobsSent'
  BY DEF Unsent, SentInv, IdsOwn, BlobsSent, SentUnder
<1>2. ASSUME NEW c \in Clients, client'[c].phase = "staged"
      PROVE  <<client'[c].object, client'[c].actor, client'[c].key, client'[c].bytes>> \in sent'
  <2>1. client'[c] = client[c] /\ sent' = sent
    BY <1>2 DEF Unsent
  <2> QED
    BY <1>2, <2>1 DEF SentInv, RowsSent
<1>3. ASSUME NEW o \in Objects, record'[o].status # "absent"
      PROVE  <<o, record'[o].actor, record'[o].key, record'[o].bytes>> \in sent'
  <2>1. /\ record'[o].bytes = record[o].bytes /\ record'[o].actor = record[o].actor
        /\ record'[o].key = record[o].key /\ record[o].status # "absent" /\ sent' = sent
    BY <1>3 DEF Unsent
  <2> QED
    BY <2>1 DEF SentInv, RowsSent
<1> QED
  BY <1>1, <1>2, <1>3 DEF SentInv, RowsSent

\* A record changes its status and nothing else.
LEMMA StatusOnly ==
  ASSUME Typed, NEW o \in Objects, record[o].status # "absent", NEW s \in {"pending", "completed", "failed"},
         record' = [record EXCEPT ![o].status = s], UNCHANGED <<staging, final, sent, client>>
  PROVE  Unsent
<1>1. record \in [Objects -> RecordRow]
  BY DEF Typed, TypeOK
<1>2. \A x \in Objects : /\ record'[x].bytes = record[x].bytes
                         /\ record'[x].actor = record[x].actor
                         /\ record'[x].key = record[x].key
                         /\ x # o => record'[x] = record[x]
  BY <1>1, SMTT(30) DEF RecordRow
<1> QED
  BY <1>2 DEF Unsent

LEMMA NextSent ==
  ASSUME Typed, LeaseInv, StoreInv, SentInv, [Next]_vars
  PROVE  SentInv'
<1> USE QueueAssumption DEF store, tables, rest
<1>t. /\ staging \in [Objects -> Bytes \cup {None}] /\ final \in [Objects -> Bytes \cup {None}]
      /\ record \in [Objects -> RecordRow] /\ job \in [Jobs -> JobRow]
      /\ client \in [Clients -> ClientState] /\ work \in [Procs -> WorkState] /\ WorkHasJob
  BY DEF Typed, TypeOK
<1>f. \A p \in Procs : work[p].phase # "idle" =>
        /\ work[p].job \in Jobs /\ ObjectOf(p) \in Objects
        /\ record[ObjectOf(p)].status # "absent"
  BY <1>t DEF LeaseInv, Fenced, WorkHasJob, StoreInv, JobsRecorded, ObjectOf
<1>1. ASSUME NEW c \in Clients, NEW a \in Actors, NEW k \in Keys, NEW b \in Bytes,
             NEW o \in Objects, PutStaged(c, a, k, b, o)
      PROVE  SentInv'
  <2>1. /\ o \notin FreshIds => o = IdOf[<<a, k>>]
        /\ staging'[o] = b /\ \A x \in Objects : x # o => staging'[x] = staging[x]
        /\ client'[c].object = o /\ client'[c].actor = a /\ client'[c].key = k
        /\ client'[c].bytes = b
        /\ \A d \in Clients : d # c => client'[d] = client[d]
        /\ sent' = sent \cup {<<o, a, k, b>>} /\ UNCHANGED <<final, record>>
    BY <1>1, <1>t DEF PutStaged, ChoosesId
  <2>2. IdsOwn'
    BY <2>1 DEF SentInv, IdsOwn
  <2>3. BlobsSent'
    BY <2>1 DEF SentInv, BlobsSent, SentUnder
  <2>4. RowsSent'
    BY <2>1 DEF SentInv, RowsSent
  <2> QED
    BY <2>2, <2>3, <2>4 DEF SentInv
<1>2. ASSUME NEW c \in Clients, NEW j \in Jobs, Register(c, j)
      PROVE  SentInv'
  <2> DEFINE o == client[c].object
  <2>1. o \in Objects /\ <<o, client[c].actor, client[c].key, client[c].bytes>> \in sent
    BY <1>2 DEF Register, StoreInv, ClientsStaged, SentInv, RowsSent
  <2>2. /\ record'[o].bytes = client[c].bytes /\ record'[o].actor = client[c].actor
        /\ record'[o].key = client[c].key
        /\ \A x \in Objects : x # o => record'[x] = record[x]
        /\ \A d \in Clients : client'[d] = client[d] \/ client'[d].phase = "idle"
        /\ UNCHANGED <<staging, final, sent>>
    BY <1>2, <1>t, <2>1 DEF Register, IdleClient
  <2> HIDE DEF o
  <2>3. IdsOwn' /\ BlobsSent'
    <3>1. UNCHANGED <<staging, final, sent>>
      BY <2>2
    <3>2. IdsOwn'
      BY <3>1 DEF SentInv, IdsOwn
    <3>3. BlobsSent'
      BY <3>1 DEF SentInv, BlobsSent, SentUnder
    <3> QED
      BY <3>2, <3>3
  <2>4. RowsSent'
    BY <2>1, <2>2 DEF SentInv, RowsSent
  <2> QED
    BY <2>3, <2>4 DEF SentInv
<1>3. ASSUME NEW p \in Procs, Copy(p)
      PROVE  SentInv'
  <2> DEFINE o == ObjectOf(p)
  <2>1. o \in Objects /\ staging[o] # None
    BY <1>3, <1>f DEF Copy
  <2>2. /\ final'[o] = staging[o] /\ \A x \in Objects : x # o => final'[x] = final[x]
        /\ UNCHANGED <<staging, sent, record, client>>
    BY <1>3, <1>t, <2>1 DEF Copy
  <2> HIDE DEF o
  <2>3. BlobsSent'
    BY <2>1, <2>2 DEF SentInv, BlobsSent, SentUnder
  <2> QED
    BY <2>2, <2>3 DEF SentInv, IdsOwn, RowsSent
<1>4. ASSUME NEW p \in Procs, Complete(p) \/ CompleteUnacknowledged(p) \/ Fail(p)
      PROVE  SentInv'
  <2>1. work[p].phase # "idle" /\ UNCHANGED <<staging, final, sent, client>>
    BY <1>4 DEF Complete, CompleteUnacknowledged, Fail
  <2>2. \/ record' = record
        \/ \E s \in {"completed", "failed"} : record' = [record EXCEPT ![ObjectOf(p)].status = s]
    BY <1>4 DEF Complete, CompleteUnacknowledged, CompleteTransaction, Fail, RecordAfterFail
  <2>3. CASE record' = record
    BY <2>1, <2>3, UnsentStep DEF Unsent
  <2>4. ASSUME NEW s \in {"completed", "failed"}, record' = [record EXCEPT ![ObjectOf(p)].status = s]
        PROVE  Unsent
    BY <1>f, <2>1, <2>4, StatusOnly
  <2> QED
    BY <2>2, <2>3, <2>4, UnsentStep
<1>5. ASSUME NEW j \in Jobs, NEW n \in Jobs, NEW rk \in ReprocessKeys, Reprocess(j, rk, n)
      PROVE  SentInv'
  <2>1. job[j].object \in Objects /\ record[job[j].object].status # "absent"
    BY <1>5 DEF Reprocess, StoreInv, JobsRecorded
  <2>2. Unsent
    BY <1>5, <2>1, StatusOnly DEF Reprocess
  <2> QED
    BY <2>2, UnsentStep
<1>6. ASSUME NEW c \in Clients, Replay(c) \/ KeyReused(c) \/ RegisterRefused(c)
      PROVE  Unsent
  BY <1>6, <1>t DEF Replay, KeyReused, RegisterRefused, IdleClient, Unsent
<1>7. CASE UNCHANGED <<staging, final, sent, record, client>>
  BY <1>7, UnsentStep DEF Unsent
<1>8. ASSUME NEW p \in Procs, \/ StoreFails(p) \/ Verify(p) \/ CompleteRefused(p)
                             \/ FailLeaseLost(p) \/ Crash(p) \/ Starts(p) \/ Ends(p)
                             \/ \E j \in Jobs : Claim(p, j)
      PROVE  UNCHANGED <<staging, final, sent, record, client>>
  BY <1>8 DEF StoreFails, Verify, CompleteRefused, FailLeaseLost, Crash, Starts, Ends, Claim
<1>9. ASSUME NEW j \in Jobs, BecomesDue(j) \/ LeaseExpires(j) \/ LeaseExpiresEarly(j)
      PROVE  UNCHANGED <<staging, final, sent, record, client>>
  BY <1>9 DEF BecomesDue, LeaseExpires, LeaseExpiresEarly
<1>10. UNCHANGED vars => UNCHANGED <<staging, final, sent, record, client>>
  BY DEF vars
<1> QED
  BY <1>1, <1>2, <1>3, <1>4, <1>5, <1>6, <1>7, <1>8, <1>9, <1>10, UnsentStep
  DEF Next, Submit, ProcessClaimed

\* Whatever stands behind the digest of a completed job is the blob of its record, or
\* another blob of an upload by the same actor under the same key: for every mix of
\* uploads and factory ids, however many threads copied, late or crashed.
THEOREM CompletedExplainedCorrect == Spec => []CompletedExplained
<1>1. Spec => [](Typed /\ LeaseInv /\ StoreInv /\ SentInv)
  <2>1. Init => Typed /\ LeaseInv /\ StoreInv /\ SentInv
    BY InitTyped, InitLease, InitStore, InitSent
  <2>2. Typed /\ LeaseInv /\ StoreInv /\ SentInv /\ [Next]_vars
          => (Typed /\ LeaseInv /\ StoreInv /\ SentInv)'
    BY NextTyped, NextLease, NextStore, NextSent
  <2> QED
    BY <2>1, <2>2, PTL DEF Spec
<1>2. Typed /\ LeaseInv /\ StoreInv /\ SentInv => CompletedExplained
  <2> SUFFICES ASSUME Typed, StoreInv, SentInv, NEW j \in Jobs, job[j].state = "completed",
                      NEW o, o = job[j].object, final[o] # record[o].bytes
               PROVE  /\ o \notin FreshIds
                      /\ <<o, record[o].actor, record[o].key, final[o]>> \in sent
    BY DEF CompletedExplained
  <2>1. o \in Objects /\ record[o].status # "absent" /\ final[o] # None
    BY DEF StoreInv, JobsRecorded, CopiesStored
  <2>2. o \notin FreshIds
    BY <2>1 DEF StoreInv, FinalFaithful
  <2>3. /\ final[o] \in Bytes /\ record[o].bytes \in Bytes
        /\ sent \subseteq Objects \X Actors \X Keys \X Bytes
    BY <2>1 DEF Typed, TypeOK, StoreInv, RecordsStaged
  <2>4. PICK a \in Actors, k \in Keys : <<o, a, k, final[o]>> \in sent
    BY <2>1 DEF SentInv, BlobsSent, SentUnder
  <2>5. o = IdOf[<<a, k>>]
    BY <2>1, <2>2, <2>3, <2>4 DEF SentInv, IdsOwn
  <2>6. /\ <<o, record[o].actor, record[o].key, record[o].bytes>> \in sent
        /\ record[o].actor \in Actors /\ record[o].key \in Keys
    BY <2>1, <2>3 DEF SentInv, RowsSent
  <2>7. o = IdOf[<<record[o].actor, record[o].key>>]
    BY <2>1, <2>2, <2>3, <2>6 DEF SentInv, IdsOwn
  <2>8. a = record[o].actor /\ k = record[o].key
    BY <2>5, <2>6, <2>7, IdsDiffer
  <2> QED
    BY <2>2, <2>4, <2>8
<1> QED
  BY <1>1, <1>2, PTL


\* The lease protocol as a whole, for any number of threads under any worker ids: the
\* property the run queue checks.
THEOREM LeasesFencedCorrect == Spec => []LeasesFenced
BY TypeCorrect, LeaseFencing, AttemptRowFree, HistoryCorrect, PTL DEF LeasesFenced

(***************************************************************************)
(* The tables beside the job table: the outbox and the objects.            *)
(***************************************************************************)

\* The job rows change in one place, and the outbox event with them.
LEMMA OutboxStep ==
  ASSUME Typed, OutboxAgrees, NEW j \in Jobs, NEW r \in JobRow,
         job' = [job EXCEPT ![j] = r], outbox' = [outbox EXCEPT ![j] = OutboxOf(r.state)]
  PROVE  OutboxAgrees'
<1>1. /\ job'[j] = r /\ outbox'[j] = OutboxOf(r.state)
      /\ \A i \in Jobs : i # j => job'[i] = job[i] /\ outbox'[i] = outbox[i]
  BY DEF Typed, TypeOK
<1> QED
  BY <1>1 DEF OutboxAgrees

LEMMA StatesOutbox ==
  /\ OutboxOf("absent") = "absent" /\ OutboxOf("pending") = "pending"
  /\ OutboxOf("leased") = "dispatched" /\ OutboxOf("retry_wait") = "dispatched"
  /\ OutboxOf("completed") = "completed" /\ OutboxOf("dead_letter") = "failed"
BY DEF OutboxOf

\* An object that waits keeps its job when the job's row stays active, and when an object
\* stops waiting nobody needs to work on it.
LEMMA WaitingStep ==
  ASSUME Typed, PendingHasJob, NEW j \in Jobs, NEW r \in JobRow, job' = [job EXCEPT ![j] = r],
         \A o \in Objects : record'[o].status = "pending" =>
           \/ r.object = o /\ r.state \in {"pending", "leased", "retry_wait"}
           \/ record[o].status = "pending" /\ (job[j].object = o => job[j].state = "absent")
  PROVE  PendingHasJob'
<1> SUFFICES ASSUME NEW o \in Objects, record'[o].status = "pending"
             PROVE  \E i \in Jobs : job'[i].object = o /\ job'[i].state \in {"pending", "leased", "retry_wait"}
  BY DEF PendingHasJob
<1>1. job'[j] = r /\ \A i \in Jobs : i # j => job'[i] = job[i]
  BY DEF Typed, TypeOK
<1>2. CASE r.object = o /\ r.state \in {"pending", "leased", "retry_wait"}
  BY <1>1, <1>2
<1>3. CASE record[o].status = "pending" /\ (job[j].object = o => job[j].state = "absent")
  <2>1. PICK i \in Jobs : job[i].object = o /\ job[i].state \in {"pending", "leased", "retry_wait"}
    BY <1>3 DEF PendingHasJob
  <2>2. i # j
    BY <1>3, <2>1
  <2> QED
    BY <1>1, <2>1, <2>2
<1> QED
  BY <1>2, <1>3

LEMMA NextTables == Typed /\ TablesFollow /\ [Next]_vars => TablesFollow'
<1> SUFFICES ASSUME Typed, TablesFollow, [Next]_vars PROVE TablesFollow'
  OBVIOUS
<1> USE DEF TablesFollow
<1>a. \A o \in Objects : record[o] \in RecordRow
  BY DEF Typed, TypeOK
<1>1. ASSUME UNCHANGED <<job, outbox, record>> PROVE TablesFollow'
  BY <1>1 DEF OutboxAgrees, PendingHasJob
<1>2. ASSUME NEW c \in Clients, NEW j \in Jobs, Register(c, j) PROVE TablesFollow'
  <2>1. client[c] \in ClientState
    BY DEF Typed, TypeOK
  <2> DEFINE r == [state |-> "pending", object |-> client[c].object, dedup |-> <<None, client[c].key>>,
                   attempt |-> 0, version |-> 1, owner |-> None, due |-> TRUE, expired |-> FALSE]
  <2>2. r \in JobRow /\ r.state = "pending" /\ r.object = client[c].object
    BY <2>1 DEF ClientState, JobRow, JobState, Dedup
  <2>3. /\ job' = [job EXCEPT ![j] = r] /\ outbox' = [outbox EXCEPT ![j] = "pending"]
        /\ job[j].state = "absent"
        /\ \E x : record' = [record EXCEPT ![client[c].object] = x]
    BY <1>2 DEF Register
  <2> HIDE DEF r
  <2>4. \A o \in Objects : o # client[c].object => record'[o] = record[o]
    BY <2>3 DEF Typed, TypeOK
  <2> QED
    BY <2>2, <2>3, <2>4, StatesOutbox, OutboxStep, WaitingStep
<1>3. ASSUME NEW p \in Procs, NEW j \in Jobs, Claim(p, j) PROVE TablesFollow'
  <2>1. job[j] \in JobRow /\ IdOfWorker[p] \in WorkerIds
    BY QueueAssumption DEF Typed, TypeOK
  <2> DEFINE r == [state |-> "leased", object |-> job[j].object, dedup |-> job[j].dedup,
                   attempt |-> NextAttempt(j), version |-> job[j].version + 1,
                   owner |-> IdOfWorker[p], due |-> TRUE, expired |-> FALSE]
  <2>2. r \in JobRow /\ r.state = "leased" /\ r.object = job[j].object
    BY <2>1 DEF JobRow, JobState, NextAttempt
  <2>3. /\ job' = [job EXCEPT ![j] = r] /\ outbox' = [outbox EXCEPT ![j] = "dispatched"]
        /\ UNCHANGED record
    BY <1>3 DEF Claim
  <2> HIDE DEF r
  <2> QED
    BY <2>2, <2>3, StatesOutbox, OutboxStep, WaitingStep
<1>4. ASSUME NEW p \in Procs, Complete(p) \/ CompleteUnacknowledged(p) \/ Fail(p) PROVE TablesFollow'
  <2>1. work[p].job \in Jobs
    BY <1>4 DEF Typed, WorkHasJob, Complete, CompleteUnacknowledged, Fail
  <2>2. PICK j \in Jobs : j = work[p].job
    BY <2>1
  <2>3. PICK st \in Outcome :
          /\ job' = [job EXCEPT ![j] = Released(j, st)]
          /\ outbox' = [outbox EXCEPT ![j] = OutboxOf(st)]
          /\ \/ st = "retry_wait" /\ record' = record
             \/ \E status \in {"completed", "failed"} : record' = [record EXCEPT ![job[j].object].status = status]
    <3>1. CASE Complete(p) \/ CompleteUnacknowledged(p)
      BY <2>2, <3>1, StatesOutbox DEF Complete, CompleteUnacknowledged, CompleteTransaction, ObjectOf, Outcome
    <3>2. CASE Fail(p) /\ Retries(p)
      BY <2>2, <3>2, StatesOutbox DEF Fail, RecordAfterFail, OutboxAfterFail, Outcome
    <3>3. CASE Fail(p) /\ ~Retries(p)
      BY <2>2, <3>3, StatesOutbox DEF Fail, RecordAfterFail, OutboxAfterFail, ObjectOf, Outcome
    <3> QED
      BY <1>4, <3>1, <3>2, <3>3
  <2>4. Released(j, st) \in JobRow /\ Released(j, st).state = st /\ Released(j, st).object = job[j].object
    <3>1. job[j] \in JobRow
      BY DEF Typed, TypeOK
    <3> QED
      BY <3>1 DEF Released, JobRow, JobState, Outcome
  <2>5. ASSUME NEW o \in Objects, record'[o].status = "pending"
        PROVE  record[o].status = "pending" /\ (job[j].object = o => st = "retry_wait")
    <3>1. CASE st = "retry_wait" /\ record' = record
      BY <2>5, <3>1
    <3>2. ASSUME NEW status \in {"completed", "failed"},
                 record' = [record EXCEPT ![job[j].object].status = status]
          PROVE  record[o].status = "pending" /\ job[j].object # o
      <4>1. job[j].object = o => record'[o] = [record[o] EXCEPT !.status = status]
        BY <3>2 DEF Typed, TypeOK
      <4>2. [record[o] EXCEPT !.status = status].status = status
        BY <1>a DEF RecordRow
      <4>3. job[j].object # o
        BY <2>5, <4>1, <4>2
      <4> QED
        BY <2>5, <3>2, <4>3 DEF Typed, TypeOK
    <3> QED
      BY <2>3, <3>1, <3>2
  <2>6. OutboxAgrees'
    BY <2>3, <2>4, OutboxStep
  <2>7. PendingHasJob'
    BY <2>3, <2>4, <2>5, WaitingStep
  <2> QED
    BY <2>6, <2>7
<1>5. ASSUME NEW j \in Jobs, BecomesDue(j) \/ LeaseExpires(j) \/ LeaseExpiresEarly(j) PROVE TablesFollow'
  <2>1. job[j] \in JobRow
    BY DEF Typed, TypeOK
  <2>2. PICK r \in {[job[j] EXCEPT !.due = TRUE], [job[j] EXCEPT !.expired = TRUE]} :
          job' = [job EXCEPT ![j] = r]
    BY <1>5 DEF BecomesDue, LeaseExpires, LeaseExpiresEarly
  <2>3. r \in JobRow /\ r.state = job[j].state /\ r.object = job[j].object
    <3>1. CASE r = [job[j] EXCEPT !.due = TRUE]
      BY <2>1, <3>1 DEF JobRow
    <3>2. CASE r = [job[j] EXCEPT !.expired = TRUE]
      BY <2>1, <3>2 DEF JobRow
    <3> QED
      BY <2>2, <3>1, <3>2
  <2>4. /\ UNCHANGED <<record, outbox>> /\ job[j].state \in {"pending", "leased", "retry_wait"}
    BY <1>5 DEF BecomesDue, LeaseExpires, LeaseExpiresEarly
  <2>5. job'[j] = r /\ \A i \in Jobs : i # j => job'[i] = job[i]
    BY <2>2 DEF Typed, TypeOK
  <2>6. OutboxAgrees'
    BY <2>3, <2>4, <2>5 DEF OutboxAgrees
  <2>7. PendingHasJob'
    <3> SUFFICES ASSUME NEW o \in Objects, record'[o].status = "pending"
                 PROVE  \E i \in Jobs : /\ job'[i].object = o
                                        /\ job'[i].state \in {"pending", "leased", "retry_wait"}
      BY DEF PendingHasJob
    <3>1. PICK i \in Jobs : job[i].object = o /\ job[i].state \in {"pending", "leased", "retry_wait"}
      BY <2>4 DEF TablesFollow, PendingHasJob
    <3>2. job'[i].object = job[i].object /\ job'[i].state = job[i].state
      BY <2>3, <2>5
    <3> QED
      BY <3>1, <3>2
  <2> QED
    BY <2>6, <2>7
<1>6. ASSUME NEW j \in Jobs, NEW n \in Jobs, NEW rk \in ReprocessKeys, Reprocess(j, rk, n)
      PROVE  TablesFollow'
  <2>1. job[j] \in JobRow
    BY DEF Typed, TypeOK
  <2> DEFINE r == [state |-> "pending", object |-> job[j].object, dedup |-> <<j, rk>>,
                   attempt |-> 0, version |-> 1, owner |-> None, due |-> TRUE, expired |-> FALSE]
  <2>2. r \in JobRow /\ r.state = "pending" /\ r.object = job[j].object
    BY <2>1 DEF JobRow, JobState, Dedup
  <2>3. /\ job' = [job EXCEPT ![n] = r] /\ outbox' = [outbox EXCEPT ![n] = "pending"]
        /\ job[n].state = "absent"
        /\ record' = [record EXCEPT ![job[j].object].status = "pending"]
    BY <1>6 DEF Reprocess
  <2> HIDE DEF r
  <2>4. \A o \in Objects : o # job[j].object => record'[o] = record[o]
    BY <2>3 DEF Typed, TypeOK
  <2> QED
    BY <2>2, <2>3, <2>4, StatesOutbox, OutboxStep, WaitingStep, ZenonT(60)
<1>7. ASSUME NEW p \in Procs,
             \/ Copy(p) \/ StoreFails(p) \/ Verify(p) \/ CompleteRefused(p) \/ FailLeaseLost(p)
             \/ Crash(p) \/ Starts(p) \/ Ends(p)
      PROVE  TablesFollow'
  BY <1>1, <1>7
  DEF Copy, StoreFails, Verify, CompleteRefused, FailLeaseLost, Crash, Starts, Ends, tables
<1>8. ASSUME NEW c \in Clients, Submit(c), \A j \in Jobs : ~Register(c, j) PROVE TablesFollow'
  BY <1>1, <1>8 DEF Submit, PutStaged, Replay, KeyReused, RegisterRefused, tables
<1>9. CASE UNCHANGED vars
  BY <1>1, <1>9 DEF vars
<1> QED
  BY <1>2, <1>3, <1>4, <1>5, <1>6, <1>7, <1>8, <1>9 DEF Next, ProcessClaimed

\* The outbox event names the state of its job, and an object that waits has a job at
\* work, however attempts, takeovers and reprocessing interleave.
THEOREM TablesFollowCorrect == Spec => []TablesFollow
<1>1. Init => TablesFollow
  BY StatesOutbox DEF Init, TablesFollow, OutboxAgrees, PendingHasJob, NoJob, NoRecord
<1> QED
  BY <1>1, InitTyped, NextTyped, NextTables, PTL DEF Spec

-----------------------------------------------------------------------------
(***************************************************************************)
(* SyncTransfer, whose operations hand their bytes to the object queue,    *)
(* for every number of items, devices, keys, versions and faults.  The     *)
(* invariant relates the committed rows (RowsAgree), what the mutation     *)
(* that holds them has changed in memory (Ahead, Asked) and the stores it  *)
(* has already written to (Backed): a mutation writes to the stores before *)
(* it commits, and may never commit.                                       *)
(***************************************************************************)

\* The rows of an operation, and a mutation that holds them.
OpType == [state : States, approved : SUBSET Items, completed : SUBSET Items,
           conflicts : [Items -> {"none", "unresolved", "resolved"}],
           target : [Items -> {<<>>} \cup {<<k>> : k \in RequestKeys}], reindex : SUBSET Items]
WorkType == [dev : Devices, req : Request, todo : SUBSET Items, op : OpType,
             new : SUBSET Items, clash : BOOLEAN]
Version == States \X SUBSET Items
Imports == {<<>>} \cup (RequestKeys \X ({"copy"} \cup Resolutions))

RowsTyped ==
  /\ op \in OpType
  /\ hist \in Seq(Version)
  /\ done \subseteq Request /\ IsFiniteSet(done)
  /\ mutation = <<>> \/ W \in WorkType
  /\ objects \subseteq Items \X RequestKeys
  /\ imported \in [Outputs -> Imports]
  /\ view \in [Devices -> Nat] /\ \A d \in Devices : view[d] <= Len(hist)
  /\ mirror \in [Devices -> Seq(Version)]

\* What the rows of an operation say of each other, committed or not.
RowsAgree(o) ==
  /\ o.completed \subseteq o.approved
  /\ \A i \in Items : o.target[i] # <<>> => i \in o.completed
  /\ \A i \in o.completed : o.target[i] # <<>> \/ o.conflicts[i] = "resolved"
  /\ \A i \in Items : o.conflicts[i] = "resolved" => i \in o.completed
  /\ \A i \in Items : o.conflicts[i] # "none" => i \in o.approved
  /\ o.state \in {"none", "awaiting_approval"} <=> o.approved = {}
  /\ o.state = "reindex_requested" => AllDone(o)
  /\ o.reindex # {} => o.state = "reindex_requested"

\* What a mutation has changed in memory: only items it was asked for, each with its
\* bytes, and for an output its import, in the stores.
Backed(i, k) == <<i, k>> \in objects /\ (i \in Outputs => imported[i] # <<>> /\ imported[i][1] = k)

Ahead(w) ==
  /\ w.op.state = op.state /\ w.op.approved = op.approved /\ w.op.reindex = op.reindex
  /\ \A i \in Items : op.target[i] # <<>> => w.op.target[i] # <<>>
  /\ ~w.clash => \A i \in Items : op.target[i] # <<>> => w.op.target[i] = op.target[i]
  /\ \A i \in Items : w.op.target[i] # op.target[i] =>
       w.op.target[i] = <<w.req.key>> /\ Backed(i, w.req.key)

Asked(w) ==
  /\ op.state # "none" /\ KeyFree(w.req)
  /\ w.todo \subseteq w.req.items
  /\ w.req.kind = "approve" => w.req.items # {} /\ w.todo = {}
  /\ w.req.kind = "transfer" => w.req.items \subseteq op.approved /\ op.approved # {}
  /\ w.req.kind = "resolve" => \E i \in Items : w.req.items = {i} /\ op.conflicts[i] # "none"

Mutation == mutation # <<>> => RowsAgree(W.op) /\ Ahead(W) /\ Asked(W)

\* The versions: none before the operation, one for each key and one to begin with.
Versions ==
  /\ op.state = "none" => hist = <<>> /\ done = {} /\ mutation = <<>>
  /\ op.state # "none" => Len(hist) = Cardinality(done) + 1
  /\ \A q, r \in done : (q.kind = r.kind /\ q.key = r.key) => q = r

Mirrored ==
  \A d \in Devices : /\ Len(mirror[d]) <= Len(hist)
                     /\ \A n \in 1..Len(mirror[d]) : mirror[d][n] = hist[n]

TransferInv ==
  RowsTyped /\ RowsAgree(op) /\ TargetStored /\ ImportAfterSources /\ Mutation /\ Versions /\ Mirrored

\* The invariant holds before the operation exists.
LEMMA InitTransfer == ASSUME SyncInit PROVE TransferInv
<1>1. RowsTyped
  BY FS_EmptySet DEF SyncInit, RowsTyped, OpType, States, NoTarget, Imports, Version
<1>2. RowsAgree(op) /\ TargetStored /\ ImportAfterSources
  BY DEF SyncInit, RowsAgree, TargetStored, ImportAfterSources, NoTarget, AllDone
<1>3. Mutation /\ Versions /\ Mirrored
  BY DEF SyncInit, Mutation, Versions, Mirrored
<1> QED
  BY <1>1, <1>2, <1>3 DEF TransferInv

\* Steps that leave the operation's rows, its mutation and the stores alone.
LEMMA DeviceStep ==
  ASSUME TransferInv, UNCHANGED <<op, hist, done, mutation, objects, imported>>,
         view' \in [Devices -> Nat], \A d \in Devices : view'[d] <= Len(hist),
         mirror' \in [Devices -> Seq(Version)],
         \A d \in Devices : /\ Len(mirror'[d]) <= Len(hist)
                            /\ \A n \in 1..Len(mirror'[d]) : mirror'[d][n] = hist[n]
  PROVE  TransferInv'
<1>1. RowsTyped'
  BY DEF TransferInv, RowsTyped, W
<1>2. RowsAgree(op)' /\ TargetStored' /\ ImportAfterSources'
  BY DEF TransferInv, RowsAgree, TargetStored, ImportAfterSources, AllDone
<1>3. Mutation'
  BY DEF TransferInv, Mutation, W, RowsAgree, AllDone, Ahead, Asked, Backed, KeyFree
<1>4. Versions' /\ Mirrored'
  BY DEF TransferInv, Versions, Mirrored
<1> QED
  BY <1>1, <1>2, <1>3, <1>4 DEF TransferInv

\* The row is let go without a change of the operation.
LEMMA LeaveStep ==
  ASSUME TransferInv, Leave, UNCHANGED world
  PROVE  TransferInv'
<1>1. UNCHANGED <<op, hist, done, view, mirror, objects, imported>> /\ mutation' = <<>>
  BY DEF Leave, world
<1>2. RowsTyped'
  BY <1>1 DEF TransferInv, RowsTyped
<1>3. RowsAgree(op)' /\ TargetStored' /\ ImportAfterSources'
  BY <1>1 DEF TransferInv, RowsAgree, TargetStored, ImportAfterSources, AllDone
<1>4. Mutation' /\ Versions' /\ Mirrored'
  BY <1>1 DEF TransferInv, Mutation, Versions, Mirrored
<1> QED
  BY <1>2, <1>3, <1>4 DEF TransferInv

\* A request takes the row.
LEMMA BeginStep ==
  ASSUME TransferInv, NEW d \in Devices, NEW r \in Request, NEW todo \in SUBSET Items,
         Fresh(d, r), Begin(d, r, todo), todo \subseteq r.items,
         r.kind = "approve" => r.items # {} /\ todo = {},
         r.kind = "transfer" => r.items \subseteq op.approved /\ op.approved # {},
         r.kind = "resolve" => \E i \in Items : r.items = {i} /\ op.conflicts[i] # "none"
  PROVE  TransferInv'
<1>1. UNCHANGED <<op, hist, done, view, mirror, objects, imported>> /\ mutation' = Held(d, r, todo)
  BY DEF Begin, world
<1>2. W' = [dev |-> d, req |-> r, todo |-> todo, op |-> op, new |-> {}, clash |-> FALSE]
  BY <1>1 DEF W, Held
<1>3. RowsTyped'
  BY <1>1, <1>2 DEF TransferInv, RowsTyped, WorkType
<1>4. RowsAgree(op)' /\ TargetStored' /\ ImportAfterSources'
  BY <1>1 DEF TransferInv, RowsAgree, TargetStored, ImportAfterSources, AllDone
<1>5. RowsAgree(W.op)'
  BY <1>1, <1>2 DEF TransferInv, RowsAgree, AllDone
<1>6. Ahead(W)'
  BY <1>1, <1>2 DEF Ahead
<1>7. Asked(W)'
  BY <1>1, <1>2 DEF Asked, Fresh, KeyFree
<1>8. Mutation'
  BY <1>5, <1>6, <1>7 DEF Mutation
<1>9. Versions' /\ Mirrored'
  BY <1>1 DEF TransferInv, Versions, Mirrored, Fresh
<1> QED
  BY <1>3, <1>4, <1>8, <1>9 DEF TransferInv

\* A step of a mutation: the committed rows stay, the stores only grow, and what the
\* mutation has in memory still fits them.
LEMMA MutationStep ==
  ASSUME TransferInv, mutation # <<>>, UNCHANGED <<op, hist, done, view, mirror>>,
         W' \in WorkType, W'.req = W.req, W'.todo \subseteq W.todo,
         objects \subseteq objects', objects' \subseteq Items \X RequestKeys,
         imported' \in [Outputs -> Imports],
         \A o \in Outputs : imported[o] # <<>> => imported'[o] = imported[o],
         \A o \in Outputs : imported'[o] # imported[o] => \A s \in Deps[o] : op.target[s] # <<>>,
         RowsAgree(W'.op), Ahead(W)'
  PROVE  TransferInv'
<1>1. RowsTyped'
  BY DEF TransferInv, RowsTyped
<1>2. RowsAgree(op)'
  BY DEF TransferInv, RowsAgree, AllDone
<1>3. TargetStored'
  BY DEF TransferInv, TargetStored, RowsTyped, OpType, Items
<1>4. ImportAfterSources'
  BY DEF TransferInv, ImportAfterSources
<1>5. Mutation'
  <2>1. RowsAgree(W.op)'
    OBVIOUS
  <2>2. Asked(W)'
    BY DEF TransferInv, Mutation, Asked, KeyFree
  <2> QED
    BY <2>1, <2>2 DEF Mutation
<1>6. Versions' /\ Mirrored'
  BY DEF TransferInv, Versions, Mirrored
<1> QED
  BY <1>1, <1>2, <1>3, <1>4, <1>5, <1>6 DEF TransferInv

\* A completed item of a batch is passed over.
LEMMA SkipStep ==
  ASSUME TransferInv, mutation # <<>>, NEW i \in W.todo, SkipCompleted(i)
  PROVE  TransferInv'
<1>1. UNCHANGED <<op, hist, done, view, mirror, objects, imported>>
      /\ W' = [W EXCEPT !.todo = @ \ {i}]
  BY DEF SkipCompleted, world, W
<1>2. W \in WorkType
  BY DEF TransferInv, RowsTyped
<1>3. W' \in WorkType /\ W'.req = W.req /\ W'.todo \subseteq W.todo /\ W'.op = W.op /\ W'.clash = W.clash
  BY <1>1, <1>2 DEF WorkType
<1>4. RowsAgree(W'.op) /\ Ahead(W)'
  BY <1>1, <1>3 DEF TransferInv, Mutation, RowsAgree, AllDone, Ahead, Backed
<1> QED
  BY <1>1, <1>3, <1>4, MutationStep DEF TransferInv, RowsTyped

\* A conflict is recorded for an item that is approved and not completed.
LEMMA RecordStep ==
  ASSUME TransferInv, mutation # <<>>, NEW i \in W.todo, RecordConflict(i)
  PROVE  TransferInv'
<1>1. UNCHANGED <<op, hist, done, view, mirror, objects, imported>>
      /\ W' = [W EXCEPT !.todo = @ \ {i}, !.op.conflicts[i] = "unresolved",
                        !.clash = @ \/ W.op.conflicts[i] # "none"]
  BY DEF RecordConflict, world, W
<1>2. W \in WorkType /\ i \in Items /\ W.op \in OpType
  BY DEF TransferInv, RowsTyped, WorkType
<1>3. /\ W'.req = W.req /\ W'.todo \subseteq W.todo
      /\ W'.op = [W.op EXCEPT !.conflicts[i] = "unresolved"]
      /\ W'.clash = (W.clash \/ W.op.conflicts[i] # "none")
  BY <1>1, <1>2 DEF WorkType
<1>4. /\ W'.op \in OpType
      /\ W'.op.conflicts = [W.op.conflicts EXCEPT ![i] = "unresolved"]
      /\ W'.op.state = W.op.state /\ W'.op.approved = W.op.approved
      /\ W'.op.completed = W.op.completed /\ W'.op.target = W.op.target
      /\ W'.op.reindex = W.op.reindex
  BY <1>2, <1>3 DEF OpType
<1>5. W' \in WorkType
  BY <1>1, <1>2, <1>4 DEF WorkType
<1>6. i \notin W.op.completed /\ i \in W.op.approved
  <2>1. W.req.kind = "transfer" /\ i \notin W.op.completed
    <3>1. W.req.kind # "approve"
      BY DEF TransferInv, Mutation, Asked
    <3> QED
      BY <1>2, <3>1 DEF RecordConflict, Passed, Copied, Ready, WorkType, Request
  <2> QED
    BY <2>1 DEF TransferInv, Mutation, Asked, Ahead
<1>7. RowsAgree(W'.op)
  <2>1. RowsAgree(W.op)
    BY DEF TransferInv, Mutation
  <2> QED
    BY <1>2, <1>4, <1>6, <2>1 DEF RowsAgree, AllDone, OpType
<1>8. Ahead(W)'
  <2>1. Ahead(W)
    BY DEF TransferInv, Mutation
  <2>2. ~W'.clash => ~W.clash
    BY <1>3
  <2> QED
    BY <1>1, <1>3, <1>4, <2>1, <2>2 DEF Ahead, Backed
<1> QED
  BY <1>1, <1>3, <1>5, <1>7, <1>8, MutationStep DEF TransferInv, RowsTyped

\* The object queue accepts the bytes of an item.
LEMMA SubmitStep ==
  ASSUME TransferInv, mutation # <<>>, NEW i \in W.todo, SubmitObject(i)
  PROVE  TransferInv'
<1>1. UNCHANGED <<op, hist, done, view, mirror, mutation, imported>>
      /\ objects' = objects \cup {<<i, W.req.key>>} /\ W' = W
  BY DEF SubmitObject, W
<1>2. W \in WorkType /\ <<i, W.req.key>> \in Items \X RequestKeys
  BY DEF TransferInv, RowsTyped, WorkType, Request
<1>3. RowsAgree(W'.op) /\ Ahead(W)'
  BY <1>1 DEF TransferInv, Mutation, RowsAgree, AllDone, Ahead, Backed
<1> QED
  BY <1>1, <1>2, <1>3, MutationStep DEF TransferInv, RowsTyped

\* A target joins the operation in memory once its bytes, and its import, are stored.
LEMMA TargetStep ==
  ASSUME TransferInv, mutation # <<>>, NEW i \in W.todo, Copied(i), Targeted(i),
         Stored(i), UNCHANGED <<op, hist, done, view, mirror, objects>>,
         imported' \in [Outputs -> Imports],
         \A o \in Outputs : imported[o] # <<>> => imported'[o] = imported[o],
         \A o \in Outputs : imported'[o] # imported[o] => \A s \in Deps[o] : op.target[s] # <<>>,
         i \in Outputs => imported'[i] # <<>> /\ imported'[i][1] = W.req.key
  PROVE  TransferInv'
<1>1. W' = [W EXCEPT !.todo = @ \ {i}, !.new = @ \cup {i}, !.op.target[i] = <<W.req.key>>,
                     !.op.completed = @ \cup {i}, !.clash = @ \/ W.op.target[i] # <<>>]
  BY DEF Targeted, W
<1>2. W \in WorkType /\ i \in Items /\ W.op \in OpType /\ W.req.key \in RequestKeys
  BY DEF TransferInv, RowsTyped, WorkType, Request
<1>3. /\ W'.req = W.req /\ W'.todo \subseteq W.todo /\ W'.dev = W.dev /\ W'.new \subseteq Items
      /\ W'.op = [W.op EXCEPT !.target[i] = <<W.req.key>>, !.completed = @ \cup {i}]
      /\ W'.clash = (W.clash \/ W.op.target[i] # <<>>)
  BY <1>1, <1>2 DEF WorkType
<1>4. /\ W'.op.target = [W.op.target EXCEPT ![i] = <<W.req.key>>]
      /\ W'.op.state = W.op.state /\ W'.op.approved = W.op.approved
      /\ W'.op.completed = W.op.completed \cup {i} /\ W'.op.conflicts = W.op.conflicts
      /\ W'.op.reindex = W.op.reindex
  BY <1>2, <1>3 DEF OpType
<1>5. W' \in WorkType
  <2>1. W'.op.target \in [Items -> {<<>>} \cup {<<k>> : k \in RequestKeys}]
    BY <1>2, <1>4 DEF OpType
  <2>2. W'.op = [state |-> W.op.state, approved |-> W.op.approved,
                 completed |-> W.op.completed \cup {i}, conflicts |-> W.op.conflicts,
                 target |-> W'.op.target, reindex |-> W.op.reindex]
    BY <1>2, <1>3 DEF OpType
  <2>3. W'.op \in OpType
    BY <1>2, <2>1, <2>2 DEF OpType
  <2> QED
    BY <1>1, <1>2, <2>3 DEF WorkType
<1>6. i \in W.op.approved
  <2>1. Asked(W) /\ W.op.approved = op.approved /\ RowsAgree(op) /\ i \in W.req.items
    BY DEF TransferInv, Mutation, Asked, Ahead
  <2>2. W.req.kind # "approve"
    BY <2>1 DEF Asked
  <2> QED
    BY <1>2, <2>1, <2>2 DEF Asked, RowsAgree, WorkType, Request
<1>7. RowsAgree(W'.op)
  <2>1. RowsAgree(W.op)
    BY DEF TransferInv, Mutation
  <2> QED
    BY <1>2, <1>4, <1>6, <2>1 DEF RowsAgree, AllDone, OpType
<1>8. Ahead(W)'
  <2>1. Ahead(W)
    BY DEF TransferInv, Mutation
  <2> QED
    <3>1. \A j \in Items : W'.op.target[j] = IF j = i THEN <<W.req.key>> ELSE W.op.target[j]
      BY <1>2, <1>4 DEF OpType
    <3>2. W'.clash \/ (~W.clash /\ W.op.target[i] = <<>>)
      BY <1>3
    <3>3. Backed(i, W.req.key)' /\ <<W.req.key>> # <<>>
      BY <1>3 DEF Backed, Stored
    <3>4. \A j \in Items : Backed(j, W.req.key) => Backed(j, W.req.key)'
      BY <1>3 DEF Backed
    <3> QED
      BY <1>3, <1>4, <2>1, <3>1, <3>2, <3>3, <3>4 DEF Ahead
<1> QED
  BY <1>3, <1>5, <1>7, <1>8, MutationStep DEF TransferInv, RowsTyped

\* The row that is written: its items are those of the mutation, nothing was asked of
\* the index before, and an approval that was taken stays.
LEMMA RowWritten ==
  ASSUME TransferInv, mutation # <<>>, ~W.clash, LegalTransition(op.state, Row.state)
  PROVE  /\ Row \in OpType /\ RowsAgree(Row)
         /\ Row.target = W.op.target /\ Row.reindex = {}
         /\ op.approved # {} => Row.approved = op.approved
         /\ op.state \notin {"none", "reindex_requested"} /\ Row.state # "none"
<1>1. W \in WorkType /\ W.op \in OpType /\ op \in OpType /\ W.req \in Request
  BY DEF TransferInv, RowsTyped, WorkType
<1>2. RowsAgree(op) /\ RowsAgree(W.op) /\ Ahead(W) /\ Asked(W)
  BY DEF TransferInv, Mutation
<1>3. op.state \notin {"none", "reindex_requested"} /\ Row.state \notin {"none", "awaiting_approval"}
  BY DEF LegalTransition
<1>4. op.reindex = {} /\ W.op.reindex = {} /\ W.op.state = op.state /\ W.op.approved = op.approved
  BY <1>2, <1>3 DEF RowsAgree, Ahead
<1>5. CASE W.req.kind = "approve"
  <2>1. Row = [W.op EXCEPT !.state = "approved", !.approved = W.req.items]
    BY <1>5 DEF Row, ApprovedRow
  <2>2. /\ Row \in OpType /\ Row.state = "approved" /\ Row.approved = W.req.items
        /\ Row.completed = W.op.completed /\ Row.conflicts = W.op.conflicts
        /\ Row.target = W.op.target /\ Row.reindex = W.op.reindex
    BY <1>1, <2>1 DEF OpType, States, Request
  <2>3. op.approved = {} /\ W.req.items # {}
    BY <1>2, <1>5, <2>2 DEF LegalTransition, RowsAgree, Asked
  <2>4. RowsAgree(Row)
    BY <1>2, <1>4, <2>2, <2>3 DEF RowsAgree, AllDone
  <2> QED
    BY <1>3, <1>4, <2>2, <2>3, <2>4
<1>6. CASE W.req.kind = "transfer"
  <2>1. PICK st \in {"conflict", "reindex_requested", "transferring"} :
          /\ Row = [W.op EXCEPT !.state = st]
          /\ st = "reindex_requested" => AllDone(W.op)
    BY <1>6 DEF Row, BatchRow
  <2>2. /\ Row \in OpType /\ Row.state = st /\ Row.approved = W.op.approved
        /\ Row.completed = W.op.completed /\ Row.conflicts = W.op.conflicts
        /\ Row.target = W.op.target /\ Row.reindex = W.op.reindex
    BY <1>1, <2>1 DEF OpType, States
  <2>3. RowsAgree(Row)
    BY <1>2, <1>4, <1>6, <2>1, <2>2 DEF RowsAgree, AllDone, Asked
  <2> QED
    BY <1>3, <1>4, <2>2, <2>3
<1>7. CASE W.req.kind = "resolve"
  <2>1. PICK i \in Items : W.req.items = {i} /\ op.conflicts[i] # "none"
    BY <1>2, <1>7 DEF Asked
  <2> DEFINE o == [W.op EXCEPT !.conflicts[i] = "resolved", !.completed = @ \cup {i}]
  <2>2. (CHOOSE j \in W.req.items : TRUE) = i
    BY <2>1
  <2>3. PICK st \in {W.op.state, "reindex_requested"} :
          /\ Row = [o EXCEPT !.state = st]
          /\ st = "reindex_requested" => AllDone(o) \/ W.op.state = "reindex_requested"
    <3>1. Row = IF Unresolved(o) = {} /\ AllDone(o) THEN [o EXCEPT !.state = "reindex_requested"] ELSE o
      BY <1>7, <2>2 DEF Row, ResolvedRow
    <3>2. o = [o EXCEPT !.state = W.op.state]
      BY <1>1 DEF OpType
    <3> QED
      BY <3>1, <3>2
  <2>4. /\ o.state = W.op.state /\ o.approved = W.op.approved
        /\ o.completed = W.op.completed \cup {i}
        /\ o.conflicts = [W.op.conflicts EXCEPT ![i] = "resolved"]
        /\ o.target = W.op.target /\ o.reindex = W.op.reindex
        /\ o \in OpType
    BY <1>1, ZenonT(60) DEF OpType
  <2> HIDE DEF o
  <2>5. /\ Row \in OpType /\ Row.state = st /\ Row.approved = o.approved
        /\ Row.completed = o.completed /\ Row.conflicts = o.conflicts
        /\ Row.target = o.target /\ Row.reindex = o.reindex
    BY <2>3, <2>4, <1>1 DEF OpType, States
  <2>6. op.approved # {} /\ i \in op.approved
    BY <1>2, <2>1 DEF RowsAgree
  <2>7. Row.state = "reindex_requested" => AllDone(Row)
    BY <1>3, <1>4, <2>3, <2>5 DEF AllDone
  <2>8. RowsAgree(Row)
    BY <1>1, <1>2, <1>3, <1>4, <2>4, <2>5, <2>6, <2>7 DEF RowsAgree, OpType
  <2> QED
    BY <1>3, <1>4, <2>4, <2>5, <2>8
<1> QED
  BY <1>1, <1>5, <1>6, <1>7 DEF Request

\* What a commit makes of the rows.
LEMMA CommitMoves ==
  ASSUME TransferInv, Commit
  PROVE  /\ op' \in OpType /\ RowsAgree(op') /\ op'.target = W.op.target
         /\ op.approved # {} => op'.approved = op.approved
         /\ op.state \notin {"none", "reindex_requested"} /\ op'.state # "none"
<1>1. op' = Reindexed(Row) /\ W \in WorkType
  BY DEF Commit, TransferInv, RowsTyped
<1>2. /\ Row \in OpType /\ RowsAgree(Row)
      /\ Row.target = W.op.target /\ Row.reindex = {}
      /\ op.approved # {} => Row.approved = op.approved
      /\ op.state \notin {"none", "reindex_requested"} /\ Row.state # "none"
  BY RowWritten DEF Commit
<1>3. CASE Row.state # "reindex_requested"
  BY <1>1, <1>2, <1>3 DEF Reindexed
<1>4. CASE Row.state = "reindex_requested"
  <2>1. op' = [Row EXCEPT !.reindex = Row.reindex \cup W.new]
    BY <1>1, <1>4 DEF Reindexed
  <2>2. /\ op'.state = Row.state /\ op'.approved = Row.approved /\ op'.completed = Row.completed
        /\ op'.conflicts = Row.conflicts /\ op'.target = Row.target /\ op' \in OpType
    BY <1>1, <1>2, <2>1 DEF OpType, WorkType
  <2>3. RowsAgree(op')
    BY <1>2, <1>4, <2>2 DEF RowsAgree, AllDone
  <2> QED
    BY <1>2, <2>2, <2>3
<1> QED
  BY <1>3, <1>4

\* A commit keeps the invariant: the new version counts one key more.
LEMMA CommitStep ==
  ASSUME TransferInv, Commit
  PROVE  TransferInv'
<1>1. /\ op' \in OpType /\ RowsAgree(op') /\ op'.target = W.op.target
      /\ op.state # "none" /\ op'.state # "none"
  BY CommitMoves
<1>2. /\ hist' = Append(hist, Shown(op')) /\ done' = done \cup {W.req}
      /\ view' = [view EXCEPT ![W.dev] = Len(hist')]
      /\ mutation' = <<>> /\ UNCHANGED <<mirror, objects, imported>> /\ mutation # <<>> /\ ~W.clash
  BY DEF Commit, world
<1>3. W \in WorkType /\ W.req \in Request /\ Ahead(W) /\ Asked(W)
  BY <1>2 DEF TransferInv, RowsTyped, Mutation, WorkType
<1>4. Shown(op') \in Version
  BY <1>1 DEF Shown, Unresolved, Version, OpType
<1>5. hist \in Seq(Version) /\ hist' \in Seq(Version) /\ Len(hist') = Len(hist) + 1
      /\ \A n \in 1..Len(hist) : hist'[n] = hist[n]
  BY <1>2, <1>4 DEF TransferInv, RowsTyped
<1>6. done' \subseteq Request /\ IsFiniteSet(done') /\ Cardinality(done') = Cardinality(done) + 1
  <2>1. W.req \notin done /\ IsFiniteSet(done)
    BY <1>3 DEF Asked, KeyFree, TransferInv, RowsTyped
  <2> QED
    BY <1>2, <1>3, <2>1, FS_AddElement DEF TransferInv, RowsTyped
<1>7. view' \in [Devices -> Nat] /\ \A d \in Devices : view'[d] <= Len(hist')
  <2>1. Len(hist) \in Nat /\ Len(hist') \in Nat /\ Len(hist) <= Len(hist')
    BY <1>5
  <2>2. view \in [Devices -> Nat] /\ \A d \in Devices : view[d] <= Len(hist)
    BY DEF TransferInv, RowsTyped
  <2>3. \A d \in Devices : view'[d] = IF d = W.dev THEN Len(hist') ELSE view[d]
    BY <1>2, <2>2
  <2>4. view' \in [Devices -> Nat]
    BY <1>2, <2>1, <2>2
  <2>5. ASSUME NEW d \in Devices PROVE view'[d] <= Len(hist')
    <3>1. view[d] \in Nat /\ view[d] <= Len(hist)
      BY <2>2
    <3> QED
      BY <2>1, <2>3, <3>1
  <2> QED
    BY <2>4, <2>5
<1>8. RowsTyped'
  BY <1>1, <1>2, <1>5, <1>6, <1>7 DEF TransferInv, RowsTyped
<1>9. TargetStored'
  <2>1. \A i \in Items : op'.target[i] = op.target[i] \/
                         (op'.target[i] = <<W.req.key>> /\ Backed(i, W.req.key))
    BY <1>1, <1>3 DEF Ahead
  <2> QED
    <3>1. ASSUME NEW i \in Items, op'.target[i] # <<>>
          PROVE  Backed(i, op'.target[i][1])
      <4>1. CASE op'.target[i] = op.target[i]
        BY <3>1, <4>1 DEF TransferInv, TargetStored, Backed
      <4>2. CASE op'.target[i] = <<W.req.key>> /\ Backed(i, W.req.key)
        BY <4>2
      <4> QED
        BY <2>1, <4>1, <4>2
    <3> QED
      BY <1>2, <3>1 DEF TargetStored, Backed
<1>10. ImportAfterSources'
  <2>1. \A o \in Outputs : Deps[o] \subseteq Items
    BY DepsAssumption DEF Items
  <2>2. \A i \in Items : op.target[i] # <<>> => op'.target[i] # <<>>
    BY <1>1, <1>3 DEF Ahead
  <2> QED
    BY <1>2, <2>1, <2>2 DEF TransferInv, ImportAfterSources
<1>11. Versions'
  <2>1. Len(hist') = Cardinality(done') + 1
    BY <1>1, <1>5, <1>6, FS_CardinalityType DEF TransferInv, Versions, RowsTyped
  <2>2. \A q, r \in done' : (q.kind = r.kind /\ q.key = r.key) => q = r
    BY <1>2, <1>3 DEF TransferInv, Versions, Asked, KeyFree
  <2> QED
    BY <1>1, <2>1, <2>2 DEF Versions
<1>12. Mirrored'
  BY <1>2, <1>5 DEF TransferInv, Mirrored, RowsTyped
<1>13. Mutation'
  BY <1>2 DEF Mutation
<1> QED
  BY <1>1, <1>8, <1>9, <1>10, <1>11, <1>12, <1>13 DEF TransferInv

\* The steps of the devices.
LEMMA AnswerStep ==
  ASSUME TransferInv, NEW d \in Devices,
         Status(d) \/ LoseAnswer(d) \/ (\E r \in done : AnswerAgain(d, r))
  PROVE  TransferInv'
<1>1. /\ UNCHANGED <<op, hist, done, mutation, objects, imported, mirror>>
      /\ \E n \in {0, Len(hist)} : view' = [view EXCEPT ![d] = n]
  BY DEF Status, LoseAnswer, AnswerAgain, world
<1>2. view \in [Devices -> Nat] /\ Len(hist) \in Nat /\ \A e \in Devices : view[e] <= Len(hist)
  BY DEF TransferInv, RowsTyped
<1>3. view' \in [Devices -> Nat] /\ \A e \in Devices : view'[e] <= Len(hist)
  BY <1>1, <1>2
<1> QED
  BY <1>1, <1>3, DeviceStep DEF TransferInv, RowsTyped, Mirrored

\* The mirror of a device only takes the version after its last one.
LEMMA PersistStep ==
  ASSUME TransferInv, NEW d \in Devices, PersistProjection(d)
  PROVE  TransferInv'
<1>1. UNCHANGED <<op, hist, done, mutation, objects, imported>> /\ view' = [view EXCEPT ![d] = 0]
  BY DEF PersistProjection, world
<1>2. view \in [Devices -> Nat] /\ hist \in Seq(Version) /\ \A e \in Devices : view[e] <= Len(hist)
  BY DEF TransferInv, RowsTyped
<1>3. view' \in [Devices -> Nat] /\ \A e \in Devices : view'[e] <= Len(hist)
  BY <1>1, <1>2
<1>4. mirror \in [Devices -> Seq(Version)] /\ Mirrored
  BY DEF TransferInv, RowsTyped
<1>5. CASE ~Appendable(d)
  <2>1. mirror' = mirror
    BY <1>5 DEF PersistProjection
  <2> QED
    BY <1>1, <1>3, <1>4, <2>1, DeviceStep DEF Mirrored
<1>6. CASE Appendable(d)
  <2> DEFINE v == view[d]
             m == Append(mirror[d], hist[v])
  <2>1. v \in 1..Len(hist) /\ v = Len(mirror[d]) + 1 /\ hist[v] \in Version
    BY <1>2, <1>4, <1>6 DEF Appendable
  <2>2. mirror' = [mirror EXCEPT ![d] = m]
    BY <1>6 DEF PersistProjection
  <2>3. m \in Seq(Version) /\ Len(m) = v /\ m[v] = hist[v]
        /\ \A n \in 1..(v - 1) : m[n] = mirror[d][n]
    BY <1>4, <2>1
  <2> HIDE DEF m
  <2>4. Len(m) <= Len(hist) /\ \A n \in 1..Len(m) : m[n] = hist[n]
    BY <1>2, <1>4, <2>1, <2>3 DEF Mirrored
  <2>5. mirror' \in [Devices -> Seq(Version)]
    BY <1>4, <2>2, <2>3
  <2>6. \A e \in Devices : mirror'[e] = IF e = d THEN m ELSE mirror[e]
    BY <1>4, <2>2
  <2> QED
    BY <1>1, <1>3, <1>4, <2>4, <2>5, <2>6, DeviceStep DEF Mirrored
<1> QED
  BY <1>5, <1>6

\* The operation begins with version 1.
LEMMA CreateStep ==
  ASSUME TransferInv, NEW d \in Devices, CreateOperation(d)
  PROVE  TransferInv'
<1>1. /\ op.state = "none" /\ op' = [op EXCEPT !.state = "awaiting_approval"]
      /\ hist' = <<Shown(op')>> /\ view' = [view EXCEPT ![d] = 1]
      /\ UNCHANGED <<done, mutation, mirror, objects, imported>>
  BY DEF CreateOperation, world
<1>2. op \in OpType /\ RowsAgree(op) /\ hist = <<>> /\ done = {} /\ mutation = <<>> /\ Mirrored
  BY <1>1 DEF TransferInv, RowsTyped, Versions
<1>3. /\ op' \in OpType /\ op'.state = "awaiting_approval" /\ op'.approved = op.approved
      /\ op'.completed = op.completed /\ op'.conflicts = op.conflicts
      /\ op'.target = op.target /\ op'.reindex = op.reindex
  BY <1>1, <1>2 DEF OpType, States
<1>4. RowsAgree(op)'
  BY <1>1, <1>2, <1>3 DEF RowsAgree, AllDone
<1>5. Shown(op') \in Version
  BY <1>3 DEF Shown, Unresolved, Version, OpType
<1>6. hist' \in Seq(Version) /\ Len(hist') = 1
  BY <1>1, <1>5
<1>7. view' \in [Devices -> Nat] /\ \A e \in Devices : view'[e] <= 1
  BY <1>1, <1>2 DEF TransferInv, RowsTyped
<1>8. RowsTyped'
  BY <1>1, <1>2, <1>3, <1>6, <1>7 DEF TransferInv, RowsTyped
<1>9. TargetStored' /\ ImportAfterSources'
  BY <1>1, <1>3 DEF TransferInv, TargetStored, ImportAfterSources
<1>10. Mutation'
  BY <1>1, <1>2 DEF Mutation
<1>11. Versions'
  BY <1>1, <1>2, <1>3, <1>6, FS_EmptySet DEF Versions
<1>12. Mirrored'
  BY <1>1, <1>2, <1>6 DEF Mirrored, TransferInv, RowsTyped
<1> QED
  BY <1>4, <1>8, <1>9, <1>10, <1>11, <1>12 DEF TransferInv

\* The three requests.
LEMMA RequestStep ==
  ASSUME TransferInv, NEW d \in Devices, NEW k \in RequestKeys,
         \/ \E S \in SUBSET Items : Approve(d, Approval(k, S))
         \/ \E S \in SUBSET Items : \E T \in SUBSET S : TransferBatch(d, Batch(k, S, T))
         \/ \E i \in Items, c \in Resolutions : ResolveConflict(d, Resolution(k, i, c))
  PROVE  TransferInv'
<1>1. hist \in Seq(Version) /\ op \in OpType
  BY DEF TransferInv, RowsTyped
<1>2. \A r : Fresh(d, r) /\ r.ver = Len(hist) => Len(hist) \in 1..MaxVersion
  BY <1>1, DepsAssumption, FS_CardinalityType DEF Fresh, TransferInv, Versions, RowsTyped
<1>3. ASSUME NEW S \in SUBSET Items, Approve(d, Approval(k, S)) PROVE TransferInv'
  <2> DEFINE r == Approval(k, S)
  <2>1. r.kind = "approve" /\ r.items = S /\ r.ver = Len(hist)
    BY DEF Approval
  <2>2. Fresh(d, r) /\ r.items # {} /\ Begin(d, r, {})
    BY <1>3 DEF Approve
  <2>3. r \in Request
    BY <1>2, <2>1, <2>2 DEF Approval, Request, Resolutions
  <2> HIDE DEF r
  <2> QED
    BY <2>1, <2>2, <2>3, BeginStep
<1>4. ASSUME NEW S \in SUBSET Items, NEW T \in SUBSET S, TransferBatch(d, Batch(k, S, T))
      PROVE  TransferInv'
  <2> DEFINE r == Batch(k, S, T)
  <2>1. r.kind = "transfer" /\ r.items = S /\ r.ver = Len(hist)
    BY DEF Approval, Batch
  <2>2. /\ Fresh(d, r) /\ Begin(d, r, r.items)
        /\ op.approved # {} /\ r.items \subseteq op.approved
    BY <1>4 DEF TransferBatch
  <2>3. r \in Request
    BY <1>2, <2>1, <2>2 DEF Approval, Batch, Request, Resolutions
  <2> HIDE DEF r
  <2> QED
    BY <2>1, <2>2, <2>3, BeginStep
<1>5. ASSUME NEW i \in Items, NEW c \in Resolutions, ResolveConflict(d, Resolution(k, i, c))
      PROVE  TransferInv'
  <2> DEFINE r == Resolution(k, i, c)
             todo == IF r.choice = "keep_cloud" THEN {} ELSE r.items
  <2>1. r.kind = "resolve" /\ r.items = {i} /\ r.ver = Len(hist)
    BY DEF Approval, Resolution
  <2>2. Fresh(d, r) /\ Begin(d, r, todo) /\ op.conflicts[i] = "unresolved"
    BY <1>5, <2>1 DEF ResolveConflict
  <2>3. r \in Request
    BY <1>2, <2>1, <2>2 DEF Approval, Resolution, Request, Resolutions
  <2>4. todo \in SUBSET Items /\ todo \subseteq r.items
    BY <2>1
  <2> HIDE DEF r, todo
  <2> QED
    BY <2>1, <2>2, <2>3, <2>4, BeginStep
<1> QED
  BY <1>3, <1>4, <1>5

\* A source, or an output with its import, is transmitted.
LEMMA TransmitStep ==
  ASSUME TransferInv, mutation # <<>>, NEW i \in W.todo,
         TransmitSource(i) \/ ImportBundle(i)
  PROVE  TransferInv'
<1>1. CASE TransmitSource(i)
  <2>1. i \notin Outputs
    BY <1>1, DepsAssumption DEF TransmitSource
  <2> QED
    BY <1>1, <2>1, TargetStep DEF TransmitSource, world, TransferInv, RowsTyped
<1>2. CASE ImportBundle(i)
  <2> DEFINE m == <<W.req.key, Relation>>
  <2>1. i \in Outputs /\ imported \in [Outputs -> Imports] /\ W.req \in Request
    BY <1>2 DEF ImportBundle, TransferInv, RowsTyped, WorkType
  <2>2. m \in Imports /\ m # <<>> /\ m[1] = W.req.key
    BY <2>1 DEF Imports, Relation, Request
  <2>3. imported' = IF imported[i] = <<>> THEN [imported EXCEPT ![i] = m] ELSE imported
    BY <1>2 DEF ImportBundle
  <2>4. imported[i] = m \/ (imported[i] = <<>> /\ \A s \in Deps[i] : op.target[s] # <<>>)
    BY <1>2 DEF ImportBundle, Importable
  <2> HIDE DEF m
  <2>5. /\ imported' \in [Outputs -> Imports] /\ imported'[i] = m
        /\ \A o \in Outputs : o # i => imported'[o] = imported[o]
    BY <2>1, <2>2, <2>3, <2>4
  <2>6. /\ \A o \in Outputs : imported[o] # <<>> => imported'[o] = imported[o]
        /\ \A o \in Outputs : imported'[o] # imported[o] => \A s \in Deps[o] : op.target[s] # <<>>
    BY <2>4, <2>5
  <2>7. /\ Copied(i) /\ Targeted(i) /\ Stored(i)
        /\ UNCHANGED <<op, hist, done, view, mirror, objects>>
    BY <1>2 DEF ImportBundle
  <2> QED
    BY <2>2, <2>5, <2>6, <2>7, TargetStep
<1> QED
  BY <1>1, <1>2

\* Every step keeps the invariant.
LEMMA NextTransfer == ASSUME TransferInv, [SyncNext]_syncVars PROVE TransferInv'
<1>1. CASE UNCHANGED syncVars
  BY <1>1, DeviceStep DEF syncVars, TransferInv, RowsTyped, Mirrored
<1>2. ASSUME NEW d \in Devices, CreateOperation(d) PROVE TransferInv'
  BY <1>2, CreateStep
<1>3. ASSUME NEW d \in Devices, NEW k \in RequestKeys,
             \/ \E S \in SUBSET Items : Approve(d, Approval(k, S))
             \/ \E S \in SUBSET Items : \E T \in SUBSET S : TransferBatch(d, Batch(k, S, T))
             \/ \E i \in Items, c \in Resolutions : ResolveConflict(d, Resolution(k, i, c))
      PROVE  TransferInv'
  BY <1>3, RequestStep
<1>4. ASSUME NEW d \in Devices, Status(d) \/ LoseAnswer(d) \/ (\E r \in done : AnswerAgain(d, r))
      PROVE  TransferInv'
  BY <1>4, AnswerStep
<1>5. ASSUME NEW d \in Devices, PersistProjection(d) PROVE TransferInv'
  BY <1>5, PersistStep
<1>6. ASSUME mutation # <<>>, NEW i \in W.todo,
             \/ SkipCompleted(i) \/ RecordConflict(i) \/ SubmitObject(i)
             \/ TransmitSource(i) \/ ImportBundle(i)
      PROVE  TransferInv'
  BY <1>6, SkipStep, RecordStep, SubmitStep, TransmitStep
<1>7. ASSUME NEW i, DependencyMissing(i) \/ ImportRefused(i) PROVE TransferInv'
  BY <1>7, LeaveStep DEF DependencyMissing, ImportRefused
<1>8. CASE Commit
  BY <1>8, CommitStep
<1>9. CASE CommitRefused \/ Abort
  BY <1>9, LeaveStep DEF CommitRefused, Abort
<1> QED
  BY <1>1, <1>2, <1>3, <1>4, <1>5, <1>6, <1>7, <1>8, <1>9 DEF SyncNext

\* The invariant holds at every moment.
LEMMA TransferCorrect == SyncSpec => []TransferInv
<1>1. SyncInit => TransferInv
  BY InitTransfer
<1>2. TransferInv /\ [SyncNext]_syncVars => TransferInv'
  BY NextTransfer
<1> QED
  BY <1>1, <1>2, PTL DEF SyncSpec

\* Whatever mutations were cut off, refused or retried: only approved items are completed,
\* each with a target or a resolved conflict; a target names bytes the object queue
\* accepted and, for an output, the import made under its key; and an import has the
\* committed targets of its sources (transfer_batch, resolve_conflict, import_bundle).
THEOREM TransferExactCorrect == SyncSpec => []TransferExact
<1>1. TransferInv => TransferExact
  <2> SUFFICES ASSUME TransferInv PROVE TransferExact
    OBVIOUS
  <2>1. Accounted
    BY DEF TransferInv, RowsAgree, Accounted
  <2>2. \A o \in OpType : OpOK(o)
    BY DEF OpType, OpOK
  <2>3. SyncTypeOK
    BY <2>2 DEF TransferInv, RowsTyped, SyncTypeOK, Mutation, Asked, WorkType
  <2> QED
    BY <2>1, <2>3 DEF TransferInv, TransferExact
<1> QED
  BY <1>1, TransferCorrect, PTL

\* Each idempotency key moved the operation once, and the mirror of every device is a
\* beginning of the operation's history (_mutate, append_sync_queue_state).
THEOREM DeviceAgreesCorrect == SyncSpec => []DeviceAgrees
<1>1. TransferInv => DeviceAgrees
  <2> SUFFICES ASSUME TransferInv PROVE DeviceAgrees
    OBVIOUS
  <2>1. AppliedOnce
    BY DEF TransferInv, Versions, AppliedOnce
  <2>2. ASSUME NEW d \in Devices PROVE IsPrefix(mirror[d], hist)
    <3>1. mirror[d] \in Seq(Version) /\ hist \in Seq(Version) /\ Len(mirror[d]) <= Len(hist)
          /\ \A n \in 1..Len(mirror[d]) : mirror[d][n] = hist[n]
      BY DEF TransferInv, RowsTyped, Mirrored
    <3> QED
      BY <3>1 DEF IsPrefix
  <2> QED
    BY <2>1, <2>2 DEF DeviceAgrees, MirrorExact
<1> QED
  BY <1>1, TransferCorrect, PTL

\* An approval that was taken is never replaced, and an operation whose index requests
\* were made never changes again (guard_sync_operation_update).
THEOREM DecisionsStayCorrect == SyncSpec => DecisionsStay
<1>1. ASSUME TransferInv, [SyncNext]_syncVars
      PROVE  /\ op.approved # {} => op'.approved = op.approved
             /\ op.state = "reindex_requested" => op' = op
  <2>1. CASE op' = op
    BY <2>1
  <2>2. CASE Commit
    BY <1>1, <2>2, CommitMoves
  <2>3. ASSUME NEW d \in Devices, CreateOperation(d)
        PROVE  op.state = "none" /\ op.approved = {}
    BY <1>1, <2>3 DEF CreateOperation, TransferInv, RowsAgree
  <2>4. op' = op \/ Commit \/ \E d \in Devices : CreateOperation(d)
    BY <1>1, ZenonT(60) DEF SyncNext, syncVars, Approve, TransferBatch, ResolveConflict, Begin, AnswerAgain, Status,
                PersistProjection, LoseAnswer, SkipCompleted, DependencyMissing, RecordConflict,
                SubmitObject, TransmitSource, ImportBundle, ImportRefused, CommitRefused, Abort, Leave
  <2> QED
    BY <2>1, <2>2, <2>3, <2>4
<1>2. TransferInv /\ [SyncNext]_syncVars =>
        /\ [op.approved # {} => op'.approved = op.approved]_syncVars
        /\ [op.state = "reindex_requested" => op' = op]_syncVars
  BY <1>1
<1> QED
  BY <1>2, TransferCorrect, PTL DEF SyncSpec, DecisionsStay, ApprovalFixed, ReindexFinal
=============================================================================
