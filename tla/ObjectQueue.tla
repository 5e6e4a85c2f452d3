---------------------------- MODULE ObjectQueue ----------------------------
(***************************************************************************)
(* The durable object queue: object_queue.py over the tables of migration  *)
(* 0002.  A client stages a blob and registers it (two steps, one of them  *)
(* outside the database); worker processes claim the promotion job, copy   *)
(* staging to final, verify the copy and complete or fail the job under an *)
(* optimistic lease.  Every database transaction is one action, every call *)
(* to the object store is one action, and processes interleave in between. *)
(*                                                                         *)
(* A blob is its bytes; a SHA-256 digest is represented by the bytes it is *)
(* the digest of.  Wall-clock time is two flags of a job row, `due' and    *)
(* `expired', that time may raise at any moment.                           *)
(***************************************************************************)
EXTENDS Naturals, FiniteSets

CONSTANTS
  Objects,      \* object ids
  Jobs,         \* job ids; a job and its outbox event are created together
  Actors,       \* created_by
  Keys,         \* idempotency keys
  Bytes,        \* blob contents
  Size,         \* Size[b]: the length of b
  IdOf,         \* IdOf[a, k]: the hash of (actor, key) that source_upload names an object by
  FreshIds,     \* ids of the id factory, which sync transfers and bundle imports use
  ReprocessKeys,\* idempotency keys of reprocess requests
  Clients,      \* threads that submit
  Procs,        \* threads that work
  WorkerIds,    \* lease_owner values
  IdOfWorker,   \* IdOfWorker[p]: the worker_id thread p was given
  MaxAttempts,  \* RetryPolicy.max_attempts
  MaxDisturbances, \* bound on crashes and premature lease expirations
  MaxSent,      \* bound on different submissions
  None          \* SQL NULL, or an absent row

ASSUME QueueAssumption ==
  /\ MaxAttempts \in Nat \ {0}
  /\ MaxDisturbances \in Nat /\ MaxSent \in Nat
  /\ FreshIds \subseteq Objects
  /\ IdOf \in [Actors \X Keys -> Objects \ FreshIds]
  /\ IdOfWorker \in [Procs -> WorkerIds]
  /\ Size \in [Bytes -> Nat]
  /\ None \notin Bytes \cup Objects \cup Jobs \cup Actors \cup Keys
       \cup WorkerIds \cup ReprocessKeys

\* The hash tells actors and keys apart.
ASSUME IdsDiffer == \A x, y \in Actors \X Keys : IdOf[x] = IdOf[y] => x = y

VARIABLES
  staging,   \* staging[o]: bytes under the staging key of o
  final,     \* final[o]: bytes under the final key of o
  record,    \* object_records
  job,       \* durable_jobs
  outbox,    \* object_outbox_events.status, by the job that owns the event
  attempts,  \* job_attempts: <<job, attempt_number, outcome>>
  client,    \* what each submitting thread holds between its two steps
  work,      \* what each worker thread holds between its steps
  running,   \* the worker threads that poll: upload requests, or object_worker's thread
  sent,      \* history: <<object, actor, key, bytes>> of every blob staged
  disturbed  \* disturbances so far

store == <<staging, final>>
tables == <<record, job, outbox, attempts>>
rest == <<running, sent, disturbed>>
vars == <<staging, final, record, job, outbox, attempts, client, work, running, sent,
          disturbed>>

JobState == {"absent", "pending", "leased", "retry_wait", "completed", "dead_letter"}
Terminal == {"completed", "dead_letter"}
OutboxState == {"absent", "pending", "dispatched", "completed", "failed"}

NoRecord == [status |-> "absent", bytes |-> None, actor |-> None, key |-> None]
NoJob == [state |-> "absent", object |-> None, dedup |-> <<None, None>>, attempt |-> 0,
          version |-> 0, owner |-> None, due |-> FALSE, expired |-> FALSE]
IdleClient == [phase |-> "idle", object |-> None, actor |-> None, key |-> None,
               bytes |-> None]
IdleWork == [phase |-> "idle", job |-> None, attempt |-> 0, version |-> 0,
             retryable |-> FALSE]

RecordRow == [status: {"absent", "pending", "completed", "failed"},
              bytes: Bytes \cup {None}, actor: Actors \cup {None}, key: Keys \cup {None}]
\* The deduplication key of a submitted job is its idempotency key; that of a
\* reprocessed one is "reprocess:<old job>:<key>".
Dedup == ({None} \X (Keys \cup {None})) \cup (Jobs \X ReprocessKeys)
JobRow == [state: JobState, object: Objects \cup {None}, dedup: Dedup, attempt: Nat,
           version: Nat, owner: WorkerIds \cup {None}, due: BOOLEAN, expired: BOOLEAN]
ClientState == [phase: {"idle", "staged"}, object: Objects \cup {None},
                actor: Actors \cup {None}, key: Keys \cup {None},
                bytes: Bytes \cup {None}]
WorkState == [phase: {"idle", "claimed", "copied", "verified", "failing"},
              job: Jobs \cup {None}, attempt: Nat, version: Nat, retryable: BOOLEAN]

Init ==
  /\ staging = [o \in Objects |-> None]
  /\ final = [o \in Objects |-> None]
  /\ record = [o \in Objects |-> NoRecord]
  /\ job = [j \in Jobs |-> NoJob]
  /\ outbox = [j \in Jobs |-> "absent"]
  /\ attempts = {}
  /\ client = [c \in Clients |-> IdleClient]
  /\ work = [p \in Procs |-> IdleWork]
  /\ running = {}
  /\ sent = {}
  /\ disturbed = 0

---------------------------------------------------------------------------
(* ObjectQueueCoordinator.submit: put_staged, then register_object_job.    *)

\* The id a submission works with: an upload's is a hash of who and which key, the others
\* take one the id factory has never produced before.
\* Mutant: the hash leaves out the actor.
ChoosesIdByKey(a, k, o) ==
  o = IdOf[<<CHOOSE b \in Actors : TRUE, k>>] \/ (o \in FreshIds /\ staging[o] = None)
ChoosesId(a, k, o) == o = IdOf[<<a, k>>] \/ (o \in FreshIds /\ staging[o] = None)

PutStaged(c, a, k, b, o) ==
  /\ client[c].phase = "idle"
  /\ ChoosesId(a, k, o)
  /\ Cardinality(sent \cup {<<o, a, k, b>>}) <= MaxSent
  /\ staging' = [staging EXCEPT ![o] = b]
  /\ client' = [client EXCEPT ![c] =
       [phase |-> "staged", object |-> o, actor |-> a, key |-> k, bytes |-> b]]
  /\ sent' = sent \cup {<<o, a, k, b>>}
  /\ UNCHANGED <<final, tables, work, running, disturbed>>

\* The rows a submission with this actor and key already has.
Replayed(a, k) == {o \in Objects : record[o].status # "absent"
                                   /\ record[o].actor = a /\ record[o].key = k}
DedupTaken(d) == \E j \in Jobs : job[j].state # "absent" /\ job[j].dedup = d

\* The first registration: object, outbox event and job in one transaction.
Register(c, j) ==
  LET s == client[c] IN
  /\ s.phase = "staged"
  /\ Replayed(s.actor, s.key) = {}
  /\ record[s.object].status = "absent"
  /\ ~DedupTaken(<<None, s.key>>)
  /\ job[j].state = "absent"
  /\ record' = [record EXCEPT ![s.object] =
       [status |-> "pending", bytes |-> s.bytes, actor |-> s.actor, key |-> s.key]]
  /\ job' = [job EXCEPT ![j] =
       [state |-> "pending", object |-> s.object, dedup |-> <<None, s.key>>,
        attempt |-> 0, version |-> 1, owner |-> None, due |-> TRUE, expired |-> FALSE]]
  /\ outbox' = [outbox EXCEPT ![j] = "pending"]
  /\ client' = [client EXCEPT ![c] = IdleClient]
  /\ UNCHANGED <<store, attempts, work, rest>>

\* The same actor used the key before: for the same bytes the stored rows are
\* the answer, for other bytes the request is refused (IDEMPOTENCY_KEY_REUSED).
\* Either way the blob was staged already.
Replay(c) ==
  /\ client[c].phase = "staged"
  /\ \E o \in Replayed(client[c].actor, client[c].key) : record[o].bytes = client[c].bytes
  /\ client' = [client EXCEPT ![c] = IdleClient]
  /\ UNCHANGED <<store, tables, work, rest>>

KeyReused(c) ==
  /\ client[c].phase = "staged"
  /\ \E o \in Replayed(client[c].actor, client[c].key) : record[o].bytes # client[c].bytes
  /\ client' = [client EXCEPT ![c] = IdleClient]
  /\ UNCHANGED <<store, tables, work, rest>>

\* The licence refuses, another actor holds the deduplication key, the database
\* fails, or the thread dies between its two steps.
RegisterRefused(c) ==
  /\ client[c].phase = "staged"
  /\ client' = [client EXCEPT ![c] = IdleClient]
  /\ UNCHANGED <<store, tables, work, rest>>

---------------------------------------------------------------------------
(* DurableObjectWorker.run_once                                            *)

\* Mutant: expired leases are not taken over.
ClaimableNoTakeover(j) == job[j].state \in {"pending", "retry_wait"} /\ job[j].due
Claimable(j) ==
  \/ job[j].state \in {"pending", "retry_wait"} /\ job[j].due
  \/ job[j].state = "leased" /\ job[j].expired

NextAttempt(j) == job[j].attempt + 1

Claim(p, j) ==
  /\ p \in running
  /\ work[p].phase = "idle"
  /\ Claimable(j)
  /\ job' = [job EXCEPT ![j] =
       [state |-> "leased", object |-> job[j].object, dedup |-> job[j].dedup,
        attempt |-> NextAttempt(j), version |-> job[j].version + 1,
        owner |-> IdOfWorker[p], due |-> TRUE, expired |-> FALSE]]
  /\ outbox' = [outbox EXCEPT ![j] = "dispatched"]
  /\ work' = [work EXCEPT ![p] =
       [phase |-> "claimed", job |-> j, attempt |-> NextAttempt(j),
        version |-> job[j].version + 1, retryable |-> FALSE]]
  /\ UNCHANGED <<store, record, attempts, client, rest>>

ObjectOf(p) == job[work[p].job].object
Moves(p, phase, retryable) ==
  work' = [work EXCEPT ![p] =
    [phase |-> phase, job |-> work[p].job, attempt |-> work[p].attempt,
     version |-> work[p].version, retryable |-> retryable]]

\* promote: the server-side copy.  It replaces the metadata of the copy by the
\* record's digest, whatever bytes were copied.
Copy(p) ==
  /\ work[p].phase = "claimed"
  /\ staging[ObjectOf(p)] # None
  /\ final' = [final EXCEPT ![ObjectOf(p)] = staging[ObjectOf(p)]]
  /\ Moves(p, "copied", FALSE)
  /\ UNCHANGED <<staging, tables, client, rest>>

\* Copy or stat: the object store refuses (final) or is unavailable (retryable).
StoreFails(p) ==
  /\ work[p].phase \in {"claimed", "copied"}
  /\ \E retryable \in BOOLEAN : Moves(p, "failing", retryable)
  /\ UNCHANGED <<store, tables, client, rest>>

\* _stat_verified reads back the size of the copy; the digest it compares is the
\* one Copy stamped.
Verify(p) ==
  /\ work[p].phase = "copied"
  /\ IF Size[final[ObjectOf(p)]] = Size[record[ObjectOf(p)].bytes]
     THEN Moves(p, "verified", FALSE)
     ELSE Moves(p, "failing", FALSE)
  /\ UNCHANGED <<store, tables, client, rest>>

\* _assert_lease.  `now' was read before the claim, so lease_until <= now never
\* holds here: an expired lease that nobody took over still passes.
\* Mutant: the version is not compared.
HoldsLeaseByOwner(p) ==
  job[work[p].job].state = "leased" /\ job[work[p].job].owner = IdOfWorker[p]
HoldsLease(p) ==
  /\ job[work[p].job].state = "leased"
  /\ job[work[p].job].version = work[p].version
  /\ job[work[p].job].owner = IdOfWorker[p]

\* The row of a job that leaves its lease.
Released(j, state) ==
  [state |-> state, object |-> job[j].object, dedup |-> job[j].dedup,
   attempt |-> job[j].attempt, version |-> job[j].version + 1, owner |-> None,
   due |-> FALSE, expired |-> FALSE]

CompleteTransaction(p) ==
  LET j == work[p].job  o == ObjectOf(p) IN
  /\ HoldsLease(p)
  /\ record' = [record EXCEPT ![o].status = "completed"]
  /\ job' = [job EXCEPT ![j] = Released(j, "completed")]
  /\ outbox' = [outbox EXCEPT ![j] = "completed"]
  /\ attempts' = attempts \cup {<<j, work[p].attempt, "completed">>}

Complete(p) ==
  /\ work[p].phase = "verified"
  /\ CompleteTransaction(p)
  /\ work' = [work EXCEPT ![p] = IdleWork]
  /\ UNCHANGED <<store, client, rest>>

\* The commit happened and its acknowledgement was lost: process_claimed goes on
\* to fail().
CompleteUnacknowledged(p) ==
  /\ work[p].phase = "verified"
  /\ CompleteTransaction(p)
  /\ Moves(p, "failing", TRUE)
  /\ UNCHANGED <<store, client, rest>>

\* JOB_LEASE_LOST, or the database refused: process_claimed calls fail().
CompleteRefused(p) ==
  /\ work[p].phase = "verified"
  /\ \E retryable \in BOOLEAN : Moves(p, "failing", retryable)
  /\ UNCHANGED <<store, tables, client, rest>>

Retries(p) == work[p].retryable /\ work[p].attempt < MaxAttempts

OutboxAfterFail(p) == IF Retries(p) THEN "dispatched" ELSE "failed"
\* Mutant: the object of a dead letter is left pending.
RecordAfterFailForgotten(p) == record
RecordAfterFail(p) ==
  IF Retries(p) THEN record ELSE [record EXCEPT ![ObjectOf(p)].status = "failed"]

Fail(p) ==
  LET j == work[p].job
      state == IF Retries(p) THEN "retry_wait" ELSE "dead_letter" IN
  /\ work[p].phase = "failing"
  /\ HoldsLease(p)
  /\ job' = [job EXCEPT ![j] = Released(j, state)]
  /\ outbox' = [outbox EXCEPT ![j] = OutboxAfterFail(p)]
  /\ record' = RecordAfterFail(p)
  /\ attempts' = attempts \cup {<<j, work[p].attempt, state>>}
  /\ work' = [work EXCEPT ![p] = IdleWork]
  /\ UNCHANGED <<store, client, rest>>

\* fail() finds the lease gone and raises; the worker loop swallows it.
FailLeaseLost(p) ==
  /\ work[p].phase = "failing"
  /\ ~HoldsLease(p)
  /\ work' = [work EXCEPT ![p] = IdleWork]
  /\ UNCHANGED <<store, tables, client, rest>>

---------------------------------------------------------------------------
(* Time, crashes and operators                                             *)

BecomesDue(j) ==
  /\ job[j].state \in {"pending", "retry_wait"}
  /\ ~job[j].due
  /\ job' = [job EXCEPT ![j].due = TRUE]
  /\ UNCHANGED <<store, record, outbox, attempts, client, work, rest>>

Owned(j) == \E p \in Procs : work[p].phase # "idle" /\ work[p].job = j /\ HoldsLease(p)

\* A lease nobody works under runs out.
LeaseExpires(j) ==
  /\ job[j].state = "leased"
  /\ ~job[j].expired
  /\ ~Owned(j)
  /\ job' = [job EXCEPT ![j].expired = TRUE]
  /\ UNCHANGED <<store, record, outbox, attempts, client, work, rest>>

\* A lease runs out under a slow worker, who goes on.
LeaseExpiresEarly(j) ==
  /\ job[j].state = "leased"
  /\ ~job[j].expired
  /\ Owned(j)
  /\ disturbed < MaxDisturbances
  /\ disturbed' = disturbed + 1
  /\ job' = [job EXCEPT ![j].expired = TRUE]
  /\ UNCHANGED <<store, record, outbox, attempts, client, work, running, sent>>

\* A thread dies at work, or an error outside process_claimed's try (get_object, the
\* fail transaction) drops what it was doing: a retryable one leaves it polling, any
\* other ends it.
Crash(p) ==
  /\ work[p].phase # "idle"
  /\ disturbed < MaxDisturbances
  /\ disturbed' = disturbed + 1
  /\ work' = [work EXCEPT ![p] = IdleWork]
  /\ \E ends \in SUBSET {p} : running' = running \ ends
  /\ UNCHANGED <<store, tables, client, sent>>

\* An upload request or the object worker starts to poll.
Starts(p) ==
  /\ p \notin running
  /\ running' = running \cup {p}
  /\ UNCHANGED <<store, tables, client, work, sent, disturbed>>

\* It polls no more: an upload sees its object settled or has polled 64 times, the claim
\* meets an error that is not retryable, or somebody stops the worker.
Ends(p) ==
  /\ p \in running
  /\ work[p].phase = "idle"
  /\ running' = running \ {p}
  /\ UNCHANGED <<store, tables, client, work, sent, disturbed>>

\* reprocess: a dead letter gets a new job; its own row is left alone.
Reprocess(j, rk, n) ==
  /\ ~DedupTaken(<<j, rk>>)
  /\ job[j].state = "dead_letter"
  /\ job[n].state = "absent"
  /\ outbox' = [outbox EXCEPT ![n] = "pending"]
  /\ job' = [job EXCEPT ![n] =
       [state |-> "pending", object |-> job[j].object, dedup |-> <<j, rk>>,
        attempt |-> 0, version |-> 1, owner |-> None, due |-> TRUE, expired |-> FALSE]]
  /\ record' = [record EXCEPT ![job[j].object].status = "pending"]
  /\ UNCHANGED <<store, attempts, client, work, rest>>

ProcessClaimed(p) ==
  \/ Copy(p) \/ StoreFails(p)
  \/ Verify(p)
  \/ Complete(p) \/ CompleteUnacknowledged(p) \/ CompleteRefused(p)
  \/ Fail(p) \/ FailLeaseLost(p)

Submit(c) ==
  \/ \E a \in Actors, k \in Keys, b \in Bytes, o \in Objects : PutStaged(c, a, k, b, o)
  \/ \E j \in Jobs : Register(c, j)
  \/ Replay(c) \/ KeyReused(c) \/ RegisterRefused(c)

Next ==
  \/ \E c \in Clients : Submit(c)
  \/ \E p \in Procs, j \in Jobs : Claim(p, j)
  \/ \E p \in Procs : ProcessClaimed(p)
  \/ \E p \in Procs : Crash(p) \/ Starts(p) \/ Ends(p)
  \/ \E j \in Jobs : BecomesDue(j) \/ LeaseExpires(j) \/ LeaseExpiresEarly(j)
  \/ \E j, n \in Jobs, rk \in ReprocessKeys : Reprocess(j, rk, n)

Spec == Init /\ [][Next]_vars

\* A thread that goes on running polls and finishes what it holds; clocks advance.
\* Nothing is assumed of clients, crashes or operators, nor that any thread runs.
Fairness ==
  /\ \A p \in Procs : WF_vars(\E j \in Jobs : Claim(p, j)) /\ WF_vars(ProcessClaimed(p))
  /\ \A j \in Jobs : WF_vars(BecomesDue(j)) /\ WF_vars(LeaseExpires(j))

FairSpec == Spec /\ Fairness

---------------------------------------------------------------------------
(* Properties                                                              *)

\* Every variable has its type.
TypeOK ==
  /\ staging \in [Objects -> Bytes \cup {None}]
  /\ final \in [Objects -> Bytes \cup {None}]
  /\ record \in [Objects -> RecordRow]
  /\ job \in [Jobs -> JobRow]
  /\ outbox \in [Jobs -> OutboxState]
  /\ attempts \in SUBSET (Jobs \X Nat \X {"completed", "retry_wait", "dead_letter"})
  /\ client \in [Clients -> ClientState]
  /\ work \in [Procs -> WorkState]
  /\ running \subseteq Procs
  /\ sent \subseteq Objects \X Actors \X Keys \X Bytes
  /\ disturbed \in Nat

\* Two threads never pass _assert_lease for one job at the same moment, even when
\* they share a worker_id (every API thread is "api-source-upload-worker").
Working(p) == work[p].phase # "idle" /\ HoldsLease(p)
LeaseExclusive ==
  \A p, q \in Procs : Working(p) /\ Working(q) /\ work[p].job = work[q].job => p = q

\* The INSERT into job_attempts at the end of complete and fail never meets its
\* primary key: no outcome was recorded yet for the attempt a lease holder works
\* on.  (A duplicate would surface as a non-retryable error and end the worker.)
AttemptUnrecorded ==
  \A p \in Procs : Working(p) =>
    \A a \in attempts : ~(a[1] = work[p].job /\ a[2] = work[p].attempt)

\* At most one outcome per attempt, and a final outcome only on the last one.
HistoryConsistent ==
  /\ \A a, b \in attempts : a[1] = b[1] /\ a[2] = b[2] => a[3] = b[3]
  /\ \A a \in attempts : a[3] \in Terminal =>
       job[a[1]].state = a[3] /\ job[a[1]].attempt = a[2]

\* The outbox event of a job says what became of it.
OutboxOf(state) == CASE state \in {"leased", "retry_wait"} -> "dispatched"
                     [] state = "dead_letter" -> "failed"
                     [] OTHER -> state
OutboxAgrees == \A j \in Jobs : outbox[j] = OutboxOf(job[j].state)

\* An object that still waits has a job that will settle it: reprocess and a late
\* failure of another job never leave it pending with nobody at work.
PendingHasJob ==
  \A o \in Objects : record[o].status = "pending" =>
    \E j \in Jobs : job[j].object = o /\ job[j].state \in {"pending", "leased", "retry_wait"}

\* What a completed job stored is what its record describes, or another blob that the same
\* actor staged for an upload under the same key: no other actor, no other key and no late
\* worker puts foreign bytes behind a digest, and an id of the factory never holds any.
CompletedExplained ==
  \A j \in Jobs : job[j].state = "completed" =>
    LET o == job[j].object IN
    \/ final[o] = record[o].bytes
    \/ o \notin FreshIds /\ <<o, record[o].actor, record[o].key, final[o]>> \in sent

\* A settled job row is never touched again: late workers, crashes and
\* reprocessing leave it alone.
SettledStays ==
  [][\A j \in Jobs : job[j].state \in Terminal => job'[j] = job[j]]_vars

\* As long as some thread goes on polling, every registered job is completed or
\* dead-lettered in the end: its own upload may give up, other threads may die holding it
\* and the store may fail.
SomeKeepsRunning == \E p \in Procs : <>[](p \in running)
EveryJobSettles ==
  SomeKeepsRunning =>
    \A j \in Jobs : job[j].state = "pending" ~> job[j].state \in Terminal

\* Threads that share one worker_id are fenced by the version of the lease, and the
\* attempt rows they file never collide and never contradict the job.
LeasesFenced == TypeOK /\ LeaseExclusive /\ AttemptUnrecorded /\ HistoryConsistent

\* The other two tables follow the job: the outbox event names its state, and an object
\* that waits has a job at work.
TablesFollow == OutboxAgrees /\ PendingHasJob

\* Every job settles while a thread polls, and what is settled stays.
SettleForGood == SettledStays /\ EveryJobSettles
=============================================================================
