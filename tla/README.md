# Daon User: TLA+ specifications of the durable work of the server and the local service

Daon User is a notebook application: users upload documents, the server stores and
understands them, answers questions over them, and generates Studio outputs from them.
The server is the Python package `services/api/src/daon_user_api` over PostgreSQL (schema
and SQL functions in `services/api/migrations/versions`) and an S3-compatible object store.
Requests run in API threads; three kinds of workers poll durable tables. Almost everything
that is hard to test is in the work that outlives a request: leases that run out under a slow
worker, processes that die between two transactions, commits whose answer is lost, and
several stores (tables, blobs, a paid provider) that have to agree in the end. That is what
these modules model.

## 1. Inventory

| Part | State it keeps | Operations | Hard behaviour | What makes it correct |
|---|---|---|---|---|
| Durable object queue (`object_queue.py`, migration 0002) | staged and final blobs; `object_records`, `durable_jobs`, `object_outbox_events`, `job_attempts` | submit (stage, register), claim, copy, verify, complete, fail, reprocess | staging happens outside the transaction; threads share one `worker_id`; lease expiry; lost acknowledgements | one lease holder at a time; history and outbox agree with the job; a completed object holds what its actor sent under its key; every job settles while a thread polls |
| Studio generation (`studio_execution*.py`, `studio_generation_*.py`, migrations 0024, 0027, 0028) | plan, step-up, job, dispatch row, run, terminal row, cost ledger, output | prepare, authorize, admit, claim, dispatch, send, finish, mark uncertain, recover; legacy enqueue, generate, retry | a paid call between two transactions, a 600 s lease that nobody renews, a world that changes between planning and publication | the provider is called at most once; records agree; consent precedes the call; settled is final; jobs settle |
| Document processing (`document_processing*.py`, `document_index_postgres.py`, migrations 0003, 0008, 0011) | source, processing runs, results, index, jobs, attempt history | start, reprocess, claim with takeover, load, understand, complete, fail, index, close | completion and indexing do not look at the lease; models answer differently each time; old workers meet new runs | a source shows the outcome of its newest run; verdicts are final; late workers are harmless; failed sources can be processed again |
| Data canon (`data_canon.py`, migration 0003) | state and version of sources, runs, outputs; transition events | transition with an idempotent id; register uploaded source; bind to notebook | replay of a transition; the same upload twice | states move along declared edges only; one event per version |
| Source upload (`source_upload.py`) | none of its own | look up digest, submit, wait for promotion, register, start processing | check-then-act over four transactions | identical content stored once; refused upload leaves nothing |
| Notebooks and their deletion (`notebook_postgres.py`, `notebook_deletion.py`, `source_deletion_cleanup.py`, migrations 0020, 0023, 0063) | notebooks, bindings, deletion requests, cleanup objects | request, delete scope, delete blobs, finish, fail, resume | rows and blobs go in two steps; crash in between; sources shared by notebooks | nothing shared or held is deleted; every accepted request ends |
| Synchronisation (`sync*.py`, migration 0004, `offline_sync_bridge.rs`) | sync operations, items, conflicts, reindex requests; the mirror of a device | create, approve, transfer batch, resolve conflict, status | objects and imports commit while the operation's row is held; repeated keys; lost answers | what an operation claims is stored; outputs come after their sources; a request is applied once; the mirror is a prefix of the history |
| Identity, sessions, user administration (`identity*.py`, `account_settings*.py`, `android_browser_auth.py`) | accounts, sessions, devices, refresh families, step-up grants, login codes, audit intents | sign up, log in, rotate, switch tenant, step up, revoke, suspend, reset | ten operations revoke sessions; a rotated token comes back; one-shot credentials | session, family and device end together and for good; suspended or changed accounts are out; credentials work once |
| Membership (`organization_*.py`, `admin_membership_roles.py`) | invitations, join requests, memberships, roles, `acl_version`, two tables of receipts | invite, revoke, ask to join, decide, change a role (two ways), suspend, deliver receipts | two components change one role; a sweep with cursor and watermark meets refused receipts | roles are explained by receipts; a workspace keeps an administrator; every receipt that can be delivered is |
| Question answering and egress (`question_*.py`, `egress_policy*.py`, `notebook_conversation*.py`) | turns, grounding, runs, policy versions, approvals | authorize, ask, replay, wait for the owner, call, store | requests that share a key; a policy of two scopes read twice; an owner that dies | one call, approved for what is sent; notice or run, never both; every request ends |
| Backup and restore (`recovery_postgres.py`, `recovery_*capture.py`, `recovery_lineage_restore.py`, migrations 0006, 0070) | capture directories, lock files, ledger, previews, journal, destination | back up a selection, preview, execute, cancel | files and rows commit apart; a guard's connection drops under its executor | what the ledger names can be read; each phase is written once; one outcome |
| Notifications (`notification*.py`, migration 0069) | source rows, notifications, audit intents, receipts of reading, cursors of the loop | enqueue, materialise, project, deliver, read | two loops, rights checked twice, pages and cursors, restarts | a source and its notification agree; outboxes drain |
| Local service (`local_storage.py`, `offline_studio.py`, `recovery.py`) | encrypted files, rows, envelopes, drafts, previews, recovery jobs | import, prepare, confirm, generate, edit, queue, scan, repair | each write commits alone, the process dies between any two; time passes; edits are repeated | what is listed can be read; half-done work is explained by a fault; nothing known to be revoked is sent; an edit is applied once |
| Readiness, settings, licence, connectors, packages, user interfaces | settings with versions, limits, view state | change, enforce, fetch, show | settings change under running work | see sections 6 and 7 |

How they interact: an upload looks a digest up in the canon, submits to the object queue,
drives it until the blob is promoted, registers a Source and starts document processing;
document processing reads the blob and moves the Source through the canon; a Studio job reads
ready sources, consumes a step-up of identity and calls a provider under an egress policy;
a question does the same under an idempotency key; synchronisation hands objects to the queue
and imports outputs the local service drafted; deletion removes what all of them wrote. Role
changes, logins, policies and outputs leave source rows for notifications and receipts for the
audit store, which one retry loop of each API process delivers. Components share tables, never memory: every
interaction is a transaction, so a transaction is the unit of interleaving everywhere below.

`PROJECT.json` lists every component with its status, and under `hazards` the places in the
code where these behaviours bite.

## 2. Modelling conventions

* **One transaction, one action.** PostgreSQL transactions with row locks (`FOR UPDATE`,
  advisory locks) are atomic. Every call outside a transaction (object store, model, provider)
  is an action of its own, and any other process may run between two actions.
* **A lost acknowledgement** is an action of its own or a parameter `ack`: the commit took
  place, the caller behaves as after an error.
* **Time** is abstracted to flags of a row: `due` (`next_attempt_at` has passed) and `expired`
  (`lease_until` has passed). A lease nobody works under expires freely; one that
  expires under a live worker, and the death of a worker, are *disturbances* bounded by
  `MaxDisturbances`. Expiry does not stop the worker: it goes on and meets its successor.
* **Digests** are represented by the bytes they are the digest of; blob contents are model
  values with a length. Ids are model values; ids that the code derives from other values are
  functions of those values (`IdOf`, the pair `<<source, n>>` of a run).
* **Errors** are control, so they stay: each place where the code can raise is an alternative,
  with the handler that the code runs for it. Messages, codes and logging are left out.
* **Repeated keys.** A repeated request that is answered from a stored row changes nothing and is
  a stuttering step; where the look-up and the write are apart, both are actions.
* **Versions as data.** A policy, a selection, a decision or a password is the number of its
  version: the properties only ask whether two readers saw the same one.
* Each mutated definition that a mutant run uses stands directly before the definition it
  replaces and is named for the bug.

## 3. Modules

| Module | Contents |
|---|---|
| `ObjectQueue` | the object queue with its blobs, tables, submitting threads and worker threads |
| `StudioGeneration` | planning, admission, queue, typed and legacy execution |
| `SourceLifecycle` | abstract: the rounds and verdicts of a source |
| `DocumentProcessing` | runs, jobs, workers, results and index; instantiates `SourceLifecycle` as a refinement |
| `SourceDeletion` | uploads, bindings and legal holds against the deletion of notebooks and of sources |
| `Identity` | accounts, sessions, refresh families, grants, codes and their audit intents |
| `Membership` | invitations, join requests, roles and the delivery of their receipts |
| `QuestionAnswering` | the requests that share one key of a question, with the egress policies |
| `SyncTransfer` | one synchronisation operation, its transfers, imports and mirrors |
| `BackupCapture` | requests for backups, both capture stores and the ledger |
| `RegisteredRestore` | previews, executions and cancellation of one restore |
| `OfflineStudio` | the local service: encrypted store, imports, drafts, recovery jobs |
| `Notifications` | source rows, retry loops, notifications, audit intents, reading |
| `MC...` | constants and symmetry for TLC |
| `...Proofs` | theorems and proofs. Each has the name of a module whose proofs it holds; those of a second module, which shares no definition with the first, follow them in the same file: `SyncTransfer` in `ObjectQueueProofs`, `OfflineStudio` in `IdentityProofs`, `Notifications` in `BackupCaptureProofs`, `Membership` in `RegisteredRestoreProofs`. Names such as `SyncSpec`, `OfflineInit`, `InboxNext` or `MemberTypeOK` keep the two apart. `StudioGenerationProofs`, `DocumentProcessingProofs`, `SourceDeletionProofs` and `QuestionAnsweringProofs` are about one module |

### ObjectQueue

`PutStaged` and the four outcomes of `register_object_job` (`Register`, `Replay`, `KeyReused`,
`RegisterRefused`) are `ObjectQueueCoordinator.submit`. The blob is in the store before the
registration is decided. `Claim`, `Copy`, `Verify`, `Complete` and `Fail` with their error
branches are `DurableObjectWorker.run_once` and `process_claimed`. `HoldsLease` is
`_assert_lease`; its time comparison is absent on purpose: the `now` it compares was read
before the claim, so it can never fire. `Copy` stamps the digest of the record on whatever it
copies and `Verify` reads back that stamp, so only the length is really verified. Both ways of
choosing an object id are modelled side by side: `IdOf` gives an upload the id of its actor and key
(`source_upload.py:129`), all other submissions take one of `FreshIds` (the default id factory).
`sent` remembers what each actor sent under each key. `running` is the set of threads that poll:
`Starts` is an upload that drives its own job or the object worker's first round, `Ends` an upload
that has seen its object settled or given up after 64 rounds, a thread that a non-retryable error of
`run_once` ended, or a stop. Nothing restarts a thread.

### StudioGeneration

`Prepare`, `IssueGrant`, `ConsumeGrant`, `Admit` and `EnqueueLegacy` are the API's side.
`Claim` is the SQL function of migration 0027, which orders by `next_attempt_at` and compares
the attempt budget after the choice. `Look`, `Open`, `Dispatch`, `Send`, `Finish`,
`MarkUncertain`, `Recover` and `FailJob` are the typed execution; `Generate`, `Retry` and
`Conclude` the template branch. Everything `_current` compares before a dispatch or a
publication (model, sources, session, policy) is one version number per job, `world[j]`: the
plan remembers the number it was made from. `sent` counts provider calls; the code has no
such counter, which is the point of `SentAtMostOnce`.

### DocumentProcessing and SourceLifecycle

A job is the pair of a source and the number of its run. `Submit` is `start`, `Reprocess` the
manual retry with its two conditions, `Claim` the SQL function of migration 0011 with the
`lease_lost` row of a takeover. `Load` to `Close` are the five steps of a worker. What a model
answers is a member of `Facts`, or "review" when it found conflicting facts: two attempts at
one run may get different answers. The formats differ in two ways only, which the sets `Bound`
(xlsx, docx, pptx, wav: the completing transaction insists on an untouched run) and
`Reviewable` (docx, pptx: a reviewed source may be processed again) express.
`SourceLifecycle` is what users are promised: rounds, each with one verdict, and a new round
only after a verdict that permits one. The refinement mapping is `state <- source`,
`round <- latest`. Each source has one version, as the upload path creates it.

### SourceDeletion

The source is what one upload key creates: a source, one version and one object with the same
id, whose blobs are a staged and a final copy. `Upload`, `Store` and `Register` are
`register_source` (digest lookup, submission with the promotion `ObjectQueue` models,
registration); `Bind` is the insertion of a binding, separated from the read of the source by
anything another transaction commits. `InScope`, `Shared` and `Deletable` are the checks of the
SQL function `delete_notebook_scope`, `RemoveScope` its deletions: the function runs under READ
COMMITTED without locking what it checks, so a check and the removal are two actions of one
transaction. Whatever makes the transaction fail in between is `RemovalFails`. `Process` is the
task the route starts; it lives in the API process, so `ProcessDies` ends it, and the restart
brings nothing back because the worker is built without a context factory.
`Stage` is `stage_source_cleanup`, atomic because it holds the advisory lock of its source, which
the triggers on new bindings, versions and holds take too (`SourceFenced`, `ObjectFenced`).
`DeleteOne`, `DeleteUnrecorded` and `DeleteRefused` are the three outcomes of `delete_one`;
concurrent calls of `execute` for one request are serialised by `lock_source_cleanup_request`,
so the model needs no caller. `finish` is no action: once the last key is acknowledged the
request is already purged, and before that it changes nothing. `held` is the set of sources with at
least one active hold; releasing one hold of several changes nothing here. Refusals of `Stage` by
rows of other components (running jobs, citations) only make it happen less often. So do the
role, the step-up, the source's access list and the rule that only the requester retries, which
`CanGoOn` leaves out: they refuse an attempt and write nothing.

### Identity

Every operation of `identity.py` and of the services that share its repository is one action: the
repository's lock serialises transactions. `RotateRefresh` and `ReplayRefresh` are the two
outcomes of `rotate_refresh`; `AppendEvent` and `Mark` are the dispatch of audit intents, which is not
under the lock. A replayed refresh token whose audit cannot be written revokes nothing, because revocation and
audit are one transaction. An account with `first` is the protected first administrator, which the
first start created before anything else (`Init`): it logs in although
no mail address was verified, nobody suspends or deletes it, and `ResetInitialAdmin` is the reset
from the server's console, which gives back the first password and ends every session. An expired
credential is one that nobody presents. Two exceptions are in the
properties, because the code has them: a browser code authorized before a password change opens a
session after it, and OIDC accounts are not in `SuspendedOut`.

### Membership

Both components lock the row of the workspace before they read anything else
(`_lock_management_target`, `lock_admin_workspace`), so an operation is an action, and the version
the caller saw is its parameter: any older version may be presented. The receipts of the
organization are stamped under that lock, those of the system administrator before it; this is why
`ChangeWorkspaceRole` may fill any free position of its table while `Record` fills the next.
`ReadAdminPage` keeps the two looks of `_dispatch_pending_audit`. `poison` is a receipt the store refuses for
good, which the code skips with `continue`. The receipt of an approved request names the request in
the code; here it carries the role the decision gave, because the properties read the receipts of a
user as the history of the role.

### QuestionAnswering

All rows and locks of a question carry the run id derived from its key, so the module has one key
and several requests with it. `Admit` starts an authorization or a question; `Step` is the next
transaction or call of the route (an `IssueGrant` may be refused: a wrong or missing password, a
role that may not approve), from the replay look-up over grounding, both reads of the policy,
approval and claim to the provider's answer and the stored run; `Disconnect` is a client that leaves.
The environment changes policies (with the separate check of the parent's), settings and the source.

### SyncTransfer

A mutation holds the operation's row; its items are handled one by one (`SubmitObject`,
`TransmitSource`, `ImportBundle`, `RecordConflict` and the refusals) and their objects and imports
stay when `Abort` or `CommitRefused` undoes the operation. `AnswerAgain`, `Status`, `PersistProjection` and
`LoseAnswer` are the device's side. The triggers of the table are guards of `Commit`. `Importable`
looks at the targets of the one operation; the code looks at those of the workspace, so an output
whose source another operation brought is refused here and accepted there.

### BackupCapture and RegisteredRestore

`BackupCapture` has both capture stores: the order of directory, owner marker, data and receipt is
kept, because what a discard may remove depends on it. The advisory lock of the key ends with the
transaction or the process, the lock file of the lineage store does not: a death leaves it, and so
do a write of the lock that fails half way, a cleanup that fails or must not be tried (the handler
then keeps lock and files and answers 503), and an unlink that fails beside a finished receipt
(`LockWriteFails`, `CleanupUncertain`, `KeepLock`). `Remains` is what a failed cleanup or discard
may leave of a directory. `RegisteredRestore` has one
request. An executor checks its guard between phases; between the check and the write anything may
happen, so two executors run at once after `LoseGuard`. The triggers of migrations 0006 and 0070 are
guards of the journal's entries.

### OfflineStudio

One process, one handler at a time; `job` is the handler and the write it is about to do. `Die`
comes between any two writes and `Open` is the start with `_recover_orphans`. `calls` counts provider
calls, which no table does. `lapsed` is the set of copies whose time is over: the projector compares
`expires_at` when it prepares a context, the resolver that fetches the text for the provider compares
the recorded state alone, so a copy may lapse in between and is sent. An edit is what a client
makes of the version it saw (`GetDraft`, `AppendEdit`); it may be sent again after a lost answer, and
`written` counts what became of it.

### Notifications

An event is a pair of business event and recipient, of one of the families the code has. What
each family's check needs is a set of facts, once as Python checks them and once as SQL does; a
change of a right removes or restores a fact. A tick of a loop is cut where the code's transactions
are cut: page, lock, check, materialise, commit, project, select, append, acknowledge. `Batch` is the
page of a consumer: the oldest `Limit` pending rows of the recipient, always from the beginning. A
change of a membership or of a rule concerns all events of a recipient, a change of a right to a
source one event. The consumers differ in what they check, not in their steps, so one batch action
stands for all of them; its lines are those of the consumer of role changes.

## 4. Runs

A run checks one or more compositions of named properties; the parts and what they say stand at the
end of each module.

| Run | Instance | Shows |
|---|---|---|
| `object_queue` | 2 uploaded objects of 2 actors with the same key, 2 different submissions of 2 blobs of one length, 2 jobs, 2 threads with one `worker_id` that come and go, 2 attempts, 1 disturbance, reprocess | `LeasesFenced`: leases exclude each other under a shared `worker_id`, attempt numbers are used once, history agrees; `TablesFollow`: outbox and pending objects agree with jobs; `CompletedExplained`: what is completed is what was accepted, or was sent by the same actor under the same key; `SettleForGood`: settled rows stay, and every job settles as long as some thread goes on polling |
| `studio_mixed` | a typed job with step-up, a legacy job, 2 workers, 3 attempts, 1 disturbance, 1 change of the world | `SentAtMostOnce`; `RecordsTrue`: job, run, verdict, ledger and output agree and consent comes first; `SettleForGood`: settled is final, and jobs settle unless an exhausted one heads the queue |
| `deletion_cleanup` | 2 notebooks, 1 source, 1 client, 2 deletion requests, 1 fault | `CleanupSafe`: a staged cleanup can be finished, brings nothing back, accounts for its content; `NotebookGone`; `SourcesKept`: until a notebook deletion is asked for, sources are readable, bindings have their source, held ones stay; `DeletionDecided` |
| `document` | a source in docx or pptx, 2 workers, 3 runs, 2 disturbances, 2 facts | `RunsAgree`, `HistoryExact`, `LateWorkersHarmless`, `ImplementsLifecycle` (refinement of `SourceLifecycle`), `JobsSettle` |
| `identity_sessions` | a password account (registered, or the first administrator) and an OIDC account, 2 sessions, a grant, a code, 2 passwords, 2 rotations, one request of an administrator or one trusted device | `SessionsAgree`, `LockedOut`, `UsedOnce`, `RevocationFinal` |
| `membership_access` | an applicant, a founder, an invitation with one use, 2 join requests, 4 + 2 receipts, pages of one row, 1 fault, at most one refused receipt | `AccessExplained`: the receipts of both components chain up to every role, invitations to the requests they let in, an administrator is left; `SweepReaches`: deliverable receipts are delivered |
| `question_turns` | 2 requests with one key, 2 settings versions (one external), 2 versions of each policy, 2 changes (a torn pair of policies needs two) | `CallsApproved`, `AnswersAgree`, `OwnersDecide` |
| `sync_transfer` | a source and an output made from it, 1 device, 2 keys, 5 versions, 2 faults | `TransferExact`, `DeviceAgrees`, `DecisionsStay` |
| `backup_ledger` | 3 requests, one key of each kind of backup, 2 selections, 1 fault: a death, a lost answer, a failing cleanup, unlock, lock write or discard | `BackupsKept`, `OneBackup`, `EndsMarked` |
| `restore_phases` | 2 executors, 1 previewer, 2 keys, 2 phases, 2 decisions, 3 starts, 2 faults | `PhasesExact`, `OneFate`, `EndsForGood` |
| `offline_crash` | a copy that may lapse, a raw source, 3 objects, a request with 2 keys, 2 edits of its draft and 3 versions, a preview, a recovery job, 1 provider failure, 2 faults | `StoreExplained`, `SentCurrent`, `DoneOnce`: a draft is paid for once, an edit applied once |
| `notification_inbox` | 2 processes, 1 recipient with two role changes in pages of one, or with a finished run and an approval notice, 2 changes of rights, 1 fault | `InboxExact`, `AuditedInOrder`, `DrainsForGood`: all but blocked rows and those a full page of blocked rows starves is settled, and what is settled stays |

**Why the bounds are enough.** A conflict needs an actor that lost its claim and one that took
over: two workers, executors, processes or requests, and one disturbance to bring it about. Two facts
distinguish "same answer" from "different answer"; two blobs of equal length are what the length
check cannot tell apart; two versions of a policy, a selection or a decision are "what was read" and
"what is there now". `MaxRuns = 3` gives a run with an older and a newer neighbour, and the source is in
a format whose completion is bound and whose review can be repeated, the one with most transitions.
Sources meet each other in `SourceDeletion` only through the scope of a notebook, which one source and
two notebooks already exercise; two requests are a failed deletion and its repetition. Pages of one
row make every second receipt a page of its own, so that a refused or waiting row can be in front of
another: the two role changes of `notification_inbox` share a recipient and a family, and the first may
wait for its audit, be refused by one check alone, or lose and regain its right while the second is
behind it. Recipients meet each other only in the order in which a loop visits them, so one recipient
is enough. A second submission under a used key and one of another actor under the same key need
`MaxSent = 2`; ids of the factory, which nobody writes twice, are left to the theorems. Three requests for backups on two keys are a failed request, its repetition and a neighbour
that shares the lock file. Two phases stand for seven: a phase meets its predecessor and the end.
Where one device, one client or one change suffices, it is because the others' effect on the shared
row is also that of a repetition. For the invariants that are proved, the bounds do not matter at
all. Deadlock checking is off where the system rests without new requests; it is on in
`sync_transfer` and `object_queue`.

**Fairness.** Weak fairness on each worker's `RunOnce` in `StudioGeneration` and `DocumentProcessing`: the
worker loops poll for ever, `deploy/daon-user/compose.yaml` has a service for either and restarts it
(`restart: unless-stopped`), and every call to a store, model or provider has a timeout. The object
queue has no such service: the process `object_worker.py` describes is not among them, an upload polls 64
times for its own object, and an error that is not retryable ends a thread. So `ObjectQueue` assumes
no restart. Its fairness says that a thread which polls goes on with what it does, and
`SettleForGood` concludes only under `SomeKeepsRunning`: from some moment on, one thread is never
ended. Without one, jobs stay as they are, and section 6 says so. In
`SourceDeletion` weak fairness on each task's `Process`, in `QuestionAnswering` on each request's
`Step`: a thread of a living process runs on. In `BackupCapture` strong fairness on each request's
progress: it waits for an advisory lock, and PostgreSQL serves waiters in their order. In
`Notifications` weak fairness on each process' loop, in
`Membership` on `Deliver`: `admin_audit_retry_loop` runs every minute, and a failed step is tried
again. Weak fairness on expiry and `due`: time passes. Nothing is assumed of users, of crashes or of
the answers of external services; a death or an early expiry is an unfair, bounded action.
`Identity`, `SyncTransfer`, `RegisteredRestore` and `OfflineStudio` promise nothing that must
happen, and have no fairness.

## 5. Proofs

Every theorem holds for all values of the constants that satisfy the named assumptions
(`QueueAssumption`, `StudioAssumption`, `DocumentAssumption`, `DeletionAssumption`, `IdentityAssumption`,
`QuestionAssumption`, `BackupAssumption`, `RestoreAssumption`, `DepsAssumption`, `ConstantsOK`,
`NotificationAssumption`, `MembershipAssumption`): any number of objects, jobs, sources, workers, accounts,
sessions, members, requests, events, policy versions, restore phases, attempts and disturbances. The assumptions
only say that bounds are natural numbers (those of pages, uses, catalogues and versions at least 1), that tables
of constants are functions, that `None` is no proper value, that what is counted (events, keys, the store's
identifiers) is finite, that an output has a source, that a workspace begins with an administrator, and that
classes of jobs or sources are disjoint or included as in the code. `IdsDiffer` says that the hash behind
an upload's id tells actors and keys apart.

**ObjectQueue.** `LeaseFencing`, `AttemptRowFree`, `HistoryCorrect`, `SettledJobs` rest on an
inductive invariant about versions: what a thread remembers of a job is never ahead of the
row, two busy threads never remember the same version of one job, a leased row's attempt number
is greater than every recorded outcome, and a final outcome is recorded only for a settled
row. None of the four properties is inductive alone: exclusion, for instance, would not
survive a claim without knowing that no other thread already remembers the version the claim
is about to write. `CompletedExplainedCorrect` holds with derived ids and with ids of the factory;
its invariant follows the bytes from the submission to the staging key, the record and the final key: what
stands under an id was sent by the one actor and key the id belongs to. That these are also the bytes
that were accepted is false (section 6).
`LeasesFencedCorrect` joins the four parts as the run checks them. `TablesFollowCorrect` is about the
tables beside the jobs and is inductive with the types: every transaction that takes a job out of work
also takes its object out of `pending`, and no other transaction makes an object wait without a job.

**StudioGeneration.** The core is the ownership of a dispatch: the start row carries the job
version of the one worker that may send, a worker in `dispatched` or later owns it,
and `sent` is 0 until that worker sends. From it follow `SingleDispatch` and
`AttemptsAreCalls`; together with the agreement of job, run, terminal row and output
(`RecordsConsistent`) it gives `SettledIsFinal`. `ConsentFirst` adds that an admitted job
with a step-up has its grant consumed, which no later action undoes. `RecordsTrueCorrect` joins
the parts.

**DocumentProcessing.** The inductive invariant is `TypeOK`, `OneOpenRun`, the agreement of
source, run, stored result and index, what each phase of a worker knows about its
job, and `CompletedUsable`. The part that does not suggest itself is the one about *old* runs:
a finished run that is not the newest one either failed or is a reviewed one in a bound format,
so that neither completion nor failure of a left-over worker can get past its guard. It is
what keeps late workers harmless without any lease check in `complete` or `index_result`.
`VerdictFinalCorrect` and `LateRunHarmlessCorrect` are action properties derived from the
invariant, and `LifecycleRefined` shows that every step is a step of `SourceLifecycle` or
leaves its variables unchanged. `HistoryExactCorrect` proves the attempt history: its invariant adds that a job
which was never claimed has attempt 0 and a leased one at least 1, without which neither a claim nor a takeover
could be shown to file the one row that is missing; a worker that lost its lease cannot file its attempt again,
because the row is fenced by the version of the job. `RunsAgreeCorrect` and `LateWorkersHarmlessCorrect` are the
compositions the run checks.

**SourceDeletion.** The inductive invariant `DeletionInv` joins the four properties of
`deletion_cleanup`, which need each other, with `TaskHasRequest`: a running task belongs to a
request that is in progress or completed, and deletes blobs only when its notebook is gone, so the admission trigger and the
authorisation of cleanups exclude each other although neither looks at the task. Resumability
would not survive `Hold` without `CleanupFinal` (a staged source has no locator row, so no hold
can be taken on it). The three theorems `...Alone` are about the states before the first
notebook deletion is asked for (`Undisturbed`, a proviso of the properties themselves); their invariant
`AloneInv`, which holds for as long, adds that no task exists, that an
object row implies its final blob, that an unfinished cleanup has no object row, and that a
client about to bind has a source that exists or is fenced.
`CleanupSafeCorrect` joins the parts of the first invariant, `SourcesKeptCorrect` these three.

**Identity.** `IdentityInv` joins the typed tables, `AccessOK` (a native session and its refresh family live and
end together, and the used tokens of a live family are all but the newest), `LockedOut`, `GrantOnce`,
`CodesOpenOne` and `DeliveredLogged`. Six operations end sessions and one operator opens them, so the proof has
two layers: what a revocation, an opening and a trust decision do to the two tables, and one lemma for each
operation on top. `AccessOK` is what the properties do not say themselves: without the exact set of used
tokens, a refresh could not be told from a reuse, and `ReuseEndsSession` would not survive it.
`ConsoleInv` is the lemma of the console reset. `SessionsAgreeCorrect`, `LockedOutCorrect`,
`UsedOnceCorrect` and `RevocationFinalCorrect` are the properties of the run.

**QuestionAnswering.** `QuestionInv` says for each request what its thread knows where it stands. The two
policies are read one after the other, twice, and no lock is held between the reads; that the call goes out under a
pair that was in force at one moment follows from one conjunct: *an approval whose organization version is
still the current one names a pair that was current as a whole*. It is established when the workspace's
version is read, is lost for good when the organization's policy changes, and is what the second read of the
organization's version tests. The licence of a call (`Granted`) needs that a request which holds a grant has
ended, so that no later grant overwrites the consumed one, and that a key consumes one grant (`GrantInv`).
`CallsApprovedCorrect` and `AnswersAgreeCorrect` are the invariants of the run, `OwnerSettlesCorrect` the safety half of
`OwnersDecide`.

**BackupCapture.** `BackupInv` is `TypeOK` with `Copies` (a request at work holds the lock of its key, meets no
ledger row, and knows what its directory shows and of which selection it is a copy; a directory has an owner
exactly when it has a marker) and `Rows` (`BackupReadable`, `ReadyOnce`, `AnswerKept`). A repeated request reuses or
discards what an earlier one left; that it never discards a referenced copy follows from the lock and the
absent row, which the properties do not mention. A cleanup that fails leaves any part of the directory and
keeps the lock file; the invariant needs the request's lock file to be its own for as long as it writes, so that
`LockFileExplained` survives the failing paths as well as the others. `BackupsKeptCorrect` and `OneBackupCorrect` are the invariants of the
run, `MarkerStaysCorrect` the safety half of `EndsMarked`.

**RegisteredRestore.** Once the connection of an executor's lock drops, only the triggers of the journal
serialise it with its successor. `RestoreInv` ties together the shape of the journal (`Ordered`), the one
executor that may be between an intent and its result (`OneWriter`), and what the destination holds
(`Contents`: the phases that succeeded, and perhaps the one whose result is not known). `PhasesExact` is not
inductive without all three: that a phase is written once rests on the comparison of the destination with the
journal at the beginning of an execution, which is of use only if the journal is ordered. `PhasesExactCorrect`,
`OneFateCorrect` and `EndsForGoodCorrect` are the properties of the run, for any number of phases and executors.

**SyncTransfer.** A mutation works on a copy of the operation's row while it holds it, and what it has put into
the object store or imported stays when it is undone. `TransferInv` therefore says the same of the row and of the
copy (`RowsAgree`), that the copy is only ahead of the row, and only by items whose bytes and import are stored
(`Ahead`, `Backed`), and that a mutation still does what it was asked under a key nobody has used (`Asked`). The
mirrors of the devices are beginnings of one history (`Mirrored`). `TransferExactCorrect`, `DeviceAgreesCorrect` and
`DecisionsStayCorrect` are all the properties of the run.

**OfflineStudio.** A handler makes several writes, and after a death some of them stay. `StoreExplained` bounds what
is half done by the number of faults, but only while no handler runs. `OfflineInv` says what the handler that runs has
done so far (`HandlerFits`, `JobsFollow`) and counts what is half done *outside of its hands* (`LeftExplained`): each
write moves a thing between its hands and the finished ones, so the count grows only where a death or a storage
error drops it, by one. `OutputsLeft` and `CallsPaid` are the same bookkeeping for outputs without a version and for
calls of the provider. Edits are counted by the version they were made from: the latest version of a draft bounds
what clients saw, so the comparison with `previous_version_id` lets one edit of a version pass.
`StoreExplainedCorrect`, `SentCurrentCorrect` and `DoneOnceCorrect` (`PaidOnceCorrect` with `EditedOnceCorrect`) are
the properties of the run.

**Notifications.** A loop keeps pages, outcomes and cursors in memory and acts on them when the tables have moved
on. `InboxInv` adds to `InboxExact` and `AuditedInOrder` what this memory still tells (`LoopsFit`: a loop outside a batch
has locked nothing, what it is about to materialise has its own audit, what it is about to acknowledge is in the
central store, what it selected is an intent) and that an event which has not happened left nothing (`Untouched`). That
a page is a sequence over the rows it is drawn from (`PageOf`) needs that every rank below the size of a finite set is
taken; `RankTaken` shows it by counting (ranks are distinct and below the size, and an injection of a finite set into
one of the same size is onto), without induction. `InboxExactCorrect` and `AuditedInOrderCorrect` are the invariants of
the run, `FinalCorrect` the safety half of `DrainsForGood`.

**Membership.** The versions that two components compare before they write the same rows are counts of the
receipts both leave. `RolesChained` says so of roles; `MemberInv` says it of memberships too (`VersionsCount`), with the
shape of the rows, and that the page in the loop's memory is of one table and its first row, once appended, is in the
central store (`PageFits`). Two lemmas carry the counting: a receipt that grants extends one history by the version after the
last (`ChainGrows`), any other leaves all histories alone (`ChainKept`). The last administrator stays because the check of
`Demotable` is made under the lock of the workspace. `AccessExplainedCorrect` is the invariant of the run.

Each inductive invariant of these modules, from `Identity` on, was first checked by TLC on the instance of its run.

**Model-checked only.** Liveness under fairness is outside the prover's reach: `DeletionDecided`, `JobsSettle`,
`SweepReaches`, and the liveness halves of `SettleForGood`, `DrainsForGood`, `OwnersDecide` and `EndsMarked`. Their safety
halves, every invariant and every other action property that a run checks are proved.

## 6. Limits of the code met while modelling

The properties are stated so that they hold of the code; these are the provisos in them and the
reasons, and what was seen beside them.

* With object ids derived from actor and key (the upload path), a second submission under a used key
  has replaced the staged blob before it is refused. Of equal length, it is what the worker completes
  under the digest of the first (nine steps: submit, register, submit again, be refused, claim, copy,
  verify, complete). `CompletedExplained` is what holds.
* Nothing restarts the threads that promote objects: when every upload has given up, a job waits until
  another upload polls.
* A Studio job whose worker died on its last attempt is chosen by every claim and updated by none:
  `JobsSettle` excepts a queue it heads. A lost answer of the dispatch claim leaves a run uncertain
  that was never sent.
* Nothing resumes a notebook deletion whose process died, and it refuses later ones; a binding or a
  hold committed between the scope check and the removal loses its source, which is why
  `SourcesKept` ends with the first such request.
* A dead-lettered document job may leave its source `processing`, from where no operation leads on.
* A browser code authorized before a password change is exchanged after it, and an unused verification
  token reactivates a suspended account.
* A request that lost its claim of a turn gets `NOTEBOOK_TURN_CONFLICT`, also when it could have been
  answered; `persist_completed` stores a run for a source that was unbound meanwhile.
* A restore whose process died before its first intent keeps its destination reserved.
* Index requests are made for the targets of the completing mutation alone.
* A notification source on which the Python and the SQL check disagree for good stays pending, and
  so does an audit intent whose event is in the central store with other content: `InboxDrains`
  excepts the first, the model does not produce the second. A page has no cursor: as many blocked rows
  as it holds (100) keep every later row of the recipient and family from being looked at.
* The text of a knowledge copy that ran out after its context was prepared is sent: the resolver
  compares the recorded state, not the time. `SentCurrent` speaks of the recorded state.
* A failing cleanup, unlink or write of the lineage store's lock file leaves it for ever, and with it
  every later capture of that store is refused.
* An organization that was approved is never provisioned when the process dies between the decision
  and the provisioner (`organization_api.py:265`); suspending a joined member who is the only
  workspace administrator leaves a role nobody can use.
* A local request whose death left a run without a draft calls the provider again for each retry.

## 7. Not modelled

Parsing of document formats, prompts, rendering and exports are pure functions or external
calls: the modules see their answer or their error. HTTP routing and row-level security decide
whether an operation is called, not what it does; most of `runtime.py` validates a request, calls one
operation and renders. The permission rules of `authorization.py` are a function of tables, and its
setters have no caller but tests. Read-only reports and telemetry keep no state of record. The desktop,
mobile and web interfaces are presentation. The remaining stateful components (document readiness,
provider and model settings, licence limits, the approval of outputs, knowledge packages, connectors)
are in the plan; `PROJECT.json` gives the reason for each. The map covers about a sixth of the
implementation's lines: the modules are the parts whose correctness depends on an order of steps,
and a larger share would mostly add interface code and validation, about which there is nothing to check.

## 8. Plan

Done: all modules of section 3, with every safety property of a run proved. Left, in order of importance:

1. `DocumentReadiness` composed with `DocumentProcessing`; the generic transition function of
   migration 0003.
2. The approval of Studio outputs (submit, approve, reject, revoke), whose notices
   `Notifications` already reads.
3. Versioned model settings under running jobs; limits of the licence inside creating transactions.
4. The grace-period requests of `retention_request_postgres.py`, sources that share an object, and the
   composition of `SourceDeletion` with running document jobs.
5. Pure functions: `RetryPolicy.delay_seconds` against its definition over bounded inputs.
