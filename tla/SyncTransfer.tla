---------------------------- MODULE SyncTransfer ----------------------------
(***************************************************************************)
(* One synchronisation operation of the cloud (sync.py, sync_postgres.py): *)
(* a device previews items, a person approves some of them, batches copy   *)
(* them and conflicts are resolved one by one.  A mutation holds the       *)
(* operation's row for its whole transaction (_mutate, FOR UPDATE), but    *)
(* each item it transmits is stored by transactions of their own: the      *)
(* object queue accepts the bytes and import_bundle writes the imported    *)
(* output before the operation commits, and both stay when it does not.    *)
(* Every device keeps a mirror of the operation's versions in its local    *)
(* store (persist_sync_projection, append_sync_queue_state).               *)
(***************************************************************************)
EXTENDS Naturals, Sequences, FiniteSets, SequencesExt

CONSTANTS
  Sources, Outputs,  \* items of the two kinds
  Deps,              \* Deps[o]: the sources an output was made from
  Devices,
  RequestKeys,       \* idempotency keys
  MaxVersion,        \* bound: committed versions of the operation
  MaxFaults          \* bound: mutations cut off and answers lost

Items == Sources \cup Outputs
DepsOf(i) == IF i \in Outputs THEN Deps[i] ELSE {}

ASSUME DepsAssumption ==
  /\ Sources \cap Outputs = {} /\ Deps \in [Outputs -> (SUBSET Sources) \ {{}}]
  /\ MaxVersion \in Nat

VARIABLES
  op,        \* the operation's row and the rows that belong to it
  hist,      \* ghost: <<state, unresolved items>> of every version
  done,      \* the committed requests, the operation's idempotency records
  mutation,  \* the mutation that holds the row, <<>> when none does
  objects,   \* <<item, key>>: bytes the object queue accepted
  imported,  \* imported[o]: <<key, relation>> of the imported output, or <<>>
  view,      \* view[d]: the version of the answer on its way to d, 0 for none
  mirror,    \* mirror[d]: the versions d's local store holds, in order
  faults

syncVars == <<op, hist, done, mutation, objects, imported, view, mirror, faults>>
world == <<objects, imported>>

States == {"none", "awaiting_approval", "approved", "transferring", "conflict",
           "reindex_requested"}
Resolutions == {"keep_local", "keep_both", "keep_cloud"}
Request == [kind : {"approve", "transfer", "resolve"}, key : RequestKeys,
            ver : 1..MaxVersion, items : SUBSET Items, stale : SUBSET Items,
            choice : Resolutions]

\* A target is <<key>>, the object stored under that key; <<>> is none.
NoTarget == [i \in Items |-> <<>>]

SyncInit ==
  /\ op = [state |-> "none", approved |-> {}, completed |-> {},
           conflicts |-> [i \in Items |-> "none"], target |-> NoTarget,
           reindex |-> {}]
  /\ hist = <<>>
  /\ done = {}
  /\ mutation = <<>>
  /\ objects = {}
  /\ imported = [o \in Outputs |-> <<>>]
  /\ view = [d \in Devices |-> 0]
  /\ mirror = [d \in Devices |-> <<>>]
  /\ faults = 0

Unresolved(o) == {i \in Items : o.conflicts[i] = "unresolved"}
Shown(o) == <<o.state, Unresolved(o)>>
Idle(d) == view[d] = 0 /\ \A n \in DOMAIN mutation : mutation[n].dev # d

(***************************************************************************)
(* The requests.                                                           *)
(***************************************************************************)

\* create_operation: version 1, awaiting approval.
CreateOperation(d) ==
  /\ op.state = "none"
  /\ op' = [op EXCEPT !.state = "awaiting_approval"]
  /\ hist' = <<Shown(op')>>
  /\ view' = [view EXCEPT ![d] = 1]
  /\ UNCHANGED <<done, mutation, mirror, faults>>
  /\ UNCHANGED world

\* A used key answers the same request again and refuses another one.
KeyFree(r) == \A q \in done : q.kind = r.kind => q.key # r.key

Held(d, r, todo) == <<[dev |-> d, req |-> r, todo |-> todo, op |-> op,
                       new |-> {}, clash |-> FALSE]>>

\* _mutate locks the row; the replay answers from the committed state.
AnswerAgain(d, r) ==
  /\ Idle(d) /\ mutation = <<>>
  /\ r \in done
  /\ view' = [view EXCEPT ![d] = Len(hist)]
  /\ UNCHANGED <<op, hist, done, mutation, mirror, faults>>
  /\ UNCHANGED world

\* What every mutation asks first: a free key and the current version.
Fresh(d, r) == /\ Idle(d) /\ mutation = <<>> /\ op.state # "none"
               /\ KeyFree(r) /\ r.ver = Len(hist) /\ r.ver < MaxVersion

Begin(d, r, todo) ==
  /\ mutation' = Held(d, r, todo)
  /\ UNCHANGED <<op, hist, done, view, mirror, faults>>
  /\ UNCHANGED world

\* approve: items of the preview, with the sources they depend on.
Approve(d, r) ==
  /\ Fresh(d, r)
  /\ r.items # {} /\ UNION {DepsOf(i) : i \in r.items} \subseteq r.items
  /\ Begin(d, r, {})

\* transfer_batch: an approval, and only items it names.
TransferBatch(d, r) ==
  /\ Fresh(d, r)
  /\ op.approved # {} /\ r.items # {} /\ r.items \subseteq op.approved
  /\ Begin(d, r, r.items)

\* resolve_conflict: an unresolved conflict.
ResolveConflict(d, r) ==
  /\ Fresh(d, r)
  /\ \A i \in r.items : op.conflicts[i] = "unresolved"
  /\ Begin(d, r, IF r.choice = "keep_cloud" THEN {} ELSE r.items)

(***************************************************************************)
(* The mutation while it holds the row.                                    *)
(***************************************************************************)
W == mutation[1]
Relation == IF W.req.kind = "transfer" THEN "copy" ELSE W.req.choice
Stored(i) == <<i, W.req.key>> \in objects

Leave == mutation' = <<>> /\ UNCHANGED <<op, hist, done, view, mirror>>

\* The items a payload really copies: a batch passes over completed ones and
\* records a conflict where the cloud has moved on.
Passed(i) == W.req.kind = "transfer" /\ i \in W.op.completed
Ready(i) == W.req.kind = "resolve" \/ DepsOf(i) \subseteq W.op.completed
Copied(i) == /\ ~Passed(i) /\ Ready(i)
             /\ W.req.kind = "resolve" \/ i \notin W.req.stale

SkipCompleted(i) ==
  /\ Passed(i)
  /\ mutation' = <<[W EXCEPT !.todo = @ \ {i}]>>
  /\ UNCHANGED <<op, hist, done, view, mirror, faults>>
  /\ UNCHANGED world

\* SYNC_DEPENDENCY_REQUIRED leaves by an exception: nothing of the batch stays.
DependencyMissing(i) ==
  /\ ~Passed(i) /\ ~Ready(i)
  /\ Leave
  /\ UNCHANGED faults
  /\ UNCHANGED world

\* A second conflict of an item breaks a unique key when the rows are written.
RecordConflict(i) ==
  /\ ~Passed(i) /\ Ready(i) /\ ~Copied(i)
  /\ mutation' = <<[W EXCEPT !.todo = @ \ {i}, !.op.conflicts[i] = "unresolved",
                         !.clash = @ \/ W.op.conflicts[i] # "none"]>>
  /\ UNCHANGED <<op, hist, done, view, mirror, faults>>
  /\ UNCHANGED world

\* ObjectQueueCoordinator.submit under "<key>:<item>", its own transaction.
SubmitObject(i) ==
  /\ Copied(i) /\ ~Stored(i)
  /\ objects' = objects \cup {<<i, W.req.key>>}
  /\ UNCHANGED <<op, hist, done, mutation, imported, view, mirror, faults>>

\* The target version joins the operation in memory; a second target of one
\* item breaks a unique key when the rows are written.
Targeted(i) ==
  mutation' = <<[W EXCEPT !.todo = @ \ {i}, !.new = @ \cup {i},
                      !.op.target[i] = <<W.req.key>>,
                      !.op.completed = @ \cup {i},
                      !.clash = @ \/ W.op.target[i] # <<>>]>>

\* transmit of a source version.
TransmitSource(i) ==
  /\ Copied(i) /\ i \in Sources /\ Stored(i)
  /\ Targeted(i)
  /\ UNCHANGED <<op, hist, done, view, mirror, faults>>
  /\ UNCHANGED world

\* Mutant: the sources of the same, uncommitted batch count.
ImportableInBatch(i) ==
  \/ imported[i] = <<W.req.key, Relation>>
  \/ imported[i] = <<>> /\ \A s \in Deps[i] : W.op.target[s] # <<>>

\* import_bundle: the import is found again under its own key; the sources must have
\* target rows that are already committed.  The rows the code looks at are those of the
\* workspace; this operation, whose approval includes the sources, is its only one here.
Importable(i) ==
  \/ imported[i] = <<W.req.key, Relation>>
  \/ imported[i] = <<>> /\ \A s \in Deps[i] : op.target[s] # <<>>

ImportBundle(i) ==
  /\ Copied(i) /\ i \in Outputs /\ Stored(i)
  /\ Importable(i)
  /\ imported' = IF imported[i] = <<>>
                 THEN [imported EXCEPT ![i] = <<W.req.key, Relation>>]
                 ELSE imported
  /\ Targeted(i)
  /\ UNCHANGED <<op, hist, done, objects, view, mirror, faults>>

\* An output whose sources have no committed target, or that was imported
\* under another key or as another relation, is refused.
ImportRefused(i) ==
  /\ Copied(i) /\ i \in Outputs /\ Stored(i)
  /\ ~Importable(i)
  /\ Leave
  /\ UNCHANGED faults
  /\ UNCHANGED world

(***************************************************************************)
(* The end of the mutation.                                                *)
(***************************************************************************)

\* Mutant: the trigger only looks at the state that is left.
AnyTransition(from, to) == from # "reindex_requested"

\* guard_sync_operation_update.
LegalTransition(from, to) ==
  \/ from = "awaiting_approval" /\ to = "approved"
  \/ /\ from \in {"approved", "transferring", "conflict"}
     /\ to \in {"transferring", "conflict", "reindex_requested"}

AllDone(o) == o.approved \subseteq o.completed
NewConflicts == {i \in W.req.items : W.op.conflicts[i] # op.conflicts[i]}

\* approve, the end of transfer_batch and the end of resolve_conflict.
ApprovedRow == [W.op EXCEPT !.state = "approved", !.approved = W.req.items]

BatchRow ==
  [W.op EXCEPT !.state = CASE W.clash \/ NewConflicts # {} -> "conflict"
                           [] AllDone(W.op) -> "reindex_requested"
                           [] OTHER -> "transferring"]

ResolvedRow ==
  LET item == CHOOSE i \in W.req.items : TRUE
      o == [W.op EXCEPT !.conflicts[item] = "resolved",
                        !.completed = @ \cup {item}]
  IN  IF Unresolved(o) = {} /\ AllDone(o)
      THEN [o EXCEPT !.state = "reindex_requested"] ELSE o

Row == CASE W.req.kind = "approve" -> ApprovedRow
         [] W.req.kind = "transfer" -> BatchRow
         [] W.req.kind = "resolve" -> ResolvedRow

\* Index requests are written for the targets of this mutation alone.
Reindexed(o) == IF o.state = "reindex_requested"
                THEN [o EXCEPT !.reindex = @ \cup W.new] ELSE o

\* _mutate writes the new rows and moves the operation one version on.
Commit ==
  /\ mutation # <<>> /\ W.todo = {}
  /\ ~W.clash /\ LegalTransition(op.state, Row.state)
  /\ op' = Reindexed(Row)
  /\ hist' = Append(hist, Shown(op'))
  /\ done' = done \cup {W.req}
  /\ view' = [view EXCEPT ![W.dev] = Len(hist')]
  /\ mutation' = <<>>
  /\ UNCHANGED <<mirror, faults>>
  /\ UNCHANGED world

\* A unique key or the trigger refuses the rows: the transaction rolls back.
CommitRefused ==
  /\ mutation # <<>> /\ W.todo = {}
  /\ W.clash \/ ~LegalTransition(op.state, Row.state)
  /\ Leave
  /\ UNCHANGED faults
  /\ UNCHANGED world

\* The database or the process fails while the row is held.
Abort ==
  /\ mutation # <<>> /\ faults < MaxFaults
  /\ Leave
  /\ faults' = faults + 1
  /\ UNCHANGED world

(***************************************************************************)
(* The devices.                                                            *)
(***************************************************************************)

\* offline_sync_status.
Status(d) ==
  /\ Idle(d) /\ op.state # "none"
  /\ view' = [view EXCEPT ![d] = Len(hist)]
  /\ UNCHANGED <<op, hist, done, mutation, mirror, faults>>
  /\ UNCHANGED world

\* Mutant: the previous version is not looked for.
AppendableAfterGap(d) == view[d] > Len(mirror[d])

\* append_sync_queue_state: the next version, or one that is there already.
Appendable(d) == view[d] = Len(mirror[d]) + 1

PersistProjection(d) ==
  /\ view[d] # 0
  /\ mirror' = IF Appendable(d)
               THEN [mirror EXCEPT ![d] = Append(@, hist[view[d]])] ELSE mirror
  /\ view' = [view EXCEPT ![d] = 0]
  /\ UNCHANGED <<op, hist, done, mutation, faults>>
  /\ UNCHANGED world

LoseAnswer(d) ==
  /\ view[d] # 0 /\ faults < MaxFaults
  /\ view' = [view EXCEPT ![d] = 0]
  /\ faults' = faults + 1
  /\ UNCHANGED <<op, hist, done, mutation, mirror>>
  /\ UNCHANGED world

-----------------------------------------------------------------------------
Approval(k, S) == [kind |-> "approve", key |-> k, ver |-> Len(hist), items |-> S,
                   stale |-> {}, choice |-> "keep_cloud"]
Batch(k, S, T) == [Approval(k, S) EXCEPT !.kind = "transfer", !.stale = T]
Resolution(k, i, c) ==
  [Approval(k, {i}) EXCEPT !.kind = "resolve", !.choice = c]

SyncNext ==
  \/ \E d \in Devices :
       \/ CreateOperation(d)
       \/ \E k \in RequestKeys, S \in SUBSET Items : Approve(d, Approval(k, S))
       \/ \E k \in RequestKeys, S \in SUBSET Items : \E T \in SUBSET S :
            TransferBatch(d, Batch(k, S, T))
       \/ \E k \in RequestKeys, i \in Items, c \in Resolutions :
            ResolveConflict(d, Resolution(k, i, c))
       \/ \E r \in done : AnswerAgain(d, r)
       \/ Status(d)
       \/ PersistProjection(d)
       \/ LoseAnswer(d)
  \/ /\ mutation # <<>>
     /\ \E i \in W.todo : \/ SkipCompleted(i)
                          \/ DependencyMissing(i)
                          \/ RecordConflict(i)
                          \/ SubmitObject(i)
                          \/ TransmitSource(i)
                          \/ ImportBundle(i)
                          \/ ImportRefused(i)
  \/ Commit
  \/ CommitRefused
  \/ Abort

SyncSpec == SyncInit /\ [][SyncNext]_syncVars

-----------------------------------------------------------------------------
OpOK(o) ==
  /\ o.state \in States
  /\ o.approved \subseteq Items /\ o.completed \subseteq Items
  /\ o.conflicts \in [Items -> {"none", "unresolved", "resolved"}]
  /\ \A i \in Items : o.target[i] = <<>> \/ o.target[i][1] \in RequestKeys
  /\ o.reindex \subseteq Items

\* The shape of the state: an operation has as many versions as its row says,
\* only one mutation holds the row, and answers name versions that exist.
SyncTypeOK ==
  /\ OpOK(op)
  /\ done \subseteq Request
  /\ mutation = <<>> \/ (W.req \in Request /\ W.todo \subseteq W.req.items /\ OpOK(W.op))
  /\ objects \subseteq Items \X RequestKeys
  /\ \A d \in Devices : view[d] \in 0..Len(hist)

\* Nothing outside the approved items is ever copied or completed, every
\* completed item has a target of its own or a resolved conflict, and index
\* requests are only made once all approved items are completed
\* (transfer_batch, resolve_conflict).
Accounted ==
  /\ op.completed \subseteq op.approved
  /\ \A i \in Items : op.target[i] # <<>> => i \in op.completed
  /\ \A i \in op.completed : op.target[i] # <<>> \/ op.conflicts[i] = "resolved"
  /\ op.state = "reindex_requested" => AllDone(op)
  /\ op.reindex # {} => op.state = "reindex_requested"

\* A target version names bytes the object queue holds and, for an output, the
\* very import made under its key, whatever mutations were cut off before.
TargetStored ==
  \A i \in Items : op.target[i] # <<>> =>
    /\ <<i, op.target[i][1]>> \in objects
    /\ i \in Outputs => imported[i] # <<>> /\ imported[i][1] = op.target[i][1]

\* An imported output, also one left behind by a mutation that rolled back,
\* has the targets of all its sources in the committed operation.
ImportAfterSources ==
  \A o \in Outputs : imported[o] # <<>> =>
    \A s \in Deps[o] : op.target[s] # <<>>

\* Each key moved the operation once: retries after lost answers and cut-off
\* mutations never add a version of their own.
AppliedOnce ==
  /\ op.state # "none" => Len(hist) = Cardinality(done) + 1
  /\ \A q, r \in done : (q.kind = r.kind /\ q.key = r.key) => q = r

\* A device's mirror is a beginning of the operation's own history: no version
\* is missing in it, doubled or altered (append_sync_queue_state).
MirrorExact == \A d \in Devices : IsPrefix(mirror[d], hist)

\* The approval is taken once: approve does not look at the state, and only
\* the trigger keeps a later approval from replacing the approved items.
ApprovalFixed == [][op.approved # {} => op'.approved = op.approved]_syncVars

\* After its index requests are made an operation never changes again, though
\* batches and resolutions may still be asked of it.
ReindexFinal == [][op.state = "reindex_requested" => op' = op]_syncVars

\* The counters account for every item, and what counts as stored is stored, sources
\* before the outputs that cite them.
TransferExact == SyncTypeOK /\ Accounted /\ TargetStored /\ ImportAfterSources

\* The device and the server agree on what was applied.
DeviceAgrees == AppliedOnce /\ MirrorExact

\* What was approved, and what was asked of the index, stays.
DecisionsStay == ApprovalFixed /\ ReindexFinal
=============================================================================
