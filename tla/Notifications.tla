---------------------------- MODULE Notifications ----------------------------
(***************************************************************************)
(* The notification inbox of the API: a business transaction leaves a      *)
(* source row for every recipient it concerns; the retry loop of each API  *)
(* process pages through the recipients that have pending work, turns      *)
(* their sources into notifications with an audit intent, projects the     *)
(* approval notices, and hands the intents to the central audit store; the *)
(* recipient marks a notification read.                                    *)
(*                                                                         *)
(* An event is one (business event, recipient) pair.  Events and           *)
(* recipients are naturals, in the order in which the queries return them. *)
(***************************************************************************)
EXTENDS Naturals, FiniteSets, SequencesExt

CONSTANTS
    Events,        \* the events that may happen, a set of naturals
    Recipients,    \* the recipients' scopes, a set of positive naturals
    RecipientOf,   \* the recipient of an event
    Assignments,   \* the functions from events to families to be explored
    Consumers,     \* the consumers a tick runs, in order (those with no event
                   \* of their family have nothing to do and are left out)
    Processes,     \* API processes, each with its retry loop
    ReadKeys,      \* idempotency keys
    Limit,         \* rows per page
    Revocable,     \* the facts about a recipient that may change
    MaxChanges,    \* bound on changes of the recipients' rights
    MaxLoopFaults  \* bound on failed transactions and restarts

None == 0

\* The facts about a recipient that the checks look at: an active membership
\* with a role in the workspace, what the permission rules grant that role,
\* and the sources behind the resource.
Facts == {"member", "rules", "source"}

\* The families of events: about material, about people and settings.
AboutMaterial == {"studio", "completed", "source_access", "notice"}
Families == AboutMaterial \cup {"account", "login", "password", "password_reset", "organization",
                               "c9", "egress", "recovery"}

\* What the recipient of an event must have at present.
Needs == [f \in Families |-> IF f \in AboutMaterial THEN Facts ELSE {"member", "rules"}]

\* The families whose central audit is delivered after the business commit.
Late == {"organization", "c9"}

\* The restricted SQL functions check everything but the permission rules;
\* that of the Studio events checks those as well.
SqlNeeds(f) == IF f = "studio" THEN Needs[f] ELSE Needs[f] \ {"rules"}

Actions == {"created", "read"}

ASSUME NotificationAssumption ==
    /\ Events \subseteq Nat /\ IsFiniteSet(Events) /\ IsFiniteSet(ReadKeys)
    /\ Recipients \subseteq Nat \ {None}
    /\ RecipientOf \in [Events -> Recipients]
    /\ Assignments \subseteq [Events -> Families]
    /\ \A a \in Assignments : \A e \in Events : a[e] = "notice" \/ a[e] \in Range(Consumers)
    /\ Limit \in Nat \ {0}
    /\ Revocable \subseteq Facts
    /\ MaxChanges \in Nat
    /\ MaxLoopFaults \in Nat

VARIABLES
    family,      \* the family of each event
    happened,    \* the events whose business transaction committed
    origin,      \* the events whose own audit is in the store the checks read
    denied,      \* the <<event, fact>> pairs that do not hold at present for the recipient
    source,      \* notification_source_outbox: state of an event's row
    version,     \* notifications (or notices): 0 absent, 1 unread, 2 read
    intent,      \* notification_audit_outbox: state of <<event, action>>
    central,     \* the intents in the central audit store
    receipt,     \* idempotency_records of notification.read: event and version
    loop,        \* the retry loop of each process
    changes, loopFaults

inboxVars == <<family, happened, origin, denied, source, version, intent, central,
              receipt, loop, changes, loopFaults>>

durable == <<happened, origin, denied, source, version, intent, central, receipt, changes>>

NoReceipt == <<None, 0>>

\* Nothing decided yet in a batch.
NoOutcome == [e \in {} |-> None]

\* The loop's own state: the pages and cursors of a process live in memory.
IdleLoop ==
    [pc |-> "idle", cursor |-> None, scopes |-> <<>>, consumer |-> 1, batch |-> <<>>,
     allowed |-> FALSE, outcome |-> NoOutcome, notices |-> [r \in Recipients |-> None],
     audits |-> <<>>]

Holds(e, needed) == \A f \in needed : <<e, f>> \notin denied

\* The access check in Python, and the one the SQL function makes again.
PythonAllows(e) == Holds(e, Needs[family[e]])
SqlAllows(e) == Holds(e, SqlNeeds(family[e]))

\* The first Limit members of a set, in the order of the queries: "key" gives
\* every member the number it is sorted by.
InOrder(S, key) ==
    [i \in 1..(IF Cardinality(S) < Limit THEN Cardinality(S) ELSE Limit) |->
        CHOOSE x \in S : Cardinality({y \in S : key[y] < key[x]}) = i - 1]

FirstOf(S) == InOrder(S, [x \in S |-> x])

Notices == {e \in Events : family[e] = "notice"}

\* The sources a transaction of a process has locked.
Held(p) == Range(loop[p].batch) \cup DOMAIN loop[p].outcome

-----------------------------------------------------------------------------
(* The business side.                                                      *)

\* One business transaction and the source row it leaves for the recipient.
\* A recipient without access gets none; an error in between undoes both.
\* An approval notice is a row of its own, projected at once when the
\* recipient has access and the writer runs with the inbox enabled.
Enqueue(e) ==
    IF PythonAllows(e) THEN "pending" ELSE "absent"

Happen(e) ==
    /\ e \notin happened
    /\ happened' = happened \cup {e}
    /\ origin' = IF family[e] \in Late THEN origin ELSE origin \cup {e}
    /\ IF e \in Notices
       THEN /\ version' = [version EXCEPT ![e] = 1]
            /\ \E enabled \in BOOLEAN :
                 intent' = [intent EXCEPT ![<<e, "created">>] = IF enabled /\ SqlAllows(e) THEN "pending" ELSE "absent"]
            /\ UNCHANGED source
       ELSE /\ source' = [source EXCEPT ![e] = Enqueue(e)]
            /\ UNCHANGED <<version, intent>>
    /\ UNCHANGED <<family, denied, central, receipt, loop, changes, loopFaults>>

\* The audits of role changes reach the audit store by their own outboxes,
\* which the same retry loop empties before the notifications.
DeliverOrigin(e) ==
    /\ e \in happened \ origin
    /\ origin' = origin \cup {e}
    /\ UNCHANGED <<family, happened, denied, source, version, intent, central, receipt, loop, changes, loopFaults>>

\* A membership or a permission rule changes, for all that its holder receives, or the
\* right on the source behind one event.
Concerned(e, f) ==
    IF f = "source" THEN {e} ELSE {x \in Events : RecipientOf[x] = RecipientOf[e]}

ChangeRight(e, f) ==
    LET pairs == Concerned(e, f) \X {f}
    IN  /\ changes < MaxChanges
        /\ changes' = changes + 1
        /\ denied' = IF <<e, f>> \in denied THEN denied \ pairs ELSE denied \cup pairs
        /\ UNCHANGED <<family, happened, origin, source, version, intent, central, receipt, loop, loopFaults>>

\* A notification is shown to its recipient while access lasts; a notice
\* that has no projection yet is not.
Shown(e) ==
    /\ version[e] > 0
    /\ PythonAllows(e)
    /\ e \in Notices => intent[<<e, "created">>] # "absent"

\* Mark an event's notification read: version check and read check on the
\* locked row, then the row, the receipt and the audit intent.  A known key
\* answers from its receipt (or is refused) and changes nothing.
FirstRead(e, k, v) ==
    /\ receipt[k] = NoReceipt
    /\ version[e] = v
    /\ v = 1

Read(e, k, v) ==
    /\ Shown(e)
    /\ FirstRead(e, k, v)
    /\ version' = [version EXCEPT ![e] = v + 1]
    /\ receipt' = [receipt EXCEPT ![k] = <<e, v>>]
    /\ intent' = [intent EXCEPT ![<<e, "read">>] = "pending"]
    /\ UNCHANGED <<family, happened, origin, denied, source, central, loop, changes, loopFaults>>

\* The notice's own route does not wait for its projection: the intent that
\* tells of its creation is recorded first, in the same transaction.
ReadIntents(e) ==
    [intent EXCEPT ![<<e, "read">>] = "pending",
                   ![<<e, "created">>] = IF @ = "absent" THEN "pending" ELSE @]

ReadNotice(e, k, v) ==
    /\ e \in Notices
    /\ PythonAllows(e) /\ SqlAllows(e)
    /\ FirstRead(e, k, v)
    /\ version' = [version EXCEPT ![e] = v + 1]
    /\ receipt' = [receipt EXCEPT ![k] = <<e, v>>]
    /\ intent' = ReadIntents(e)
    /\ UNCHANGED <<family, happened, origin, denied, source, central, loop, changes, loopFaults>>

-----------------------------------------------------------------------------
(* The retry loop of a process.                                            *)

Put(p, l) == loop' = [loop EXCEPT ![p] = l]

\* A notice without its created intent.
Unprojected(e) == e \in Notices /\ version[e] > 0 /\ intent[<<e, "created">>] = "absent"

\* The recipients with a pending source, a pending intent or a notice that
\* has not been projected.
PendingScopes ==
    {RecipientOf[e] : e \in {x \in Events : \/ source[x] = "pending"
                                            \/ \E a \in Actions : intent[<<x, a>>] = "pending"
                                            \/ Unprojected(x)}}

\* Discover a page of recipients behind the cursor; an empty page wraps it.
\* (One that was empty from the start changes nothing.)
NextPage(p) == FirstOf({r \in PendingScopes : r > loop[p].cursor})

\* Mutant: the cursor stays where the last page ended.
WrapNever(l) == l

Wrap(l) == [l EXCEPT !.cursor = None]

Discover(p) ==
    LET l == loop[p]
        page == NextPage(p)
    IN  /\ l.pc = "idle"
        /\ (page # <<>> \/ l.cursor # None)
        /\ Put(p, IF page = <<>> THEN Wrap(l)
                  ELSE [l EXCEPT !.pc = "consume", !.scopes = page, !.consumer = 1])
        /\ UNCHANGED <<family, durable, loopFaults>>

\* Mutant: locked rows are not skipped.
BatchUnlocked(p, f, r) ==
    FirstOf({e \in Events : source[e] = "pending" /\ family[e] = f /\ RecipientOf[e] = r})

\* A consumer locks the pending sources of its family, skipping the ones
\* another transaction has locked.
Batch(p, f, r) ==
    FirstOf({e \in Events : /\ source[e] = "pending"
                            /\ family[e] = f
                            /\ RecipientOf[e] = r
                            /\ \A q \in Processes \ {p} : e \notin Held(q)})

NextConsumer(l) == [l EXCEPT !.consumer = @ + 1, !.pc = "consume", !.batch = <<>>, !.outcome = NoOutcome]

LockBatch(p) ==
    LET l == loop[p]
        batch == Batch(p, Consumers[l.consumer], Head(l.scopes))
    IN  /\ l.pc = "consume"
        /\ l.consumer <= Len(Consumers)
        /\ Put(p, IF batch = <<>> THEN NextConsumer(l) ELSE [l EXCEPT !.pc = "check", !.batch = batch])
        /\ UNCHANGED <<family, durable, loopFaults>>

\* A source whose own audit has not arrived waits.
Ready(e) == e \in origin

\* The check in Python of the batch's next source; one that waits for its
\* audit is passed over.
Check(p) ==
    LET l == loop[p]
        e == Head(l.batch)
    IN  /\ l.pc = "check"
        /\ l.batch # <<>>
        /\ Put(p, IF Ready(e) THEN [l EXCEPT !.pc = "materialize", !.allowed = PythonAllows(e)]
                  ELSE [l EXCEPT !.batch = Tail(@)])
        /\ UNCHANGED <<family, durable, loopFaults>>

\* The SQL function looks again, at a later moment: without access the source
\* is suppressed, with access and the consumer's word it becomes a
\* notification, and a disagreement leaves it pending.
Outcome(e, allowed) ==
    IF ~SqlAllows(e) THEN "suppressed"
    ELSE IF allowed THEN "delivered" ELSE "pending"

Materialize(p) ==
    LET l == loop[p]
        e == Head(l.batch)
    IN  /\ l.pc = "materialize"
        /\ Put(p, [l EXCEPT !.pc = "check", !.batch = Tail(@),
                            !.outcome = [x \in {e} \cup DOMAIN @ |->
                                           IF x = e THEN Outcome(e, l.allowed) ELSE @[x]]])
        /\ UNCHANGED <<family, durable, loopFaults>>

\* The batch commits: notification, detail, the intent its trigger writes
\* and the source's state in one transaction.
Settled(p) == {e \in DOMAIN loop[p].outcome : loop[p].outcome[e] # "pending"}

Delivered(p) == {e \in DOMAIN loop[p].outcome : loop[p].outcome[e] = "delivered"}

\* The intents a batch records.
Recorded(p) == {<<e, "created">> : e \in Delivered(p)}

CommitBatch(p) ==
    LET l == loop[p]
    IN  /\ l.pc = "check"
        /\ l.batch = <<>>
        /\ source' = [e \in Events |-> IF e \in Settled(p) THEN l.outcome[e] ELSE source[e]]
        /\ version' = [e \in Events |-> IF e \in Delivered(p) THEN 1 ELSE version[e]]
        /\ intent' = [x \in Events \X Actions |-> IF x \in Recorded(p) THEN "pending" ELSE intent[x]]
        /\ Put(p, NextConsumer(l))
        /\ UNCHANGED <<family, happened, origin, denied, central, receipt, changes, loopFaults>>

\* Project the notices of the recipient behind the notice cursor: those the
\* recipient may see and that have no projection.  The cursor passes the ones
\* that failed, and wraps at the end.
NoticePage(p, r) ==
    FirstOf({e \in Notices : version[e] > 0 /\ RecipientOf[e] = r /\ e > loop[p].notices[r]})

PrepareProjections(p) ==
    LET l == loop[p]
        r == Head(l.scopes)
        page == NoticePage(p, r)
        rest == {e \in Notices : version[e] > 0 /\ RecipientOf[e] = r /\ e > l.notices[r]} \ Range(page)
        ready == {e \in Range(page) : PythonAllows(e) /\ SqlAllows(e)}
    IN  /\ l.pc = "consume"
        /\ l.consumer > Len(Consumers)
        /\ intent' = [x \in Events \X Actions |->
                        IF x[2] = "created" /\ x[1] \in ready /\ intent[x] = "absent" THEN "pending" ELSE intent[x]]
        /\ Put(p, [l EXCEPT !.pc = "select", !.notices[r] = IF rest = {} THEN None ELSE Last(page)])
        /\ UNCHANGED <<family, happened, origin, denied, source, version, central, receipt, changes, loopFaults>>

\* The recipient's pending intents, at most Limit of them.
PendingAudits(r) ==
    InOrder({x \in Events \X Actions : intent[x] = "pending" /\ RecipientOf[x[1]] = r},
            [x \in Events \X Actions |-> 2 * x[1] + (IF x[2] = "created" THEN 0 ELSE 1)])

SelectAudits(p) ==
    LET l == loop[p]
    IN  /\ l.pc = "select"
        /\ Put(p, [l EXCEPT !.pc = "append", !.audits = PendingAudits(Head(l.scopes))])
        /\ UNCHANGED <<family, durable, loopFaults>>

\* Append the intent's event to the central store unless it is there; an
\* event another process appended meanwhile is read back and accepted.
AppendAudit(p) ==
    LET l == loop[p]
    IN  /\ l.pc = "append"
        /\ l.audits # <<>>
        /\ central' = central \cup {Head(l.audits)}
        /\ Put(p, [l EXCEPT !.pc = "ack"])
        /\ UNCHANGED <<family, happened, origin, denied, source, version, intent, receipt, changes, loopFaults>>

\* Mutant: every pending intent of the notification is acknowledged.
AckedAhead(x) ==
    [y \in Events \X Actions |-> IF y[1] = x[1] /\ intent[y] = "pending" THEN "delivered" ELSE intent[y]]

\* Acknowledge the intent, in a transaction of its own.
Acked(x) == [intent EXCEPT ![x] = IF @ = "pending" THEN "delivered" ELSE @]

AckAudit(p) ==
    LET l == loop[p]
    IN  /\ l.pc = "ack"
        /\ intent' = Acked(Head(l.audits))
        /\ Put(p, [l EXCEPT !.pc = "append", !.audits = Tail(@)])
        /\ UNCHANGED <<family, happened, origin, denied, source, version, central, receipt, changes, loopFaults>>

\* The recipient is done: the cursor moves on.
NextScope(p) ==
    LET l == loop[p]
        done == [l EXCEPT !.cursor = Head(l.scopes), !.scopes = Tail(@), !.consumer = 1]
    IN  /\ l.pc = "append"
        /\ l.audits = <<>>
        /\ Put(p, [done EXCEPT !.pc = IF done.scopes = <<>> THEN "idle" ELSE "consume"])
        /\ UNCHANGED <<family, durable, loopFaults>>

-----------------------------------------------------------------------------
(* Faults.                                                                 *)

\* A consumer's transaction fails and is undone as a whole; the next one runs.
FailBatch(p) ==
    /\ loopFaults < MaxLoopFaults
    /\ loop[p].pc \in {"check", "materialize"}
    /\ loopFaults' = loopFaults + 1
    /\ Put(p, NextConsumer(loop[p]))
    /\ UNCHANGED <<family, durable>>

\* Appending or acknowledging an intent fails, or its answer is lost: the
\* event may be in the central store, the intent stays pending.
FailAudit(p) ==
    LET l == loop[p]
    IN  /\ loopFaults < MaxLoopFaults
        /\ l.pc \in {"append", "ack"}
        /\ l.audits # <<>>
        /\ loopFaults' = loopFaults + 1
        /\ central' \in {central, central \cup {Head(l.audits)}}
        /\ Put(p, [l EXCEPT !.pc = "append", !.audits = Tail(@)])
        /\ UNCHANGED <<family, happened, origin, denied, source, version, intent, receipt, changes>>

\* The process stops between two steps, or dies; its pages and cursors go.
Restart(p) ==
    /\ loopFaults < MaxLoopFaults
    /\ loop[p] # IdleLoop
    /\ loopFaults' = loopFaults + 1
    /\ Put(p, IdleLoop)
    /\ UNCHANGED <<family, durable>>

-----------------------------------------------------------------------------
InboxInit ==
    /\ family \in Assignments
    /\ happened = {} /\ origin = {} /\ denied = {} /\ central = {}
    /\ source = [e \in Events |-> "absent"]
    /\ version = [e \in Events |-> 0]
    /\ intent = [x \in Events \X Actions |-> "absent"]
    /\ receipt = [k \in ReadKeys |-> NoReceipt]
    /\ loop = [p \in Processes |-> IdleLoop]
    /\ changes = 0 /\ loopFaults = 0

Step(p) ==
    \/ Discover(p) \/ LockBatch(p) \/ Check(p) \/ Materialize(p) \/ CommitBatch(p)
    \/ PrepareProjections(p) \/ SelectAudits(p) \/ AppendAudit(p) \/ AckAudit(p) \/ NextScope(p)

InboxNext ==
    \/ \E e \in Events : Happen(e) \/ DeliverOrigin(e)
    \/ \E e \in Events, f \in Revocable : ChangeRight(e, f)
    \/ \E e \in Events, k \in ReadKeys, v \in 1..2 : Read(e, k, v) \/ ReadNotice(e, k, v)
    \/ \E p \in Processes : Step(p) \/ FailBatch(p) \/ FailAudit(p) \/ Restart(p)

\* The loop of a process runs every minute for as long as the process lives.  Nothing
\* says that the audit of a role change ever arrives: its store may refuse it for good.
Fairness == \A p \in Processes : WF_inboxVars(Step(p))

InboxSpec == InboxInit /\ [][InboxNext]_inboxVars /\ Fairness

-----------------------------------------------------------------------------
(* Properties.                                                             *)

\* Every variable keeps its type.
InboxTypeOK ==
    /\ family \in Assignments
    /\ happened \subseteq Events /\ origin \subseteq happened
    /\ denied \subseteq Events \X Facts
    /\ source \in [Events -> {"absent", "pending", "delivered", "suppressed"}]
    /\ version \in [Events -> 0..2]
    /\ intent \in [Events \X Actions -> {"absent", "pending", "delivered"}]
    /\ central \subseteq Events \X Actions
    /\ receipt \in [ReadKeys -> {NoReceipt} \cup (Events \X (1..2))]
    /\ \A p \in Processes :
          /\ loop[p].pc \in {"idle", "consume", "check", "materialize", "select", "append", "ack"}
          /\ loop[p].cursor \in Recipients \cup {None}
    /\ changes \in 0..MaxChanges /\ loopFaults \in 0..MaxLoopFaults

\* However its batch ended, a source is delivered exactly when its recipient
\* has the notification and the intent that tells of it exists: the batch of
\* materialize_pending_* commits or vanishes as a whole.
Accounted ==
    \A e \in Events \ Notices :
        /\ source[e] = "delivered" <=> version[e] > 0
        /\ version[e] > 0 <=> intent[<<e, "created">>] # "absent"

\* What a process holds is pending and held by no one else, so no source is
\* materialised twice by two processes (FOR UPDATE SKIP LOCKED).
HeldAlone ==
    \A p \in Processes : \A e \in Held(p) :
        /\ source[e] = "pending"
        /\ \A q \in Processes \ {p} : e \notin Held(q)

\* The central audit store never tells of something that was not committed,
\* and an acknowledged intent is there, through failed appends, lost answers
\* and restarts (dispatch_pending_notification_audits).
AuditTrail ==
    \A x \in Events \X Actions :
        /\ x \in central => intent[x] # "absent"
        /\ intent[x] = "delivered" => x \in central

\* A notification is read once: exactly one receipt answers for it, its read
\* intent exists, and the intent of its creation does too, also for a notice
\* that is read before its projection.
ReadOnce ==
    \A e \in Events :
        /\ version[e] = 2 <=> intent[<<e, "read">>] # "absent"
        /\ Cardinality({k \in ReadKeys : receipt[k][1] = e /\ receipt[k] # NoReceipt}) = (IF version[e] = 2 THEN 1 ELSE 0)
        /\ version[e] = 2 => intent[<<e, "created">>] # "absent"

\* A role change is told to its recipient, or withheld, only once its own
\* audit is in the store.
OriginFirst ==
    \A e \in Events : source[e] \in {"delivered", "suppressed"} => e \in origin

\* What has been settled stays settled: a delivered or suppressed source, a
\* read notification, an acknowledged intent.
Final ==
    [][/\ \A e \in Events : source[e] \in {"delivered", "suppressed"} => source'[e] = source[e]
       /\ \A e \in Events : version'[e] >= version[e]
       /\ \A x \in Events \X Actions : intent[x] = "delivered" => intent'[x] = "delivered"]_inboxVars

\* A source whose audit has not arrived waits; one that the Python check refuses and
\* the SQL check does not stays pending.
Blocked(e) == e \notin origin \/ (SqlAllows(e) /\ ~PythonAllows(e))

\* The page of a consumer has no cursor: Limit blocked sources of its recipient keep the
\* ones behind them out of it.
Starved(e) ==
    Cardinality({x \in Events : /\ x < e /\ source[x] = "pending" /\ Blocked(x)
                                /\ family[x] = family[e] /\ RecipientOf[x] = RecipientOf[e]}) >= Limit

\* Nothing is left to do: no pending source but the ones above, no intent
\* that is not in the central store, no notice its recipient may see that
\* is not projected.
Drained ==
    /\ \A e \in Events : source[e] = "pending" => Blocked(e) \/ Starved(e)
    /\ \A x \in Events \X Actions : intent[x] # "pending"
    /\ \A e \in Notices : Unprojected(e) => ~PythonAllows(e)

\* Once nothing happens to disturb them, the retry loops drain the outboxes but for
\* blocked sources and those a full page of them starves, whatever pages, cursors,
\* locks, failed batches and restarts came before.
InboxDrains == <>[]Drained

\* Every source is pending, held or settled exactly once, and read exactly once.
InboxExact == InboxTypeOK /\ Accounted /\ HeldAlone /\ ReadOnce

\* What users see is in the audit store, after the event it came from.
AuditedInOrder == AuditTrail /\ OriginFirst

\* The inbox drains as far as its pages let it, and what was settled stays.
DrainsForGood == Final /\ InboxDrains
=============================================================================
