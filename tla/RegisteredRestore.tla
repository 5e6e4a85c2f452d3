-------------------------- MODULE RegisteredRestore --------------------------
(* Restoring a lineage backup into a registered destination: the previews, the
   execution and the cancellation of recovery_postgres.py, the phases of
   recovery_lineage_restore.py and the triggers of migrations 0006 and 0070.

   A destination is reserved for one request and never released, so the module has
   one request.  An executor holds an advisory lock through a connection of its own
   (the guard) and works through other connections: when that connection drops, the
   lock is free although the executor goes on to its next ownership check.  The
   decision (retention, holds, rights, policy) is the number of its version. *)
EXTENDS Naturals, Sequences

CONSTANTS
  Executors,     \* running execute requests
  Previewers,    \* running preview requests
  Keys,          \* idempotency keys of executions; an operation id is made from one
  NoExecutor,
  Phases,        \* phases of a materialization (7 in the code)
  MaxDecision,   \* bound: versions of the decision
  MaxPreviews,   \* bound: previews of the request
  MaxStarts,     \* bound: executions started
  MaxFaults      \* bound: dropped connections, process deaths, errors of target or database

ASSUME RestoreAssumption ==
  /\ NoExecutor \notin Executors
  /\ Phases \in Nat \ {0} /\ MaxDecision \in Nat \ {0} /\ MaxPreviews \in Nat \ {0}
  /\ MaxStarts \in Nat /\ MaxFaults \in Nat

VARIABLES
  decision,  \* current decision
  parent,    \* state of the restore request
  previews,  \* its previews: the decision each was made under
  expired,   \* how many of them have expired
  journal,   \* registered_restore_phase_receipts
  target,    \* how often the content of a phase was written to the destination
  guard,     \* holder of the execution lock
  exec,      \* executors: step, key, preview version, history they loaded, phases done
  preview,   \* preview requests: step and decision read
  cancel,    \* the cancel request
  done,      \* keys recorded as executed
  outcome,   \* terminal notifications
  starts, faults

vars == <<decision, parent, previews, expired, journal, target, guard, exec, preview,
          cancel, done, outcome, starts, faults>>

States == {"none", "preview_ready", "restoring", "completed", "failed", "cancelled"}
Steps == {"idle", "started", "begun", "phases", "intent", "write", "boundary", "succeed",
          "uncertain", "fail", "finish"}
Entry == [phase: 1..Phases, out: {"intent", "succeeded", "uncertain"}, key: Keys, pv: 1..MaxPreviews]

TypeOK ==
  /\ decision \in 1..MaxDecision
  /\ parent \in States
  /\ previews \in Seq(1..MaxDecision) /\ Len(previews) <= MaxPreviews
  /\ expired \in 0..Len(previews)
  /\ journal \in Seq(Entry)
  /\ target \in [1..Phases -> Nat]
  /\ guard \in Executors \cup {NoExecutor}
  /\ exec \in [Executors -> [pc: Steps, key: Keys, pv: 0..MaxPreviews, hist: 0..(2 * Phases + 1),
                             last: 0..Phases, replayed: BOOLEAN]]
  /\ preview \in [Previewers -> [pc: {"idle", "checked"}, dec: 1..MaxDecision]]
  /\ cancel \in {"idle", "seen"}
  /\ done \subseteq Keys
  /\ outcome \in Nat
  /\ starts \in 0..MaxStarts /\ faults \in 0..MaxFaults

NoExec(k) == [pc |-> "idle", key |-> k, pv |-> 0, hist |-> 0, last |-> 0, replayed |-> FALSE]

Init ==
  /\ decision = 1 /\ parent = "none" /\ previews = <<>> /\ expired = 0
  /\ journal = <<>> /\ target = [p \in 1..Phases |-> 0]
  /\ guard = NoExecutor
  /\ \E k \in Keys : exec = [e \in Executors |-> NoExec(k)]
  /\ preview = [v \in Previewers |-> [pc |-> "idle", dec |-> 1]]
  /\ cancel = "idle" /\ done = {} /\ outcome = 0
  /\ starts = 0 /\ faults = 0

Fault == faults < MaxFaults /\ faults' = faults + 1
Goto(e, pc) == exec' = [exec EXCEPT ![e].pc = pc]
Leave(e) ==
  /\ exec' = [exec EXCEPT ![e] = NoExec(exec[e].key)]
  /\ guard' = IF guard = e THEN NoExecutor ELSE guard

request == <<parent, previews, expired, done, outcome>>
bounds == <<starts, faults>>

\* guard_restore_request_update, for the states a transaction leaves behind.
LegalTransition(from, to) ==
  \/ from = "none" /\ to = "preview_ready"
  \/ from = "preview_ready" /\ to \in {"restoring", "cancelled", "failed"}
  \/ from = "restoring" /\ to \in {"completed", "failed"}

Empty == \A p \in 1..Phases : target[p] = 0

----------------------------------------------------------------------------
(* Previews. *)

PreviewRead(v) ==
  /\ preview[v].pc = "idle"
  /\ preview' = [preview EXCEPT ![v] = [pc |-> "checked", dec |-> decision]]
  /\ UNCHANGED <<decision, request, journal, target, guard, exec, cancel, bounds>>

\* The first preview makes the request and reserves the destination; a later one needs
\* the execution lock, a request nobody has executed and a destination still empty.
PreviewCommit(v) ==
  /\ preview[v].pc = "checked"
  /\ preview' = [preview EXCEPT ![v].pc = "idle"]
  /\ IF /\ Empty
        /\ \/ parent = "none"
           \/ guard = NoExecutor /\ parent = "preview_ready" /\ journal = <<>>
       THEN /\ Len(previews) < MaxPreviews
            /\ parent' = "preview_ready" /\ previews' = Append(previews, preview[v].dec)
       ELSE UNCHANGED <<parent, previews>>
  /\ UNCHANGED <<decision, expired, done, outcome, journal, target, guard, exec, cancel, bounds>>

----------------------------------------------------------------------------
(* Execution. *)

\* current(): still the owner, the preview is the latest, valid and decided as now.
CurrentOK(e) ==
  /\ guard = e
  /\ exec[e].pv = Len(previews) /\ exec[e].pv > expired
  /\ previews[exec[e].pv] = decision
  /\ parent \in {"preview_ready", "restoring", "completed"}

Start(e, k) ==
  /\ exec[e].pc = "idle" /\ guard = NoExecutor /\ starts < MaxStarts
  /\ previews # <<>> /\ Len(previews) > expired /\ previews[Len(previews)] = decision
  /\ parent \in {"preview_ready", "restoring", "completed"}
  /\ guard' = e /\ starts' = starts + 1
  /\ exec' = [exec EXCEPT ![e] = [NoExec(k) EXCEPT !.pc = "started", !.pv = Len(previews),
                                                   !.hist = Len(journal)]]
  /\ UNCHANGED <<decision, request, journal, target, preview, cancel, faults>>

JournalOf(k) == \A i \in 1..Len(journal) : journal[i].key = k

\* One transaction with the request locked: replay of a recorded execution, first
\* start, or resumption of an execution that has journal entries under the same key.
Begin(e) ==
  LET x == exec[e]
      replay == x.key \in done /\ parent = "completed"
      fresh == x.key \notin done /\ parent = "preview_ready" /\ x.hist = 0
      resume == x.key \notin done /\ parent = "restoring" /\ x.hist > 0 /\ JournalOf(x.key)
  IN
  /\ x.pc = "started"
  /\ IF CurrentOK(e) /\ (replay \/ fresh \/ resume)
       THEN /\ exec' = [exec EXCEPT ![e].pc = "begun", ![e].replayed = replay]
            /\ parent' = IF fresh THEN "restoring" ELSE parent
            /\ UNCHANGED guard
       ELSE Leave(e) /\ UNCHANGED parent
  /\ UNCHANGED <<decision, previews, expired, done, outcome, journal, target, preview, cancel, bounds>>

\* Journal entries come in pairs of one operation, intent and success of phases 1, 2, ...
Paired(k) ==
  /\ Len(journal) % 2 = 0
  /\ \A i \in 1..Len(journal) :
       /\ journal[i].phase = (i + 1) \div 2 /\ journal[i].key = k
       /\ journal[i].out = IF i % 2 = 1 THEN "intent" ELSE "succeeded"

\* The destination holds exactly the phases up to n.
Holds(n) == \A p \in 1..Phases : target[p] = IF p <= n THEN 1 ELSE 0

Materialize(e) ==
  /\ exec[e].pc = "begun"
  /\ IF CurrentOK(e) /\ Paired(exec[e].key) /\ Holds(Len(journal) \div 2)
       THEN exec' = [exec EXCEPT ![e].pc = "phases", ![e].last = Len(journal) \div 2]
       ELSE Goto(e, "fail")
  /\ UNCHANGED <<decision, request, journal, target, guard, preview, cancel, bounds>>

\* Before a phase, and once more after the last one.
CheckPhase(e) ==
  /\ exec[e].pc = "phases"
  /\ Goto(e, IF ~CurrentOK(e) THEN "fail" ELSE IF exec[e].last < Phases THEN "intent" ELSE "finish")
  /\ UNCHANGED <<decision, request, journal, target, guard, preview, cancel, bounds>>

AcceptsAny(x, out) == parent = "restoring" \/ (parent = "failed" /\ out = "uncertain")

\* guard_registered_restore_insert for a phase receipt: the order of the journal, one
\* operation and preview, nothing after an uncertain phase.
Accepts(x, out) ==
  /\ parent = "restoring" \/ (parent = "failed" /\ out = "uncertain")
  /\ IF journal = <<>>
       THEN x.last = 0 /\ out = "intent" /\ x.pv = Len(previews) /\ x.pv > expired
       ELSE LET prev == journal[Len(journal)] IN
            /\ prev.key = x.key /\ prev.pv = x.pv
            /\ \/ prev.out = "intent" /\ out # "intent" /\ prev.phase = x.last + 1
               \/ prev.out = "succeeded" /\ out = "intent" /\ prev.phase = x.last

Append1(x, out) ==
  journal' = Append(journal, [phase |-> x.last + 1, out |-> out, key |-> x.key, pv |-> x.pv])

Intent(e) ==
  /\ exec[e].pc = "intent"
  /\ IF Accepts(exec[e], "intent")
       THEN Append1(exec[e], "intent") /\ Goto(e, "write")
       ELSE Goto(e, "fail") /\ UNCHANGED journal
  /\ UNCHANGED <<decision, request, target, guard, preview, cancel, bounds>>

\* The content of the phase, in transactions of the destination; it may fail.
Write(e) ==
  /\ exec[e].pc = "write"
  /\ \/ /\ target' = [target EXCEPT ![exec[e].last + 1] = @ + 1]
        /\ Goto(e, "boundary") /\ UNCHANGED faults
     \/ UNCHANGED target /\ Goto(e, "uncertain") /\ Fault
  /\ UNCHANGED <<decision, request, journal, guard, preview, cancel, starts>>

\* boundary(), the audit event of the phase and verify_phase.
Boundary(e) ==
  /\ exec[e].pc = "boundary"
  /\ Goto(e, IF CurrentOK(e) /\ Holds(exec[e].last + 1) THEN "succeed" ELSE "uncertain")
  /\ UNCHANGED <<decision, request, journal, target, guard, preview, cancel, bounds>>

Succeed(e) ==
  /\ exec[e].pc = "succeed"
  /\ IF Accepts(exec[e], "succeeded")
       THEN Append1(exec[e], "succeeded") /\ exec' = [exec EXCEPT ![e].pc = "phases", ![e].last = @ + 1]
       ELSE Goto(e, "fail") /\ UNCHANGED journal
  /\ UNCHANGED <<decision, request, target, guard, preview, cancel, bounds>>

Uncertain(e) ==
  /\ exec[e].pc = "uncertain"
  /\ IF Accepts(exec[e], "uncertain") THEN Append1(exec[e], "uncertain") ELSE UNCHANGED journal
  /\ Goto(e, "fail")
  /\ UNCHANGED <<decision, request, target, guard, preview, cancel, bounds>>

FailAnyway(e) ==
  /\ exec[e].pc = "fail"
  /\ parent' = "failed" /\ outcome' = 1
  /\ Leave(e)
  /\ UNCHANGED <<decision, previews, expired, done, journal, target, preview, cancel, bounds>>

\* Only the owner records the failure, and only of an execution that is under way.
Fail(e) ==
  /\ exec[e].pc = "fail"
  /\ IF guard = e /\ parent = "restoring"
       THEN parent' = "failed" /\ outcome' = outcome + 1
       ELSE UNCHANGED <<parent, outcome>>
  /\ Leave(e)
  /\ UNCHANGED <<decision, previews, expired, done, journal, target, preview, cancel, bounds>>

\* Verification, completion, the operation record and the notification in one
\* transaction; a refusal here leaves the request restoring.
Finish(e) ==
  /\ exec[e].pc = "finish"
  /\ IF /\ CurrentOK(e) /\ parent = "restoring" /\ ~exec[e].replayed
        /\ Len(journal) = 2 * Phases /\ Paired(exec[e].key)
       THEN parent' = "completed" /\ done' = done \cup {exec[e].key} /\ outcome' = outcome + 1
       ELSE UNCHANGED <<parent, done, outcome>>
  /\ Leave(e)
  /\ UNCHANGED <<decision, previews, expired, journal, target, preview, cancel, bounds>>

----------------------------------------------------------------------------
(* Cancellation, time and faults. *)

CancelRead ==
  /\ cancel = "idle" /\ parent = "preview_ready" /\ cancel' = "seen"
  /\ UNCHANGED <<decision, request, journal, target, guard, exec, preview, bounds>>

CancelAsRead ==
  /\ cancel = "seen" /\ cancel' = "idle" /\ parent' = "cancelled"
  /\ UNCHANGED <<decision, previews, expired, done, outcome, journal, target, guard, exec, preview, bounds>>

\* The update waits for the row; the trigger then looks at the state it finds.
CancelWrite ==
  /\ cancel = "seen" /\ cancel' = "idle"
  /\ parent' = IF LegalTransition(parent, "cancelled") THEN "cancelled" ELSE parent
  /\ UNCHANGED <<decision, previews, expired, done, outcome, journal, target, guard, exec, preview, bounds>>

Expire ==
  /\ expired < Len(previews) /\ expired' = expired + 1
  /\ UNCHANGED <<decision, parent, previews, done, outcome, journal, target, guard, exec, preview, cancel, bounds>>

ChangeDecision ==
  /\ decision < MaxDecision /\ decision' = decision + 1
  /\ UNCHANGED <<request, journal, target, guard, exec, preview, cancel, bounds>>

\* The guard's connection drops: the lock is free, its executor goes on.
LoseGuard ==
  /\ Fault /\ guard # NoExecutor /\ guard' = NoExecutor
  /\ UNCHANGED <<decision, request, journal, target, exec, preview, cancel, starts>>

Crash ==
  /\ Fault
  /\ guard' = NoExecutor
  /\ exec' = [e \in Executors |-> NoExec(exec[e].key)]
  /\ preview' = [v \in Previewers |-> [preview[v] EXCEPT !.pc = "idle"]]
  /\ cancel' = "idle"
  /\ UNCHANGED <<decision, request, journal, target, starts>>

Execute(e) ==
  \/ \E k \in Keys : Start(e, k)
  \/ Begin(e) \/ Materialize(e) \/ CheckPhase(e) \/ Intent(e) \/ Write(e) \/ Boundary(e)
  \/ Succeed(e) \/ Uncertain(e) \/ Fail(e) \/ Finish(e)

Next ==
  \/ \E v \in Previewers : PreviewRead(v) \/ PreviewCommit(v)
  \/ \E e \in Executors : Execute(e)
  \/ CancelRead \/ CancelWrite \/ Expire \/ ChangeDecision \/ LoseGuard \/ Crash

Spec == Init /\ [][Next]_vars

----------------------------------------------------------------------------
(* Properties. *)

(* A completed restore is exactly one materialization: every phase has an intent and a
   success under one key, and its content is in the destination once. *)
CompletedExact ==
  parent = "completed" =>
    \E k \in done : Len(journal) = 2 * Phases /\ Paired(k) /\ Holds(Phases)

(* No phase is written twice, also when an executor that lost its lock and its
   successor run at the same time. *)
PhaseOnce == \A p \in 1..Phases : target[p] <= 1

(* A request that is waiting, or was cancelled, has left the destination untouched. *)
CancelledUntouched ==
  parent \in {"none", "preview_ready", "cancelled"} => journal = <<>> /\ Empty

(* The user hears of one outcome, and only when there is one. *)
OneOutcome == outcome = IF parent \in {"completed", "failed"} THEN 1 ELSE 0

(* What is in the destination was announced in the journal before it was written, so
   an interrupted restore always leaves a trace there. *)
WritesAnnounced ==
  \A p \in 1..Phases : target[p] > 0 =>
    \E i \in 1..Len(journal) : journal[i].phase = p /\ journal[i].out = "intent"

(* The preview that was confirmed is the one that is executed: once a phase began, no
   preview is added and every entry is of the last one. *)
ConfirmedPreview ==
  \A i \in 1..Len(journal) : journal[i].pv = Len(previews)

(* A request that has ended, completed, failed or cancelled, stays so, and its journal
   only grows by the uncertain entry of an executor that was still writing. *)
EndsForGood ==
  [][(parent \in {"completed", "failed", "cancelled"}) =>
       parent' = parent /\ (journal' = journal \/ journal'[Len(journal')].out = "uncertain")]_vars

\* The phases of a restore are announced, done once, of the confirmed preview, and all
\* done when it completes.
PhasesExact == TypeOK /\ CompletedExact /\ PhaseOnce /\ WritesAnnounced /\ ConfirmedPreview

\* A request has one fate: a cancelled one touched nothing.
OneFate == CancelledUntouched /\ OneOutcome
=============================================================================
