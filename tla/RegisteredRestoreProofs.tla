----------------------- MODULE RegisteredRestoreProofs -----------------------
(* Proofs about RegisteredRestore, for every number of executors, keys, previews and
   phases.  Nothing but the triggers serializes two executors once the connection of
   the first one's lock has dropped, so the inductive invariant ties three things
   together: the shape of the journal, the one executor that may be between an intent
   and its result, and what the destination holds.  At the end the proofs about
   Membership. *)
EXTENDS RegisteredRestore, Membership, FiniteSetTheorems, TLAPS

Writing == {"write", "boundary", "succeed", "uncertain"}
Working == Writing \cup {"begun", "phases", "intent", "fail", "finish"}

\* The journal is intent, success, intent, success, ... of one key and the last preview;
\* only its last entry can be uncertain.
Ordered ==
  /\ Len(journal) <= 2 * Phases
  /\ \A i \in 1..Len(journal) : journal[i].key = journal[1].key /\ journal[i].pv = Len(previews)
  /\ \A p \in 1..Phases :
       /\ 2 * p - 1 <= Len(journal) => journal[2 * p - 1].phase = p /\ journal[2 * p - 1].out = "intent"
       /\ 2 * p <= Len(journal) =>
            /\ journal[2 * p].phase = p
            /\ journal[2 * p].out = "succeeded" \/ (journal[2 * p].out = "uncertain" /\ Len(journal) = 2 * p)

\* The destination holds the phases that succeeded, and perhaps the one whose result is
\* not known.
Contents ==
  \A n \in 0..Phases :
    /\ Len(journal) = 2 * n /\ (n > 0 => journal[2 * n].out = "succeeded") => Holds(n)
    /\ Len(journal) = 2 * n /\ n > 0 => Holds(n - 1) \/ Holds(n)
    /\ Len(journal) = 2 * n + 1 => Holds(n) \/ Holds(n + 1)

\* At most one executor is between an intent and its result: that of the last entry.
OneWriter ==
  \A e \in Executors : exec[e].pc \in Writing =>
    /\ Len(journal) = 2 * exec[e].last + 1
    /\ exec[e].pc = "write" => Holds(exec[e].last)
    /\ exec[e].pc \in {"boundary", "succeed"} => Holds(exec[e].last + 1)
    /\ \A f \in Executors : exec[f].pc \in Writing => f = e

\* An executor past its first transaction executes the last preview of a request that
\* is no longer waiting.
Begun ==
  \A e \in Executors : exec[e].pc \in Working =>
    /\ exec[e].pv = Len(previews) /\ Len(previews) > 0
    /\ parent \in {"restoring", "completed", "failed"}
    /\ exec[e].pc = "intent" => exec[e].last < Phases

RestoreInv ==
  TypeOK /\ Ordered /\ Contents /\ OneWriter /\ Begun /\ CompletedExact /\ OneFate

----------------------------------------------------------------------------
(* Helpers. *)

ExecType == [pc: Steps, key: Keys, pv: 0..MaxPreviews, hist: 0..(2 * Phases + 1),
             last: 0..Phases, replayed: BOOLEAN]

\* The steps by name, so that the set need not be expanded in every proof.
LEMMA Names ==
  /\ Writing \subseteq Steps /\ Working \subseteq Steps /\ Writing \subseteq Working
  /\ {"idle", "started", "begun", "phases", "intent", "fail", "finish"} \subseteq Steps
  /\ "idle" \notin Working /\ "started" \notin Working
  /\ "begun" \notin Writing /\ "phases" \notin Writing /\ "intent" \notin Writing
  /\ "fail" \notin Writing /\ "finish" \notin Writing
BY DEF Writing, Working, Steps

\* The parity and the phase of the journal's entries, without division.
LEMMA Halves ==
  ASSUME NEW n \in Nat
  PROVE  /\ (2 * n) \div 2 = n /\ (2 * n + 1) \div 2 = n /\ (2 * n + 2) \div 2 = n + 1
         /\ (2 * n) % 2 = 0 /\ (2 * n + 1) % 2 = 1 /\ (2 * n + 2) % 2 = 0
BY SMT

\* An even number is not odd, and what doubling keeps apart.
LEMMA Parity ==
  ASSUME NEW m \in Nat, NEW n \in Nat
  PROVE  /\ 2 * m # 2 * n + 1
         /\ 2 * m = 2 * n + 2 => m = n + 1
         /\ 2 * m + 1 # 2 * n + 2
BY SMT

\* A natural number is even or odd: an intent and its result are two entries.
LEMMA EvenOrOdd ==
  ASSUME NEW m \in Nat
  PROVE  \E n \in Nat : m = 2 * n \/ m = 2 * n + 1
<1>1. m \div 2 \in Nat /\ (m = 2 * (m \div 2) \/ m = 2 * (m \div 2) + 1)
  BY SMT
<1> QED
  BY <1>1

\* A process that goes to another step keeps the rest of its record.
LEMMA GotoTyped ==
  ASSUME exec \in [Executors -> ExecType], NEW e \in Executors, NEW pc \in Steps, Goto(e, pc)
  PROVE  /\ exec' \in [Executors -> ExecType]
         /\ exec'[e].pc = pc
         /\ exec'[e].pv = exec[e].pv /\ exec'[e].last = exec[e].last
         /\ exec'[e].key = exec[e].key
         /\ \A f \in Executors : f # e => exec'[f] = exec[f]
<1>1. exec' = [exec EXCEPT ![e] = [exec[e] EXCEPT !.pc = pc]]
  BY DEF Goto
<1>2. [exec[e] EXCEPT !.pc = pc] \in ExecType
  BY DEF ExecType
<1> QED
  BY <1>1, <1>2 DEF ExecType

\* An executor that leaves keeps its key; the lock is free unless it is another's.
LEMMA LeaveTyped ==
  ASSUME exec \in [Executors -> ExecType], guard \in Executors \cup {NoExecutor},
         NEW e \in Executors, Leave(e)
  PROVE  /\ exec' \in [Executors -> ExecType]
         /\ guard' \in Executors \cup {NoExecutor}
         /\ exec'[e].pc = "idle"
         /\ \A f \in Executors : f # e => exec'[f] = exec[f]
<1>1. exec[e].key \in Keys
  BY DEF ExecType
<1>2. NoExec(exec[e].key) \in ExecType
  BY <1>1, Names, RestoreAssumption DEF ExecType, NoExec
<1>3. NoExec(exec[e].key).pc = "idle"
  BY DEF NoExec
<1> QED
  BY <1>2, <1>3 DEF Leave

\* Before the first request of the restore service the invariant holds.
THEOREM InitInv == Init => RestoreInv
<1> SUFFICES ASSUME Init PROVE RestoreInv
  OBVIOUS
<1>1. PICK k \in Keys : exec = [e \in Executors |-> NoExec(k)]
  BY DEF Init
<1>2. NoExec(k) \in ExecType /\ NoExec(k).pc = "idle"
  BY Names, RestoreAssumption DEF ExecType, NoExec
<1>3. exec \in [Executors -> ExecType] /\ \A e \in Executors : exec[e].pc = "idle"
  BY <1>1, <1>2
<1>4. Len(journal) = 0 /\ Empty
  BY RestoreAssumption DEF Init, Empty
<1>5. TypeOK
  BY <1>3, RestoreAssumption DEF Init, TypeOK, ExecType, States
<1>6. Ordered
  BY <1>4, RestoreAssumption DEF Ordered
<1>7. Contents
  BY <1>4, RestoreAssumption DEF Contents, Holds, Empty
<1>8. OneWriter /\ Begun
  BY <1>3, Names DEF OneWriter, Begun
<1>9. CompletedExact /\ OneFate
  BY <1>4 DEF Init, CompletedExact, OneFate, CancelledUntouched, OneOutcome
<1> QED
  BY <1>5, <1>6, <1>7, <1>8, <1>9 DEF RestoreInv

\* What a step keeps that touches neither the journal, the destination nor the
\* previews, and after which every writer is where it was.
LEMMA WritersFrame ==
  ASSUME RestoreInv, UNCHANGED <<journal, target, previews>>,
         \A f \in Executors : exec'[f].pc \in Writing => exec'[f] = exec[f]
  PROVE  Ordered' /\ Contents' /\ OneWriter'
<1>1. Ordered'
  BY DEF RestoreInv, Ordered
<1>2. \A n : Holds(n)' <=> Holds(n)
  BY DEF Holds
<1>3. Contents'
  BY <1>2 DEF RestoreInv, Contents
<1>4. OneWriter'
  BY <1>2 DEF RestoreInv, OneWriter
<1> QED
  BY <1>1, <1>3, <1>4

\* What a step keeps that lets the executors at work go on with the same preview.
LEMMA BegunFrame ==
  ASSUME RestoreInv, UNCHANGED previews,
         parent' = parent \/ parent' \in {"restoring", "completed", "failed"},
         \A f \in Executors : exec'[f].pc \in Working =>
           \/ exec'[f] = exec[f]
           \/ /\ exec[f].pc \in Working /\ exec'[f].pv = exec[f].pv
              /\ exec'[f].pc = "intent" => exec'[f].last < Phases
  PROVE  Begun'
BY DEF RestoreInv, Begun

\* The fate of the request is a matter of five variables.
LEMMA FateFrame ==
  ASSUME RestoreInv, UNCHANGED <<parent, outcome, done, journal, target>>
  PROVE  CompletedExact' /\ OneFate'
<1>1. \A k : Paired(k)' <=> Paired(k)
  BY DEF Paired
<1>2. \A n : Holds(n)' <=> Holds(n)
  BY DEF Holds
<1> QED
  BY <1>1, <1>2 DEF RestoreInv, CompletedExact, OneFate, CancelledUntouched, OneOutcome, Empty

\* A request that waits, was cancelled or does not exist has no executor at work, no
\* journal and nothing in the destination.
LEMMA Waiting ==
  ASSUME RestoreInv, parent \in {"none", "preview_ready", "cancelled"}
  PROVE  /\ Len(journal) = 0 /\ journal = <<>> /\ Empty
         /\ \A e \in Executors : exec[e].pc \notin Working
BY DEF RestoreInv, OneFate, CancelledUntouched, Begun

----------------------------------------------------------------------------
(* Steps that leave the journal and the destination alone. *)

\* Reading for a preview and committing it keeps the invariant.
LEMMA PreviewInv ==
  ASSUME RestoreInv, NEW v \in Previewers, PreviewRead(v) \/ PreviewCommit(v)
  PROVE  RestoreInv'
<1> USE DEF RestoreInv
<1>1. CASE PreviewRead(v)
  <2>1. TypeOK'
    BY <1>1 DEF PreviewRead, TypeOK, request, bounds
  <2> QED
    BY <1>1, <2>1, WritersFrame, BegunFrame, FateFrame DEF PreviewRead, request, bounds
<1>2. CASE PreviewCommit(v) /\ UNCHANGED <<parent, previews>>
  <2>1. TypeOK'
    BY <1>2 DEF PreviewCommit, TypeOK, bounds
  <2> QED
    BY <1>2, <2>1, WritersFrame, BegunFrame, FateFrame DEF PreviewCommit, bounds
<1>3. CASE PreviewCommit(v) /\ ~UNCHANGED <<parent, previews>>
  <2>1. /\ parent \in {"none", "preview_ready"} /\ parent' = "preview_ready"
        /\ Len(previews) < MaxPreviews /\ previews' = Append(previews, preview[v].dec)
        /\ preview' = [preview EXCEPT ![v].pc = "idle"]
        /\ UNCHANGED <<decision, expired, done, outcome, journal, target, guard, exec, cancel,
                       starts, faults>>
    BY <1>3 DEF PreviewCommit, bounds
  <2>0. /\ previews \in Seq(1..MaxDecision) /\ preview[v].dec \in 1..MaxDecision
        /\ Len(previews) \in Nat /\ expired \in 0..Len(previews)
    BY DEF TypeOK
  <2>2. /\ previews' \in Seq(1..MaxDecision) /\ Len(previews') = Len(previews) + 1
    BY <2>0, <2>1
  <2>a. preview' \in [Previewers -> [pc: {"idle", "checked"}, dec: 1..MaxDecision]]
    BY <2>1 DEF TypeOK
  <2>b. Len(previews') <= MaxPreviews /\ expired' \in 0..Len(previews')
    BY <2>0, <2>1, <2>2, RestoreAssumption
  <2>c. parent' \in States
    BY <2>1 DEF States
  <2>3. TypeOK'
    BY <2>1, <2>2, <2>a, <2>b, <2>c DEF TypeOK
  <2>4. /\ Len(journal) = 0 /\ journal = <<>> /\ Empty
        /\ \A e \in Executors : exec[e].pc \notin Working
    BY <2>1, Waiting
  <2>5. Ordered'
    BY <2>1, <2>4, RestoreAssumption DEF Ordered
  <2>6. \A n : Holds(n)' <=> Holds(n)
    BY <2>1 DEF Holds
  <2>7. Contents' /\ OneWriter' /\ Begun'
    BY <2>1, <2>4, <2>6, Names DEF Contents, OneWriter, Begun
  <2>8. CompletedExact' /\ OneFate'
    BY <2>1, <2>4 DEF CompletedExact, OneFate, CancelledUntouched, OneOutcome, Empty
  <2> QED
    BY <2>3, <2>5, <2>7, <2>8
<1> QED
  BY <1>1, <1>2, <1>3

\* A cancellation and what happens around the restore (an expiring preview, a changed
\* decision, a lost guard, a crash) keep it.
LEMMA EnvironmentInv ==
  ASSUME RestoreInv, CancelRead \/ CancelWrite \/ Expire \/ ChangeDecision \/ LoseGuard \/ Crash
  PROVE  RestoreInv'
<1> USE DEF RestoreInv
<1>1. CASE CancelRead \/ Expire \/ ChangeDecision \/ LoseGuard
  <2>a. ASSUME CancelRead \/ Expire \/ ChangeDecision PROVE TypeOK'
    <3>0. decision \in 1..MaxDecision /\ expired \in 0..Len(previews) /\ Len(previews) \in Nat
      BY DEF TypeOK
    <3>1. decision' \in 1..MaxDecision /\ expired' \in 0..Len(previews)
      BY <2>a, <3>0, RestoreAssumption DEF CancelRead, Expire, ChangeDecision, request
    <3>2. cancel' \in {"idle", "seen"}
      BY <2>a DEF CancelRead, Expire, ChangeDecision, TypeOK
    <3>3. UNCHANGED <<parent, previews, journal, target, guard, exec, preview, done, outcome, starts, faults>>
      BY <2>a DEF CancelRead, Expire, ChangeDecision, request, bounds
    <3> QED
      BY <3>1, <3>2, <3>3 DEF TypeOK
  <2>b. ASSUME LoseGuard PROVE TypeOK'
    <3>1. faults' \in 0..MaxFaults
      BY <2>b, RestoreAssumption DEF LoseGuard, Fault, TypeOK
    <3> QED
      BY <2>b, <3>1 DEF LoseGuard, TypeOK, request
  <2>1. TypeOK'
    BY <1>1, <2>a, <2>b
  <2>2. UNCHANGED <<parent, outcome, done, journal, target, previews, exec>>
    BY <1>1 DEF CancelRead, Expire, ChangeDecision, LoseGuard, request
  <2> QED
    BY <2>1, <2>2, WritersFrame, BegunFrame, FateFrame
<1>2. CASE CancelWrite
  <2>1. TypeOK'
    BY <1>2 DEF CancelWrite, TypeOK, States, bounds
  <2>2. CASE parent' = parent
    BY <1>2, <2>1, <2>2, WritersFrame, BegunFrame, FateFrame DEF CancelWrite
  <2>3. CASE parent' # parent
    <3>1. parent = "preview_ready" /\ parent' = "cancelled"
      BY <1>2, <2>3 DEF CancelWrite, LegalTransition
    <3>2. Ordered' /\ Contents' /\ OneWriter'
      BY <1>2, WritersFrame DEF CancelWrite
    <3>3. Begun'
      BY <1>2, <3>1, Waiting DEF CancelWrite, Begun
    <3>4. CompletedExact' /\ OneFate'
      BY <1>2, <3>1, Waiting
         DEF CancelWrite, CompletedExact, OneFate, CancelledUntouched, OneOutcome, Empty
    <3> QED
      BY <2>1, <3>2, <3>3, <3>4
  <2> QED
    BY <2>2, <2>3
<1>3. CASE Crash
  <2>1. \A e \in Executors : NoExec(exec[e].key) \in ExecType /\ NoExec(exec[e].key).pc = "idle"
    BY Names, RestoreAssumption DEF TypeOK, ExecType, NoExec
  <2>2. exec' \in [Executors -> ExecType] /\ \A e \in Executors : exec'[e].pc = "idle"
    BY <1>3, <2>1 DEF Crash
  <2>3. preview' \in [Previewers -> [pc: {"idle", "checked"}, dec: 1..MaxDecision]]
    BY <1>3 DEF Crash, TypeOK
  <2>a. faults' \in 0..MaxFaults /\ guard' \in Executors \cup {NoExecutor} /\ cancel' \in {"idle", "seen"}
    <3>1. faults \in 0..MaxFaults /\ MaxFaults \in Nat /\ faults < MaxFaults /\ faults' = faults + 1
      BY <1>3, RestoreAssumption DEF Crash, Fault, TypeOK
    <3>2. guard' \in Executors \cup {NoExecutor} /\ cancel' \in {"idle", "seen"}
      BY <1>3 DEF Crash, TypeOK
    <3> QED
      BY <3>1, <3>2
  <2>4. TypeOK'
    BY <1>3, <2>2, <2>3, <2>a DEF Crash, TypeOK, ExecType, request
  <2> QED
    BY <1>3, <2>2, <2>4, WritersFrame, BegunFrame, FateFrame, Names DEF Crash, request
<1> QED
  BY <1>1, <1>2, <1>3

\* Starting an execution keeps the invariant.
LEMMA StartInv ==
  ASSUME RestoreInv, NEW e \in Executors, NEW k \in Keys, Start(e, k)
  PROVE  RestoreInv'
<1> USE DEF RestoreInv
<1> DEFINE x == [NoExec(k) EXCEPT !.pc = "started", !.pv = Len(previews), !.hist = Len(journal)]
<1>1. exec' = [exec EXCEPT ![e] = x] /\ starts < MaxStarts /\ starts' = starts + 1
  BY DEF Start
<1>2. Len(journal) \in 0..(2 * Phases + 1) /\ Len(previews) \in 0..MaxPreviews
  BY RestoreAssumption DEF TypeOK, Ordered
<1>a. NoExec(k) \in ExecType
  BY Names, RestoreAssumption DEF ExecType, NoExec
<1>3. x \in ExecType /\ x.pc = "started"
  BY <1>2, <1>a, Names DEF ExecType
<1> HIDE DEF x
<1>4. exec \in [Executors -> ExecType]
  BY DEF TypeOK, ExecType
<1>5. /\ exec' \in [Executors -> ExecType] /\ exec'[e].pc = "started"
      /\ \A f \in Executors : f # e => exec'[f] = exec[f]
  BY <1>1, <1>3, <1>4
<1>6. starts' \in 0..MaxStarts
  BY <1>1, RestoreAssumption DEF TypeOK
<1>7. TypeOK'
  BY <1>5, <1>6 DEF Start, TypeOK, ExecType, request
<1>8. UNCHANGED <<parent, outcome, done, journal, target, previews>>
  BY DEF Start, request
<1>9. \A f \in Executors : exec'[f].pc \in Working => exec'[f] = exec[f]
  BY <1>5, Names
<1>10. \A f \in Executors : exec'[f].pc \in Writing => exec'[f] = exec[f]
  BY <1>9, Names
<1> QED
  BY <1>7, <1>8, <1>9, <1>10, WritersFrame, BegunFrame, FateFrame

\* Leaving, for the steps that end with it.
LEMMA LeaveFrame ==
  ASSUME RestoreInv, NEW e \in Executors, Leave(e), UNCHANGED <<journal, target, previews>>
  PROVE  /\ exec' \in [Executors -> ExecType]
         /\ guard' \in Executors \cup {NoExecutor}
         /\ Ordered' /\ Contents' /\ OneWriter'
         /\ \A f \in Executors : exec'[f].pc \in Working => exec'[f] = exec[f]
<1>1. exec \in [Executors -> ExecType] /\ guard \in Executors \cup {NoExecutor}
  BY DEF RestoreInv, TypeOK, ExecType
<1>2. /\ exec' \in [Executors -> ExecType] /\ guard' \in Executors \cup {NoExecutor}
      /\ \A f \in Executors : exec'[f].pc \in Working => exec'[f] = exec[f]
  BY <1>1, LeaveTyped, Names
<1>3. \A f \in Executors : exec'[f].pc \in Writing => exec'[f] = exec[f]
  BY <1>2, Names
<1> QED
  BY <1>2, <1>3, WritersFrame

\* Beginning an execution in the database keeps the invariant.
LEMMA BeginInv ==
  ASSUME RestoreInv, NEW e \in Executors, Begin(e)
  PROVE  RestoreInv'
<1> USE DEF RestoreInv
<1>a. UNCHANGED <<decision, previews, expired, done, outcome, journal, target, preview, cancel,
                  starts, faults>>
  BY DEF Begin, bounds
<1>1. CASE Leave(e) /\ UNCHANGED parent
  <2>1. TypeOK'
    BY <1>1, <1>a, LeaveFrame DEF TypeOK, ExecType
  <2> QED
    BY <1>1, <1>a, <2>1, LeaveFrame, BegunFrame, FateFrame
<1>2. CASE ~(Leave(e) /\ UNCHANGED parent)
  <2>1. PICK r \in BOOLEAN : exec' = [exec EXCEPT ![e].pc = "begun", ![e].replayed = r]
    BY <1>2 DEF Begin
  <2>2. /\ CurrentOK(e) /\ UNCHANGED guard
        /\ \/ parent = "preview_ready" /\ parent' = "restoring"
           \/ parent \in {"restoring", "completed"} /\ parent' = parent
    BY <1>2 DEF Begin
  <2>3. [exec[e] EXCEPT !.pc = "begun", !.replayed = r] \in ExecType
    BY Names, ZenonT(60) DEF TypeOK, ExecType
  <2>4. /\ exec' \in [Executors -> ExecType] /\ exec'[e].pc = "begun" /\ exec'[e].pv = exec[e].pv
        /\ \A f \in Executors : f # e => exec'[f] = exec[f]
    BY <2>1, <2>3 DEF TypeOK, ExecType
  <2>5. parent' \in States
    BY <2>2 DEF States
  <2>6. TypeOK'
    BY <1>a, <2>2, <2>4, <2>5 DEF TypeOK, ExecType
  <2>7. Ordered' /\ Contents' /\ OneWriter'
    BY <1>a, <2>4, WritersFrame, Names
  <2>8. exec[e].pv = Len(previews) /\ Len(previews) > 0
    BY <2>2 DEF CurrentOK, TypeOK
  <2>9. Begun'
    BY <1>a, <2>2, <2>4, <2>8 DEF Begun
  <2>10. CompletedExact' /\ OneFate'
    <3>1. CASE parent' = parent
      BY <1>a, <3>1, FateFrame
    <3>2. CASE parent' # parent
      BY <1>a, <2>2, <3>2 DEF CompletedExact, OneFate, CancelledUntouched, OneOutcome
    <3> QED
      BY <3>1, <3>2
  <2> QED
    BY <2>6, <2>7, <2>9, <2>10
<1> QED
  BY <1>1, <1>2

\* Checking what the target holds after a begin keeps the invariant.
LEMMA MaterializeInv ==
  ASSUME RestoreInv, NEW e \in Executors, Materialize(e) \/ CheckPhase(e)
  PROVE  RestoreInv'
<1> USE DEF RestoreInv
<1>a. UNCHANGED <<decision, parent, previews, expired, done, outcome, journal, target, guard,
                  preview, cancel, starts, faults>>
  BY DEF Materialize, CheckPhase, request, bounds
<1>b. exec \in [Executors -> ExecType] /\ exec[e].pc \in Working
  BY DEF TypeOK, ExecType, Materialize, CheckPhase, Working
<1>1. /\ exec' \in [Executors -> ExecType]
      /\ exec'[e].pc \in {"phases", "intent", "fail", "finish"} /\ exec'[e].pv = exec[e].pv
      /\ exec'[e].pc = "intent" => exec'[e].last < Phases
      /\ \A f \in Executors : f # e => exec'[f] = exec[f]
  <2>1. CASE Goto(e, "fail") \/ Goto(e, "finish")
    BY <1>b, <2>1, GotoTyped, Names
  <2>2. CASE Goto(e, "intent") /\ exec[e].last < Phases
    BY <1>b, <2>2, GotoTyped, Names
  <2>3. CASE exec' = [exec EXCEPT ![e].pc = "phases", ![e].last = Len(journal) \div 2]
    <3>1. Len(journal) \div 2 \in 0..Phases
      BY RestoreAssumption DEF Ordered, TypeOK
    <3>2. [exec[e] EXCEPT !.pc = "phases", !.last = Len(journal) \div 2] \in ExecType
      BY <1>b, <3>1, Names DEF ExecType
    <3> QED
      BY <1>b, <2>3, <3>2 DEF ExecType
  <2> QED
    BY <2>1, <2>2, <2>3 DEF Materialize, CheckPhase
<1>2. TypeOK'
  BY <1>a, <1>1 DEF TypeOK, ExecType
<1>3. Ordered' /\ Contents' /\ OneWriter'
  BY <1>a, <1>1, WritersFrame, Names
<1>4. Begun'
  BY <1>a, <1>b, <1>1, BegunFrame
<1> QED
  BY <1>a, <1>2, <1>3, <1>4, FateFrame

\* Completing or failing an execution keeps the invariant.
LEMMA EndInv ==
  ASSUME RestoreInv, NEW e \in Executors, Fail(e) \/ Finish(e)
  PROVE  RestoreInv'
<1> USE DEF RestoreInv
<1>a. /\ Leave(e)
      /\ UNCHANGED <<decision, previews, expired, journal, target, preview, cancel, starts, faults>>
  BY DEF Fail, Finish, bounds
<1>1. /\ done' \subseteq Keys /\ outcome' \in Nat /\ parent' \in States
      /\ parent' = parent \/ parent' \in {"completed", "failed"}
  BY SMTT(30) DEF Fail, Finish, TypeOK, ExecType, States
<1>2. TypeOK'
  BY <1>a, <1>1, LeaveFrame DEF TypeOK, ExecType
<1>3. Begun'
  BY <1>a, <1>1, LeaveFrame, BegunFrame
<1>4. CompletedExact' /\ OneFate'
  <2>1. CASE UNCHANGED <<parent, outcome, done>>
    BY <1>a, <2>1, FateFrame
  <2>2. CASE parent = "restoring" /\ parent' = "failed" /\ outcome' = outcome + 1
    BY <2>2 DEF CompletedExact, OneFate, CancelledUntouched, OneOutcome
  <2>3. CASE /\ parent = "restoring" /\ Len(journal) = 2 * Phases /\ Paired(exec[e].key)
             /\ parent' = "completed" /\ done' = done \cup {exec[e].key} /\ outcome' = outcome + 1
    <3> DEFINE k == exec[e].key
    <3>1. Phases \in Nat /\ Phases > 0
      BY RestoreAssumption
    <3>2. journal[2 * Phases].out = "succeeded"
      <4>1. 2 * Phases \in 1..Len(journal) /\ (2 * Phases) % 2 = 0
        BY <2>3, <3>1, Halves
      <4> QED
        BY <2>3, <4>1 DEF Paired
    <3>3. Holds(Phases)
      BY <2>3, <3>1, <3>2 DEF Contents
    <3>4. Len(journal') = 2 * Phases /\ Holds(Phases)'
      BY <1>a, <2>3, <3>3 DEF Holds
    <3>5. \E q \in done' : (q = k /\ Paired(q))
      BY <2>3
    <3>6. \A q : Paired(q) <=> Paired(q)'
      BY <1>a DEF Paired
    <3>7. CompletedExact'
      BY <3>4, <3>5, <3>6 DEF CompletedExact
    <3> QED
      BY <2>3, <3>7 DEF OneFate, CancelledUntouched, OneOutcome
  <2> QED
    BY <2>1, <2>2, <2>3 DEF Fail, Finish
<1> QED
  BY <1>a, <1>2, <1>3, <1>4, LeaveFrame

----------------------------------------------------------------------------
(* Steps that change the journal or the destination. *)

\* An accepted entry comes after all the others and leaves them as they were.
LEMMA Appended ==
  ASSUME RestoreInv, NEW e \in Executors, NEW out \in {"intent", "succeeded", "uncertain"},
         exec[e].pc \in Working, exec[e].last < Phases, Append1(exec[e], out)
  PROVE  /\ journal' \in Seq(Entry) /\ Len(journal') = Len(journal) + 1
         /\ \A i \in 1..Len(journal) : journal'[i] = journal[i]
         /\ journal'[Len(journal) + 1].out = out
         /\ journal'[Len(journal) + 1].phase = exec[e].last + 1
         /\ journal'[Len(journal) + 1].key = exec[e].key
         /\ journal'[Len(journal) + 1].pv = Len(previews)
<1> DEFINE j == [phase |-> exec[e].last + 1, out |-> out, key |-> exec[e].key, pv |-> exec[e].pv]
<1>1. /\ exec[e].last \in 0..Phases /\ exec[e].key \in Keys /\ exec[e].pv \in 1..MaxPreviews
      /\ exec[e].pv = Len(previews)
  BY RestoreAssumption, SMTT(30) DEF RestoreInv, TypeOK, Begun
<1>2. j \in Entry
  BY <1>1, RestoreAssumption, SMTT(30) DEF Entry
<1>3. j.phase = exec[e].last + 1 /\ j.out = out /\ j.key = exec[e].key /\ j.pv = Len(previews)
  BY <1>1
<1>4. journal \in Seq(Entry) /\ journal' = Append(journal, j)
  BY DEF RestoreInv, TypeOK, Append1
<1> HIDE DEF j
<1> QED
  BY <1>2, <1>3, <1>4

\* An intent is accepted after the success of the phase before, so nobody is writing
\* and the destination holds what the journal says.
LEMMA IntentAccepted ==
  ASSUME RestoreInv, NEW e \in Executors, Accepts(exec[e], "intent")
  PROVE  /\ parent = "restoring" /\ Len(journal) = 2 * exec[e].last
         /\ Holds(exec[e].last)
         /\ Len(journal) > 0 => /\ journal[Len(journal)].out = "succeeded"
                                /\ journal[Len(journal)].key = exec[e].key
         /\ \A f \in Executors : exec[f].pc \notin Writing
<1>a. exec[e].last \in 0..Phases /\ journal \in Seq(Entry) /\ Phases \in Nat
  BY RestoreAssumption DEF RestoreInv, TypeOK
<1>1. /\ parent = "restoring"
      /\ journal = <<>> => exec[e].last = 0
      /\ journal # <<>> => /\ journal[Len(journal)].out = "succeeded"
                           /\ journal[Len(journal)].key = exec[e].key
                           /\ journal[Len(journal)].phase = exec[e].last
  BY DEF Accepts
<1>2. Len(journal) = 2 * exec[e].last
  <2>1. CASE journal = <<>>
    BY <1>1, <2>1
  <2>2. CASE journal # <<>>
    <3>1. Len(journal) > 0 /\ Len(journal) \in Nat
      BY <1>a, <2>2
    <3>2. PICK n \in Nat : Len(journal) = 2 * n \/ Len(journal) = 2 * n + 1
      BY <3>1, EvenOrOdd
    <3>3. Len(journal) # 2 * n + 1
      <4> SUFFICES ASSUME Len(journal) = 2 * n + 1 PROVE FALSE
        OBVIOUS
      <4>1. n + 1 \in 1..Phases /\ Len(journal) = 2 * (n + 1) - 1
        BY <1>a DEF RestoreInv, Ordered
      <4>2. journal[2 * (n + 1) - 1].out = "intent"
        BY <4>1 DEF RestoreInv, Ordered
      <4> QED
        BY <1>1, <2>2, <4>1, <4>2
    <3>4. n \in 1..Phases /\ Len(journal) = 2 * n
      BY <1>a, <3>1, <3>2, <3>3 DEF RestoreInv, Ordered
    <3>5. journal[2 * n].phase = n
      BY <3>4 DEF RestoreInv, Ordered
    <3> QED
      BY <1>1, <2>2, <3>4, <3>5
  <2> QED
    BY <2>1, <2>2
<1>3. Len(journal) > 0 => journal # <<>>
  BY <1>a
<1>4. Holds(exec[e].last)
  BY <1>a, <1>1, <1>2, <1>3 DEF RestoreInv, Contents
<1>5. \A f \in Executors : exec[f].pc \notin Writing
  <2> SUFFICES ASSUME NEW f \in Executors, exec[f].pc \in Writing PROVE FALSE
    OBVIOUS
  <2>1. Len(journal) = 2 * exec[f].last + 1 /\ exec[f].last \in Nat
    BY RestoreAssumption DEF RestoreInv, OneWriter, TypeOK
  <2>2. exec[e].last \in Nat /\ 2 * exec[e].last = 2 * exec[f].last + 1
    BY <1>a, <1>2, <2>1, SMTT(30)
  <2> QED
    BY <2>1, <2>2, Parity
<1> QED
  BY <1>1, <1>2, <1>3, <1>4, <1>5

\* The order of the journal, when the entry that follows is added to it.
LEMMA OrderedAppend ==
  ASSUME RestoreInv, UNCHANGED previews, journal' \in Seq(Entry), NEW l \in 0..Phases, l < Phases,
         Len(journal') = Len(journal) + 1,
         \A i \in 1..Len(journal) : journal'[i] = journal[i],
         Len(journal) > 0 => journal[Len(journal)].key = journal'[Len(journal) + 1].key,
         journal'[Len(journal) + 1].pv = Len(previews),
         journal'[Len(journal) + 1].phase = l + 1,
         \/ /\ Len(journal) = 2 * l /\ journal'[Len(journal) + 1].out = "intent"
            /\ Len(journal) > 0 => journal[Len(journal)].out = "succeeded"
         \/ /\ Len(journal) = 2 * l + 1
            /\ journal'[Len(journal) + 1].out \in {"succeeded", "uncertain"}
  PROVE  Ordered'
<1>a. Phases \in Nat /\ l \in Nat /\ Len(journal) \in Nat
  BY RestoreAssumption DEF RestoreInv, TypeOK
<1>1. Len(journal') <= 2 * Phases
  BY <1>a
<1>2. ASSUME NEW i \in 1..Len(journal')
      PROVE  journal'[i].key = journal'[1].key /\ journal'[i].pv = Len(previews')
  <2>1. CASE Len(journal) = 0
    BY <1>a, <2>1
  <2>2. CASE Len(journal) > 0
    <3>1. Len(journal) \in 1..Len(journal) /\ 1 \in 1..Len(journal)
      BY <1>a, <2>2
    <3>2. journal'[1] = journal[1] /\ journal[Len(journal)].key = journal[1].key
      BY <3>1 DEF RestoreInv, Ordered
    <3>3. CASE i = Len(journal) + 1
      BY <2>2, <3>2, <3>3
    <3>4. CASE i \in 1..Len(journal)
      BY <3>2, <3>4 DEF RestoreInv, Ordered
    <3> QED
      BY <1>a, <3>3, <3>4
  <2> QED
    BY <1>a, <2>1, <2>2
<1>3. ASSUME NEW p \in 1..Phases, 2 * p - 1 <= Len(journal')
      PROVE  journal'[2 * p - 1].phase = p /\ journal'[2 * p - 1].out = "intent"
  <2>1. CASE 2 * p - 1 <= Len(journal)
    <3>1. 2 * p - 1 \in 1..Len(journal)
      BY <1>a, <2>1
    <3> QED
      BY <2>1, <3>1, SMTT(30) DEF RestoreInv, Ordered
  <2>2. CASE 2 * p - 1 = Len(journal) + 1
    <3>1. Len(journal) = 2 * l /\ p = l + 1
      BY <1>a, <2>2
    <3> QED
      BY <1>a, <2>2, <3>1
  <2> QED
    BY <1>a, <1>3, <2>1, <2>2
<1>4. ASSUME NEW p \in 1..Phases, 2 * p <= Len(journal')
      PROVE  /\ journal'[2 * p].phase = p
             /\ \/ journal'[2 * p].out = "succeeded"
                \/ journal'[2 * p].out = "uncertain" /\ Len(journal') = 2 * p
  <2>1. CASE 2 * p <= Len(journal)
    <3>1. 2 * p \in 1..Len(journal)
      BY <1>a, <2>1
    <3>2. /\ journal[2 * p].phase = p
          /\ journal[2 * p].out = "succeeded" \/ (journal[2 * p].out = "uncertain" /\ Len(journal) = 2 * p)
      BY <2>1 DEF RestoreInv, Ordered
    <3>3. Len(journal) = 2 * p => journal[2 * p].out = "succeeded"
      BY <1>a, <2>1
    <3> QED
      BY <3>1, <3>2, <3>3
  <2>2. CASE 2 * p = Len(journal) + 1
    <3>1. Len(journal) = 2 * l + 1 /\ p = l + 1
      BY <1>a, <2>2
    <3> QED
      BY <1>a, <2>2, <3>1
  <2> QED
    BY <1>a, <1>4, <2>1, <2>2
<1> QED
  BY <1>1, <1>2, <1>3, <1>4 DEF Ordered

\* Announcing the next phase in the journal keeps the invariant.
LEMMA IntentInv ==
  ASSUME RestoreInv, NEW e \in Executors, Intent(e)
  PROVE  RestoreInv'
<1> USE DEF RestoreInv
<1>a. /\ UNCHANGED <<decision, parent, previews, expired, done, outcome, target, guard, preview,
                     cancel, starts, faults>>
      /\ exec \in [Executors -> ExecType]
      /\ exec[e].pc \in Working /\ exec[e].last < Phases
  BY DEF Intent, request, bounds, TypeOK, ExecType, Working, Begun
<1>1. CASE Goto(e, "fail") /\ UNCHANGED journal
  <2>1. /\ exec' \in [Executors -> ExecType] /\ exec'[e].pc = "fail" /\ exec'[e].pv = exec[e].pv
        /\ \A f \in Executors : f # e => exec'[f] = exec[f]
    BY <1>a, <1>1, GotoTyped, Names
  <2>2. TypeOK'
    BY <1>a, <1>1, <2>1 DEF TypeOK, ExecType
  <2>3. Ordered' /\ Contents' /\ OneWriter'
    BY <1>a, <1>1, <2>1, WritersFrame, Names
  <2>4. Begun'
    BY <1>a, <2>1, BegunFrame
  <2> QED
    BY <1>a, <1>1, <2>2, <2>3, <2>4, FateFrame
<1>2. CASE Accepts(exec[e], "intent") /\ Append1(exec[e], "intent") /\ Goto(e, "write")
  <2>1. /\ exec' \in [Executors -> ExecType] /\ exec'[e].pc = "write" /\ exec'[e].pv = exec[e].pv
        /\ exec'[e].last = exec[e].last
        /\ \A f \in Executors : f # e => exec'[f] = exec[f]
    BY <1>a, <1>2, GotoTyped, Names DEF Writing
  <2>2. /\ parent = "restoring" /\ Len(journal) = 2 * exec[e].last
        /\ Holds(exec[e].last)
        /\ Len(journal) > 0 => /\ journal[Len(journal)].out = "succeeded"
                               /\ journal[Len(journal)].key = exec[e].key
        /\ \A f \in Executors : exec[f].pc \notin Writing
    BY <1>2, IntentAccepted
  <2>3. /\ journal' \in Seq(Entry) /\ Len(journal') = Len(journal) + 1
        /\ \A i \in 1..Len(journal) : journal'[i] = journal[i]
        /\ journal'[Len(journal) + 1].out = "intent"
        /\ journal'[Len(journal) + 1].phase = exec[e].last + 1
        /\ journal'[Len(journal) + 1].key = exec[e].key
        /\ journal'[Len(journal) + 1].pv = Len(previews)
    BY <1>a, <1>2, Appended
  <2>a. exec[e].last \in Nat /\ Phases \in Nat /\ Len(journal) \in Nat
    BY RestoreAssumption DEF TypeOK
  <2>4. TypeOK'
    BY <1>a, <2>1, <2>3 DEF TypeOK, ExecType
  <2>5. Ordered'
    <3>1. PICK l \in 0..Phases : l = exec[e].last /\ l < Phases
      BY <1>a, <2>a
    <3>2. /\ UNCHANGED previews /\ journal'[Len(journal) + 1].phase = l + 1
          /\ Len(journal) = 2 * l /\ journal'[Len(journal) + 1].out = "intent"
          /\ Len(journal) > 0 => /\ journal[Len(journal)].out = "succeeded"
                                 /\ journal[Len(journal)].key = journal'[Len(journal) + 1].key
      BY <1>a, <2>2, <2>3, <3>1
    <3> QED
      BY <2>3, <3>1, <3>2, OrderedAppend
  <2>6. \A n : Holds(n)' <=> Holds(n)
    BY <1>a DEF Holds
  <2>7. Contents'
    <3>1. PICK l \in Nat : l = exec[e].last
      BY <2>a
    <3>2. Len(journal') = 2 * l + 1 /\ Holds(l)'
      BY <2>2, <2>3, <2>6, <3>1
    <3>3. \A n \in Nat : Len(journal') # 2 * n /\ (Len(journal') = 2 * n + 1 => n = l)
      BY <3>2
    <3>4. Phases \in Nat /\ \A n \in 0..Phases : n \in Nat
      BY <2>a
    <3> QED
      BY <3>2, <3>3, <3>4 DEF Contents
  <2>8. OneWriter'
    BY <2>1, <2>2, <2>3, <2>6, ZenonT(60) DEF OneWriter
  <2>9. Begun'
    BY <1>a, <2>1, BegunFrame
  <2>10. CompletedExact' /\ OneFate'
    BY <1>a, <2>2 DEF CompletedExact, OneFate, CancelledUntouched, OneOutcome
  <2> QED
    BY <2>4, <2>5, <2>7, <2>8, <2>9, <2>10
<1> QED
  BY <1>1, <1>2 DEF Intent

\* What is known of an executor between an intent and its result.
LEMMA Writer ==
  ASSUME RestoreInv, NEW e \in Executors, exec[e].pc \in Writing
  PROVE  /\ exec[e].last \in Nat /\ exec[e].last < Phases /\ Phases \in Nat /\ Len(journal) \in Nat
         /\ Len(journal) = 2 * exec[e].last + 1
         /\ Holds(exec[e].last) \/ Holds(exec[e].last + 1)
         /\ exec[e].pc \in Working
         /\ parent \in {"restoring", "failed"}
         /\ \A f \in Executors : exec[f].pc \in Writing => f = e
<1>1. exec[e].last \in 0..Phases /\ Phases \in Nat /\ Len(journal) \in Nat
  BY RestoreAssumption DEF RestoreInv, TypeOK
<1>2. /\ Len(journal) = 2 * exec[e].last + 1
      /\ \A f \in Executors : exec[f].pc \in Writing => f = e
  BY DEF RestoreInv, OneWriter
<1>3. exec[e].last < Phases
  BY <1>1, <1>2 DEF RestoreInv, Ordered
<1>4. Holds(exec[e].last) \/ Holds(exec[e].last + 1)
  BY <1>1, <1>2 DEF RestoreInv, Contents
<1>5. exec[e].pc \in Working
  BY Names
<1>6. parent # "completed"
  <2> SUFFICES ASSUME parent = "completed" PROVE FALSE
    OBVIOUS
  <2>1. Len(journal) = 2 * Phases
    BY DEF RestoreInv, CompletedExact
  <2> QED
    BY <1>1, <1>2, <2>1
<1>7. parent \in {"restoring", "failed"}
  BY <1>5, <1>6 DEF RestoreInv, Begun
<1> QED
  BY <1>1, <1>2, <1>3, <1>4, <1>5, <1>7

\* The writer goes on to another step between the intent and the result.
LEMMA WriteInv ==
  ASSUME RestoreInv, NEW e \in Executors, Write(e) \/ Boundary(e)
  PROVE  RestoreInv'
<1> USE DEF RestoreInv
<1>a. /\ UNCHANGED <<decision, parent, previews, expired, done, outcome, journal, guard, preview,
                     cancel, starts>>
      /\ exec \in [Executors -> ExecType] /\ exec[e].pc \in Writing
  BY DEF Write, Boundary, request, bounds, TypeOK, ExecType, Writing
<1>b. /\ exec[e].last \in Nat /\ exec[e].last < Phases /\ Phases \in Nat /\ Len(journal) \in Nat
      /\ Len(journal) = 2 * exec[e].last + 1
      /\ exec[e].pc \in Working
      /\ parent \in {"restoring", "failed"}
      /\ \A f \in Executors : exec[f].pc \in Writing => f = e
  BY <1>a, Writer
<1>1. PICK pc \in {"boundary", "succeed", "uncertain"} : Goto(e, pc)
  BY DEF Write, Boundary
<1>l. PICK l \in Nat : l = exec[e].last
  BY <1>b
<1>2. /\ exec' \in [Executors -> ExecType] /\ exec'[e].pc = pc /\ exec'[e].pv = exec[e].pv
      /\ exec'[e].last = exec[e].last
      /\ \A f \in Executors : f # e => exec'[f] = exec[f]
  BY <1>a, <1>1, GotoTyped, Names DEF Writing
<1>3. /\ target' \in [1..Phases -> Nat] /\ faults' \in 0..MaxFaults
      /\ pc \in {"boundary", "succeed"} => Holds(l + 1)'
      /\ Holds(l)' \/ Holds(l + 1)'
  <2>1. CASE target' = [target EXCEPT ![l + 1] = @ + 1] /\ UNCHANGED faults /\ Write(e)
    <3>1. Holds(l)
      BY <1>l, <2>1, <1>a DEF Write, OneWriter
    <3>2. /\ l + 1 \in 1..Phases
          /\ target[l + 1] = 0
          /\ target \in [1..Phases -> Nat]
      <4>1. l + 1 \in 1..Phases /\ ~(l + 1 <= l)
        BY <1>b, <1>l
      <4> QED
        BY <3>1, <4>1 DEF Holds, TypeOK
    <3>3. ASSUME NEW p \in 1..Phases
          PROVE  target'[p] = IF p <= l + 1 THEN 1 ELSE 0
      <4>1. target[p] = IF p <= l THEN 1 ELSE 0
        BY <3>1 DEF Holds
      <4>2. CASE p = l + 1
        BY <2>1, <3>2, <4>2
      <4>3. CASE p # l + 1
        <5>1. target'[p] = target[p] /\ (p <= l + 1 <=> p <= l)
          BY <1>b, <2>1, <3>2, <4>3
        <5> QED
          BY <4>1, <5>1
      <4> QED
        BY <4>2, <4>3
    <3>4. Holds(l + 1)'
      BY <3>3 DEF Holds
    <3>5. target' \in [1..Phases -> Nat]
      BY <2>1, <3>2
    <3> QED
      BY <2>1, <3>4, <3>5 DEF TypeOK
  <2>2. CASE Write(e) /\ UNCHANGED target /\ Goto(e, "uncertain") /\ Fault
    <3>1. pc = "uncertain"
      BY <1>a, <1>2, <2>2, GotoTyped, Names DEF Writing
    <3>2. faults' \in 0..MaxFaults
      BY <2>2, RestoreAssumption DEF Fault, TypeOK
    <3> QED
      BY <1>a, <1>l, <2>2, <3>1, <3>2, Writer DEF Holds, TypeOK
  <2>3. CASE Boundary(e)
    <3>1. UNCHANGED <<target, faults>> /\ exec[e].pc = "boundary"
      BY <2>3 DEF Boundary, bounds
    <3>2. Holds(l + 1)
      BY <1>a, <1>l, <3>1 DEF OneWriter
    <3> QED
      BY <3>1, <3>2 DEF Holds, TypeOK
  <2> QED
    BY <1>l, <2>1, <2>2, <2>3 DEF Write
<1>4. TypeOK'
  BY <1>a, <1>2, <1>3 DEF TypeOK, ExecType
<1>5. Ordered'
  BY <1>a DEF Ordered
<1>6. Contents'
  <2>1. ASSUME NEW n \in 0..Phases
        PROVE  Len(journal) # 2 * n /\ (Len(journal) = 2 * n + 1 => n = l)
    BY <1>b, <1>l
  <2> QED
    BY <1>a, <1>3, <2>1 DEF Contents
<1>7. OneWriter'
  BY <1>a, <1>b, <1>l, <1>2, <1>3 DEF OneWriter
<1>8. Begun'
  BY <1>a, <1>b, <1>2, BegunFrame
<1>9. CompletedExact' /\ OneFate'
  BY <1>a, <1>b DEF CompletedExact, OneFate, CancelledUntouched, OneOutcome
<1> QED
  BY <1>4, <1>5, <1>6, <1>7, <1>8, <1>9

\* The result of a phase is recorded by its writer: nobody writes afterwards.
LEMMA ResultInv ==
  ASSUME RestoreInv, NEW e \in Executors, Succeed(e) \/ Uncertain(e)
  PROVE  RestoreInv'
<1> USE DEF RestoreInv
<1>a. /\ UNCHANGED <<decision, parent, previews, expired, done, outcome, target, guard, preview,
                     cancel, starts, faults>>
      /\ exec \in [Executors -> ExecType] /\ exec[e].pc \in Writing
  BY DEF Succeed, Uncertain, request, bounds, TypeOK, ExecType, Writing
<1>b. /\ exec[e].last \in Nat /\ exec[e].last < Phases /\ Phases \in Nat /\ Len(journal) \in Nat
      /\ Len(journal) = 2 * exec[e].last + 1
      /\ Holds(exec[e].last) \/ Holds(exec[e].last + 1)
      /\ exec[e].pc \in Working
      /\ parent \in {"restoring", "failed"}
      /\ \A f \in Executors : exec[f].pc \in Writing => f = e
  BY <1>a, Writer
<1>1. /\ exec' \in [Executors -> ExecType] /\ exec'[e].pc \in {"phases", "fail"}
      /\ exec'[e].pv = exec[e].pv
      /\ \A f \in Executors : f # e => exec'[f] = exec[f]
  <2>1. CASE Goto(e, "fail")
    BY <1>a, <2>1, GotoTyped, Names
  <2>2. CASE exec' = [exec EXCEPT ![e].pc = "phases", ![e].last = @ + 1]
    <3>1. exec[e].last + 1 \in 0..Phases
      BY <1>b
    <3>2. [exec[e] EXCEPT !.pc = "phases", !.last = exec[e].last + 1] \in ExecType
      BY <1>a, <3>1, Names DEF ExecType
    <3> QED
      BY <1>a, <2>2, <3>2 DEF ExecType
  <2> QED
    BY <2>1, <2>2 DEF Succeed, Uncertain
<1>2. \A f \in Executors : exec'[f].pc \notin Writing
  BY <1>b, <1>1, Names
<1>3. OneWriter'
  BY <1>2 DEF OneWriter
<1>4. Begun'
  BY <1>a, <1>b, <1>1, BegunFrame
<1>5. CompletedExact' /\ OneFate'
  BY <1>a, <1>b DEF CompletedExact, OneFate, CancelledUntouched, OneOutcome
<1>6. TypeOK' /\ Ordered' /\ Contents'
  <2>1. CASE UNCHANGED journal
    <3>1. TypeOK'
      BY <1>a, <1>1, <2>1 DEF TypeOK, ExecType
    <3> QED
      BY <1>a, <1>2, <2>1, <3>1, WritersFrame
  <2>2. ASSUME NEW out \in {"succeeded", "uncertain"}, Accepts(exec[e], out), Append1(exec[e], out),
               out = "succeeded" => exec[e].pc = "succeed"
        PROVE  TypeOK' /\ Ordered' /\ Contents'
    <3>1. /\ journal' \in Seq(Entry) /\ Len(journal') = Len(journal) + 1
          /\ \A i \in 1..Len(journal) : journal'[i] = journal[i]
          /\ journal'[Len(journal) + 1].out = out
          /\ journal'[Len(journal) + 1].phase = exec[e].last + 1
          /\ journal'[Len(journal) + 1].key = exec[e].key
          /\ journal'[Len(journal) + 1].pv = Len(previews)
      BY <1>a, <1>b, <2>2, Appended
    <3>2. TypeOK'
      BY <1>a, <1>1, <3>1 DEF TypeOK, ExecType
    <3>3. journal # <<>>
      BY <1>b
    <3>4. journal[Len(journal)].key = exec[e].key
      BY <2>2, <3>3 DEF Accepts
    <3>5. Ordered'
      BY <1>a, <1>b, <2>2, <3>1, <3>4, OrderedAppend
    <3>6. \A n : Holds(n)' <=> Holds(n)
      BY <1>a DEF Holds
    <3>7. Contents'
      <4> SUFFICES ASSUME NEW n \in 0..Phases
                   PROVE  /\ /\ Len(journal') = 2 * n /\ (n > 0 => journal'[2 * n].out = "succeeded")
                             => Holds(n)
                          /\ Len(journal') = 2 * n /\ n > 0 => Holds(n - 1) \/ Holds(n)
                          /\ Len(journal') # 2 * n + 1
        BY <3>6 DEF Contents
      <4>0. n \in Nat /\ exec[e].last \in Nat /\ Len(journal') = 2 * exec[e].last + 2
        BY <1>b, <3>1
      <4>1. Len(journal') = 2 * n => n = exec[e].last + 1 /\ n - 1 = exec[e].last /\ n > 0
        <5>1. Len(journal') = 2 * n => n = exec[e].last + 1
          BY <4>0, Parity
        <5> QED
          BY <4>0, <5>1
      <4>2. Len(journal') # 2 * n + 1
        BY <4>0, Parity
      <4>3. out = "succeeded" => Holds(exec[e].last + 1)
        BY <1>a, <2>2 DEF OneWriter
      <4>4. Len(journal') = 2 * n => journal'[2 * n].out = out
        BY <1>b, <3>1
      <4>5. ASSUME Len(journal') = 2 * n
            PROVE  /\ Holds(n - 1) \/ Holds(n)
                   /\ journal'[2 * n].out = "succeeded" => Holds(n)
        BY <1>b, <2>2, <4>1, <4>3, <4>4, <4>5
      <4> QED
        BY <4>1, <4>2, <4>5
    <3> QED
      BY <3>2, <3>5, <3>7
  <2> QED
    BY <2>1, <2>2 DEF Succeed, Uncertain
<1> QED
  BY <1>3, <1>4, <1>5, <1>6

\* Every step of previews, executions, cancellation and the environment keeps the
\* invariant.
THEOREM NextInv == RestoreInv /\ [Next]_vars => RestoreInv'
<1> SUFFICES ASSUME RestoreInv, [Next]_vars PROVE RestoreInv'
  OBVIOUS
<1>1. ASSUME NEW e \in Executors, Execute(e) PROVE RestoreInv'
  BY <1>1, StartInv, BeginInv, MaterializeInv, IntentInv, WriteInv, ResultInv, EndInv DEF Execute
<1>2. CASE UNCHANGED vars
  <2>1. TypeOK'
    BY <1>2 DEF RestoreInv, TypeOK, vars
  <2> QED
    BY <1>2, <2>1, WritersFrame, BegunFrame, FateFrame DEF RestoreInv, vars
<1> QED
  BY <1>1, <1>2, PreviewInv, EnvironmentInv DEF Next

----------------------------------------------------------------------------
(* Results. *)

\* The inductive invariant holds in every reachable state of a registered restore.
THEOREM RestoreInvCorrect == Spec => []RestoreInv
BY InitInv, NextInv, PTL DEF Spec

\* Every variable keeps its type; above all the journal never has more than two entries
\* for a phase, however the executors interleave.
THEOREM TypeCorrect == Spec => []TypeOK
<1>1. RestoreInv => TypeOK
  BY DEF RestoreInv
<1> QED
  BY <1>1, RestoreInvCorrect, PTL

\* The phases of a restore are announced before they are written, written at most once
\* and all of the confirmed preview, and when the request is completed each one has
\* succeeded under one key: for any number of executors that lost their lock.
THEOREM PhasesExactCorrect == Spec => []PhasesExact
<1>1. RestoreInv => PhasesExact
  <2> SUFFICES ASSUME RestoreInv PROVE PhasesExact
    OBVIOUS
  <2> USE DEF RestoreInv
  <2>a. Phases \in Nat /\ Len(journal) \in Nat /\ Len(journal) <= 2 * Phases
    BY RestoreAssumption DEF TypeOK, Ordered
  <2>1. PICK m \in 0..Phases : Holds(m) /\ 2 * m <= Len(journal) + 1
    <3>1. PICK n \in Nat : Len(journal) = 2 * n \/ Len(journal) = 2 * n + 1
      BY <2>a, EvenOrOdd
    <3>2. n \in 0..Phases /\ (Len(journal) = 2 * n + 1 => n + 1 \in 0..Phases)
      BY <2>a, <3>1
    <3>3. CASE Len(journal) = 2 * n + 1
      BY <2>a, <3>2, <3>3 DEF Contents
    <3>4. CASE Len(journal) = 2 * n /\ n > 0
      <4>1. (Holds(n - 1) \/ Holds(n)) /\ n - 1 \in 0..Phases
        BY <2>a, <3>2, <3>4 DEF Contents
      <4> QED
        BY <2>a, <3>2, <3>4, <4>1
    <3>5. CASE Len(journal) = 0 /\ n = 0
      BY <2>a, <3>2, <3>5 DEF Contents
    <3> QED
      BY <2>a, <3>1, <3>3, <3>4, <3>5
  <2>2. PhaseOnce
    BY <2>1 DEF Holds, PhaseOnce
  <2>3. WritesAnnounced
    <3> SUFFICES ASSUME NEW p \in 1..Phases, target[p] > 0
                 PROVE  \E i \in 1..Len(journal) : journal[i].phase = p /\ journal[i].out = "intent"
      BY DEF WritesAnnounced
    <3>1. p <= m
      BY <2>1 DEF Holds
    <3>2. 2 * p - 1 \in 1..Len(journal)
      BY <2>a, <2>1, <3>1
    <3>3. journal[2 * p - 1].phase = p /\ journal[2 * p - 1].out = "intent"
      BY <2>a, <3>2 DEF Ordered
    <3> QED
      BY <3>2, <3>3
  <2>4. ConfirmedPreview
    BY DEF Ordered, ConfirmedPreview
  <2> QED
    BY <2>2, <2>3, <2>4 DEF PhasesExact
<1> QED
  BY <1>1, RestoreInvCorrect, PTL

\* A request that was cancelled, or still waits, has left the destination untouched, and
\* the user hears of exactly one outcome of one that has ended.
THEOREM OneFateCorrect == Spec => []OneFate
<1>1. RestoreInv => OneFate
  BY DEF RestoreInv
<1> QED
  BY <1>1, RestoreInvCorrect, PTL

\* A request that has ended stays so, and an executor that goes on without its lock adds
\* nothing to its journal but the uncertain result of the phase it was writing.
THEOREM EndsForGoodCorrect == Spec => EndsForGood
<1>1. RestoreInv /\ [Next]_vars
      => [(parent \in {"completed", "failed", "cancelled"}) =>
            parent' = parent /\ (journal' = journal \/ journal'[Len(journal')].out = "uncertain")]_vars
  <2> SUFFICES ASSUME RestoreInv, Next, parent \in {"completed", "failed", "cancelled"}
               PROVE  parent' = parent /\ (journal' = journal \/ journal'[Len(journal')].out = "uncertain")
    BY DEF vars
  <2>1. ASSUME NEW v \in Previewers, PreviewRead(v) \/ PreviewCommit(v)
        PROVE  parent' = parent /\ journal' = journal
    BY <2>1 DEF PreviewRead, PreviewCommit, request
  <2>2. ASSUME CancelRead \/ CancelWrite \/ Expire \/ ChangeDecision \/ LoseGuard \/ Crash
        PROVE  parent' = parent /\ journal' = journal
    BY <2>2 DEF CancelRead, CancelWrite, Expire, ChangeDecision, LoseGuard, Crash, LegalTransition, request
  <2>3. ASSUME NEW e \in Executors, Execute(e)
        PROVE  parent' = parent /\ (journal' = journal \/ journal'[Len(journal')].out = "uncertain")
    <3>1. CASE \E k \in Keys : Start(e, k)
      BY <3>1 DEF Start, request
    <3>2. CASE Begin(e)
      BY <3>2 DEF Begin
    <3>3. CASE Materialize(e) \/ CheckPhase(e) \/ Write(e) \/ Boundary(e)
      BY <3>3 DEF Materialize, CheckPhase, Write, Boundary, request
    <3>4. CASE Intent(e) \/ Succeed(e)
      BY <3>4 DEF Intent, Succeed, Accepts, request
    <3>5. CASE Uncertain(e)
      <4>1. exec[e].pc \in Writing /\ UNCHANGED parent
        BY <3>5 DEF Uncertain, Writing, request
      <4>2. CASE Append1(exec[e], "uncertain")
        <5>1. Len(journal') = Len(journal) + 1 /\ journal'[Len(journal) + 1].out = "uncertain"
          BY <4>1, <4>2, Writer, Appended
        <5> QED
          BY <4>1, <5>1
      <4> QED
        BY <3>5, <4>1, <4>2 DEF Uncertain
    <3>6. CASE Fail(e) \/ Finish(e)
      BY <3>6 DEF Fail, Finish
    <3> QED
      BY <2>3, <3>1, <3>2, <3>3, <3>4, <3>5, <3>6 DEF Execute
  <2> QED
    BY <2>1, <2>2, <2>3 DEF Next
<1> QED
  BY <1>1, RestoreInvCorrect, PTL DEF Spec, EndsForGood

-----------------------------------------------------------------------------
(***************************************************************************)
(* Membership, for every number of users, invitations, requests, uses,     *)
(* receipts and faults and every size of a page.  The versions the two     *)
(* components compare are counts of the receipts they leave: the invariant *)
(* says so of memberships as RolesChained does of roles (VersionsCount),   *)
(* and that the page in the memory of the loop is of one table (PageFits), *)
(* so that the row which is ticked off is the row that was appended.       *)
(***************************************************************************)
\* The receipts that moved the version of a membership.
MemberOps(u) == {n \in 1..MaxOrg : org[n].op \in {"approve", "role", "state"} /\ org[n].on = u}

\* The rows have their shape, and a request names who made it and with what.
RowsShaped ==
    /\ invite \in [Invitations -> [st : {"none", "active", "revoked"}, uses : Nat, ver : Nat]]
    /\ join \in [Requests -> [st : {"none", "pending", "approved", "rejected"},
                              user : Users \cup {NoUser}, inv : Invitations \cup {"none"}]]
    /\ \A q \in Requests : join[q].st # "none" => join[q].user \in Users /\ join[q].inv \in Invitations
    /\ member \in [Users -> [st : {"none", "active", "suspended"}, ver : Nat]]
    /\ auth \in [Users -> [role : Roles \cup {"none"}, ver : Nat]]
    /\ acl \in Nat
    /\ org = [n \in 1..MaxOrg |-> org[n]] /\ admin = [n \in 1..MaxAdmin |-> admin[n]]

\* A version is a count: of the receipts that moved a membership, none before
\* there is one; an invitation that was not issued has no use.
VersionsCount ==
    /\ \A u \in Users :
         /\ member[u].ver = Cardinality(MemberOps(u))
         /\ member[u].st = "none" => member[u].ver = 0
         /\ auth[u].role = "none" => auth[u].ver = 0
    /\ \A i \in Invitations :
         /\ invite[i].uses <= MaxUses
         /\ invite[i].st = "none" => invite[i].uses = 0 /\ invite[i].ver = 0

\* The page in the loop's memory is of one table, and what it is about to
\* tick off is in the central store.
PageFits ==
    /\ loop \in [pc : {"admin", "org", "rows", "ack"}, rows : SUBSET Receipts,
                 cursor : {loop.cursor}, mark : {loop.mark}]
    /\ loop.rows \subseteq Org \/ loop.rows \subseteq Admin
    /\ \A e \in Receipts : AtAck(e) => e \in central
    /\ acked \subseteq central /\ central \subseteq Receipts /\ loopFaults \in 0..MaxLoopFaults

\* The inductive invariant: what the run checks, what its counts rest on, and what the
\* page in the memory of the loop still tells of the tables.
MemberInv ==
    /\ RowsShaped /\ VersionsCount /\ RolesChained /\ InvitesAccounted /\ AdminStays /\ PageFits

-----------------------------------------------------------------------------
\* The step writes one receipt where there was none.
Wrote(e0, r) ==
    /\ e0 \in Receipts /\ Receipt(e0) = NoOp
    /\ \A e \in Receipts : Receipt(e)' = IF e = e0 THEN r ELSE Receipt(e)

\* There are as many receipts as both tables have room for.
LEMMA ReceiptsCount ==
  /\ IsFiniteSet(Receipts) /\ Cardinality(Receipts) = MaxOrg + MaxAdmin
  /\ IsFiniteSet(1..MaxOrg) /\ Cardinality(1..MaxOrg) = MaxOrg
  /\ IsFiniteSet(Requests)
<1>1. MaxOrg \in Nat /\ MaxAdmin \in Nat /\ MaxRequests \in Nat
  BY MembershipAssumption
<1>2. /\ IsFiniteSet(1..MaxOrg) /\ Cardinality(1..MaxOrg) = MaxOrg
      /\ IsFiniteSet(1..MaxAdmin) /\ Cardinality(1..MaxAdmin) = MaxAdmin
      /\ IsFiniteSet(1..MaxRequests)
  BY <1>1, FS_Interval
<1>3. /\ IsFiniteSet({"org"}) /\ Cardinality({"org"}) = 1
      /\ IsFiniteSet({"admin"}) /\ Cardinality({"admin"}) = 1
  BY FS_Singleton
<1>4. /\ IsFiniteSet(Org) /\ Cardinality(Org) = MaxOrg
      /\ IsFiniteSet(Admin) /\ Cardinality(Admin) = MaxAdmin
  <2>1. IsFiniteSet(Org) /\ Cardinality(Org) = Cardinality({"org"}) * Cardinality(1..MaxOrg)
    BY <1>2, <1>3, FS_Product DEF Org
  <2>2. IsFiniteSet(Admin) /\ Cardinality(Admin) = Cardinality({"admin"}) * Cardinality(1..MaxAdmin)
    BY <1>2, <1>3, FS_Product DEF Admin
  <2>3. 1 * MaxOrg = MaxOrg /\ 1 * MaxAdmin = MaxAdmin
    BY <1>1
  <2> QED
    BY <2>1, <2>2, <2>3, <1>2, <1>3
<1>5. Org \cap Admin = {}
  BY DEF Org, Admin
<1>6. /\ IsFiniteSet(Receipts)
      /\ Cardinality(Receipts) = Cardinality(Org) + Cardinality(Admin) - Cardinality(Org \cap Admin)
  BY <1>4, FS_Union DEF Receipts
<1>7. Cardinality(Org \cap Admin) = 0
  BY <1>5, FS_EmptySet
<1> QED
  BY <1>1, <1>2, <1>4, <1>6, <1>7 DEF Requests

\* A receipt of the organization's workflow is one receipt.
LEMMA OrgWrites ==
  ASSUME MemberInv, NEW r, Record(r), admin' = admin
  PROVE  \E n \in 1..MaxOrg :
           /\ org[n] = NoOp /\ org' = [org EXCEPT ![n] = r] /\ Wrote(<<"org", n>>, r)
           /\ org' = [k \in 1..MaxOrg |-> org'[k]]
           /\ org'[n] = r /\ \A k \in 1..MaxOrg : k # n => org'[k] = org[k]
<1>1. PICK n \in 1..MaxOrg : org[n] = NoOp /\ org' = [org EXCEPT ![n] = r]
  BY DEF Record
<1>2. org = [k \in 1..MaxOrg |-> org[k]]
  BY DEF MemberInv, RowsShaped
<1>3. org'[n] = r /\ \A k \in 1..MaxOrg : k # n => org'[k] = org[k]
  BY <1>1, <1>2
<1>4. <<"org", n>> \in Receipts /\ Receipt(<<"org", n>>) = NoOp
  BY <1>1 DEF Receipts, Org, Receipt
<1>5. ASSUME NEW e \in Receipts
      PROVE  Receipt(e)' = IF e = <<"org", n>> THEN r ELSE Receipt(e)
  <2>1. CASE e \in Org
    <3>1. e[1] = "org" /\ e[2] \in 1..MaxOrg /\ e = <<"org", e[2]>>
      BY <2>1 DEF Org
    <3>2. (e = <<"org", n>>) <=> (e[2] = n)
      BY <3>1
    <3> QED
      BY <3>1, <3>2, <1>3 DEF Receipt
  <2>2. CASE e \in Admin
    <3>1. e[1] = "admin" /\ e # <<"org", n>>
      BY <2>2 DEF Admin
    <3> QED
      BY <3>1 DEF Receipt
  <2> QED
    BY <2>1, <2>2 DEF Receipts
<1>6. org' = [k \in 1..MaxOrg |-> org'[k]]
  BY <1>1, <1>2
<1> QED
  BY <1>1, <1>3, <1>4, <1>5, <1>6 DEF Wrote

\* A receipt of the system administrator is one receipt.
LEMMA AdminWrites ==
  ASSUME MemberInv, NEW n \in 1..MaxAdmin, NEW r, admin[n] = NoOp,
         admin' = [admin EXCEPT ![n] = r], org' = org
  PROVE  /\ Wrote(<<"admin", n>>, r)
         /\ admin' = [k \in 1..MaxAdmin |-> admin'[k]]
<1>2. admin = [k \in 1..MaxAdmin |-> admin[k]]
  BY DEF MemberInv, RowsShaped
<1>3. admin'[n] = r /\ \A k \in 1..MaxAdmin : k # n => admin'[k] = admin[k]
  BY <1>2
<1>4. <<"admin", n>> \in Receipts /\ Receipt(<<"admin", n>>) = NoOp
  BY DEF Receipts, Admin, Receipt
<1>5. ASSUME NEW e \in Receipts
      PROVE  Receipt(e)' = IF e = <<"admin", n>> THEN r ELSE Receipt(e)
  <2>1. CASE e \in Admin
    <3>1. e[1] = "admin" /\ e[2] \in 1..MaxAdmin /\ e = <<"admin", e[2]>>
      BY <2>1 DEF Admin
    <3>2. (e = <<"admin", n>>) <=> (e[2] = n)
      BY <3>1
    <3> QED
      BY <3>1, <3>2, <1>3 DEF Receipt
  <2>2. CASE e \in Org
    <3>1. e[1] = "org" /\ e # <<"admin", n>>
      BY <2>2 DEF Org
    <3> QED
      BY <3>1 DEF Receipt
  <2> QED
    BY <2>1, <2>2 DEF Receipts
<1>6. admin' = [k \in 1..MaxAdmin |-> admin'[k]]
  BY <1>2
<1> QED
  BY <1>4, <1>5, <1>6 DEF Wrote

-----------------------------------------------------------------------------
\* The step writes no receipt that grants.
NoGrant ==
    \A e \in Receipts : \/ Receipt(e)' = Receipt(e)
                        \/ Receipt(e)'.op \notin Grants /\ Receipt(e).op \notin Grants

\* As long as no receipt that grants comes or goes, the histories of the roles stay.
LEMMA ChainSame ==
  ASSUME MemberInv, auth' = auth, acl' = acl, NoGrant
  PROVE  RolesChained'
<1>2. \A e \in Receipts : \/ Receipt(e)' = Receipt(e)
                          \/ Receipt(e)'.op \notin Grants /\ Receipt(e).op \notin Grants
  BY DEF NoGrant
<1>3. {e \in Receipts : Receipt(e)'.op \in Grants} = {e \in Receipts : Receipt(e).op \in Grants}
  BY <1>2
<1>4. \A u : GrantsOf(u)' = GrantsOf(u)
  BY <1>2 DEF GrantsOf
<1>5. \A u : \A e \in GrantsOf(u) : e \in Receipts /\ Receipt(e)' = Receipt(e)
  BY <1>2 DEF GrantsOf
<1>6. ASSUME NEW u \in Users
      PROVE  {Receipt(e)'.seen : e \in GrantsOf(u)} = {Receipt(e).seen : e \in GrantsOf(u)}
  BY <1>5
<1>7. acl' = 1 + Cardinality({e \in Receipts : Receipt(e)'.op \in Grants})
  BY <1>3 DEF MemberInv, RolesChained
<1>8. ASSUME NEW u \in Users
      PROVE  /\ {Receipt(e)'.seen : e \in GrantsOf(u)'} = FirstVersion(u)..(auth'[u].ver - 1)
             /\ Cardinality(GrantsOf(u)') = auth'[u].ver - FirstVersion(u)
             /\ \A e \in GrantsOf(u)' :
                  IF Receipt(e)'.seen = auth'[u].ver - 1 THEN Receipt(e)'.to = auth'[u].role
                  ELSE \E f \in GrantsOf(u)' :
                         Receipt(f)'.seen = Receipt(e)'.seen + 1 /\ Receipt(f)'.from = Receipt(e)'.to
  <2>1. /\ {Receipt(e).seen : e \in GrantsOf(u)} = FirstVersion(u)..(auth[u].ver - 1)
        /\ Cardinality(GrantsOf(u)) = auth[u].ver - FirstVersion(u)
        /\ \A e \in GrantsOf(u) :
             IF Receipt(e).seen = auth[u].ver - 1 THEN Receipt(e).to = auth[u].role
             ELSE \E f \in GrantsOf(u) :
                    Receipt(f).seen = Receipt(e).seen + 1 /\ Receipt(f).from = Receipt(e).to
    BY DEF MemberInv, RolesChained
  <2>2. GrantsOf(u)' = GrantsOf(u)
    BY <1>4
  <2>3. \A e \in GrantsOf(u) : Receipt(e)' = Receipt(e)
    BY <1>5
  <2> QED
    BY <2>1, <2>2, <2>3, <1>6
<1> QED
  BY <1>7, <1>8 DEF RolesChained, FirstVersion

\* A receipt that grants nothing leaves them alone.
LEMMA ChainKept ==
  ASSUME MemberInv, NEW e0, NEW r, Wrote(e0, r), r.op \notin Grants, auth' = auth, acl' = acl
  PROVE  RolesChained'
<1>1. NoOp.op \notin Grants
  BY DEF NoOp, Grants
<1>2. NoGrant
  BY <1>1 DEF Wrote, NoGrant
<1> QED
  BY <1>2, ChainSame

\* A receipt that grants extends the history of one role by the version after the last.
LEMMA ChainGrows ==
  ASSUME MemberInv, NEW u \in Users, NEW e0, NEW r, Wrote(e0, r),
         r.op \in Grants, r.on = u, r.seen = auth[u].ver, r.from = auth[u].role,
         auth'[u].role = r.to, auth'[u].ver = auth[u].ver + 1,
         \A w \in Users : w # u => auth'[w] = auth[w],
         acl' = acl + 1
  PROVE  RolesChained'
<1> DEFINE G == {e \in Receipts : Receipt(e).op \in Grants}
           H == {e \in Receipts : Receipt(e)'.op \in Grants}
<1>1. NoOp.op \notin Grants
  BY DEF NoOp, Grants
<1>2. /\ e0 \in Receipts /\ Receipt(e0)' = r /\ Receipt(e0).op \notin Grants
      /\ \A e \in Receipts : e # e0 => Receipt(e)' = Receipt(e)
  BY <1>1 DEF Wrote
<1>3. H = G \cup {e0} /\ e0 \notin G
  BY <1>2
<1>4. IsFiniteSet(G)
  BY ReceiptsCount, FS_Subset
<1>5. acl = 1 + Cardinality(G)
  BY DEF MemberInv, RolesChained
<1>6. acl' = 1 + Cardinality(H)
  <2> HIDE DEF G, H
  <2>1. Cardinality(H) = Cardinality(G) + 1 /\ Cardinality(G) \in Nat
    BY <1>3, <1>4, FS_AddElement, FS_CardinalityType
  <2> QED
    BY <2>1, <1>5
<1>7. \A w \in Users : w # u => GrantsOf(w)' = GrantsOf(w)
  BY <1>2 DEF GrantsOf
<1>8. GrantsOf(u)' = GrantsOf(u) \cup {e0} /\ e0 \notin GrantsOf(u)
  BY <1>2 DEF GrantsOf
<1>9. \A w \in Users : \A e \in GrantsOf(w) : Receipt(e)' = Receipt(e)
  BY <1>2 DEF GrantsOf
<1>10. ASSUME NEW w \in Users
       PROVE  /\ {Receipt(e).seen : e \in GrantsOf(w)} = FirstVersion(w)..(auth[w].ver - 1)
              /\ Cardinality(GrantsOf(w)) = auth[w].ver - FirstVersion(w)
              /\ auth[w].ver \in Nat /\ FirstVersion(w) \in Nat /\ IsFiniteSet(GrantsOf(w))
              /\ Cardinality(GrantsOf(w)) \in Nat
  <2>1. IsFiniteSet(GrantsOf(w))
    BY ReceiptsCount, FS_Subset DEF GrantsOf
  <2> QED
    BY <2>1, FS_CardinalityType DEF MemberInv, RolesChained, RowsShaped, FirstVersion
<1>11. ASSUME NEW w \in Users, w # u
       PROVE  /\ {Receipt(e)'.seen : e \in GrantsOf(w)'} = FirstVersion(w)..(auth'[w].ver - 1)
              /\ Cardinality(GrantsOf(w)') = auth'[w].ver - FirstVersion(w)
              /\ \A e \in GrantsOf(w)' :
                   IF Receipt(e)'.seen = auth'[w].ver - 1 THEN Receipt(e)'.to = auth'[w].role
                   ELSE \E f \in GrantsOf(w)' :
                          Receipt(f)'.seen = Receipt(e)'.seen + 1 /\ Receipt(f)'.from = Receipt(e)'.to
  <2>1. {Receipt(e)'.seen : e \in GrantsOf(w)} = {Receipt(e).seen : e \in GrantsOf(w)}
    BY <1>9
  <2>2. GrantsOf(w)' = GrantsOf(w) /\ auth'[w] = auth[w]
    BY <1>7, <1>11
  <2>3. \A e \in GrantsOf(w) :
           IF Receipt(e).seen = auth[w].ver - 1 THEN Receipt(e).to = auth[w].role
           ELSE \E f \in GrantsOf(w) :
                  Receipt(f).seen = Receipt(e).seen + 1 /\ Receipt(f).from = Receipt(e).to
    BY DEF MemberInv, RolesChained
  <2> QED
    BY <2>1, <2>2, <2>3, <1>9, <1>10
<1>12. {Receipt(e)'.seen : e \in GrantsOf(u)'} = FirstVersion(u)..(auth'[u].ver - 1)
  <2>1. {Receipt(e)'.seen : e \in GrantsOf(u)'} = {Receipt(e).seen : e \in GrantsOf(u)} \cup {auth[u].ver}
    BY <1>2, <1>8, <1>9
  <2>2. auth[u].ver >= FirstVersion(u)
    BY <1>10
  <2>3. (FirstVersion(u)..(auth[u].ver - 1)) \cup {auth[u].ver} = FirstVersion(u)..auth[u].ver
    BY <2>2, <1>10
  <2>4. auth'[u].ver - 1 = auth[u].ver
    BY <1>10
  <2> QED
    BY <2>1, <2>3, <2>4, <1>10
<1>13. Cardinality(GrantsOf(u)') = auth'[u].ver - FirstVersion(u)
  <2>1. Cardinality(GrantsOf(u)') = Cardinality(GrantsOf(u)) + 1
    BY <1>8, <1>10, FS_AddElement, ZenonT(60)
  <2> QED
    BY <2>1, <1>10
<1>14. ASSUME NEW e \in GrantsOf(u)'
       PROVE  IF Receipt(e)'.seen = auth'[u].ver - 1 THEN Receipt(e)'.to = auth'[u].role
              ELSE \E f \in GrantsOf(u)' :
                     Receipt(f)'.seen = Receipt(e)'.seen + 1 /\ Receipt(f)'.from = Receipt(e)'.to
  <2>1. auth'[u].ver - 1 = auth[u].ver
    BY <1>10
  <2>2. CASE e = e0
    BY <2>1, <2>2, <1>2
  <2>3. CASE e # e0
    <3>1. e \in GrantsOf(u) /\ Receipt(e)' = Receipt(e)
      BY <2>3, <1>8, <1>9
    <3>2. Receipt(e).seen \in FirstVersion(u)..(auth[u].ver - 1)
      BY <3>1, <1>10
    <3>3. Receipt(e).seen # auth'[u].ver - 1
      BY <3>2, <2>1, <1>10
    <3>4. \E f \in GrantsOf(u)' :
            Receipt(f)'.seen = Receipt(e).seen + 1 /\ Receipt(f)'.from = Receipt(e).to
      <4>1. CASE Receipt(e).seen = auth[u].ver - 1
        <5>1. Receipt(e).to = auth[u].role
          BY <4>1, <3>1 DEF MemberInv, RolesChained
        <5>2. Receipt(e).seen + 1 = auth[u].ver
          BY <4>1, <1>10
        <5>3. e0 \in GrantsOf(u)' /\ Receipt(e0)'.seen = auth[u].ver /\ Receipt(e0)'.from = auth[u].role
          BY <1>2, <1>8
        <5> QED
          BY <5>1, <5>2, <5>3
      <4>2. CASE Receipt(e).seen # auth[u].ver - 1
        <5>1. PICK f \in GrantsOf(u) :
                Receipt(f).seen = Receipt(e).seen + 1 /\ Receipt(f).from = Receipt(e).to
          BY <4>2, <3>1 DEF MemberInv, RolesChained
        <5>2. f \in GrantsOf(u)' /\ Receipt(f)' = Receipt(f)
          BY <1>8, <1>9
        <5> QED
          BY <5>1, <5>2
      <4> QED
        BY <4>1, <4>2
    <3> QED
      BY <3>1, <3>3, <3>4
  <2> QED
    BY <2>2, <2>3
<1> HIDE DEF H
<1>15. ASSUME NEW w \in Users
       PROVE  /\ {Receipt(e)'.seen : e \in GrantsOf(w)'} = FirstVersion(w)..(auth'[w].ver - 1)
              /\ Cardinality(GrantsOf(w)') = auth'[w].ver - FirstVersion(w)
              /\ \A e \in GrantsOf(w)' :
                   IF Receipt(e)'.seen = auth'[w].ver - 1 THEN Receipt(e)'.to = auth'[w].role
                   ELSE \E f \in GrantsOf(w)' :
                          Receipt(f)'.seen = Receipt(e)'.seen + 1 /\ Receipt(f)'.from = Receipt(e)'.to
  BY <1>11, <1>12, <1>13, <1>14
<1> QED
  BY <1>6, <1>15 DEF RolesChained, H, FirstVersion

-----------------------------------------------------------------------------
\* What is said of the tables of the workspace, and of their delivery, apart.
TablesInv == RowsShaped /\ VersionsCount /\ RolesChained /\ InvitesAccounted /\ AdminStays

\* An operation of a manager or an administrator does not touch the loop.
LEMMA PageKept ==
  ASSUME MemberInv, UNCHANGED delivery
  PROVE  PageFits'
BY DEF MemberInv, PageFits, delivery, AtAck

\* A step of the loop does not touch the tables of the workspace.
LEMMA TablesKept ==
  ASSUME MemberInv, UNCHANGED access
  PROVE  TablesInv'
<1>1. RowsShaped' /\ AdminStays'
  BY DEF MemberInv, access, RowsShaped, AdminStays, Administers
<1>2. VersionsCount'
  BY DEF MemberInv, access, VersionsCount, MemberOps
<1>3. RolesChained'
  <2>1. auth' = auth /\ acl' = acl /\ NoGrant
    BY DEF access, Receipt, NoGrant
  <2> QED
    BY <2>1, ChainSame
<1>4. InvitesAccounted'
  BY DEF MemberInv, access, InvitesAccounted, Approved
<1> QED
  BY <1>1, <1>2, <1>3, <1>4 DEF TablesInv

\* A receipt that moves no membership leaves its count.
LEMMA OpsKept ==
  ASSUME MemberInv, NEW n \in 1..MaxOrg, NEW r, org[n] = NoOp, org'[n] = r,
         \A k \in 1..MaxOrg : k # n => org'[k] = org[k],
         r.op \notin {"approve", "role", "state"}
  PROVE  \A u \in Users : MemberOps(u)' = MemberOps(u)
<1>1. NoOp.op \notin {"approve", "role", "state"}
  BY DEF NoOp
<1> QED
  BY <1>1 DEF MemberOps

\* A receipt that moves a membership counts for it.
LEMMA OpsGrow ==
  ASSUME MemberInv, NEW n \in 1..MaxOrg, NEW r, org[n] = NoOp, org'[n] = r,
         \A k \in 1..MaxOrg : k # n => org'[k] = org[k],
         NEW u \in Users, r.op \in {"approve", "role", "state"}, r.on = u
  PROVE  /\ \A w \in Users : w # u => MemberOps(w)' = MemberOps(w)
         /\ Cardinality(MemberOps(u)') = member[u].ver + 1
<1>1. NoOp.op \notin {"approve", "role", "state"}
  BY DEF NoOp
<1>2. \A w \in Users : w # u => MemberOps(w)' = MemberOps(w)
  BY <1>1 DEF MemberOps
<1>3. MemberOps(u)' = MemberOps(u) \cup {n} /\ n \notin MemberOps(u)
  BY <1>1 DEF MemberOps
<1>4. IsFiniteSet(MemberOps(u))
  BY ReceiptsCount, FS_Subset DEF MemberOps
<1>5. member[u].ver = Cardinality(MemberOps(u))
  BY DEF MemberInv, VersionsCount
<1>6. Cardinality(MemberOps(u)') = Cardinality(MemberOps(u)) + 1
  BY <1>3, <1>4, FS_AddElement, ZenonT(60)
<1> QED
  BY <1>2, <1>5, <1>6

\* The invariant implies the types.
LEMMA MemberTypes == MemberInv => MemberTypeOK
<1> SUFFICES ASSUME MemberInv PROVE MemberTypeOK
  OBVIOUS
<1>1. /\ MaxOrg \in Nat /\ MaxAdmin \in Nat /\ MaxUses \in Nat /\ MaxLoopFaults \in Nat
  BY MembershipAssumption
<1>2. ASSUME NEW S \in SUBSET Receipts
      PROVE  IsFiniteSet(S) /\ Cardinality(S) \in Nat /\ Cardinality(S) <= MaxOrg + MaxAdmin
  BY ReceiptsCount, FS_Subset, FS_CardinalityType
<1>3. ASSUME NEW u \in Users
      PROVE  auth[u].ver \in 0..(MaxOrg + MaxAdmin + 1)
  <2>1. GrantsOf(u) \in SUBSET Receipts
    BY DEF GrantsOf
  <2>2. /\ auth[u].ver \in Nat /\ FirstVersion(u) \in 0..1
        /\ Cardinality(GrantsOf(u)) = auth[u].ver - FirstVersion(u)
    BY DEF MemberInv, RowsShaped, RolesChained, FirstVersion
  <2>3. Cardinality(GrantsOf(u)) \in Nat /\ Cardinality(GrantsOf(u)) <= MaxOrg + MaxAdmin
    BY <2>1, <1>2
  <2> QED
    BY <2>2, <2>3, <1>1
<1>4. acl \in 1..(MaxOrg + MaxAdmin + 1)
  <2> DEFINE G == {e \in Receipts : Receipt(e).op \in Grants}
  <2>1. acl = 1 + Cardinality(G)
    BY DEF MemberInv, RolesChained
  <2>2. Cardinality(G) \in Nat /\ Cardinality(G) <= MaxOrg + MaxAdmin
    BY <1>2
  <2> HIDE DEF G
  <2> QED
    BY <2>1, <2>2, <1>1
<1>5. ASSUME NEW u \in Users
      PROVE  member[u].ver \in 0..MaxOrg
  <2>1. MemberOps(u) \in SUBSET (1..MaxOrg)
    BY DEF MemberOps
  <2>2. Cardinality(MemberOps(u)) <= MaxOrg
    BY <2>1, ReceiptsCount, FS_Subset
  <2>3. member[u].ver \in Nat /\ member[u].ver = Cardinality(MemberOps(u))
    BY DEF MemberInv, RowsShaped, VersionsCount
  <2> QED
    BY <2>2, <2>3, <1>1
<1>6. ASSUME NEW i \in Invitations
      PROVE  invite[i].uses \in 0..MaxUses /\ invite[i].ver \in 0..(MaxUses + 2)
  <2>1. /\ invite[i].uses \in Nat /\ invite[i].ver \in Nat /\ invite[i].uses <= MaxUses
        /\ invite[i].st = "none" => invite[i].ver = 0
    BY DEF MemberInv, RowsShaped, VersionsCount
  <2>2. invite[i].st # "none" =>
          invite[i].ver = 1 + invite[i].uses + (IF invite[i].st = "revoked" THEN 1 ELSE 0)
    BY DEF MemberInv, InvitesAccounted
  <2>3. CASE invite[i].st = "none"
    BY <2>1, <2>3, <1>1
  <2>4. CASE invite[i].st = "revoked"
    BY <2>1, <2>2, <2>4, <1>1
  <2>5. CASE invite[i].st \notin {"none", "revoked"}
    BY <2>1, <2>2, <2>5, <1>1
  <2> QED
    BY <2>3, <2>4, <2>5
<1>7. invite \in [Invitations -> [st : {"none", "active", "revoked"}, uses : 0..MaxUses,
                                  ver : 0..(MaxUses + 2)]]
  BY <1>6 DEF MemberInv, RowsShaped
<1>8. member \in [Users -> [st : {"none", "active", "suspended"}, ver : 0..MaxOrg]]
  BY <1>5 DEF MemberInv, RowsShaped
<1>9. auth \in [Users -> [role : Roles \cup {"none"}, ver : 0..(MaxOrg + MaxAdmin + 1)]]
  BY <1>3 DEF MemberInv, RowsShaped
<1>10. /\ DOMAIN join = Requests
       /\ \A q \in Requests : join[q].st \in {"none", "pending", "approved", "rejected"}
  BY DEF MemberInv, RowsShaped
<1>11. /\ acked \subseteq Receipts /\ central \subseteq Receipts /\ loopFaults \in 0..MaxLoopFaults
       /\ loop.pc \in {"admin", "org", "rows", "ack"} /\ loop.rows \subseteq Receipts
  BY DEF MemberInv, PageFits
<1> QED
  BY <1>4, <1>7, <1>8, <1>9, <1>10, <1>11 DEF MemberTypeOK

-----------------------------------------------------------------------------
\* InvitesAccounted, by invitation and by user.
UsesExact ==
    \A i \in Invitations :
      /\ invite[i].uses = Cardinality(Approved(Users \X {i}))
      /\ invite[i].st # "none" =>
           invite[i].ver = 1 + invite[i].uses + (IF invite[i].st = "revoked" THEN 1 ELSE 0)

\* Who was let in, and who waits.
LetIn ==
    \A u \in Users :
      /\ Cardinality(Approved({u} \X Invitations)) = (IF member[u].st = "none" THEN 0 ELSE 1)
      /\ Cardinality({q \in Requests : join[q].st = "pending" /\ join[q].user = u}) <= 1
      /\ member[u].st # "none" => auth[u].role # "none"

\* The two halves are InvitesAccounted, before a step and after it.
LEMMA InvitesHalves ==
  /\ InvitesAccounted <=> UsesExact /\ LetIn
  /\ InvitesAccounted' <=> UsesExact' /\ LetIn'
BY DEF InvitesAccounted, UsesExact, LetIn

\* A new invitation.
LEMMA CreateInvitationKeeps ==
  ASSUME MemberInv, NEW i \in Invitations, CreateInvitation(i)
  PROVE  TablesInv'
<1> DEFINE r == Op("invite", i, 0, "none", "active")
<1>1. /\ invite[i].st = "none" /\ Record(r)
      /\ invite' = [invite EXCEPT ![i] = [st |-> "active", uses |-> 0, ver |-> 1]]
      /\ UNCHANGED <<join, member, auth, acl, admin>>
  BY DEF CreateInvitation
<1>2. r.op = "invite"
  BY DEF Op
<1> HIDE DEF r
<1>3. PICK n \in 1..MaxOrg :
        /\ org[n] = NoOp /\ Wrote(<<"org", n>>, r) /\ org' = [k \in 1..MaxOrg |-> org'[k]]
        /\ org'[n] = r /\ \A k \in 1..MaxOrg : k # n => org'[k] = org[k]
  BY <1>1, OrgWrites
<1>4. RowsShaped
  BY DEF MemberInv
<1>5. /\ invite' \in [Invitations -> [st : {"none", "active", "revoked"}, uses : Nat, ver : Nat]]
      /\ invite'[i].st = "active" /\ invite'[i].uses = 0 /\ invite'[i].ver = 1
      /\ \A j \in Invitations : j # i => invite'[j] = invite[j]
  BY <1>1, <1>4 DEF RowsShaped
<1>6. RowsShaped'
  BY <1>1, <1>3, <1>4, <1>5 DEF RowsShaped
<1>7. RolesChained'
  BY <1>1, <1>2, <1>3, ChainKept DEF Grants
<1>8. VersionsCount'
  <2>1. \A u \in Users : MemberOps(u)' = MemberOps(u)
    BY <1>2, <1>3, OpsKept
  <2>2. \A j \in Invitations : /\ invite'[j].uses <= MaxUses
                               /\ invite'[j].st = "none" => invite'[j].uses = 0 /\ invite'[j].ver = 0
    <3>1. 0 <= MaxUses
      BY MembershipAssumption
    <3> QED
      BY <3>1, <1>5 DEF MemberInv, VersionsCount
  <2> QED
    BY <2>1, <2>2, <1>1 DEF MemberInv, VersionsCount
<1>9. UsesExact'
  <2>1. ASSUME NEW j \in Invitations
        PROVE  /\ invite'[j].uses = Cardinality(Approved(Users \X {j}))
               /\ invite'[j].st # "none" =>
                    invite'[j].ver = 1 + invite'[j].uses + (IF invite'[j].st = "revoked" THEN 1 ELSE 0)
    <3>1. /\ invite[j].uses = Cardinality(Approved(Users \X {j}))
          /\ invite[j].st # "none" =>
               invite[j].ver = 1 + invite[j].uses + (IF invite[j].st = "revoked" THEN 1 ELSE 0)
      BY DEF MemberInv, InvitesAccounted
    <3>2. invite[i].uses = 0
      BY <1>1 DEF MemberInv, VersionsCount
    <3>3. CASE j = i
      BY <3>1, <3>2, <3>3, <1>5
    <3>4. CASE j # i
      BY <3>1, <3>4, <1>5
    <3> QED
      BY <3>3, <3>4
  <2> QED
    BY <2>1, <1>1 DEF UsesExact, Approved
<1>10. LetIn'
  BY <1>1, InvitesHalves DEF MemberInv, LetIn, Approved
<1>11. AdminStays'
  BY <1>1 DEF MemberInv, AdminStays, Administers
<1> QED
  BY <1>6, <1>7, <1>8, <1>9, <1>10, <1>11, InvitesHalves DEF TablesInv

\* A revoked invitation keeps the uses it had.
LEMMA RevokeInvitationKeeps ==
  ASSUME MemberInv, NEW i \in Invitations, NEW v, RevokeInvitation(i, v)
  PROVE  TablesInv'
<1> DEFINE r == Op("revoke", i, v, "active", "revoked")
<1>1. /\ invite[i].st = "active" /\ Record(r)
      /\ invite' = [invite EXCEPT ![i].st = "revoked", ![i].ver = @ + 1]
      /\ UNCHANGED <<join, member, auth, acl, admin>>
  BY DEF RevokeInvitation
<1>2. r.op = "revoke"
  BY DEF Op
<1> HIDE DEF r
<1>3. PICK n \in 1..MaxOrg :
        /\ org[n] = NoOp /\ Wrote(<<"org", n>>, r) /\ org' = [k \in 1..MaxOrg |-> org'[k]]
        /\ org'[n] = r /\ \A k \in 1..MaxOrg : k # n => org'[k] = org[k]
  BY <1>1, OrgWrites
<1>4. RowsShaped
  BY DEF MemberInv
<1>5. /\ invite' \in [Invitations -> [st : {"none", "active", "revoked"}, uses : Nat, ver : Nat]]
      /\ invite'[i].st = "revoked" /\ invite'[i].uses = invite[i].uses
      /\ invite'[i].ver = invite[i].ver + 1 /\ invite[i].ver \in Nat /\ invite[i].uses \in Nat
      /\ \A j \in Invitations : j # i => invite'[j] = invite[j]
  BY <1>1, <1>4 DEF RowsShaped
<1>6. RowsShaped'
  BY <1>1, <1>3, <1>4, <1>5 DEF RowsShaped
<1>7. RolesChained'
  BY <1>1, <1>2, <1>3, ChainKept DEF Grants
<1>8. VersionsCount'
  <2>1. \A u \in Users : MemberOps(u)' = MemberOps(u)
    BY <1>2, <1>3, OpsKept
  <2>2. \A j \in Invitations : /\ invite'[j].uses <= MaxUses
                               /\ invite'[j].st = "none" => invite'[j].uses = 0 /\ invite'[j].ver = 0
    BY <1>5 DEF MemberInv, VersionsCount
  <2> QED
    BY <2>1, <2>2, <1>1 DEF MemberInv, VersionsCount
<1>9. UsesExact'
  <2>1. ASSUME NEW j \in Invitations
        PROVE  /\ invite'[j].uses = Cardinality(Approved(Users \X {j}))
               /\ invite'[j].st # "none" =>
                    invite'[j].ver = 1 + invite'[j].uses + (IF invite'[j].st = "revoked" THEN 1 ELSE 0)
    <3>1. /\ invite[j].uses = Cardinality(Approved(Users \X {j}))
          /\ invite[j].st # "none" =>
               invite[j].ver = 1 + invite[j].uses + (IF invite[j].st = "revoked" THEN 1 ELSE 0)
      BY DEF MemberInv, InvitesAccounted
    <3>2. CASE j = i
      <4>1. invite[i].ver = 1 + invite[i].uses
        BY <3>1, <3>2, <1>1, <1>5
      <4> QED
        BY <3>1, <3>2, <4>1, <1>5
    <3>3. CASE j # i
      BY <3>1, <3>3, <1>5
    <3> QED
      BY <3>2, <3>3
  <2> QED
    BY <2>1, <1>1 DEF UsesExact, Approved
<1>10. LetIn'
  BY <1>1, InvitesHalves DEF MemberInv, LetIn, Approved
<1>11. AdminStays'
  BY <1>1 DEF MemberInv, AdminStays, Administers
<1> QED
  BY <1>6, <1>7, <1>8, <1>9, <1>10, <1>11, InvitesHalves DEF TablesInv

\* The requests of a user that wait for an answer.
RequestsWaiting(u) == {q \in Requests : join[q].st = "pending" /\ join[q].user = u}

\* A request of a user who has none waiting.
LEMMA CreateJoinKeeps ==
  ASSUME MemberInv, NEW q \in Requests, NEW u \in Users, NEW i \in Invitations,
     CreateJoin(q, u, i)
  PROVE  TablesInv'
<1> DEFINE r == Op("join", q, 0, "none", "pending")
<1>1. /\ join[q].st = "none" /\ ~Pending(u) /\ Record(r)
      /\ join' = [join EXCEPT ![q] = [st |-> "pending", user |-> u, inv |-> i]]
      /\ UNCHANGED <<invite, member, auth, acl, admin>>
  BY DEF CreateJoin, Fresh
<1>2. r.op = "join"
  BY DEF Op
<1> HIDE DEF r
<1>3. PICK n \in 1..MaxOrg :
        /\ org[n] = NoOp /\ Wrote(<<"org", n>>, r) /\ org' = [k \in 1..MaxOrg |-> org'[k]]
        /\ org'[n] = r /\ \A k \in 1..MaxOrg : k # n => org'[k] = org[k]
  BY <1>1, OrgWrites
<1>4. RowsShaped
  BY DEF MemberInv
<1>5. /\ join' \in [Requests -> [st : {"none", "pending", "approved", "rejected"},
                                 user : Users \cup {NoUser}, inv : Invitations \cup {"none"}]]
      /\ join'[q].st = "pending" /\ join'[q].user = u /\ join'[q].inv = i
      /\ \A p \in Requests : p # q => join'[p] = join[p]
  BY <1>1, <1>4 DEF RowsShaped
<1>6. RowsShaped'
  <2>1. \A p \in Requests : join'[p].st # "none" => join'[p].user \in Users /\ join'[p].inv \in Invitations
    BY <1>4, <1>5 DEF RowsShaped
  <2> QED
    BY <2>1, <1>1, <1>3, <1>4, <1>5 DEF RowsShaped
<1>7. RolesChained'
  BY <1>1, <1>2, <1>3, ChainKept DEF Grants
<1>8. VersionsCount'
  <2>1. \A w \in Users : MemberOps(w)' = MemberOps(w)
    BY <1>2, <1>3, OpsKept
  <2> QED
    BY <2>1, <1>1 DEF MemberInv, VersionsCount
<1>9. \A S : Approved(S)' = Approved(S)
  BY <1>1, <1>5 DEF Approved
<1>10. UsesExact'
  BY <1>1, <1>9, InvitesHalves DEF MemberInv, UsesExact
<1>11. LetIn'
  <2>1. ASSUME NEW w \in Users
        PROVE  Cardinality(RequestsWaiting(w)') <= 1
    <3>1. CASE w = u
      <4>1. RequestsWaiting(u)' = {q}
        BY <1>1, <1>5 DEF RequestsWaiting, Pending
      <4>2. Cardinality(RequestsWaiting(u)') = 1
        BY <4>1, FS_Singleton
      <4> QED
        BY <4>2, <3>1
    <3>2. CASE w # u
      <4>1. RequestsWaiting(w)' = RequestsWaiting(w)
        BY <1>1, <1>5, <3>2 DEF RequestsWaiting
      <4> QED
        BY <4>1 DEF MemberInv, InvitesAccounted, RequestsWaiting
    <3> QED
      BY <3>1, <3>2
  <2> QED
    BY <2>1, <1>1, <1>9, InvitesHalves DEF MemberInv, LetIn, RequestsWaiting
<1>12. AdminStays'
  BY <1>1 DEF MemberInv, AdminStays, Administers
<1> QED
  BY <1>6, <1>7, <1>8, <1>10, <1>11, <1>12, InvitesHalves DEF TablesInv

\* When a request is answered, no more requests wait than before.
LEMMA FewerWait ==
  ASSUME MemberInv, NEW q \in Requests, join'[q].st # "pending",
         \A p \in Requests : p # q => join'[p] = join[p],
         NEW w \in Users
  PROVE  Cardinality(RequestsWaiting(w)') <= 1
<1>1. RequestsWaiting(w)' \subseteq RequestsWaiting(w)
  BY DEF RequestsWaiting
<1>2. IsFiniteSet(RequestsWaiting(w))
  BY ReceiptsCount, FS_Subset DEF RequestsWaiting
<1>3. Cardinality(RequestsWaiting(w)) <= 1
  BY DEF MemberInv, InvitesAccounted, RequestsWaiting
<1>4. /\ Cardinality(RequestsWaiting(w)') <= Cardinality(RequestsWaiting(w))
      /\ Cardinality(RequestsWaiting(w)') \in Nat /\ Cardinality(RequestsWaiting(w)) \in Nat
  BY <1>1, <1>2, FS_Subset, FS_CardinalityType
<1> QED
  BY <1>3, <1>4

\* A refused request.
LEMMA RejectJoinKeeps ==
  ASSUME MemberInv, NEW q \in Requests, RejectJoin(q)
  PROVE  TablesInv'
<1> DEFINE r == Op("reject", q, 0, "pending", "rejected")
<1>1. /\ join[q].st = "pending" /\ Record(r)
      /\ join' = [join EXCEPT ![q].st = "rejected"]
      /\ UNCHANGED <<invite, member, auth, acl, admin>>
  BY DEF RejectJoin
<1>2. r.op = "reject"
  BY DEF Op
<1> HIDE DEF r
<1>3. PICK n \in 1..MaxOrg :
        /\ org[n] = NoOp /\ Wrote(<<"org", n>>, r) /\ org' = [k \in 1..MaxOrg |-> org'[k]]
        /\ org'[n] = r /\ \A k \in 1..MaxOrg : k # n => org'[k] = org[k]
  BY <1>1, OrgWrites
<1>4. RowsShaped
  BY DEF MemberInv
<1>5. /\ join' \in [Requests -> [st : {"none", "pending", "approved", "rejected"},
                                 user : Users \cup {NoUser}, inv : Invitations \cup {"none"}]]
      /\ join'[q].st = "rejected" /\ join'[q].user = join[q].user /\ join'[q].inv = join[q].inv
      /\ \A p \in Requests : p # q => join'[p] = join[p]
  BY <1>1, <1>4, ZenonT(60) DEF RowsShaped
<1>6. RowsShaped'
  <2>1. \A p \in Requests : join'[p].st # "none" => join'[p].user \in Users /\ join'[p].inv \in Invitations
    BY <1>1, <1>4, <1>5 DEF RowsShaped
  <2> QED
    BY <2>1, <1>1, <1>3, <1>4, <1>5 DEF RowsShaped
<1>7. RolesChained'
  BY <1>1, <1>2, <1>3, ChainKept DEF Grants
<1>8. VersionsCount'
  <2>1. \A w \in Users : MemberOps(w)' = MemberOps(w)
    BY <1>2, <1>3, OpsKept
  <2> QED
    BY <2>1, <1>1 DEF MemberInv, VersionsCount
<1>9. \A S : Approved(S)' = Approved(S)
  BY <1>1, <1>5 DEF Approved
<1>10. UsesExact'
  BY <1>1, <1>9, InvitesHalves DEF MemberInv, UsesExact
<1>11. LetIn'
  <2>1. ASSUME NEW w \in Users
        PROVE  Cardinality(RequestsWaiting(w)') <= 1
    BY <1>5, FewerWait
  <2> QED
    BY <2>1, <1>1, <1>9, InvitesHalves DEF MemberInv, LetIn, RequestsWaiting
<1>12. AdminStays'
  BY <1>1 DEF MemberInv, AdminStays, Administers
<1> QED
  BY <1>6, <1>7, <1>8, <1>10, <1>11, <1>12, InvitesHalves DEF TablesInv

\* A request that is approved uses the invitation once and makes a member of its user,
\* who was none.
LEMMA ApproveJoinKeeps ==
  ASSUME MemberInv, NEW q \in Requests, NEW u, NEW i, u = join[q].user, i = join[q].inv,
         ApproveJoin(q)
  PROVE  TablesInv'
<1> DEFINE r == Op("approve", u, 0, "none", "viewer")
<1>1. /\ join[q].st = "pending" /\ Record(r) /\ acl' = acl + 1 /\ admin' = admin
      /\ join' = [join EXCEPT ![q].st = "approved"]
      /\ invite' = [invite EXCEPT ![i].uses = @ + 1, ![i].ver = @ + 1]
      /\ member' = [member EXCEPT ![u] = [st |-> "active", ver |-> 1]]
      /\ auth' = [auth EXCEPT ![u] = [role |-> "viewer", ver |-> 1]]
      /\ member[u].st = "none" /\ auth[u].role = "none"
      /\ invite[i].st = "active" /\ invite[i].uses < MaxUses
  BY DEF ApproveJoin, Approvable, Usable
<1>s. invite[i].st = "active" /\ invite[i].uses < MaxUses
  BY <1>1
<1>2. r.op = "approve" /\ r.on = u /\ r.seen = 0 /\ r.from = "none" /\ r.to = "viewer"
  BY DEF Op
<1>3. u \in Users /\ i \in Invitations
  BY <1>1 DEF MemberInv, RowsShaped
<1> HIDE DEF r
<1>4. PICK n \in 1..MaxOrg :
        /\ org[n] = NoOp /\ Wrote(<<"org", n>>, r) /\ org' = [k \in 1..MaxOrg |-> org'[k]]
        /\ org'[n] = r /\ \A k \in 1..MaxOrg : k # n => org'[k] = org[k]
  <2>1. Record(r) /\ admin' = admin
    BY <1>1
  <2> QED
    BY <2>1, OrgWrites
<1>5. RowsShaped
  BY DEF MemberInv
<1>6. /\ join' \in [Requests -> [st : {"none", "pending", "approved", "rejected"},
                                 user : Users \cup {NoUser}, inv : Invitations \cup {"none"}]]
      /\ join'[q].st = "approved" /\ join'[q].user = u /\ join'[q].inv = i
      /\ \A p \in Requests : p # q => join'[p] = join[p]
  BY <1>1, <1>5 DEF RowsShaped
<1>7. /\ invite' \in [Invitations -> [st : {"none", "active", "revoked"}, uses : Nat, ver : Nat]]
      /\ invite'[i].st = "active" /\ invite'[i].uses = invite[i].uses + 1
      /\ invite'[i].ver = invite[i].ver + 1 /\ invite[i].ver \in Nat /\ invite[i].uses \in Nat
      /\ \A j \in Invitations : j # i => invite'[j] = invite[j]
  BY <1>1, <1>3, <1>5 DEF RowsShaped
<1>8. /\ member' \in [Users -> [st : {"none", "active", "suspended"}, ver : Nat]]
      /\ member'[u].st = "active" /\ member'[u].ver = 1
      /\ \A w \in Users : w # u => member'[w] = member[w]
  BY <1>1, <1>3, <1>5 DEF RowsShaped
<1>9. /\ auth' \in [Users -> [role : Roles \cup {"none"}, ver : Nat]]
      /\ auth'[u].role = "viewer" /\ auth'[u].ver = 1
      /\ \A w \in Users : w # u => auth'[w] = auth[w]
  BY <1>1, <1>3, <1>5 DEF RowsShaped, Roles, JoinRoles
<1>10. RowsShaped'
  <2>1. \A p \in Requests : join'[p].st # "none" => join'[p].user \in Users /\ join'[p].inv \in Invitations
    BY <1>3, <1>5, <1>6 DEF RowsShaped
  <2>2. acl' \in Nat
    BY <1>1, <1>5 DEF RowsShaped
  <2>3. org' = [k \in 1..MaxOrg |-> org'[k]]
    BY <1>4
  <2>4. admin' = [k \in 1..MaxAdmin |-> admin'[k]]
    <3>1. admin' = admin
      BY <1>1
    <3> QED
      BY <3>1, <1>5 DEF RowsShaped
  <2>5. invite' \in [Invitations -> [st : {"none", "active", "revoked"}, uses : Nat, ver : Nat]]
    BY <1>7
  <2>6. join' \in [Requests -> [st : {"none", "pending", "approved", "rejected"},
                                user : Users \cup {NoUser}, inv : Invitations \cup {"none"}]]
    BY <1>6
  <2>7. /\ member' \in [Users -> [st : {"none", "active", "suspended"}, ver : Nat]]
        /\ auth' \in [Users -> [role : Roles \cup {"none"}, ver : Nat]]
    BY <1>8, <1>9
  <2> QED
    BY <2>1, <2>2, <2>3, <2>4, <2>5, <2>6, <2>7 DEF RowsShaped
<1>11. auth[u].ver = 0 /\ member[u].ver = 0
  BY <1>1, <1>3 DEF MemberInv, VersionsCount
<1>12. RolesChained'
  <2>1. auth'[u].ver = auth[u].ver + 1
    BY <1>9, <1>11
  <2> QED
    BY <2>1, <1>1, <1>2, <1>3, <1>4, <1>9, <1>11, ChainGrows DEF Grants
<1>13. VersionsCount'
  <2>1. /\ \A w \in Users : w # u => MemberOps(w)' = MemberOps(w)
        /\ Cardinality(MemberOps(u)') = member[u].ver + 1
    BY <1>2, <1>3, <1>4, OpsGrow
  <2>2. ASSUME NEW w \in Users
        PROVE  /\ member'[w].ver = Cardinality(MemberOps(w)')
               /\ member'[w].st = "none" => member'[w].ver = 0
               /\ auth'[w].role = "none" => auth'[w].ver = 0
    <3>1. CASE w = u
      BY <3>1, <2>1, <1>8, <1>9, <1>11
    <3>2. CASE w # u
      BY <3>2, <2>1, <1>8, <1>9 DEF MemberInv, VersionsCount
    <3> QED
      BY <3>1, <3>2
  <2>3. ASSUME NEW j \in Invitations
        PROVE  /\ invite'[j].uses <= MaxUses
               /\ invite'[j].st = "none" => invite'[j].uses = 0 /\ invite'[j].ver = 0
    <3>1. CASE j = i
      <4>1. MaxUses \in Nat
        BY MembershipAssumption
      <4> QED
        BY <4>1, <3>1, <1>s, <1>7
    <3>2. CASE j # i
      BY <3>2, <1>7 DEF MemberInv, VersionsCount
    <3> QED
      BY <3>1, <3>2
  <2> QED
    BY <2>2, <2>3 DEF VersionsCount
<1>14. ASSUME NEW S
       PROVE  /\ <<u, i>> \in S => Cardinality(Approved(S)') = Cardinality(Approved(S)) + 1
              /\ <<u, i>> \notin S => Approved(S)' = Approved(S)
              /\ Cardinality(Approved(S)) \in Nat
  <2>1. IsFiniteSet(Approved(S))
    BY ReceiptsCount, FS_Subset DEF Approved
  <2>2. CASE <<u, i>> \in S
    <3>1. Approved(S)' = Approved(S) \cup {q} /\ q \notin Approved(S)
      BY <2>2, <1>1, <1>6 DEF Approved
    <3> QED
      BY <3>1, <2>1, <2>2, FS_AddElement, FS_CardinalityType
  <2>3. CASE <<u, i>> \notin S
    <3>1. Approved(S)' = Approved(S)
      BY <2>3, <1>1, <1>6 DEF Approved
    <3> QED
      BY <3>1, <2>1, <2>3, FS_CardinalityType
  <2> QED
    BY <2>2, <2>3
<1>15. UsesExact'
  <2>1. ASSUME NEW j \in Invitations
        PROVE  /\ invite'[j].uses = Cardinality(Approved(Users \X {j})')
               /\ invite'[j].st # "none" =>
                    invite'[j].ver = 1 + invite'[j].uses + (IF invite'[j].st = "revoked" THEN 1 ELSE 0)
    <3>1. /\ invite[j].uses = Cardinality(Approved(Users \X {j}))
          /\ invite[j].st # "none" =>
               invite[j].ver = 1 + invite[j].uses + (IF invite[j].st = "revoked" THEN 1 ELSE 0)
      BY DEF MemberInv, InvitesAccounted
    <3>2. CASE j = i
      <4>1. <<u, i>> \in Users \X {j}
        BY <3>2, <1>3
      <4>2. Cardinality(Approved(Users \X {j})') = Cardinality(Approved(Users \X {j})) + 1
        BY <4>1, <1>14
      <4>3. invite[i].ver = 1 + invite[i].uses
        <5>1. invite[i].ver \in Nat /\ invite[i].uses \in Nat
          BY <1>7
        <5>2. invite[i].ver = 1 + invite[i].uses + (IF invite[i].st = "revoked" THEN 1 ELSE 0)
          BY <3>1, <3>2, <1>s
        <5> QED
          BY <5>1, <5>2, <1>s
      <4> QED
        BY <3>1, <3>2, <4>2, <4>3, <1>7
    <3>3. CASE j # i
      <4>1. <<u, i>> \notin Users \X {j}
        BY <3>3
      <4>2. Approved(Users \X {j})' = Approved(Users \X {j})
        BY <4>1, <1>14
      <4> QED
        BY <3>1, <3>3, <4>2, <1>7
    <3> QED
      BY <3>2, <3>3
  <2> QED
    BY <2>1 DEF UsesExact
<1>16. LetIn'
  <2>1. ASSUME NEW w \in Users
        PROVE  Cardinality(RequestsWaiting(w)') <= 1
    BY <1>6, FewerWait
  <2>2. ASSUME NEW w \in Users
        PROVE  /\ Cardinality(Approved({w} \X Invitations)') = (IF member'[w].st = "none" THEN 0 ELSE 1)
               /\ member'[w].st # "none" => auth'[w].role # "none"
    <3>1. /\ Cardinality(Approved({w} \X Invitations)) = (IF member[w].st = "none" THEN 0 ELSE 1)
          /\ member[w].st # "none" => auth[w].role # "none"
      BY DEF MemberInv, InvitesAccounted
    <3>2. CASE w = u
      <4>1. <<u, i>> \in {w} \X Invitations
        BY <3>2, <1>3
      <4>2. Cardinality(Approved({w} \X Invitations)') = Cardinality(Approved({w} \X Invitations)) + 1
        BY <4>1, <1>14
      <4>3. Cardinality(Approved({w} \X Invitations)) = 0
        BY <3>1, <3>2, <1>1
      <4> QED
        BY <3>2, <4>2, <4>3, <1>8, <1>9
    <3>3. CASE w # u
      <4>1. <<u, i>> \notin {w} \X Invitations
        BY <3>3
      <4>2. Approved({w} \X Invitations)' = Approved({w} \X Invitations)
        BY <4>1, <1>14
      <4> QED
        BY <3>1, <3>3, <4>2, <1>8, <1>9
    <3> QED
      BY <3>2, <3>3
  <2> QED
    BY <2>1, <2>2 DEF LetIn, RequestsWaiting
<1>17. AdminStays'
  BY <1>1, <1>9 DEF MemberInv, AdminStays, Administers
<1> QED
  BY <1>10, <1>12, <1>13, <1>15, <1>16, <1>17, InvitesHalves DEF TablesInv

\* A role among those of the members: the version seen is the last one.
LEMMA ChangeJoinRoleKeeps ==
  ASSUME MemberInv, NEW u \in Users, NEW x \in JoinRoles, NEW v, NEW av, NEW old,
         old = auth[u].role, ChangeJoinRole(u, x, v, av)
  PROVE  TablesInv'
<1> DEFINE r == Op("role", u, av, old, x)
<1>1. /\ member[u].st = "active" /\ old \in JoinRoles /\ auth[u].ver = av
      /\ auth' = [auth EXCEPT ![u] = [role |-> x, ver |-> auth[u].ver + 1]]
      /\ member' = [member EXCEPT ![u].ver = @ + 1]
      /\ acl' = acl + 1 /\ UNCHANGED <<invite, join>>
  BY DEF ChangeJoinRole, SeenBoth
<1>2. Record(r) /\ admin' = admin
  BY DEF ChangeJoinRole
<1>3. r.op = "role" /\ r.on = u /\ r.seen = av /\ r.from = old /\ r.to = x
  BY DEF Op
<1> HIDE DEF r
<1>4. PICK n \in 1..MaxOrg :
        /\ org[n] = NoOp /\ Wrote(<<"org", n>>, r) /\ org' = [k \in 1..MaxOrg |-> org'[k]]
        /\ org'[n] = r /\ \A k \in 1..MaxOrg : k # n => org'[k] = org[k]
  BY <1>2, OrgWrites
<1>5. RowsShaped
  BY DEF MemberInv
<1>6. /\ member' \in [Users -> [st : {"none", "active", "suspended"}, ver : Nat]]
      /\ member'[u].st = "active" /\ member'[u].ver = member[u].ver + 1 /\ member[u].ver \in Nat
      /\ \A w \in Users : w # u => member'[w] = member[w]
  BY <1>1, <1>5 DEF RowsShaped
<1>7. /\ auth' \in [Users -> [role : Roles \cup {"none"}, ver : Nat]]
      /\ auth'[u].role = x /\ auth'[u].ver = auth[u].ver + 1
      /\ \A w \in Users : w # u => auth'[w] = auth[w]
  BY <1>1, <1>5 DEF RowsShaped, Roles, JoinRoles
<1>8. RowsShaped'
  <2>1. acl' \in Nat
    BY <1>1, <1>5 DEF RowsShaped
  <2> QED
    BY <2>1, <1>1, <1>2, <1>4, <1>5, <1>6, <1>7 DEF RowsShaped
<1>9. RolesChained'
  BY <1>1, <1>3, <1>4, <1>7, ChainGrows DEF Grants
<1>10. VersionsCount'
  <2>1. /\ \A w \in Users : w # u => MemberOps(w)' = MemberOps(w)
        /\ Cardinality(MemberOps(u)') = member[u].ver + 1
    BY <1>3, <1>4, OpsGrow
  <2>2. ASSUME NEW w \in Users
        PROVE  /\ member'[w].ver = Cardinality(MemberOps(w)')
               /\ member'[w].st = "none" => member'[w].ver = 0
               /\ auth'[w].role = "none" => auth'[w].ver = 0
    <3>1. CASE w = u
      BY <3>1, <2>1, <1>6, <1>7 DEF JoinRoles
    <3>2. CASE w # u
      BY <3>2, <2>1, <1>6, <1>7 DEF MemberInv, VersionsCount
    <3> QED
      BY <3>1, <3>2
  <2>3. \A j \in Invitations :
          /\ invite'[j].uses <= MaxUses
          /\ invite'[j].st = "none" => invite'[j].uses = 0 /\ invite'[j].ver = 0
    BY <1>1 DEF MemberInv, VersionsCount
  <2> QED
    BY <2>2, <2>3 DEF VersionsCount
<1>11. \A S : Approved(S)' = Approved(S)
  BY <1>1 DEF Approved
<1>12. UsesExact'
  BY <1>1, <1>11, InvitesHalves DEF MemberInv, UsesExact
<1>13. LetIn'
  <2>1. ASSUME NEW w \in Users
        PROVE  /\ (member'[w].st = "none") <=> (member[w].st = "none")
               /\ member'[w].st # "none" => auth'[w].role # "none"
    <3>1. CASE w = u
      BY <3>1, <1>1, <1>6, <1>7 DEF JoinRoles
    <3>2. CASE w # u
      BY <3>2, <1>6, <1>7 DEF MemberInv, InvitesAccounted
    <3> QED
      BY <3>1, <3>2
  <2> QED
    BY <2>1, <1>1, <1>11, InvitesHalves DEF MemberInv, LetIn
<1>14. AdminStays'
  <2>1. old # "workspace_admin"
    BY <1>1 DEF JoinRoles
  <2> QED
    BY <2>1, <1>7 DEF MemberInv, AdminStays, Administers
<1> QED
  BY <1>8, <1>9, <1>10, <1>12, <1>13, <1>14, InvitesHalves DEF TablesInv

\* A suspension, or its end: the role stays.
LEMMA SetMembershipKeeps ==
  ASSUME MemberInv, NEW u \in Users, NEW st \in {"active", "suspended"}, NEW v, NEW old,
         old = member[u].st, SetMembership(u, st, v)
  PROVE  TablesInv'
<1> DEFINE r == Op("state", u, v, old, st)
<1>1. /\ old # "none"
      /\ member' = [member EXCEPT ![u] = [st |-> st, ver |-> member[u].ver + 1]]
      /\ UNCHANGED <<invite, join, auth, acl>>
  BY DEF SetMembership
<1>2. Record(r) /\ admin' = admin
  BY DEF SetMembership
<1>3. r.op = "state" /\ r.on = u
  BY DEF Op
<1> HIDE DEF r
<1>4. PICK n \in 1..MaxOrg :
        /\ org[n] = NoOp /\ Wrote(<<"org", n>>, r) /\ org' = [k \in 1..MaxOrg |-> org'[k]]
        /\ org'[n] = r /\ \A k \in 1..MaxOrg : k # n => org'[k] = org[k]
  BY <1>2, OrgWrites
<1>5. RowsShaped
  BY DEF MemberInv
<1>6. /\ member' \in [Users -> [st : {"none", "active", "suspended"}, ver : Nat]]
      /\ member'[u].st = st /\ member'[u].ver = member[u].ver + 1 /\ member[u].ver \in Nat
      /\ \A w \in Users : w # u => member'[w] = member[w]
  BY <1>1, <1>5 DEF RowsShaped
<1>7. RowsShaped'
  BY <1>1, <1>2, <1>4, <1>5, <1>6 DEF RowsShaped
<1>8. RolesChained'
  BY <1>1, <1>3, <1>4, ChainKept DEF Grants
<1>9. VersionsCount'
  <2>1. /\ \A w \in Users : w # u => MemberOps(w)' = MemberOps(w)
        /\ Cardinality(MemberOps(u)') = member[u].ver + 1
    BY <1>3, <1>4, OpsGrow
  <2>2. ASSUME NEW w \in Users
        PROVE  /\ member'[w].ver = Cardinality(MemberOps(w)')
               /\ member'[w].st = "none" => member'[w].ver = 0
               /\ auth'[w].role = "none" => auth'[w].ver = 0
    <3>1. CASE w = u
      BY <3>1, <2>1, <1>1, <1>6 DEF MemberInv, VersionsCount
    <3>2. CASE w # u
      BY <3>2, <2>1, <1>1, <1>6 DEF MemberInv, VersionsCount
    <3> QED
      BY <3>1, <3>2
  <2>3. \A j \in Invitations :
          /\ invite'[j].uses <= MaxUses
          /\ invite'[j].st = "none" => invite'[j].uses = 0 /\ invite'[j].ver = 0
    BY <1>1 DEF MemberInv, VersionsCount
  <2> QED
    BY <2>2, <2>3 DEF VersionsCount
<1>10. \A S : Approved(S)' = Approved(S)
  BY <1>1 DEF Approved
<1>11. UsesExact'
  BY <1>1, <1>10, InvitesHalves DEF MemberInv, UsesExact
<1>12. LetIn'
  <2>1. ASSUME NEW w \in Users
        PROVE  /\ (member'[w].st = "none") <=> (member[w].st = "none")
               /\ member'[w].st # "none" => auth'[w].role # "none"
    <3>1. CASE w = u
      BY <3>1, <1>1, <1>6 DEF MemberInv, InvitesAccounted
    <3>2. CASE w # u
      BY <3>2, <1>1, <1>6 DEF MemberInv, InvitesAccounted
    <3> QED
      BY <3>1, <3>2
  <2> QED
    BY <2>1, <1>1, <1>10, InvitesHalves DEF MemberInv, LetIn
<1>13. AdminStays'
  BY <1>1 DEF MemberInv, AdminStays, Administers
<1> QED
  BY <1>7, <1>8, <1>9, <1>11, <1>12, <1>13, InvitesHalves DEF TablesInv

\* The system administrator changes a role, or writes the one there is: the last
\* administrator of a workspace is not demoted.
LEMMA ChangeWorkspaceRoleKeeps ==
  ASSUME MemberInv, NEW u \in Users, NEW x \in Roles, NEW v, NEW old,
         old = auth[u].role, ChangeWorkspaceRole(u, x, v)
  PROVE  TablesInv'
<1> DEFINE r == Op(IF x # old THEN "changed" ELSE "unchanged", u, v, old, x)
           m == IF x # old THEN auth[u].ver + 1 ELSE auth[u].ver
<1>1. /\ old # "none" /\ auth[u].ver = v /\ Demotable(u, x)
      /\ auth' = [auth EXCEPT ![u] = [role |-> x, ver |-> m]]
      /\ acl' = IF x # old THEN acl + 1 ELSE acl
      /\ UNCHANGED <<invite, join, member, org>>
  BY DEF ChangeWorkspaceRole
<1>2. PICK n \in 1..MaxAdmin : admin[n] = NoOp /\ admin' = [admin EXCEPT ![n] = r]
  BY DEF ChangeWorkspaceRole
<1>3. /\ r.op = (IF x # old THEN "changed" ELSE "unchanged")
      /\ r.on = u /\ r.seen = v /\ r.from = old /\ r.to = x
  BY DEF Op
<1> HIDE DEF r
<1>4. Wrote(<<"admin", n>>, r) /\ admin' = [k \in 1..MaxAdmin |-> admin'[k]]
  BY <1>1, <1>2, AdminWrites
<1>5. RowsShaped
  BY DEF MemberInv
<1>6. /\ auth' \in [Users -> [role : Roles \cup {"none"}, ver : Nat]]
      /\ auth'[u].role = x /\ auth'[u].ver = m
      /\ \A w \in Users : w # u => auth'[w] = auth[w]
  <2>1. m \in Nat
    BY <1>5 DEF RowsShaped
  <2> HIDE DEF m
  <2> QED
    BY <2>1, <1>1, <1>5 DEF RowsShaped
<1>7. RowsShaped'
  <2>1. acl' \in Nat
    BY <1>1, <1>5 DEF RowsShaped
  <2> QED
    BY <2>1, <1>1, <1>4, <1>5, <1>6 DEF RowsShaped
<1>8. RolesChained'
  <2>1. CASE x # old
    BY <2>1, <1>1, <1>3, <1>4, <1>6, ChainGrows DEF Grants
  <2>2. CASE x = old
    <3>1. auth' = auth /\ acl' = acl
      BY <2>2, <1>1, <1>5 DEF RowsShaped
    <3> QED
      BY <3>1, <2>2, <1>3, <1>4, ChainKept DEF Grants
  <2> QED
    BY <2>1, <2>2
<1>9. x # "none"
  BY DEF Roles, JoinRoles
<1>10. VersionsCount'
  <2>1. \A w \in Users : MemberOps(w)' = MemberOps(w)
    BY <1>1 DEF MemberOps
  <2>2. ASSUME NEW w \in Users
        PROVE  auth'[w].role = "none" => auth'[w].ver = 0
    BY <1>6, <1>9 DEF MemberInv, VersionsCount
  <2> QED
    BY <2>1, <2>2, <1>1 DEF MemberInv, VersionsCount
<1>11. \A S : Approved(S)' = Approved(S)
  BY <1>1 DEF Approved
<1>12. UsesExact'
  BY <1>1, <1>11, InvitesHalves DEF MemberInv, UsesExact
<1>13. LetIn'
  <2>1. ASSUME NEW w \in Users
        PROVE  member[w].st # "none" => auth'[w].role # "none"
    BY <1>6, <1>9 DEF MemberInv, InvitesAccounted
  <2> QED
    BY <2>1, <1>1, <1>11, InvitesHalves DEF MemberInv, LetIn
<1>14. AdminStays'
  <2>1. CASE x = "workspace_admin"
    BY <2>1, <1>6 DEF AdminStays, Administers
  <2>2. CASE x # "workspace_admin" /\ old = "workspace_admin"
    <3>1. PICK o \in Users \ {u} : Administers(o)
      BY <2>2, <1>1 DEF Demotable, Administers
    <3> QED
      BY <3>1, <1>6 DEF AdminStays, Administers
  <2>3. CASE old # "workspace_admin"
    <3>1. PICK o \in Users : Administers(o)
      BY DEF MemberInv, AdminStays
    <3> QED
      BY <3>1, <2>3, <1>6 DEF AdminStays, Administers
  <2> QED
    BY <2>1, <2>2, <2>3
<1> QED
  BY <1>7, <1>8, <1>10, <1>12, <1>13, <1>14, InvitesHalves DEF TablesInv

-----------------------------------------------------------------------------
(* The loop.                                                               *)

\* A page that was just read, or the rest of one, is of one table, and ticks nothing off yet.
LEMMA PageRead ==
  ASSUME MemberInv, NEW pc \in {"admin", "org", "rows"}, NEW rows \in SUBSET Receipts,
         rows \subseteq Org \/ rows \subseteq Admin, NEW c, NEW m,
         loop' = [pc |-> pc, rows |-> rows, cursor |-> c, mark |-> m],
         acked' = acked, central' \in SUBSET Receipts, central \subseteq central',
         loopFaults' \in 0..MaxLoopFaults
  PROVE  PageFits'
<1>1. loop'.pc = pc /\ loop'.rows = rows /\ loop'.cursor = c /\ loop'.mark = m
  OBVIOUS
<1>2. acked' \subseteq central'
  BY DEF MemberInv, PageFits
<1> QED
  BY <1>1, <1>2 DEF PageFits, AtAck

\* The memory of the loop is one record.
LEMMA LoopRecord ==
  ASSUME MemberInv
  PROVE  /\ loop = [pc |-> loop.pc, rows |-> loop.rows, cursor |-> loop.cursor, mark |-> loop.mark]
         /\ loop.pc \in {"admin", "org", "rows", "ack"} /\ loop.rows \in SUBSET Receipts
         /\ loop.rows \subseteq Org \/ loop.rows \subseteq Admin
         /\ acked \subseteq central /\ central \subseteq Receipts /\ loopFaults \in 0..MaxLoopFaults
BY DEF MemberInv, PageFits

\* A page of the administrator's receipts.
LEMMA ReadAdminPageKeeps ==
  ASSUME MemberInv, ReadAdminPage
  PROVE  PageFits'
<1> DEFINE rest == FirstRows(Swept(loop.cursor, loop.mark))
           fresh == IF Unacked(Admin) = {} THEN 0 ELSE LastStamp(Unacked(Admin))
           first == FirstRows(Swept(0, fresh))
<1>1. rest \subseteq Admin /\ first \subseteq Admin /\ {} \subseteq Admin /\ Admin \subseteq Receipts
  BY DEF FirstRows, Swept, Unacked, Receipts
<1>2. \/ loop' = [loop EXCEPT !.pc = "rows", !.rows = rest, !.cursor = LastStamp(rest)]
      \/ loop' = [NoLoop EXCEPT !.pc = "org"]
      \/ loop' = [pc |-> "rows", rows |-> first, cursor |-> LastStamp(first), mark |-> fresh]
  BY DEF ReadAdminPage
<1>3. acked' = acked /\ central' = central /\ loopFaults' = loopFaults
  BY DEF ReadAdminPage
<1> HIDE DEF rest, fresh, first
<1>4. \/ loop' = [pc |-> "rows", rows |-> rest, cursor |-> LastStamp(rest), mark |-> loop.mark]
      \/ loop' = [pc |-> "org", rows |-> {}, cursor |-> 0, mark |-> 0]
      \/ loop' = [pc |-> "rows", rows |-> first, cursor |-> LastStamp(first), mark |-> fresh]
  BY <1>2, LoopRecord DEF NoLoop
<1> QED
  BY <1>1, <1>3, <1>4, LoopRecord, PageRead

\* A page of the receipts of the organization's workflow.
LEMMA ReadOrgPageKeeps ==
  ASSUME MemberInv, ReadOrgPage
  PROVE  PageFits'
<1> DEFINE S == FirstRows(Unacked(Org))
<1>1. S \subseteq Org /\ Org \subseteq Receipts
  BY DEF FirstRows, Unacked, Receipts
<1>2. \/ loop' = [loop EXCEPT !.pc = "admin"]
      \/ loop' = [loop EXCEPT !.pc = "rows", !.rows = S]
  BY DEF ReadOrgPage
<1>3. acked' = acked /\ central' = central /\ loopFaults' = loopFaults
  BY DEF ReadOrgPage
<1> HIDE DEF S
<1>4. \/ loop' = [pc |-> "admin", rows |-> loop.rows, cursor |-> loop.cursor, mark |-> loop.mark]
      \/ loop' = [pc |-> "rows", rows |-> S, cursor |-> loop.cursor, mark |-> loop.mark]
  BY <1>2, LoopRecord
<1> QED
  BY <1>1, <1>3, <1>4, LoopRecord, PageRead

\* The row is done: the rest of the page, or the other table.
LEMMA SkipKeeps ==
  ASSUME MemberInv, NEW e \in Receipts, Skip(e)
  PROVE  \E pc \in {"admin", "org", "rows"} :
           loop' = [pc |-> pc, rows |-> loop.rows \ {e}, cursor |-> loop.cursor, mark |-> loop.mark]
<1> DEFINE pc == IF loop.rows = {e} THEN Following(e) ELSE "rows"
<1>1. pc \in {"admin", "org", "rows"}
  BY DEF Following
<1>2. loop' = [loop EXCEPT !.rows = loop.rows \ {e}, !.pc = pc]
  BY DEF Skip
<1> HIDE DEF pc
<1>3. loop' = [pc |-> pc, rows |-> loop.rows \ {e}, cursor |-> loop.cursor, mark |-> loop.mark]
  BY <1>2, LoopRecord
<1> QED
  BY <1>1, <1>3

\* In a page the row with the smallest stamp is one row.
LEMMA OneAtAck ==
  ASSUME MemberInv, NEW e \in loop.rows, NEW f \in loop.rows,
         \A g \in loop.rows : Stamp(e) <= Stamp(g), \A g \in loop.rows : Stamp(f) <= Stamp(g)
  PROVE  e = f
<1>1. Stamp(e) <= Stamp(f) /\ Stamp(f) <= Stamp(e)
  OBVIOUS
<1>2. CASE loop.rows \subseteq Org
  <2>1. e = <<"org", e[2]>> /\ f = <<"org", f[2]>> /\ e[2] \in Int /\ f[2] \in Int
    BY <1>2 DEF Org
  <2> QED
    BY <1>1, <2>1 DEF Stamp
<1>3. CASE loop.rows \subseteq Admin
  <2>1. e = <<"admin", e[2]>> /\ f = <<"admin", f[2]>> /\ e[2] \in Int /\ f[2] \in Int
    BY <1>3 DEF Admin
  <2> QED
    BY <1>1, <2>1 DEF Stamp
<1> QED
  BY <1>2, <1>3, LoopRecord

\* The append puts the row that will be ticked off into the central store.
LEMMA AppendKeeps ==
  ASSUME MemberInv, NEW e \in Receipts, AppendReceipt(e)
  PROVE  PageFits'
<1>1. /\ e \in loop.rows /\ \A f \in loop.rows : Stamp(e) <= Stamp(f)
      /\ central' = central \cup {e} /\ loop' = [loop EXCEPT !.pc = "ack"]
      /\ acked' = acked /\ loopFaults' = loopFaults
  BY DEF AppendReceipt, Current
<1>2. loop' = [pc |-> "ack", rows |-> loop.rows, cursor |-> loop.cursor, mark |-> loop.mark]
  BY <1>1, LoopRecord
<1>3. loop'.pc = "ack" /\ loop'.rows = loop.rows /\ loop'.cursor = loop.cursor /\ loop'.mark = loop.mark
  BY <1>2
<1>4. \A f \in Receipts : AtAck(f)' => f \in central'
  <2>1. ASSUME NEW f \in Receipts, AtAck(f)' PROVE f \in central'
    <3>1. f \in loop.rows /\ \A g \in loop.rows : Stamp(f) <= Stamp(g)
      BY <2>1, <1>3 DEF AtAck, Stamp
    <3> QED
      BY <3>1, <1>1, OneAtAck
  <2> QED
    BY <2>1
<1> QED
  BY <1>1, <1>2, <1>3, <1>4, LoopRecord DEF PageFits

\* Refused, or not answered: the row is passed, whatever the store got.
LEMMA PassKeeps ==
  ASSUME MemberInv, NEW e \in Receipts, Refuse(e) \/ AppendFails(e) \/ AckFails(e)
  PROVE  PageFits'
<1>1. /\ Skip(e) /\ acked' = acked /\ central' \in {central, central \cup {e}}
      /\ loopFaults' = loopFaults \/ (loopFaults < MaxLoopFaults /\ loopFaults' = loopFaults + 1)
  BY DEF Refuse, AppendFails, AckFails
<1>2. PICK pc \in {"admin", "org", "rows"} :
        loop' = [pc |-> pc, rows |-> loop.rows \ {e}, cursor |-> loop.cursor, mark |-> loop.mark]
  BY <1>1, SkipKeeps
<1>3. loopFaults' \in 0..MaxLoopFaults
  BY <1>1, LoopRecord, MembershipAssumption
<1>4. central' \in SUBSET Receipts /\ central \subseteq central'
  BY <1>1, LoopRecord
<1>5. loop.rows \ {e} \in SUBSET Receipts /\ (loop.rows \ {e} \subseteq Org \/ loop.rows \ {e} \subseteq Admin)
  BY LoopRecord
<1> QED
  BY <1>1, <1>2, <1>3, <1>4, <1>5, PageRead

\* What is ticked off is in the central store.
LEMMA AckKeeps ==
  ASSUME MemberInv, NEW e \in Receipts, Ack(e)
  PROVE  PageFits'
<1>1. /\ Skip(e) /\ acked' = acked \cup {e} /\ central' = central /\ loopFaults' = loopFaults
      /\ e \in central
  BY DEF Ack, MemberInv, PageFits
<1>2. PICK pc \in {"admin", "org", "rows"} :
        loop' = [pc |-> pc, rows |-> loop.rows \ {e}, cursor |-> loop.cursor, mark |-> loop.mark]
  BY <1>1, SkipKeeps
<1>3. /\ loop'.pc = pc /\ loop'.rows = loop.rows \ {e}
      /\ loop'.cursor = loop.cursor /\ loop'.mark = loop.mark
  BY <1>2
<1> QED
  BY <1>1, <1>2, <1>3, LoopRecord DEF PageFits, AtAck

\* The process that restarts has read nothing.
LEMMA RestartKeeps ==
  ASSUME MemberInv, Restart
  PROVE  PageFits'
<1>1. /\ acked' = acked /\ central' = central /\ loopFaults < MaxLoopFaults /\ loopFaults' = loopFaults + 1
      /\ loop' = [pc |-> "admin", rows |-> {}, cursor |-> 0, mark |-> 0]
  BY DEF Restart, NoLoop
<1>2. loopFaults' \in 0..MaxLoopFaults
  BY <1>1, LoopRecord, MembershipAssumption
<1> QED
  BY <1>1, <1>2, LoopRecord, PageRead

-----------------------------------------------------------------------------
\* The invariant holds in a workspace that has only its founders.
LEMMA MemberStart == MemberInit => MemberInv
<1> SUFFICES ASSUME MemberInit PROVE MemberInv
  OBVIOUS
<1>1. /\ \A u \in Users : /\ member[u].st = "none" /\ member[u].ver = 0
                          /\ auth[u].ver = FirstVersion(u)
                          /\ auth[u].role = (IF u \in Founders THEN "workspace_admin" ELSE "none")
      /\ \A q \in Requests : join[q].st = "none"
      /\ \A i \in Invitations :
           /\ invite[i].uses = 0 /\ invite[i].st = (IF i \in Issued THEN "active" ELSE "none")
           /\ invite[i].ver = (IF i \in Issued THEN 1 ELSE 0)
      /\ acl = 1
  BY DEF MemberInit, FirstVersion
<1>2. \A n \in 1..MaxOrg : org[n].op = "none"
  BY DEF MemberInit, NoOp
<1>3. \A e \in Receipts : Receipt(e).op = "none"
  BY DEF MemberInit, NoOp, Receipt, Receipts, Org, Admin
<1>4. Cardinality({}) = 0
  BY FS_EmptySet
<1>5. RowsShaped
  BY DEF MemberInit, RowsShaped, Roles, JoinRoles
<1>6. VersionsCount
  <2>1. \A u \in Users : MemberOps(u) = {}
    BY <1>2 DEF MemberOps
  <2>2. 0 <= MaxUses
    BY MembershipAssumption
  <2>3. \A u \in Users : auth[u].role = "none" => auth[u].ver = 0
    BY <1>1 DEF FirstVersion
  <2> QED
    BY <2>1, <2>2, <2>3, <1>1, <1>4 DEF VersionsCount
<1>7. RolesChained
  <2>1. {e \in Receipts : Receipt(e).op \in Grants} = {}
    BY <1>3 DEF Grants
  <2>2. \A u \in Users : GrantsOf(u) = {}
    BY <1>3 DEF GrantsOf, Grants
  <2>3. ASSUME NEW u \in Users
        PROVE  /\ {Receipt(e).seen : e \in GrantsOf(u)} = FirstVersion(u)..(auth[u].ver - 1)
               /\ Cardinality(GrantsOf(u)) = auth[u].ver - FirstVersion(u)
    <3>1. FirstVersion(u) \in Nat /\ auth[u].ver = FirstVersion(u)
      BY <1>1 DEF FirstVersion
    <3>2. FirstVersion(u)..(auth[u].ver - 1) = {} /\ auth[u].ver - FirstVersion(u) = 0
      BY <3>1
    <3> QED
      BY <3>2, <2>2, <1>4
  <2>4. acl = 1 + Cardinality({e \in Receipts : Receipt(e).op \in Grants})
    <3>1. Cardinality({e \in Receipts : Receipt(e).op \in Grants}) = 0
      BY <2>1, <1>4
    <3>2. acl = 1
      BY <1>1
    <3> QED
      BY <3>1, <3>2
  <2> QED
    BY <2>2, <2>3, <2>4 DEF RolesChained
<1>8. InvitesAccounted
  <2>1. \A S : Approved(S) = {}
    BY <1>1 DEF Approved
  <2>2. ASSUME NEW i \in Invitations
        PROVE  /\ invite[i].uses = Cardinality(Approved(Users \X {i}))
               /\ invite[i].st # "none" =>
                    invite[i].ver = 1 + invite[i].uses + (IF invite[i].st = "revoked" THEN 1 ELSE 0)
    <3>1. Cardinality(Approved(Users \X {i})) = 0
      BY <2>1, <1>4
    <3> QED
      BY <3>1, <1>1
  <2>3. ASSUME NEW u \in Users
        PROVE  /\ Cardinality(Approved({u} \X Invitations)) = (IF member[u].st = "none" THEN 0 ELSE 1)
               /\ Cardinality(RequestsWaiting(u)) <= 1
               /\ member[u].st # "none" => auth[u].role # "none"
    <3>1. Cardinality(Approved({u} \X Invitations)) = 0
      BY <2>1, <1>4
    <3>2. RequestsWaiting(u) = {}
      BY <1>1 DEF RequestsWaiting
    <3>3. Cardinality(RequestsWaiting(u)) = 0
      BY <3>2, <1>4
    <3> QED
      BY <3>1, <3>3, <1>1
  <2>4. UsesExact /\ LetIn
    BY <2>2, <2>3 DEF UsesExact, LetIn, RequestsWaiting
  <2> QED
    BY <2>4, InvitesHalves
<1>9. AdminStays
  <2>1. PICK u \in Founders : u \in Users
    BY MembershipAssumption
  <2> QED
    BY <2>1, <1>1 DEF AdminStays, Administers
<1>10. PageFits
  <2>1. MaxLoopFaults \in Nat
    BY MembershipAssumption
  <2>2. loop = [pc |-> "admin", rows |-> {}, cursor |-> 0, mark |-> 0]
    BY DEF MemberInit, NoLoop
  <2>3. loop.pc = "admin" /\ loop.rows = {} /\ loop.cursor = 0 /\ loop.mark = 0
    BY <2>2
  <2>4. central = {} /\ acked = {} /\ loopFaults \in 0..MaxLoopFaults
    BY <2>1 DEF MemberInit
  <2> QED
    BY <2>2, <2>3, <2>4 DEF PageFits, AtAck
<1> QED
  BY <1>5, <1>6, <1>7, <1>8, <1>9, <1>10 DEF MemberInv

\* Every operation of a manager and of the system administrator keeps the tables.
LEMMA ManageKeeps ==
  ASSUME MemberInv, Manage
  PROVE  TablesInv' /\ PageFits'
<1>1. UNCHANGED delivery
  BY DEF Manage, CreateInvitation, RevokeInvitation, CreateJoin, ApproveJoin, RejectJoin,
     ChangeJoinRole, SetMembership, ChangeWorkspaceRole
<1>2. ASSUME NEW i \in Invitations, CreateInvitation(i) PROVE TablesInv'
  BY <1>2, CreateInvitationKeeps
<1>3. ASSUME NEW i \in Invitations, RevokeInvitation(i, invite[i].ver) PROVE TablesInv'
  <2>1. PICK v : v = invite[i].ver
    OBVIOUS
  <2>2. RevokeInvitation(i, v)
    BY <1>3, <2>1
  <2> QED
    BY <2>2, RevokeInvitationKeeps
<1>4. ASSUME NEW q \in Requests, NEW u \in Users, NEW i \in Invitations, CreateJoin(q, u, i)
      PROVE  TablesInv'
  BY <1>4, CreateJoinKeeps
<1>5. ASSUME NEW q \in Requests, ApproveJoin(q) PROVE TablesInv'
  <2>1. PICK u : u = join[q].user
    OBVIOUS
  <2>2. PICK i : i = join[q].inv
    OBVIOUS
  <2> QED
    BY <1>5, <2>1, <2>2, ApproveJoinKeeps
<1>6. ASSUME NEW q \in Requests, RejectJoin(q) PROVE TablesInv'
  BY <1>6, RejectJoinKeeps
<1>7. ASSUME NEW u \in Users, NEW x \in JoinRoles, NEW v, NEW av, ChangeJoinRole(u, x, v, av)
      PROVE  TablesInv'
  <2>1. PICK old : old = auth[u].role
    OBVIOUS
  <2> QED
    BY <1>7, <2>1, ChangeJoinRoleKeeps
<1>8. ASSUME NEW u \in Users, NEW st \in {"active", "suspended"}, NEW v, SetMembership(u, st, v)
      PROVE  TablesInv'
  <2>1. PICK old : old = member[u].st
    OBVIOUS
  <2> QED
    BY <1>8, <2>1, SetMembershipKeeps
<1>9. ASSUME NEW u \in Users, NEW x \in Roles, NEW v, ChangeWorkspaceRole(u, x, v)
      PROVE  TablesInv'
  <2>1. PICK old : old = auth[u].role
    OBVIOUS
  <2> QED
    BY <1>9, <2>1, ChangeWorkspaceRoleKeeps
<1>10. TablesInv'
  BY <1>2, <1>3, <1>4, <1>5, <1>6, <1>7, <1>8, <1>9 DEF Manage
<1> QED
  BY <1>1, <1>10, PageKept

\* Every step of the loop, and every fault of it, keeps the invariant.
LEMMA LoopKeeps ==
  ASSUME MemberInv, Deliver \/ LoopFails
  PROVE  TablesInv' /\ PageFits'
<1>1. UNCHANGED access
  BY DEF Deliver, LoopFails, ReadAdminPage, ReadOrgPage, AppendReceipt, Refuse, Ack,
     Restart, AppendFails, AckFails
<1>2. PageFits'
  BY ReadAdminPageKeeps, ReadOrgPageKeeps, AppendKeeps, PassKeeps, AckKeeps, RestartKeeps
     DEF Deliver, LoopFails
<1> QED
  BY <1>1, <1>2, TablesKept

\* The invariant is inductive.
LEMMA MemberStep == MemberInv /\ [MemberNext]_memberVars => MemberInv'
<1> SUFFICES ASSUME MemberInv, [MemberNext]_memberVars PROVE MemberInv'
  OBVIOUS
<1>1. CASE UNCHANGED memberVars
  <2>1. UNCHANGED access /\ UNCHANGED delivery
    BY <1>1 DEF memberVars
  <2>2. TablesInv' /\ PageFits'
    BY <2>1, TablesKept, PageKept
  <2> QED
    BY <2>2 DEF TablesInv, MemberInv
<1>2. CASE Manage
  BY <1>2, ManageKeeps DEF TablesInv, MemberInv
<1>3. CASE Deliver \/ LoopFails
  BY <1>3, LoopKeeps DEF TablesInv, MemberInv
<1> QED
  BY <1>1, <1>2, <1>3 DEF MemberNext

\* Access can be explained from the audit records, for every number of users,
\* invitations, requests and receipts: see AccessExplained.
THEOREM AccessExplainedCorrect == MemberSpec => []AccessExplained
<1>1. MemberInv => AccessExplained
  BY MemberTypes DEF MemberInv, PageFits, AccessExplained
<1> QED
  BY <1>1, MemberStart, MemberStep, PTL DEF MemberSpec
=============================================================================
