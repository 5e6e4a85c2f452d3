-------------------------- MODULE QuestionAnswering --------------------------
(* The requests that share one idempotency key of a notebook question: the
   authorization route and the ask route of runtime.py, the turn and its grounding
   disposition, egress authorization, the provider call and the stored run, while the
   administrators change the egress policies, the notebook's model settings change and
   the selected source comes and goes.

   The run id is derived from the key, and every lock and row of a question has it in
   its name: requests with different keys meet only in the policies and the source.
   A body differs from another in the model settings version it names, so a body is
   that version.  A policy version is an index of the scope's sequence of payloads. *)
EXTENDS Naturals, Sequences, FiniteSets

CONSTANTS
  Requests,    \* HTTP requests with this key
  Initial,     \* payloads of organization and workspace a behaviour may start with
  External,    \* settings versions that select a provider outside the server
  MaxModel,    \* bound: versions of the model settings
  MaxPolicy,   \* bound: versions of each scope's policy
  MaxChanges,  \* bound: changes of policies, settings and source
  NoRequest

Payloads == {"deny", "step_up", "approved"}

ASSUME QuestionAssumption ==
  /\ NoRequest \notin Requests
  /\ Initial \subseteq Payloads \X Payloads
  /\ MaxModel \in Nat \ {0} /\ MaxPolicy \in Nat \ {0} /\ MaxChanges \in Nat

VARIABLES
  req,      \* the requests: program counter and what they remember
  turn,     \* body of the admitted turn; 0 when there is none
  disp,     \* grounding disposition of the turn
  event,    \* latest event of the turn
  run,      \* run row
  grant,    \* step-up grant a request was answered with: the version pair it is bound to
  spent,    \* whose grant was consumed for this key
  calls,    \* provider calls (history)
  org, ws,  \* payloads of the organization's and the workspace's policy
  checked,  \* a workspace policy that allows external calls has passed its parent check
  pairs,    \* version pairs that were current together (history)
  model,    \* current version of the notebook's model settings
  source,   \* the selected source
  changes   \* changes so far (bound)

vars == <<req, turn, disp, event, run, grant, spent, calls, org, ws, checked, pairs, model,
          source, changes>>

policies == <<org, ws, checked, pairs>>
world == <<policies, model, source, changes>>
stored == <<turn, disp, event, run, grant, spent, calls>>

Bodies == 1..MaxModel
SourceStates == {"ready", "unready", "unbound", "deleted", "revoked"}
Pair == (0..MaxPolicy) \X (0..MaxPolicy)
None == <<0, 0>>

Control == {"idle", "admitted", "replay", "preflight", "grounded", "ungrounded", "prepared",
            "ask", "read_org", "read_ws", "decide", "owner", "calling", "generated",
            "invalid", "waiting", "failing", "done"}

TypeOK ==
  /\ req \in [Requests -> [st: Control, kind: {"authorize", "ask"}, body: 0..MaxModel,
                           phase: {"replay", "approve", "authorize"}, rd: Pair, ap: Pair,
                           gone: BOOLEAN, ev: {"none", "awaiting", "failed", "uncertain"},
                           out: {"none", "answer", "notice", "granted", "refused", "dead"}]]
  /\ turn \in 0..MaxModel
  /\ disp \in {"none", "prepared", "notice"}
  /\ event \in {"none", "notice", "awaiting", "failed", "uncertain"}
  /\ run \in [st: {"none", "accepted", "completed", "failed"}, body: 0..MaxModel, rd: Pair,
              owner: Requests \cup {NoRequest}]
  /\ grant \in [Requests -> [body: 0..MaxModel, rd: Pair]]
  /\ spent \in Requests \cup {NoRequest}
  /\ calls \subseteq [by: Requests, body: 0..MaxModel, rd: Pair]
  /\ org \in Seq(Payloads) /\ Len(org) \in 1..MaxPolicy
  /\ ws \in Seq(Payloads) /\ Len(ws) \in 1..MaxPolicy
  /\ checked \in BOOLEAN
  /\ pairs \subseteq Pair
  /\ model \in 1..MaxModel
  /\ source \in SourceStates
  /\ changes \in 0..MaxChanges

Init ==
  /\ req = [r \in Requests |-> [st |-> "idle", kind |-> "ask", body |-> 0, phase |-> "replay",
                                rd |-> None, ap |-> None, gone |-> FALSE, ev |-> "none",
                                out |-> "none"]]
  /\ turn = 0 /\ disp = "none" /\ event = "none"
  /\ run = [st |-> "none", body |-> 0, rd |-> None, owner |-> NoRequest]
  /\ grant = [r \in Requests |-> [body |-> 0, rd |-> None]]
  /\ spent = NoRequest /\ calls = {}
  /\ \E p \in Initial : org = <<p[1]>> /\ ws = <<p[2]>>
  /\ checked = FALSE /\ pairs = {<<1, 1>>}
  /\ model = 1 /\ source = "ready" /\ changes = 0

----------------------------------------------------------------------------
(* Control of a request. *)

Goto(r, st) == req' = [req EXCEPT ![r].st = st]

Read(r, phase) ==
  req' = [req EXCEPT ![r] = [@ EXCEPT !.st = "read_org", !.phase = phase, !.rd = None]]

Answer(r, out) == req' = [req EXCEPT ![r] = [@ EXCEPT !.st = "done", !.out = out]]

\* A refusal the route records as an event of the turn, in a transaction of its own.
\* Nobody waits for the thread of a request whose client has gone.
Fail(r, ev) ==
  req' = [req EXCEPT ![r] = IF @.gone THEN [@ EXCEPT !.st = "done", !.out = "refused"]
                                      ELSE [@ EXCEPT !.st = "failing", !.ev = ev]]

\* The strictest of the two payloads.
Effective(rd) ==
  CASE org[rd[1]] = "deny" \/ ws[rd[2]] = "deny" -> "deny"
    [] org[rd[1]] = "step_up" \/ ws[rd[2]] = "step_up" -> "step_up"
    [] OTHER -> "approved"

----------------------------------------------------------------------------
(* What the transactions ask of the selected source and of the settings. *)

Selected == source \in {"ready", "unready"}   \* bound, not being deleted, not revoked
Ready == source = "ready"                     \* and processed and indexed
Accessible == source # "revoked"
CitationsReadable == source # "deleted"
SettingsCurrent(r) == req[r].body = model

----------------------------------------------------------------------------
(* The common beginning of both routes. *)

\* An accepted run is bound to the notebook only when it ends, and admission refuses a
\* key whose run is not bound.  A refused admission leaves no event.
Admit(r, kind, body) ==
  /\ req[r].st = "idle"
  /\ IF turn \in {0, body} /\ (run.st # "none" => run.st \in {"completed", "failed"} /\ run.body = body)
       THEN /\ turn' = body
            /\ req' = [req EXCEPT ![r] = [@ EXCEPT !.st = "admitted", !.kind = kind, !.body = body]]
       ELSE /\ req' = [req EXCEPT ![r] = [@ EXCEPT !.st = "done", !.kind = kind, !.body = body,
                                                   !.out = "refused"]]
            /\ UNCHANGED turn
  /\ UNCHANGED <<disp, event, run, grant, spent, calls, world>>

\* The selected bindings are required first, then an earlier notice is repeated.
CheckNotice(r) ==
  /\ req[r].st = "admitted"
  /\ CASE ~Selected -> Fail(r, "failed")
       [] Selected /\ disp = "notice" -> Answer(r, "notice")
       [] OTHER -> Goto(r, IF req[r].kind = "ask" THEN "replay" ELSE "preflight")
  /\ UNCHANGED <<stored, world>>

\* The answer of a completed run is read only while its cited source is not deleted; one
\* that came from outside needs today's policy as well.
ReplayCompleted(r) ==
  /\ req[r].st = "replay" /\ run.st = "completed"
  /\ CASE run.body # req[r].body -> Fail(r, "failed")
       [] run.body = req[r].body /\ ~CitationsReadable -> Fail(r, "uncertain")
       [] OTHER -> IF run.body \in External THEN Read(r, "replay") ELSE Answer(r, "answer")
  /\ UNCHANGED <<stored, world>>

ReplayFailed(r) ==
  /\ req[r].st = "replay" /\ run.st = "failed"
  /\ Fail(r, "failed")
  /\ UNCHANGED <<stored, world>>

NoReplay(r) ==
  /\ req[r].st = "replay" /\ run.st \notin {"completed", "failed"}
  /\ Goto(r, "preflight")
  /\ UNCHANGED <<stored, world>>

Preflight(r) ==
  /\ req[r].st = "preflight"
  /\ Goto(r, IF Ready THEN "grounded" ELSE "ungrounded")
  /\ UNCHANGED <<stored, world>>

ClaimAny(r) ==
  /\ req[r].st \in {"grounded", "ungrounded"}
  /\ IF req[r].st = "grounded"
       THEN disp' = "prepared" /\ Goto(r, "prepared") /\ UNCHANGED event
       ELSE disp' = "notice" /\ event' = "notice" /\ Answer(r, "notice")
  /\ UNCHANGED <<turn, run, grant, spent, calls, world>>

\* claim_question_grounding under the run's lock: the first disposition stays.  A notice
\* that meets a prepared turn is refused inside the route's own handler, without an event.
Claim(r) ==
  /\ req[r].st \in {"grounded", "ungrounded"}
  /\ CASE disp = "notice" -> Answer(r, "notice") /\ UNCHANGED <<disp, event>>
       [] disp # "notice" /\ req[r].st = "grounded" ->
            disp' = "prepared" /\ Goto(r, "prepared") /\ UNCHANGED event
       [] disp = "none" /\ req[r].st = "ungrounded" /\ run.st = "none" ->
            disp' = "notice" /\ event' = "notice" /\ Answer(r, "notice")
       [] OTHER -> Answer(r, "refused") /\ UNCHANGED <<disp, event>>
  /\ UNCHANGED <<turn, run, grant, spent, calls, world>>

\* The named settings must be current and the source is searched again; a source lost
\* since the claim ends the request with a notice that meets the prepared turn.
Prepare(r) ==
  /\ req[r].st = "prepared"
  /\ CASE ~SettingsCurrent(r) -> Fail(r, "failed")
       [] SettingsCurrent(r) /\ ~Ready -> Answer(r, "refused")
       [] OTHER ->
            IF req[r].body \in External THEN Read(r, "approve")
            ELSE IF req[r].kind = "ask" THEN Goto(r, "ask") ELSE Fail(r, "failed")
  /\ UNCHANGED <<stored, world>>

----------------------------------------------------------------------------
(* get_effective: the organization's policy, then the workspace's. *)

ReadOrg(r) ==
  /\ req[r].st = "read_org"
  /\ req' = [req EXCEPT ![r] = [@ EXCEPT !.st = "read_ws", !.rd = <<Len(org), 0>>]]
  /\ UNCHANGED <<stored, world>>

ReadWs(r) ==
  /\ req[r].st = "read_ws"
  /\ req' = [req EXCEPT ![r] = [@ EXCEPT !.st = "decide", !.rd = <<req[r].rd[1], Len(ws)>>]]
  /\ UNCHANGED <<stored, world>>

DecideReplay(r) ==
  /\ req[r].st = "decide" /\ req[r].phase = "replay"
  /\ IF Effective(req[r].rd) = "deny" THEN Fail(r, "failed") ELSE Answer(r, "answer")
  /\ UNCHANGED <<stored, world>>

\* The authorization route answers a password with a grant for exactly these versions; it
\* refuses a role that may not approve, a wrong password, or waits for a missing one.
IssueGrant(r) ==
  /\ req[r].st = "decide" /\ req[r].phase = "approve" /\ req[r].kind = "authorize"
  /\ \/ /\ grant' = [grant EXCEPT ![r] = [body |-> req[r].body, rd |-> req[r].rd]]
        /\ Answer(r, "granted")
     \/ Fail(r, "failed") /\ UNCHANGED grant
     \/ Fail(r, "awaiting") /\ UNCHANGED grant
  /\ UNCHANGED <<turn, disp, event, run, spent, calls, world>>

\* The ask route consumes a grant of these versions.  A key consumes one grant; presenting
\* the same one again is answered, another one violates the consumption's key.
Approve(r) ==
  /\ req[r].st = "decide" /\ req[r].phase = "approve" /\ req[r].kind = "ask"
  /\ LET need == Effective(req[r].rd)
         mine == {g \in Requests : grant[g] = [body |-> req[r].body, rd |-> req[r].rd]}
         go == req' = [req EXCEPT ![r] = [@ EXCEPT !.st = "ask", !.ap = req[r].rd]]
     IN \/ need = "deny" /\ Fail(r, "failed") /\ UNCHANGED spent
        \/ need = "approved" /\ go /\ UNCHANGED spent
        \/ need = "step_up" /\ Fail(r, "awaiting") /\ UNCHANGED spent
        \/ /\ need = "step_up"
           /\ \E g \in mine : IF spent \in {NoRequest, g}
                                THEN spent' = g /\ go
                                ELSE Answer(r, "refused") /\ UNCHANGED spent
  /\ UNCHANGED <<turn, disp, event, run, grant, calls, world>>

\* ask(): the source is searched a third time before the policy is read again.
Ask(r) ==
  /\ req[r].st = "ask"
  /\ IF Ready THEN Read(r, "authorize") ELSE Answer(r, "refused")
  /\ UNCHANGED <<stored, world>>

\* Mutant: an approval is there, its versions are not compared.
ApprovalUnread(r) == req[r].ap # None
\* _approval_matches: an external call goes out only under the versions that were approved.
ApprovalMatches(r) ==
  req[r].body \in External => Effective(req[r].rd) # "deny" /\ req[r].rd = req[r].ap

\* canonical_json of the stored run equals the request's: body and policy fingerprint
SameRun(r) == run.body = req[r].body /\ run.rd = req[r].rd

\* The transaction of authorize() under the run's lock.  The first request in owns the
\* provider call; one with an equal run waits for it.
Authorize(r) ==
  /\ req[r].st = "decide" /\ req[r].phase = "authorize"
  /\ CASE ~(ApprovalMatches(r) /\ SettingsCurrent(r) /\ disp = "prepared") ->
            Fail(r, "failed") /\ UNCHANGED run
       [] OTHER ->
            CASE run.st = "none" ->
                   /\ run' = [st |-> "accepted", body |-> req[r].body, rd |-> req[r].rd, owner |-> r]
                   /\ Goto(r, "owner")
              [] run.st # "none" /\ SameRun(r) ->
                   Goto(r, "waiting") /\ UNCHANGED run
              [] OTHER -> Fail(r, "failed") /\ UNCHANGED run
  /\ UNCHANGED <<turn, disp, event, grant, spent, calls, world>>

----------------------------------------------------------------------------
(* The provider call and what becomes of the run. *)

CallProvider(r) ==
  /\ req[r].st = "owner"
  /\ IF ~Accessible
       THEN Fail(r, "failed") /\ UNCHANGED calls
       ELSE /\ calls' = calls \cup {[by |-> r, body |-> req[r].body, rd |-> req[r].rd]}
            /\ Goto(r, "calling")
  /\ UNCHANGED <<turn, disp, event, run, grant, spent, world>>

\* An answer, an answer that does not validate, or an error that leaves the run accepted.
ProviderAnswers(r) ==
  /\ req[r].st = "calling"
  /\ Goto(r, "generated") \/ Goto(r, "invalid") \/ Fail(r, "uncertain")
  /\ UNCHANGED <<stored, world>>

\* The binding row outlives an unbinding, and a deletion is not looked at here.
PersistCompleted(r) ==
  /\ req[r].st = "generated"
  /\ IF ~Accessible
       THEN Fail(r, "failed") /\ UNCHANGED run
       ELSE run.st = "accepted" /\ run' = [run EXCEPT !.st = "completed"] /\ Answer(r, "answer")
  /\ UNCHANGED <<turn, disp, event, grant, spent, calls, world>>

\* A failure is stored only while the source is still selectable.
PersistFailed(r) ==
  /\ req[r].st = "invalid"
  /\ IF ~Ready \/ run.st # "accepted"
       THEN Fail(r, "failed") /\ UNCHANGED run
       ELSE run' = [run EXCEPT !.st = "failed"] /\ Fail(r, "uncertain")
  /\ UNCHANGED <<turn, disp, event, grant, spent, calls, world>>

\* The database refuses either transaction.
PersistUnavailable(r) ==
  /\ req[r].st \in {"generated", "invalid"}
  /\ Fail(r, "uncertain")
  /\ UNCHANGED <<stored, world>>

WaitForever(r) ==
  /\ req[r].st = "waiting"
  /\ \/ run.st = "completed" /\ CitationsReadable /\ Answer(r, "answer")
     \/ run.st = "failed" /\ Fail(r, "failed")
  /\ UNCHANGED <<stored, world>>

\* _wait_for_provider_owner: the answer, the failure, or the deadline.
WaitOwner(r) ==
  /\ req[r].st = "waiting"
  /\ \/ run.st = "completed" /\ CitationsReadable /\ Answer(r, "answer")
     \/ Fail(r, "failed")
  /\ UNCHANGED <<stored, world>>

RecordEvent(r) ==
  /\ req[r].st = "failing"
  /\ event' = req[r].ev
  /\ Answer(r, "refused")
  /\ UNCHANGED <<turn, disp, run, grant, spent, calls, world>>

\* The client disconnects.  The route records the turn as uncertain; a thread that is
\* inside ask() cannot be cancelled and goes on.
Disconnect(r) ==
  /\ req[r].st \notin {"idle", "failing", "done"} /\ ~req[r].gone
  /\ event' = "uncertain"
  /\ req' = [req EXCEPT ![r] =
       IF @.st \in {"ask", "owner", "calling", "generated", "invalid", "waiting"} \/ @.phase = "authorize"
         THEN [@ EXCEPT !.gone = TRUE]
         ELSE [@ EXCEPT !.st = "done", !.out = "refused"]]
  /\ UNCHANGED <<turn, disp, run, grant, spent, calls, world>>

\* The API process dies with all its requests.
Crash ==
  /\ req' = [r \in Requests |-> IF req[r].st \in {"idle", "done"} THEN req[r]
                                ELSE [req[r] EXCEPT !.st = "done", !.out = "dead"]]
  /\ UNCHANGED <<stored, world>>

----------------------------------------------------------------------------
(* What changes around the requests. *)

Change == changes < MaxChanges /\ changes' = changes + 1

ActivateOrganization(p) ==
  /\ Change
  /\ Len(org) < MaxPolicy
  /\ org' = Append(org, p)
  /\ pairs' = pairs \cup {<<Len(org) + 1, Len(ws)>>}
  /\ UNCHANGED <<stored, req, ws, checked, model, source>>

\* The parent is checked in one transaction and the binding is replaced in another.
CheckParent ==
  /\ ~checked /\ org[Len(org)] # "deny"
  /\ checked' = TRUE
  /\ UNCHANGED <<stored, req, org, ws, pairs, model, source, changes>>

ActivateWorkspace(p) ==
  /\ Change
  /\ Len(ws) < MaxPolicy /\ (p # "deny" => checked)
  /\ ws' = Append(ws, p)
  /\ pairs' = pairs \cup {<<Len(org), Len(ws) + 1>>}
  /\ checked' = FALSE
  /\ UNCHANGED <<stored, req, org, model, source>>

ChangeModel ==
  /\ Change
  /\ model < MaxModel /\ model' = model + 1
  /\ UNCHANGED <<stored, req, policies, source>>

ChangeSource(s) ==
  /\ Change
  /\ source \in {"ready", "unready"} /\ s # source /\ source' = s
  /\ UNCHANGED <<stored, req, policies, model>>

----------------------------------------------------------------------------
\* What the running thread of a request does next.
Step(r) ==
  \/ CheckNotice(r) \/ ReplayCompleted(r) \/ ReplayFailed(r) \/ NoReplay(r)
  \/ Preflight(r) \/ Claim(r) \/ Prepare(r)
  \/ ReadOrg(r) \/ ReadWs(r) \/ DecideReplay(r) \/ IssueGrant(r) \/ Approve(r)
  \/ Ask(r) \/ Authorize(r) \/ CallProvider(r) \/ ProviderAnswers(r)
  \/ PersistCompleted(r) \/ PersistFailed(r) \/ PersistUnavailable(r)
  \/ WaitOwner(r) \/ RecordEvent(r)

Environment ==
  \/ Crash \/ CheckParent \/ ChangeModel
  \/ \E p \in Payloads : ActivateOrganization(p) \/ ActivateWorkspace(p)
  \/ \E s \in SourceStates : ChangeSource(s)

Next ==
  \/ \E r \in Requests :
       \/ \E kind \in {"authorize", "ask"}, body \in Bodies : Admit(r, kind, body)
       \/ Step(r) \/ Disconnect(r)
  \/ Environment

\* A thread runs on, and a call has a timeout.
Fairness == \A r \in Requests : WF_vars(Step(r))

Spec == Init /\ [][Next]_vars
FairSpec == Spec /\ Fairness

----------------------------------------------------------------------------
(* Properties. *)

\* However many requests carry the key, and whichever of them dies or is abandoned, the
\* provider is called at most once, by the request that owns the run.
OneCall == Cardinality(calls) <= 1 /\ \A c \in calls : c.by = run.owner /\ c.body = run.body

\* A question leaves the server only under a policy of both scopes that allows it and,
\* where one of them asks for it, with a password given for exactly these versions.
ApprovedCall ==
  \A c \in calls : c.body \in External =>
    /\ Effective(c.rd) # "deny"
    /\ Effective(c.rd) = "step_up" => spent # NoRequest /\ grant[spent] = [body |-> c.body, rd |-> c.rd]

\* The two policies are read one after the other, twice; the pair a call went out under
\* was nevertheless in force at one moment.
PolicySnapshot == \A c \in calls : c.body \in External => c.rd \in pairs

\* A turn that was answered with a notice never gets a run, and no run starts before its
\* turn is prepared, however the two claims are ordered.
NoticeOrRun == (disp = "notice" => run.st = "none") /\ (run.st # "none" => disp = "prepared")

\* A request answered with the answer asked what the completed run answered.
AnswerOfRun ==
  \A r \in Requests : req[r].out = "answer" =>
    run.st = "completed" /\ run.body = req[r].body /\ turn = run.body

\* A run whose owner has ended or died without an outcome stays accepted for ever, and an
\* outcome never changes: no waiter and no retry writes it.
OwnerSettles ==
  [][run.st # "none" /\ (run.st # "accepted" \/ req[run.owner].st = "done") => run' = run]_vars

\* A request ends, also one that waits for an owner that never answers.
RequestsEnd == \A r \in Requests : req[r].st # "idle" ~> req[r].st = "done"

\* The provider is called at most once, for what was approved, under the policy that
\* was shown.
CallsApproved == OneCall /\ ApprovedCall /\ PolicySnapshot

\* The records of a turn agree: a notice or a run, and an answer only of a run.
AnswersAgree == TypeOK /\ NoticeOrRun /\ AnswerOfRun

\* Only the owner of a call settles it, and every request comes to an end.
OwnersDecide == OwnerSettles /\ RequestsEnd
=============================================================================
