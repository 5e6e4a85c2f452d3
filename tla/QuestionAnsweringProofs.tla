----------------------- MODULE QuestionAnsweringProofs -----------------------
(* Proofs about QuestionAnswering: at most one provider call for a key, sent under a
   pair of policy versions that was in force at one moment and was approved; a notice or
   a run, never both; and only the owner of a run settles it.

   The inductive invariant says for each request what its thread knows at each point:
   what it read of the policies is in the past, and an approval whose organization
   version is still the current one names a pair that was current as a whole. *)
EXTENDS QuestionAnswering, FiniteSetTheorems, TLAPS

ReqType == [st: Control, kind: {"authorize", "ask"}, body: 0..MaxModel,
            phase: {"replay", "approve", "authorize"}, rd: Pair, ap: Pair,
            gone: BOOLEAN, ev: {"none", "awaiting", "failed", "uncertain"},
            out: {"none", "answer", "notice", "granted", "refused", "dead"}]

Owning == {"owner", "calling", "generated", "invalid"}
Reading == {"read_org", "read_ws", "decide"}

\* Versions that exist.
Known(rd) == rd[1] \in 1..Len(org) /\ rd[2] \in 1..Len(ws)

\* Where these versions ask for a step-up, the grant for them has been consumed.
Granted(body, rd) ==
  Effective(rd) = "step_up" => spent \in Requests /\ grant[spent] = [body |-> body, rd |-> rd]

\* What the thread of a request knows.
ReqOK(x) ==
  /\ x.st \notin {"idle", "done"} => x.body = turn /\ turn # 0
  /\ x.st = "idle" => x.ap = None
  /\ x.out = "answer" => x.st = "done" /\ run.st = "completed" /\ run.body = x.body
  /\ x.ap # None => Known(x.ap) /\ Granted(x.body, x.ap)
  /\ x.ap[1] = Len(org) => x.ap \in pairs
  /\ x.st \in {"read_ws", "decide"} =>
       /\ x.rd[1] \in 1..Len(org)
       /\ x.phase = "authorize" /\ x.rd[1] = x.ap[1] => x.ap \in pairs
  /\ x.st = "decide" => Known(x.rd) /\ (x.rd[1] = Len(org) => x.rd \in pairs)
  /\ x.st \in Reading /\ x.phase = "replay" => run.st = "completed" /\ run.body = x.body
  /\ x.st = "waiting" => run.st # "none" /\ run.body = x.body

\* What is whose: the run of the request that owns it, the grant of one that ended.
Owns(r, x) ==
  /\ x.st \in Owning => run = [st |-> "accepted", body |-> x.body, rd |-> x.rd, owner |-> r]
  /\ grant[r].body # 0 => x.st = "done"

RunOK ==
  /\ run.st = "none" => calls = {}
  /\ run.st # "none" =>
       /\ run.body = turn /\ turn # 0 /\ disp = "prepared"
       /\ calls \subseteq {[by |-> run.owner, body |-> run.body, rd |-> run.rd]}
       /\ run.body \in External =>
            run.rd \in pairs /\ Effective(run.rd) # "deny" /\ Granted(run.body, run.rd)

PolicyOK == <<Len(org), Len(ws)>> \in pairs /\ pairs \subseteq (1..Len(org)) \X (1..Len(ws))

SpentOK == spent # NoRequest => grant[spent].body # 0

QuestionInv ==
  /\ TypeOK /\ PolicyOK /\ SpentOK /\ RunOK
  /\ \A r \in Requests : ReqOK(req[r]) /\ Owns(r, req[r])

----------------------------------------------------------------------------
(* How one request moves. *)

\* A move of r touches no other request and none of the fields that never change after
\* admission or approval.
Moves(r) ==
  /\ req' \in [Requests -> ReqType]
  /\ \A s \in Requests \ {r} : req'[s] = req[s]
  /\ req'[r].body = req[r].body /\ req'[r].ap = req[r].ap

\* Request r becomes the record y.
LEMMA Becomes ==
  ASSUME TypeOK, NEW r \in Requests, NEW y \in ReqType, req' = [req EXCEPT ![r] = y],
         y.body = req[r].body, y.ap = req[r].ap
  PROVE  Moves(r) /\ req'[r] = y
<1>1. req \in [Requests -> ReqType]
  BY DEF TypeOK, ReqType
<1> QED
  BY <1>1 DEF Moves

LEMMA GotoMoves ==
  ASSUME TypeOK, NEW r \in Requests, NEW st \in Control, Goto(r, st)
  PROVE  /\ Moves(r) /\ req'[r].st = st
         /\ req'[r].phase = req[r].phase /\ req'[r].rd = req[r].rd /\ req'[r].out = req[r].out
<1> DEFINE y == [req[r] EXCEPT !.st = st]
<1>0. req[r] \in ReqType /\ req \in [Requests -> ReqType]
  BY DEF TypeOK, ReqType
<1>1. /\ y \in ReqType /\ y.st = st /\ y.body = req[r].body /\ y.ap = req[r].ap
      /\ y.phase = req[r].phase /\ y.rd = req[r].rd /\ y.out = req[r].out
  BY <1>0 DEF ReqType
<1>2. req' = [req EXCEPT ![r] = y]
  BY <1>0 DEF Goto
<1> HIDE DEF y
<1> QED
  BY <1>1, <1>2, Becomes

LEMMA ReadMoves ==
  ASSUME TypeOK, NEW r \in Requests, NEW phase \in {"replay", "approve", "authorize"},
         Read(r, phase)
  PROVE  /\ Moves(r) /\ req'[r].st = "read_org"
         /\ req'[r].phase = phase /\ req'[r].out = req[r].out
<1> DEFINE y == [req[r] EXCEPT !.st = "read_org", !.phase = phase, !.rd = None]
<1>a. None \in Pair
  BY QuestionAssumption DEF None, Pair
<1>0. req[r] \in ReqType /\ req \in [Requests -> ReqType] /\ None \in Pair
  BY <1>a DEF TypeOK, ReqType
<1>1. /\ y \in ReqType /\ y.st = "read_org" /\ y.body = req[r].body /\ y.ap = req[r].ap
      /\ y.phase = phase /\ y.out = req[r].out
  BY <1>0 DEF ReqType, Control
<1>2. req' = [req EXCEPT ![r] = y]
  BY <1>0 DEF Read
<1> HIDE DEF y
<1> QED
  BY <1>1, <1>2, Becomes

LEMMA AnswerMoves ==
  ASSUME TypeOK, NEW r \in Requests,
         NEW out \in {"none", "answer", "notice", "granted", "refused", "dead"}, Answer(r, out)
  PROVE  Moves(r) /\ req'[r].st = "done" /\ req'[r].out = out
<1> DEFINE y == [req[r] EXCEPT !.st = "done", !.out = out]
<1>0. req[r] \in ReqType /\ req \in [Requests -> ReqType]
  BY DEF TypeOK, ReqType
<1>1. /\ y \in ReqType /\ y.st = "done" /\ y.body = req[r].body /\ y.ap = req[r].ap /\ y.out = out
  BY <1>0, ZenonT(60) DEF ReqType, Control
<1>2. req' = [req EXCEPT ![r] = y]
  BY <1>0 DEF Answer
<1> HIDE DEF y
<1> QED
  BY <1>1, <1>2, Becomes

LEMMA FailMoves ==
  ASSUME TypeOK, NEW r \in Requests, NEW ev \in {"none", "awaiting", "failed", "uncertain"},
         Fail(r, ev)
  PROVE  /\ Moves(r)
         /\ \/ req'[r].st = "done" /\ req'[r].out = "refused"
            \/ req'[r].st = "failing" /\ req'[r].out = req[r].out
<1>0. req[r] \in ReqType /\ req \in [Requests -> ReqType]
  BY DEF TypeOK, ReqType
<1>1. CASE req[r].gone
  <2> DEFINE y == [req[r] EXCEPT !.st = "done", !.out = "refused"]
  <2>1. y \in ReqType /\ y.st = "done" /\ y.body = req[r].body /\ y.ap = req[r].ap /\ y.out = "refused"
    BY <1>0, ZenonT(60) DEF ReqType, Control
  <2>2. req' = [req EXCEPT ![r] = y]
    BY <1>0, <1>1 DEF Fail
  <2> HIDE DEF y
  <2> QED
    BY <2>1, <2>2, Becomes
<1>2. CASE ~req[r].gone
  <2> DEFINE y == [req[r] EXCEPT !.st = "failing", !.ev = ev]
  <2>1. y \in ReqType /\ y.st = "failing" /\ y.body = req[r].body /\ y.ap = req[r].ap /\ y.out = req[r].out
    BY <1>0 DEF ReqType, Control
  <2>2. req' = [req EXCEPT ![r] = y]
    BY <1>0, <1>2 DEF Fail
  <2> HIDE DEF y
  <2> QED
    BY <2>1, <2>2, Becomes
<1> QED
  BY <1>1, <1>2

\* Steps that change a request and nothing else.
LEMMA Local ==
  ASSUME QuestionInv, NEW r \in Requests, UNCHANGED <<stored, world>>, Moves(r),
         ReqOK(req[r])', Owns(r, req[r])'
  PROVE  QuestionInv'
<1> USE DEF QuestionInv
<1>1. TypeOK' /\ PolicyOK' /\ SpentOK' /\ RunOK'
  BY SMTT(30) DEF TypeOK, PolicyOK, SpentOK, RunOK, Granted, Effective, Moves, ReqType, stored, world, policies
<1>2. ASSUME NEW s \in Requests, s # r PROVE (ReqOK(req[s]) /\ Owns(s, req[s]))'
  <2>1. req'[s] = req[s]
    BY <1>2 DEF Moves
  <2> QED
    BY <2>1 DEF ReqOK, Owns, Known, Granted, Effective, stored, world, policies
<1> QED
  BY <1>1, <1>2

\* A request that ends or is refused: it keeps its approval and claims nothing.
LEMMA Rests ==
  ASSUME QuestionInv, NEW r \in Requests, Moves(r), req[r].st # "idle", req[r].st # "done",
         UNCHANGED <<turn, run, grant, spent, org, ws, pairs>>,
         \/ req'[r].st = "done" /\ req'[r].out # "answer"
         \/ req'[r].st = "failing" /\ req'[r].out = req[r].out
  PROVE  ReqOK(req[r])' /\ Owns(r, req[r])'
<1>1. ReqOK(req[r]) /\ Owns(r, req[r])
  BY DEF QuestionInv
<1> QED
  BY <1>1 DEF ReqOK, Owns, Known, Granted, Effective, Moves, Owning, Reading

\* A request on its way that reads no policy, owns no run and waits for nobody.
Free == Control \ ({"idle", "done", "waiting"} \cup Owning \cup Reading)

LEMMA Walks ==
  ASSUME QuestionInv, NEW r \in Requests, Moves(r), req[r].st # "idle", req[r].st # "done",
         UNCHANGED <<turn, run, grant, spent, org, ws, pairs>>,
         req'[r].st \in Free, req'[r].out = req[r].out
  PROVE  ReqOK(req[r])' /\ Owns(r, req[r])'
<1>1. ReqOK(req[r]) /\ Owns(r, req[r])
  BY DEF QuestionInv
<1> QED
  BY <1>1 DEF ReqOK, Owns, Known, Granted, Effective, Moves, Owning, Reading, Free

\* The two ways a request that only looked may go on, or fail.
LEMMA LocalFail ==
  ASSUME QuestionInv, NEW r \in Requests, UNCHANGED <<stored, world>>,
         req[r].st # "idle", req[r].st # "done",
         NEW ev \in {"none", "awaiting", "failed", "uncertain"}, Fail(r, ev)
  PROVE  QuestionInv'
BY FailMoves, Rests, Local DEF QuestionInv, stored, world, policies

LEMMA LocalAnswer ==
  ASSUME QuestionInv, NEW r \in Requests, UNCHANGED <<stored, world>>,
         req[r].st # "idle", req[r].st # "done",
         NEW out \in {"notice", "granted", "refused", "dead"}, Answer(r, out)
  PROVE  QuestionInv'
BY AnswerMoves, Rests, Local DEF QuestionInv, stored, world, policies

LEMMA LocalGoto ==
  ASSUME QuestionInv, NEW r \in Requests, UNCHANGED <<stored, world>>,
         req[r].st # "idle", req[r].st # "done", NEW st \in Free, Goto(r, st)
  PROVE  QuestionInv'
<1>1. st \in Control
  BY DEF Free
<1> QED
  BY <1>1, GotoMoves, Walks, Local DEF QuestionInv, stored, world, policies

\* A request whose key has a completed run of its body is answered with it.
LEMMA LocalResult ==
  ASSUME QuestionInv, NEW r \in Requests, UNCHANGED <<stored, world>>,
         req[r].st # "idle", req[r].st # "done", Answer(r, "answer"),
         run.st = "completed", run.body = req[r].body
  PROVE  QuestionInv'
<1>0. ReqOK(req[r]) /\ Owns(r, req[r]) /\ TypeOK
  BY DEF QuestionInv
<1>1. Moves(r) /\ req'[r].st = "done" /\ req'[r].out = "answer"
  BY <1>0, AnswerMoves
<1>2. ReqOK(req[r])' /\ Owns(r, req[r])'
  BY <1>0, <1>1 DEF ReqOK, Owns, Known, Granted, Effective, Moves, Owning, Reading, stored, world, policies
<1> QED
  BY <1>1, <1>2, Local

LEMMA LocalRead ==
  ASSUME QuestionInv, NEW r \in Requests, UNCHANGED <<stored, world>>,
         req[r].st # "idle", req[r].st # "done",
         NEW phase \in {"replay", "approve", "authorize"}, Read(r, phase),
         phase = "replay" => run.st = "completed" /\ run.body = req[r].body
  PROVE  QuestionInv'
<1>0. ReqOK(req[r]) /\ Owns(r, req[r]) /\ TypeOK
  BY DEF QuestionInv
<1>1. Moves(r) /\ req'[r].st = "read_org" /\ req'[r].phase = phase /\ req'[r].out = req[r].out
  BY <1>0, ReadMoves
<1>2. ReqOK(req[r])' /\ Owns(r, req[r])'
  BY <1>0, <1>1 DEF ReqOK, Owns, Known, Granted, Effective, Moves, Owning, Reading, stored, world, policies
<1> QED
  BY <1>1, <1>2, Local

----------------------------------------------------------------------------
(* The steps of a request. *)

\* The steps that only look: at the notice, a finished run, the source, the settings.
LEMMA LookInv ==
  ASSUME QuestionInv, NEW r \in Requests,
         \/ CheckNotice(r) \/ ReplayCompleted(r) \/ ReplayFailed(r) \/ NoReplay(r)
         \/ Preflight(r) \/ Prepare(r) \/ Ask(r) \/ PersistUnavailable(r)
  PROVE  QuestionInv'
<1>1. CASE CheckNotice(r)
  <2>1. {"replay", "preflight"} \subseteq Free
    BY DEF Free, Control, Owning, Reading
  <2> QED
    BY <1>1, <2>1, LocalFail, LocalAnswer, LocalGoto DEF CheckNotice
<1>2. CASE ReplayCompleted(r)
  BY <1>2, LocalFail, LocalResult, LocalRead DEF ReplayCompleted
<1>3. CASE ReplayFailed(r) \/ PersistUnavailable(r)
  BY <1>3, LocalFail DEF ReplayFailed, PersistUnavailable
<1>4. CASE NoReplay(r) \/ Preflight(r)
  <2>1. {"preflight", "grounded", "ungrounded"} \subseteq Free
    BY DEF Free, Control, Owning, Reading
  <2> QED
    BY <1>4, <2>1, LocalGoto DEF NoReplay, Preflight
<1>5. CASE Prepare(r)
  <2>1. "ask" \in Free
    BY DEF Free, Control, Owning, Reading
  <2> QED
    BY <1>5, <2>1, LocalFail, LocalAnswer, LocalRead, LocalGoto DEF Prepare
<1>6. CASE Ask(r)
  BY <1>6, LocalAnswer, LocalRead DEF Ask
<1> QED
  BY <1>1, <1>2, <1>3, <1>4, <1>5, <1>6

\* Waiting for the owner and replaying a completed run under today's policy.
LEMMA WaitInv ==
  ASSUME QuestionInv, NEW r \in Requests, DecideReplay(r) \/ WaitOwner(r)
  PROVE  QuestionInv'
<1>1. ReqOK(req[r])
  BY DEF QuestionInv
<1>2. CASE DecideReplay(r)
  <2>1. run.st = "completed" /\ run.body = req[r].body
    BY <1>1, <1>2 DEF DecideReplay, ReqOK, Reading
  <2> QED
    BY <1>2, <2>1, LocalFail, LocalResult DEF DecideReplay
<1>3. CASE WaitOwner(r)
  <2>1. run.body = req[r].body
    BY <1>1, <1>3 DEF WaitOwner, ReqOK
  <2> QED
    BY <1>3, <2>1, LocalFail, LocalResult DEF WaitOwner
<1> QED
  BY <1>2, <1>3

\* A policy version is read: the organization's, then the workspace's.
LEMMA ReadInv ==
  ASSUME QuestionInv, NEW r \in Requests, ReadOrg(r) \/ ReadWs(r)
  PROVE  QuestionInv'
<1>0. /\ ReqOK(req[r]) /\ Owns(r, req[r]) /\ TypeOK /\ PolicyOK
      /\ req[r] \in ReqType /\ req \in [Requests -> ReqType]
  BY DEF QuestionInv, TypeOK, ReqType
<1>1. Len(org) \in 1..MaxPolicy /\ Len(ws) \in 1..MaxPolicy
  BY <1>0 DEF TypeOK
<1>2. CASE ReadOrg(r)
  <2> DEFINE rd == <<Len(org), 0>>
             y == [req[r] EXCEPT !.st = "read_ws", !.rd = rd]
  <2>1. rd \in Pair /\ rd[1] = Len(org)
    BY <1>1, QuestionAssumption DEF Pair
  <2>2. req' = [req EXCEPT ![r] = y] /\ req[r].st = "read_org" /\ UNCHANGED <<stored, world>>
    BY <1>0, <1>2 DEF ReadOrg
  <2> HIDE DEF rd
  <2>3. /\ y \in ReqType /\ y.body = req[r].body /\ y.ap = req[r].ap
        /\ y.st = "read_ws" /\ y.rd = rd /\ y.out = req[r].out /\ y.phase = req[r].phase
    BY <1>0, <2>1 DEF ReqType, Control
  <2> HIDE DEF y
  <2>4. Moves(r) /\ req'[r] = y
    BY <1>0, <2>2, <2>3, Becomes
  <2>5. ReqOK(req[r])' /\ Owns(r, req[r])'
    BY <1>0, <1>1, <2>1, <2>2, <2>3, <2>4
       DEF ReqOK, Owns, Known, Granted, Effective, Owning, Reading, stored, world, policies
  <2> QED
    BY <2>2, <2>4, <2>5, Local
<1>3. CASE ReadWs(r)
  <2> DEFINE rd == <<req[r].rd[1], Len(ws)>>
             y == [req[r] EXCEPT !.st = "decide", !.rd = rd]
  <2>0. req[r].rd \in Pair
    BY <1>0 DEF ReqType
  <2>1. rd \in Pair /\ rd[1] = req[r].rd[1] /\ rd[2] = Len(ws) /\ (rd[1] = Len(org) => rd \in pairs)
    BY <1>0, <1>1, <2>0, QuestionAssumption DEF Pair, PolicyOK
  <2>2. req' = [req EXCEPT ![r] = y] /\ req[r].st = "read_ws" /\ UNCHANGED <<stored, world>>
    BY <1>0, <1>3 DEF ReadWs
  <2> HIDE DEF rd
  <2>3. /\ y \in ReqType /\ y.body = req[r].body /\ y.ap = req[r].ap
        /\ y.st = "decide" /\ y.rd = rd /\ y.out = req[r].out /\ y.phase = req[r].phase
    BY <1>0, <2>1 DEF ReqType, Control
  <2> HIDE DEF y
  <2>4. Moves(r) /\ req'[r] = y
    BY <1>0, <2>2, <2>3, Becomes
  <2>5. ReqOK(req[r])' /\ Owns(r, req[r])'
    BY <1>0, <1>1, <2>1, <2>2, <2>3, <2>4
       DEF ReqOK, Owns, Known, Granted, Effective, Owning, Reading, stored, world, policies
  <2> QED
    BY <2>2, <2>4, <2>5, Local
<1> QED
  BY <1>2, <1>3

\* Steps that leave alone what the other requests rely on.
LEMMA OthersKeep ==
  ASSUME QuestionInv, NEW r \in Requests, Moves(r),
         UNCHANGED <<turn, run, grant, spent, org, ws, pairs>>
  PROVE  \A s \in Requests \ {r} : (ReqOK(req[s]) /\ Owns(s, req[s]))'
<1> SUFFICES ASSUME NEW s \in Requests, s # r PROVE (ReqOK(req[s]) /\ Owns(s, req[s]))'
  OBVIOUS
<1>1. req'[s] = req[s]
  BY DEF Moves
<1> QED
  BY <1>1 DEF QuestionInv, ReqOK, Owns, Known, Granted, Effective

\* The disposition of a turn is claimed under the run's lock.
LEMMA ClaimInv ==
  ASSUME QuestionInv, NEW r \in Requests, Claim(r)
  PROVE  QuestionInv'
<1>0. UNCHANGED <<turn, run, grant, spent, calls, world>> /\ req[r].st \in {"grounded", "ungrounded"}
  BY DEF Claim
<1>1. \/ Answer(r, "notice") \/ Answer(r, "refused")
      \/ Goto(r, "prepared")
  BY DEF Claim
<1>2. "prepared" \in Free /\ "prepared" \in Control
  BY DEF Free, Control, Owning, Reading
<1>3. Moves(r) /\ ReqOK(req[r])' /\ Owns(r, req[r])'
  BY <1>0, <1>1, <1>2, AnswerMoves, GotoMoves, Rests, Walks DEF QuestionInv, world, policies
<1>4. disp' \in {"none", "prepared", "notice"} /\ event' \in {"none", "notice", "awaiting", "failed", "uncertain"}
  BY DEF Claim, QuestionInv, TypeOK
<1>5. disp' = disp \/ disp' = "prepared" \/ run.st = "none"
  BY DEF Claim
<1>6. TypeOK'
  BY <1>0, <1>3, <1>4 DEF QuestionInv, TypeOK, Moves, ReqType, world, policies
<1>7. PolicyOK' /\ SpentOK' /\ RunOK'
  BY <1>0, <1>5 DEF QuestionInv, PolicyOK, SpentOK, RunOK, Granted, Effective, world, policies
<1>8. \A s \in Requests \ {r} : (ReqOK(req[s]) /\ Owns(s, req[s]))'
  BY <1>0, <1>3, OthersKeep DEF world, policies
<1> QED
  BY <1>3, <1>6, <1>7, <1>8 DEF QuestionInv

\* The provider answers, or the call fails; the run stays accepted.
LEMMA ProviderInv ==
  ASSUME QuestionInv, NEW r \in Requests, ProviderAnswers(r)
  PROVE  QuestionInv'
<1>0. UNCHANGED <<stored, world>> /\ req[r].st = "calling"
  BY DEF ProviderAnswers
<1>1. CASE Fail(r, "uncertain")
  BY <1>0, <1>1, LocalFail
<1>2. ASSUME NEW st \in {"generated", "invalid"}, Goto(r, st) PROVE QuestionInv'
  <2>1. st \in Control /\ ReqOK(req[r]) /\ Owns(r, req[r])
    BY <1>2 DEF Control, QuestionInv
  <2>2. /\ Moves(r) /\ req'[r].st = st
        /\ req'[r].phase = req[r].phase /\ req'[r].rd = req[r].rd /\ req'[r].out = req[r].out
    BY <1>2, <2>1, GotoMoves DEF QuestionInv
  <2>3. ReqOK(req[r])' /\ Owns(r, req[r])'
    BY <1>0, <2>1, <2>2 DEF ReqOK, Owns, Known, Granted, Effective, Moves, Owning, Reading, stored, world, policies
  <2> QED
    BY <1>0, <2>2, <2>3, Local
<1> QED
  BY <1>1, <1>2 DEF ProviderAnswers

\* The owner calls the provider, once: no call was recorded under another owner.
LEMMA CallInv ==
  ASSUME QuestionInv, NEW r \in Requests, CallProvider(r)
  PROVE  QuestionInv'
<1>0. /\ ReqOK(req[r]) /\ Owns(r, req[r]) /\ TypeOK /\ RunOK
      /\ req[r] \in ReqType /\ req[r].st = "owner"
      /\ UNCHANGED <<turn, disp, event, run, grant, spent, world>>
  BY DEF QuestionInv, TypeOK, ReqType, CallProvider
<1>1. CASE ~Accessible
  BY <1>0, <1>1, LocalFail DEF CallProvider, stored
<1>2. CASE Accessible
  <2> DEFINE c == [by |-> r, body |-> req[r].body, rd |-> req[r].rd]
  <2>1. calls' = calls \cup {c} /\ Goto(r, "calling")
    BY <1>2 DEF CallProvider
  <2>2. run = [st |-> "accepted", body |-> req[r].body, rd |-> req[r].rd, owner |-> r]
    BY <1>0 DEF Owns, Owning
  <2>3. c = [by |-> run.owner, body |-> run.body, rd |-> run.rd] /\ run.st = "accepted"
    BY <2>2
  <2>4. c \in [by: Requests, body: 0..MaxModel, rd: Pair]
    BY <1>0 DEF ReqType
  <2>5. "calling" \in Control
    BY DEF Control
  <2>6. /\ Moves(r) /\ req'[r].st = "calling"
        /\ req'[r].phase = req[r].phase /\ req'[r].rd = req[r].rd /\ req'[r].out = req[r].out
    BY <1>0, <2>1, <2>5, GotoMoves
  <2> HIDE DEF c
  <2>7. TypeOK'
    BY <1>0, <2>1, <2>4, <2>6, SMTT(30) DEF TypeOK, Moves, ReqType, world, policies
  <2>8. PolicyOK' /\ SpentOK'
    BY <1>0 DEF QuestionInv, PolicyOK, SpentOK, world, policies
  <2>9. RunOK'
    BY <1>0, <2>1, <2>3 DEF RunOK, Granted, Effective, world, policies
  <2>10. ReqOK(req[r])' /\ Owns(r, req[r])'
    BY <1>0, <2>6 DEF ReqOK, Owns, Known, Granted, Effective, Moves, Owning, Reading, world, policies
  <2>11. \A s \in Requests \ {r} : (ReqOK(req[s]) /\ Owns(s, req[s]))'
    BY <1>0, <2>6, OthersKeep DEF world, policies
  <2> QED
    BY <2>7, <2>8, <2>9, <2>10, <2>11 DEF QuestionInv
<1> QED
  BY <1>1, <1>2

\* The outcome of a call is stored by the owner of the run.
LEMMA PersistInv ==
  ASSUME QuestionInv, NEW r \in Requests, PersistCompleted(r) \/ PersistFailed(r)
  PROVE  QuestionInv'
<1>0. /\ ReqOK(req[r]) /\ Owns(r, req[r]) /\ TypeOK /\ RunOK
      /\ req[r].st \in {"generated", "invalid"}
      /\ UNCHANGED <<turn, disp, event, grant, spent, calls, world>>
  BY DEF QuestionInv, PersistCompleted, PersistFailed
<1>1. CASE UNCHANGED run /\ Fail(r, "failed")
  BY <1>0, <1>1, LocalFail DEF stored
<1>2. ASSUME NEW st \in {"completed", "failed"}, run' = [run EXCEPT !.st = st],
             IF st = "completed" THEN Answer(r, "answer") ELSE Fail(r, "uncertain")
      PROVE  QuestionInv'
  <2>1. run = [st |-> "accepted", body |-> req[r].body, rd |-> req[r].rd, owner |-> r]
    BY <1>0 DEF Owns, Owning
  <2>2. run' = [st |-> st, body |-> req[r].body, rd |-> req[r].rd, owner |-> r]
    BY <1>2, <2>1
  <2>3. /\ run.st = "accepted" /\ run.owner = r /\ run.body = req[r].body
        /\ run'.st = st /\ run'.body = run.body /\ run'.rd = run.rd /\ run'.owner = r
    BY <2>1, <2>2
  <2>4. /\ Moves(r)
        /\ \/ st = "completed" /\ req'[r].st = "done" /\ req'[r].out = "answer"
           \/ req'[r].st = "done" /\ req'[r].out = "refused"
           \/ req'[r].st = "failing" /\ req'[r].out = req[r].out
    BY <1>0, <1>2, AnswerMoves, FailMoves
  <2>5. run' \in [st: {"none", "accepted", "completed", "failed"}, body: 0..MaxModel, rd: Pair,
                  owner: Requests \cup {NoRequest}]
    BY <1>0, <1>2 DEF TypeOK
  <2>6. TypeOK'
    BY <1>0, <2>4, <2>5 DEF TypeOK, Moves, ReqType, world, policies
  <2>7. PolicyOK' /\ SpentOK'
    BY <1>0 DEF QuestionInv, PolicyOK, SpentOK, world, policies
  <2>8. RunOK'
    BY <1>0, <1>2, <2>3 DEF RunOK, Granted, Effective, world, policies
  <2>9. ReqOK(req[r])' /\ Owns(r, req[r])'
    BY <1>0, <2>3, <2>4 DEF ReqOK, Owns, Known, Granted, Effective, Moves, Owning, Reading, world, policies
  <2>10. ASSUME NEW s \in Requests \ {r} PROVE (ReqOK(req[s]) /\ Owns(s, req[s]))'
    <3>1. req'[s] = req[s] /\ ReqOK(req[s]) /\ Owns(s, req[s]) /\ s # r
      BY <2>4 DEF Moves, QuestionInv
    <3>2. req[s].st \notin Owning
      BY <2>3, <3>1 DEF Owns
    <3>3. ReqOK(req[s])'
      BY <1>0, <1>2, <2>3, <3>1 DEF ReqOK, Known, Granted, Effective, world, policies
    <3>4. Owns(s, req[s])'
      BY <1>0, <3>1, <3>2 DEF Owns
    <3> QED
      BY <3>3, <3>4
  <2> QED
    BY <2>6, <2>7, <2>8, <2>9, <2>10 DEF QuestionInv
<1>3. CASE PersistCompleted(r)
  <2>1. \/ UNCHANGED run /\ Fail(r, "failed")
        \/ run' = [run EXCEPT !.st = "completed"] /\ Answer(r, "answer")
    BY <1>3 DEF PersistCompleted
  <2> QED
    BY <1>1, <1>2, <2>1
<1>4. CASE PersistFailed(r)
  <2>1. \/ UNCHANGED run /\ Fail(r, "failed")
        \/ run' = [run EXCEPT !.st = "failed"] /\ Fail(r, "uncertain")
    BY <1>4 DEF PersistFailed
  <2> QED
    BY <1>1, <1>2, <2>1
<1> QED
  BY <1>3, <1>4

\* Only the latest event of the turn changes.
LEMMA EventInv ==
  ASSUME QuestionInv, NEW r \in Requests, Moves(r), ReqOK(req[r])', Owns(r, req[r])',
         UNCHANGED <<turn, disp, run, grant, spent, calls, world>>,
         event' \in {"none", "notice", "awaiting", "failed", "uncertain"}
  PROVE  QuestionInv'
<1>1. TypeOK'
  BY DEF QuestionInv, TypeOK, Moves, ReqType, world, policies
<1>2. PolicyOK' /\ SpentOK' /\ RunOK'
  BY DEF QuestionInv, PolicyOK, SpentOK, RunOK, Granted, Effective, world, policies
<1>3. \A s \in Requests \ {r} : (ReqOK(req[s]) /\ Owns(s, req[s]))'
  BY OthersKeep DEF world, policies
<1> QED
  BY <1>1, <1>2, <1>3 DEF QuestionInv

\* A refusal is recorded, or the client disconnects.
LEMMA LeaveInv ==
  ASSUME QuestionInv, NEW r \in Requests, RecordEvent(r) \/ Disconnect(r)
  PROVE  QuestionInv'
<1>0. /\ ReqOK(req[r]) /\ Owns(r, req[r]) /\ TypeOK
      /\ req[r] \in ReqType /\ req \in [Requests -> ReqType]
      /\ req[r].st # "idle" /\ req[r].st # "done"
      /\ UNCHANGED <<turn, disp, run, grant, spent, calls, world>>
  BY DEF QuestionInv, TypeOK, ReqType, RecordEvent, Disconnect
<1>1. CASE RecordEvent(r)
  <2>1. event' = req[r].ev /\ Answer(r, "refused")
    BY <1>1 DEF RecordEvent
  <2>2. Moves(r) /\ req'[r].st = "done" /\ req'[r].out = "refused"
    BY <1>0, <2>1, AnswerMoves
  <2>3. ReqOK(req[r])' /\ Owns(r, req[r])'
    BY <1>0, <2>2, Rests DEF world, policies
  <2>4. event' \in {"none", "notice", "awaiting", "failed", "uncertain"}
    BY <1>0, <2>1 DEF ReqType
  <2> QED
    BY <1>0, <2>2, <2>3, <2>4, EventInv
<1>2. CASE Disconnect(r)
  <2>1. PICK stays \in BOOLEAN :
          req' = [req EXCEPT ![r] = IF stays THEN [req[r] EXCEPT !.gone = TRUE]
                                             ELSE [req[r] EXCEPT !.st = "done", !.out = "refused"]]
    BY <1>0, <1>2 DEF Disconnect
  <2>2. CASE stays
    <3> DEFINE y == [req[r] EXCEPT !.gone = TRUE]
    <3>1. req' = [req EXCEPT ![r] = y]
      BY <2>1, <2>2
    <3>2. /\ y \in ReqType /\ y.body = req[r].body /\ y.ap = req[r].ap /\ y.rd = req[r].rd
          /\ y.st = req[r].st /\ y.phase = req[r].phase /\ y.out = req[r].out
      BY <1>0 DEF ReqType
    <3> HIDE DEF y
    <3>3. Moves(r) /\ req'[r] = y
      BY <1>0, <3>1, <3>2, Becomes
    <3>4. ReqOK(req[r])' /\ Owns(r, req[r])'
      BY <1>0, <3>2, <3>3 DEF ReqOK, Owns, Known, Granted, Effective, world, policies
    <3> QED
      BY <1>0, <1>2, <3>3, <3>4, EventInv DEF Disconnect
  <2>3. CASE ~stays
    <3>1. Answer(r, "refused")
      BY <1>0, <2>1, <2>3 DEF Answer
    <3>2. Moves(r) /\ req'[r].st = "done" /\ req'[r].out = "refused"
      BY <1>0, <3>1, AnswerMoves
    <3>3. ReqOK(req[r])' /\ Owns(r, req[r])'
      BY <1>0, <3>2, Rests DEF world, policies
    <3> QED
      BY <1>0, <1>2, <3>2, <3>3, EventInv DEF Disconnect
  <2> QED
    BY <2>2, <2>3
<1> QED
  BY <1>1, <1>2

\* The first request past the checks gets the run; what it sends was read before as well,
\* and the pair was current between the two reads.
LEMMA AuthorizeInv ==
  ASSUME QuestionInv, NEW r \in Requests, Authorize(r)
  PROVE  QuestionInv'
<1>0. /\ ReqOK(req[r]) /\ Owns(r, req[r]) /\ TypeOK /\ RunOK
      /\ req[r] \in ReqType /\ req[r].st = "decide" /\ req[r].phase = "authorize"
      /\ UNCHANGED <<turn, disp, event, grant, spent, calls, world>>
  BY DEF QuestionInv, TypeOK, ReqType, Authorize
<1>1. CASE Fail(r, "failed") /\ UNCHANGED run
  BY <1>0, <1>1, LocalFail DEF stored
<1>2. CASE Goto(r, "waiting") /\ UNCHANGED run /\ run.st # "none" /\ SameRun(r)
  <2>1. "waiting" \in Control
    BY DEF Control
  <2>2. Moves(r) /\ req'[r].st = "waiting" /\ req'[r].out = req[r].out
    BY <1>0, <1>2, <2>1, GotoMoves
  <2>3. ReqOK(req[r])' /\ Owns(r, req[r])'
    BY <1>0, <1>2, <2>2
       DEF ReqOK, Owns, Known, Granted, Effective, Moves, Owning, Reading, SameRun, world, policies
  <2> QED
    BY <1>0, <1>2, <2>2, <2>3, Local DEF stored
<1>3. CASE /\ ApprovalMatches(r) /\ disp = "prepared" /\ run.st = "none" /\ Goto(r, "owner")
           /\ run' = [st |-> "accepted", body |-> req[r].body, rd |-> req[r].rd, owner |-> r]
  <2>1. "owner" \in Control
    BY DEF Control
  <2>2. /\ Moves(r) /\ req'[r].st = "owner"
        /\ req'[r].phase = req[r].phase /\ req'[r].rd = req[r].rd /\ req'[r].out = req[r].out
    BY <1>0, <1>3, <2>1, GotoMoves
  <2>3. /\ run'.st = "accepted" /\ run'.body = req[r].body /\ run'.rd = req[r].rd /\ run'.owner = r
        /\ run' \in [st: {"none", "accepted", "completed", "failed"}, body: 0..MaxModel, rd: Pair,
                     owner: Requests \cup {NoRequest}]
    BY <1>0, <1>3 DEF ReqType
  <2>4. req[r].body \in External =>
          req[r].rd \in pairs /\ Effective(req[r].rd) # "deny" /\ Granted(req[r].body, req[r].rd)
    <3>1. SUFFICES ASSUME req[r].body \in External
                   PROVE  req[r].rd \in pairs /\ Effective(req[r].rd) # "deny" /\ Granted(req[r].body, req[r].rd)
      OBVIOUS
    <3>2. req[r].rd = req[r].ap /\ Effective(req[r].rd) # "deny"
      BY <1>3, <3>1 DEF ApprovalMatches
    <3>3. req[r].rd[1] \in 1..Len(org) /\ Len(org) \in Nat
      BY <1>0 DEF ReqOK, TypeOK
    <3>4. req[r].ap # None
      BY <3>2, <3>3 DEF None
    <3> QED
      BY <1>0, <3>2, <3>4 DEF ReqOK
  <2>5. TypeOK'
    BY <1>0, <2>2, <2>3 DEF TypeOK, Moves, ReqType, world, policies
  <2>6. PolicyOK' /\ SpentOK'
    BY <1>0 DEF QuestionInv, PolicyOK, SpentOK, world, policies
  <2>7. RunOK'
    <3>1. calls' = {} /\ req[r].body = turn /\ turn # 0
      BY <1>0, <1>3 DEF RunOK, ReqOK
    <3> QED
      BY <1>0, <1>3, <2>3, <2>4, <3>1 DEF RunOK, Granted, Effective, world, policies
  <2>8. ReqOK(req[r])' /\ Owns(r, req[r])'
    BY <1>0, <1>3, <2>2, <2>3
       DEF ReqOK, Owns, Known, Granted, Effective, Moves, Owning, Reading, world, policies
  <2>9. ASSUME NEW s \in Requests \ {r} PROVE (ReqOK(req[s]) /\ Owns(s, req[s]))'
    <3>1. req'[s] = req[s] /\ ReqOK(req[s]) /\ Owns(s, req[s]) /\ s # r
      BY <2>2 DEF Moves, QuestionInv
    <3>2. req[s].st \notin Owning
      BY <1>3, <3>1 DEF Owns
    <3>3. ReqOK(req[s])'
      BY <1>0, <1>3, <2>3, <3>1 DEF ReqOK, Known, Granted, Effective, world, policies
    <3>4. Owns(s, req[s])'
      BY <1>0, <3>1, <3>2 DEF Owns
    <3> QED
      BY <3>3, <3>4
  <2> QED
    BY <2>5, <2>6, <2>7, <2>8, <2>9 DEF QuestionInv
<1> QED
  BY <1>1, <1>2, <1>3 DEF Authorize

\* A grant is issued to a request that ends with it: the consumed one is another's.
LEMMA GrantInv ==
  ASSUME QuestionInv, NEW r \in Requests, req[r].st = "decide",
         grant' = [grant EXCEPT ![r] = [body |-> req[r].body, rd |-> req[r].rd]],
         Answer(r, "granted"), UNCHANGED <<turn, disp, event, run, spent, calls, world>>
  PROVE  QuestionInv'
<1> DEFINE g == [body |-> req[r].body, rd |-> req[r].rd]
<1>0. /\ ReqOK(req[r]) /\ Owns(r, req[r]) /\ TypeOK /\ RunOK /\ SpentOK
      /\ req[r] \in ReqType /\ req[r].st = "decide"
      /\ UNCHANGED <<turn, disp, event, run, spent, calls, world>>
      /\ grant' = [grant EXCEPT ![r] = g] /\ Answer(r, "granted")
      /\ grant \in [Requests -> [body: 0..MaxModel, rd: Pair]]
  BY DEF QuestionInv, TypeOK, ReqType
<1>1. g \in [body: 0..MaxModel, rd: Pair] /\ g.body = req[r].body /\ g.body # 0
  BY <1>0 DEF ReqType, ReqOK
<1> HIDE DEF g
<1>2. /\ grant' \in [Requests -> [body: 0..MaxModel, rd: Pair]] /\ grant'[r] = g
      /\ \A s \in Requests \ {r} : grant'[s] = grant[s]
  BY <1>0, <1>1
<1>3. spent # r /\ (spent \in Requests => grant'[spent] = grant[spent])
  <2>1. spent # r
    BY <1>0, QuestionAssumption DEF SpentOK, Owns
  <2> QED
    BY <1>2, <2>1
<1>4. Moves(r) /\ req'[r].st = "done" /\ req'[r].out = "granted"
  BY <1>0, AnswerMoves
<1>5. TypeOK'
  BY <1>0, <1>2, <1>4 DEF TypeOK, Moves, ReqType, world, policies
<1>6. PolicyOK' /\ SpentOK' /\ RunOK'
  BY <1>0, <1>3 DEF QuestionInv, TypeOK, PolicyOK, SpentOK, RunOK, Granted, Effective, world, policies
<1>7. ReqOK(req[r])' /\ Owns(r, req[r])'
  BY <1>0, <1>3, <1>4 DEF ReqOK, Owns, Known, Granted, Effective, Moves, Owning, Reading, world, policies
<1>8. ASSUME NEW s \in Requests \ {r} PROVE (ReqOK(req[s]) /\ Owns(s, req[s]))'
  <2>1. req'[s] = req[s] /\ ReqOK(req[s]) /\ Owns(s, req[s]) /\ grant'[s] = grant[s]
    BY <1>2, <1>4 DEF Moves, QuestionInv
  <2> QED
    BY <1>0, <1>3, <2>1 DEF ReqOK, Owns, Known, Granted, Effective, world, policies
<1> QED
  BY <1>5, <1>6, <1>7, <1>8 DEF QuestionInv

\* The authorization route grants, or refuses and changes no record.
LEMMA IssueInv ==
  ASSUME QuestionInv, NEW r \in Requests, IssueGrant(r)
  PROVE  QuestionInv'
<1>0. req[r].st = "decide" /\ UNCHANGED <<turn, disp, event, run, spent, calls, world>>
  BY DEF IssueGrant
<1>1. \/ /\ grant' = [grant EXCEPT ![r] = [body |-> req[r].body, rd |-> req[r].rd]]
         /\ Answer(r, "granted")
      \/ UNCHANGED grant /\ (Fail(r, "failed") \/ Fail(r, "awaiting"))
  BY DEF IssueGrant
<1>2. CASE UNCHANGED grant /\ (Fail(r, "failed") \/ Fail(r, "awaiting"))
  BY <1>0, <1>2, LocalFail DEF stored
<1> QED
  BY <1>0, <1>1, <1>2, GrantInv

\* An ask is approved under the versions it read, with a grant for them where one of the
\* policies asks for it.  Two grants are never consumed under one key, so what earlier
\* approvals rest on stays.
LEMMA ApproveInv ==
  ASSUME QuestionInv, NEW r \in Requests, Approve(r)
  PROVE  QuestionInv'
<1> DEFINE y == [req[r] EXCEPT !.st = "ask", !.ap = req[r].rd]
<1>0. /\ ReqOK(req[r]) /\ Owns(r, req[r]) /\ TypeOK /\ RunOK /\ SpentOK
      /\ req[r] \in ReqType /\ req \in [Requests -> ReqType] /\ req[r].st = "decide"
      /\ UNCHANGED <<turn, disp, event, run, grant, calls, world>>
  BY DEF QuestionInv, TypeOK, ReqType, Approve
<1>1. \/ UNCHANGED spent /\ (Fail(r, "failed") \/ Fail(r, "awaiting") \/ Answer(r, "refused"))
      \/ /\ req' = [req EXCEPT ![r] = y]
         /\ \/ Effective(req[r].rd) = "approved" /\ UNCHANGED spent
            \/ \E g \in Requests : /\ grant[g] = [body |-> req[r].body, rd |-> req[r].rd]
                                  /\ spent \in {NoRequest, g} /\ spent' = g
  BY <1>0 DEF Approve
<1>2. CASE UNCHANGED spent /\ (Fail(r, "failed") \/ Fail(r, "awaiting") \/ Answer(r, "refused"))
  BY <1>0, <1>2, LocalFail, LocalAnswer DEF stored
<1>3. ASSUME req' = [req EXCEPT ![r] = y],
             \/ Effective(req[r].rd) = "approved" /\ UNCHANGED spent
             \/ \E g \in Requests : /\ grant[g] = [body |-> req[r].body, rd |-> req[r].rd]
                                   /\ spent \in {NoRequest, g} /\ spent' = g
      PROVE  QuestionInv'
  <2>1. /\ y \in ReqType /\ y.st = "ask" /\ y.ap = req[r].rd /\ y.body = req[r].body
        /\ y.rd = req[r].rd /\ y.out = req[r].out
    BY <1>0 DEF ReqType, Control
  <2> HIDE DEF y
  <2>2. /\ req' \in [Requests -> ReqType] /\ req'[r] = y
        /\ \A s \in Requests \ {r} : req'[s] = req[s]
    BY <1>0, <1>3, <2>1
  <2>3. /\ spent' \in Requests \cup {NoRequest}
        /\ spent \in Requests => spent' = spent
        /\ spent' # NoRequest => grant[spent'].body # 0
    <3>1. req[r].body # 0
      BY <1>0 DEF ReqOK
    <3> QED
      BY <1>0, <1>3, <3>1, QuestionAssumption DEF TypeOK, SpentOK
  <2>4. Effective(req[r].rd) = "step_up" =>
          spent' \in Requests /\ grant[spent'] = [body |-> req[r].body, rd |-> req[r].rd]
    BY <1>3
  <2>5. TypeOK'
    BY <1>0, <2>2, <2>3 DEF TypeOK, ReqType, world, policies
  <2>6. PolicyOK' /\ SpentOK'
    BY <1>0, <2>3 DEF QuestionInv, PolicyOK, SpentOK, world, policies
  <2>7. RunOK'
    BY <1>0, <2>3 DEF RunOK, Granted, Effective, world, policies
  <2>8. ReqOK(req[r])' /\ Owns(r, req[r])'
    <3>1. Granted(req[r].body, req[r].ap)'
      BY <1>0, <2>1, <2>2, <2>4 DEF Granted, Effective, world, policies
    <3>2. /\ Known(req[r].rd) /\ (req[r].rd[1] = Len(org) => req[r].rd \in pairs)
          /\ req[r].body = turn /\ turn # 0 /\ req[r].out # "answer" /\ grant[r].body = 0
      BY <1>0 DEF ReqOK, Owns
    <3>3. /\ req'[r].st = "ask" /\ req'[r].ap = req[r].rd /\ req'[r].body = req[r].body
          /\ req'[r].out = req[r].out
      BY <2>1, <2>2
    <3>4. Known(req[r].ap)' /\ (req[r].ap[1] = Len(org) => req[r].ap \in pairs)'
      BY <1>0, <3>2, <3>3 DEF Known, world, policies
    <3>5. ReqOK(req[r])'
      BY <1>0, <3>1, <3>2, <3>3, <3>4 DEF ReqOK, Reading, world, policies
    <3> QED
      BY <1>0, <3>2, <3>3, <3>5 DEF Owns, Owning
  <2>9. ASSUME NEW s \in Requests \ {r} PROVE (ReqOK(req[s]) /\ Owns(s, req[s]))'
    <3>1. req'[s] = req[s] /\ ReqOK(req[s]) /\ Owns(s, req[s])
      BY <2>2 DEF QuestionInv
    <3> QED
      BY <1>0, <2>3, <3>1 DEF ReqOK, Owns, Known, Granted, Effective, world, policies
  <2> QED
    BY <2>5, <2>6, <2>7, <2>8, <2>9 DEF QuestionInv
<1> QED
  BY <1>1, <1>2, <1>3

\* A turn is admitted: the first body stays, and an earlier run has it.
LEMMA AdmitInv ==
  ASSUME QuestionInv, NEW r \in Requests, NEW kind \in {"authorize", "ask"}, NEW body \in Bodies,
         Admit(r, kind, body)
  PROVE  QuestionInv'
<1>0. /\ ReqOK(req[r]) /\ Owns(r, req[r]) /\ TypeOK /\ RunOK
      /\ req[r] \in ReqType /\ req \in [Requests -> ReqType] /\ req[r].st = "idle"
      /\ UNCHANGED <<disp, event, run, grant, spent, calls, world>>
      /\ body \in 1..MaxModel /\ MaxModel \in Nat
  BY QuestionAssumption DEF QuestionInv, TypeOK, ReqType, Admit, Bodies
<1>a. body \in 0..MaxModel
  BY <1>0
<1>1. PICK y \in ReqType :
        /\ req' = [req EXCEPT ![r] = y] /\ y.ap = req[r].ap /\ y.body = body
        /\ \/ y.st = "admitted" /\ turn' = body /\ turn \in {0, body} /\ y.out = req[r].out
           \/ y.st = "done" /\ turn' = turn /\ y.out = "refused"
  <2>1. CASE turn \in {0, body} /\ (run.st # "none" => run.st \in {"completed", "failed"} /\ run.body = body)
    <3> DEFINE y == [req[r] EXCEPT !.st = "admitted", !.kind = kind, !.body = body]
    <3>1. /\ y \in ReqType /\ y.ap = req[r].ap /\ y.body = body /\ y.st = "admitted"
          /\ y.out = req[r].out
      <4>1. req[r] \in ReqType
        BY <1>0
      <4>2. {"admitted", "done"} \subseteq Control
        BY DEF Control
      <4> QED
        BY <1>a, <4>1, <4>2 DEF ReqType
    <3>2. req' = [req EXCEPT ![r] = y] /\ turn' = body
      BY <1>0, <2>1 DEF Admit
    <3> QED
      BY <2>1, <3>1, <3>2
  <2>2. CASE ~(turn \in {0, body} /\ (run.st # "none" => run.st \in {"completed", "failed"} /\ run.body = body))
    <3> DEFINE y == [req[r] EXCEPT !.st = "done", !.kind = kind, !.body = body, !.out = "refused"]
    <3>1. /\ y \in ReqType /\ y.ap = req[r].ap /\ y.body = body /\ y.st = "done"
          /\ y.out = "refused"
      <4>1. req[r] \in ReqType
        BY <1>0
      <4>2. {"admitted", "done"} \subseteq Control
        BY DEF Control
      <4> QED
        BY <1>a, <4>1, <4>2 DEF ReqType
    <3>2. req' = [req EXCEPT ![r] = y] /\ turn' = turn
      BY <1>0, <2>2 DEF Admit
    <3> QED
      BY <3>1, <3>2
  <2> QED
    BY <2>1, <2>2
<1>2. /\ req' \in [Requests -> ReqType] /\ req'[r] = y
      /\ \A s \in Requests \ {r} : req'[s] = req[s]
  BY <1>0, <1>1
<1>3. turn' \in 0..MaxModel /\ (turn # 0 => turn' = turn)
  BY <1>0, <1>1 DEF TypeOK
<1>4. TypeOK'
  BY <1>0, <1>2, <1>3, SMTT(30) DEF TypeOK, ReqType, world, policies
<1>5. PolicyOK' /\ SpentOK'
  BY <1>0 DEF QuestionInv, PolicyOK, SpentOK, world, policies
<1>6. RunOK'
  BY <1>0, <1>3 DEF RunOK, Granted, Effective, world, policies
<1>7. ReqOK(req[r])' /\ Owns(r, req[r])'
  <2>1. req[r].ap = None /\ req[r].out # "answer" /\ grant[r].body = 0 /\ None[1] # Len(org)
    BY <1>0 DEF ReqOK, Owns, TypeOK, None
  <2> QED
    BY <1>0, <1>1, <1>2, <2>1 DEF ReqOK, Owns, Owning, Reading, world, policies
<1>8. ASSUME NEW s \in Requests \ {r} PROVE (ReqOK(req[s]) /\ Owns(s, req[s]))'
  <2>1. req'[s] = req[s] /\ ReqOK(req[s]) /\ Owns(s, req[s])
    BY <1>2 DEF QuestionInv
  <2> QED
    BY <1>0, <1>3, <2>1 DEF ReqOK, Owns, Known, Granted, Effective, world, policies
<1> QED
  BY <1>4, <1>5, <1>6, <1>7, <1>8 DEF QuestionInv

\* The process dies: every request under way ends where it is.
LEMMA CrashInv ==
  ASSUME QuestionInv, Crash
  PROVE  QuestionInv'
<1>0. req \in [Requests -> ReqType] /\ UNCHANGED <<stored, world>>
  BY DEF QuestionInv, TypeOK, ReqType, Crash
<1>1. ASSUME NEW r \in Requests
      PROVE  /\ req'[r] \in ReqType /\ req'[r].body = req[r].body /\ req'[r].ap = req[r].ap
             /\ \/ req'[r] = req[r]
                \/ req'[r].st = "done" /\ req'[r].out = "dead"
  <2>1. CASE req[r].st \in {"idle", "done"}
    BY <1>0, <2>1 DEF Crash
  <2>2. CASE req[r].st \notin {"idle", "done"}
    BY <1>0, <2>2, ZenonT(60) DEF Crash, ReqType, Control
  <2> QED
    BY <2>1, <2>2
<1>2. req' \in [Requests -> ReqType]
  BY <1>1 DEF Crash
<1>3. TypeOK' /\ PolicyOK' /\ SpentOK' /\ RunOK'
  <2>1. TypeOK'
    BY <1>0, <1>2 DEF QuestionInv, TypeOK, ReqType, stored, world, policies
  <2>2. PolicyOK' /\ SpentOK' /\ RunOK'
    BY <1>0 DEF QuestionInv, PolicyOK, SpentOK, RunOK, Granted, Effective, stored, world, policies
  <2> QED
    BY <2>1, <2>2
<1>4. ASSUME NEW r \in Requests PROVE (ReqOK(req[r]) /\ Owns(r, req[r]))'
  <2>1. ReqOK(req[r]) /\ Owns(r, req[r])
    BY DEF QuestionInv
  <2> QED
    BY <1>0, <1>1, <2>1, SMTT(30)
       DEF ReqOK, Owns, Known, Granted, Effective, Owning, Reading, stored, world, policies
<1> QED
  BY <1>3, <1>4 DEF QuestionInv

\* A new version leaves the earlier ones as they are.
LEMMA Appended ==
  ASSUME NEW q \in Seq(Payloads), NEW p \in Payloads
  PROVE  /\ Append(q, p) \in Seq(Payloads) /\ Len(Append(q, p)) = Len(q) + 1
         /\ \A i \in 1..Len(q) : Append(q, p)[i] = q[i]
OBVIOUS

\* A policy gets a new version: versions read before keep their payloads, and a pair that
\* was current stays in the record of such pairs.
LEMMA ActivateInv ==
  ASSUME QuestionInv, NEW p \in Payloads, ActivateOrganization(p) \/ ActivateWorkspace(p)
  PROVE  QuestionInv'
<1>0. /\ TypeOK /\ PolicyOK /\ RunOK /\ SpentOK
      /\ UNCHANGED <<stored, req, model, source>>
      /\ changes < MaxChanges /\ changes' = changes + 1 /\ checked' \in BOOLEAN
      /\ org \in Seq(Payloads) /\ ws \in Seq(Payloads)
      /\ Len(org) \in 1..MaxPolicy /\ Len(ws) \in 1..MaxPolicy
  BY DEF QuestionInv, TypeOK, ActivateOrganization, ActivateWorkspace, Change
<1>1. \/ /\ org' = Append(org, p) /\ ws' = ws /\ Len(org) < MaxPolicy
         /\ pairs' = pairs \cup {<<Len(org) + 1, Len(ws)>>}
      \/ /\ ws' = Append(ws, p) /\ org' = org /\ Len(ws) < MaxPolicy
         /\ pairs' = pairs \cup {<<Len(org), Len(ws) + 1>>}
  BY DEF ActivateOrganization, ActivateWorkspace
<1>2. /\ org' \in Seq(Payloads) /\ ws' \in Seq(Payloads)
      /\ Len(org') \in 1..MaxPolicy /\ Len(ws') \in 1..MaxPolicy
      /\ Len(org') = Len(org) \/ Len(org') = Len(org) + 1
      /\ Len(ws') = Len(ws) \/ Len(ws') = Len(ws) + 1
      /\ \A i \in 1..Len(org) : org'[i] = org[i]
      /\ \A i \in 1..Len(ws) : ws'[i] = ws[i]
  <2>1. CASE org' = Append(org, p) /\ ws' = ws /\ Len(org) < MaxPolicy
    BY <1>0, <2>1, Appended, QuestionAssumption
  <2>2. CASE ws' = Append(ws, p) /\ org' = org /\ Len(ws) < MaxPolicy
    BY <1>0, <2>2, Appended, QuestionAssumption
  <2> QED
    BY <1>1, <2>1, <2>2
<1>3. pairs' = pairs \cup {<<Len(org'), Len(ws')>>}
  BY <1>0, <1>1
<1>4. \A i \in Nat : (i \in 1..Len(org) => i \in 1..Len(org')) /\ (i \in 1..Len(ws) => i \in 1..Len(ws'))
  BY <1>0, <1>2
<1>5. pairs \subseteq (1..Len(org')) \X (1..Len(ws'))
  BY <1>0, <1>4 DEF PolicyOK
<1>6. PolicyOK' /\ pairs' \subseteq Pair
  <2>1. <<Len(org'), Len(ws')>> \in (1..Len(org')) \X (1..Len(ws'))
    BY <1>2
  <2>2. (1..Len(org')) \X (1..Len(ws')) \subseteq Pair
    BY <1>2, QuestionAssumption DEF Pair
  <2> QED
    BY <1>3, <1>5, <2>1, <2>2 DEF PolicyOK
<1>7. changes' \in 0..MaxChanges
  BY <1>0, QuestionAssumption DEF TypeOK
<1>8. TypeOK'
  BY <1>0, <1>2, <1>6, <1>7 DEF TypeOK, stored
<1>9. \A rd \in Pair : Known(rd) => org'[rd[1]] = org[rd[1]] /\ ws'[rd[2]] = ws[rd[2]]
  BY <1>2 DEF Known
<1>10. SpentOK'
  BY <1>0 DEF SpentOK, stored
<1>11. RunOK'
  <2>1. run.body \in External /\ run.st # "none" => run.rd \in pairs /\ run.rd \in Pair /\ Known(run.rd)
    BY <1>0 DEF RunOK, PolicyOK, TypeOK, Known
  <2> QED
    BY <1>0, <1>3, <1>9, <2>1 DEF RunOK, Granted, Effective, stored
<1>12. ASSUME NEW r \in Requests PROVE (ReqOK(req[r]) /\ Owns(r, req[r]))'
  <2>1. ReqOK(req[r]) /\ Owns(r, req[r]) /\ req[r] \in ReqType
    BY DEF QuestionInv, TypeOK, ReqType
  <2>2. PICK x : x = req[r] /\ x = req'[r]
    BY <1>0
  <2>3. x.ap \in Pair /\ x.rd \in Pair
    BY <2>1, <2>2 DEF ReqType
  <2>4. x.ap # None => Known(x.ap)' /\ Granted(x.body, x.ap)'
    <3>1. SUFFICES ASSUME x.ap # None PROVE Known(x.ap)' /\ Granted(x.body, x.ap)'
      OBVIOUS
    <3>2. Known(x.ap) /\ Granted(x.body, x.ap)
      BY <2>1, <2>2, <3>1 DEF ReqOK
    <3>3. Known(x.ap)'
      BY <1>0, <1>2, <1>4, <3>2 DEF Known
    <3>4. Effective(x.ap)' = Effective(x.ap)
      BY <1>9, <2>3, <3>2 DEF Effective
    <3> QED
      BY <1>0, <3>2, <3>3, <3>4 DEF Granted, stored
  <2>5. x.ap[1] = Len(org') => x.ap \in pairs'
    <3>1. CASE x.ap = None
      BY <1>2, <3>1 DEF None
    <3>2. CASE x.ap # None
      BY <1>0, <1>2, <1>3, <2>1, <2>2, <3>2 DEF ReqOK, Known
    <3> QED
      BY <3>1, <3>2
  <2>6. x.st \in {"read_ws", "decide"} => x.rd[1] \in 1..Len(org')
    BY <1>0, <1>2, <2>1, <2>2 DEF ReqOK
  <2>7. x.st = "decide" => Known(x.rd)' /\ (x.rd[1] = Len(org') => x.rd \in pairs')
    <3>1. x.st = "decide" => Known(x.rd) /\ (x.rd[1] = Len(org) => x.rd \in pairs)
      BY <2>1, <2>2 DEF ReqOK
    <3> QED
      BY <1>0, <1>2, <1>3, <3>1 DEF Known
  <2>8. ReqOK(x)'
    BY <1>0, <1>3, <2>1, <2>2, <2>4, <2>5, <2>6, <2>7 DEF ReqOK, stored
  <2>9. Owns(r, x)'
    BY <1>0, <2>1, <2>2 DEF Owns, stored
  <2> QED
    BY <2>2, <2>8, <2>9 DEF ReqOK, Owns
<1> QED
  BY <1>6, <1>8, <1>10, <1>11, <1>12 DEF QuestionInv

\* What else changes around the requests: no request relies on it.
LEMMA AroundInv ==
  ASSUME QuestionInv, CheckParent \/ ChangeModel \/ \E s \in SourceStates : ChangeSource(s)
  PROVE  QuestionInv'
<1>0. UNCHANGED <<stored, req, org, ws, pairs>>
  BY DEF CheckParent, ChangeModel, ChangeSource, policies
<1>1. checked' \in BOOLEAN /\ model' \in 1..MaxModel /\ source' \in SourceStates /\ changes' \in 0..MaxChanges
  <2>0. /\ checked \in BOOLEAN /\ model \in 1..MaxModel /\ source \in SourceStates
        /\ changes \in 0..MaxChanges /\ MaxModel \in Nat /\ MaxChanges \in Nat
    BY QuestionAssumption DEF QuestionInv, TypeOK
  <2>1. CASE CheckParent
    BY <2>0, <2>1 DEF CheckParent
  <2>2. CASE ChangeModel
    BY <2>0, <2>2 DEF ChangeModel, Change, policies
  <2>3. CASE \E s \in SourceStates : ChangeSource(s)
    BY <2>0, <2>3 DEF ChangeSource, Change, policies
  <2> QED
    BY <2>1, <2>2, <2>3
<1>2. TypeOK'
  BY <1>0, <1>1 DEF QuestionInv, TypeOK, stored
<1>3. PolicyOK' /\ SpentOK' /\ RunOK'
  BY <1>0 DEF QuestionInv, PolicyOK, SpentOK, RunOK, Granted, Effective, stored
<1>4. ASSUME NEW r \in Requests PROVE (ReqOK(req[r]) /\ Owns(r, req[r]))'
  <2>1. ReqOK(req[r]) /\ Owns(r, req[r])
    BY DEF QuestionInv
  <2> QED
    BY <1>0, <2>1 DEF ReqOK, Owns, Known, Granted, Effective, stored
<1> QED
  BY <1>2, <1>3, <1>4 DEF QuestionInv

----------------------------------------------------------------------------
(* The theorems. *)

\* The invariant holds before the first request.
THEOREM InitInv == Init => QuestionInv
<1> SUFFICES ASSUME Init PROVE QuestionInv
  OBVIOUS
<1>0. None \in Pair /\ None[1] = 0 /\ MaxModel \in Nat \ {0} /\ MaxPolicy \in Nat \ {0} /\ MaxChanges \in Nat
  BY QuestionAssumption DEF None, Pair
<1>1. PICK a \in Payloads, b \in Payloads : org = <<a>> /\ ws = <<b>>
  BY QuestionAssumption DEF Init
<1>2. /\ org \in Seq(Payloads) /\ ws \in Seq(Payloads) /\ Len(org) = 1 /\ Len(ws) = 1
  BY <1>1
<1>3. <<1, 1>> \in Pair /\ <<1, 1>> \in (1..1) \X (1..1)
  BY <1>0 DEF Pair
<1>4. req \in [Requests -> ReqType]
  <2> DEFINE x == [st |-> "idle", kind |-> "ask", body |-> 0, phase |-> "replay", rd |-> None, ap |-> None,
                   gone |-> FALSE, ev |-> "none", out |-> "none"]
  <2>1. x \in ReqType
    BY <1>0 DEF ReqType, Control
  <2> HIDE DEF x
  <2>2. req = [r \in Requests |-> x]
    BY DEF Init, x
  <2> QED
    BY <2>1, <2>2
<1>5. ASSUME NEW r \in Requests
      PROVE  /\ req[r].st = "idle" /\ req[r].ap = None /\ req[r].out = "none" /\ grant[r].body = 0
  BY DEF Init
<1>6. /\ run \in [st: {"none", "accepted", "completed", "failed"}, body: 0..MaxModel, rd: Pair,
                  owner: Requests \cup {NoRequest}]
      /\ grant \in [Requests -> [body: 0..MaxModel, rd: Pair]]
      /\ run.st = "none"
  BY <1>0 DEF Init
<1>7. TypeOK
  <2>1. turn \in 0..MaxModel /\ model \in 1..MaxModel /\ changes \in 0..MaxChanges
    BY <1>0 DEF Init
  <2>2. calls \subseteq [by: Requests, body: 0..MaxModel, rd: Pair] /\ pairs \subseteq Pair
    BY <1>3 DEF Init
  <2>3. Len(org) \in 1..MaxPolicy /\ Len(ws) \in 1..MaxPolicy
    BY <1>0, <1>2
  <2> QED
    BY <1>2, <1>4, <1>6, <2>1, <2>2, <2>3 DEF Init, TypeOK, ReqType, SourceStates
<1>8. PolicyOK /\ SpentOK /\ RunOK
  BY <1>2, <1>3, <1>6 DEF Init, PolicyOK, SpentOK, RunOK
<1>9. \A r \in Requests : ReqOK(req[r]) /\ Owns(r, req[r])
  BY <1>0, <1>2, <1>5 DEF ReqOK, Owns, Owning, Reading
<1> QED
  BY <1>7, <1>8, <1>9 DEF QuestionInv

\* Every step of the requests and of the administrators keeps it.
THEOREM NextInv == QuestionInv /\ [Next]_vars => QuestionInv'
<1> SUFFICES ASSUME QuestionInv, [Next]_vars PROVE QuestionInv'
  OBVIOUS
<1>1. ASSUME NEW r \in Requests, Step(r) PROVE QuestionInv'
  BY <1>1, LookInv, WaitInv, ReadInv, ClaimInv, ProviderInv, CallInv, PersistInv, LeaveInv, AuthorizeInv,
     IssueInv, ApproveInv DEF Step
<1>2. CASE Environment
  BY <1>2, CrashInv, ActivateInv, AroundInv DEF Environment
<1>3. CASE UNCHANGED vars
  <2>1. TypeOK' /\ PolicyOK' /\ SpentOK' /\ RunOK'
    BY <1>3 DEF QuestionInv, TypeOK, PolicyOK, SpentOK, RunOK, Granted, Effective, vars
  <2>2. ASSUME NEW r \in Requests PROVE (ReqOK(req[r]) /\ Owns(r, req[r]))'
    <3>1. ReqOK(req[r]) /\ Owns(r, req[r])
      BY DEF QuestionInv
    <3> QED
      BY <1>3, <3>1 DEF ReqOK, Owns, Known, Granted, Effective, vars
  <2> QED
    BY <2>1, <2>2 DEF QuestionInv
<1> QED
  BY <1>1, <1>2, <1>3, AdmitInv, LeaveInv DEF Next

\* However requests, crashes, disconnections and policy changes interleave.
THEOREM QuestionInvCorrect == Spec => []QuestionInv
BY InitInv, NextInv, PTL DEF Spec

\* All requests of a key together call the provider at most once, under a pair of policy
\* versions that was in force at one moment, allowed the call and, where it asked for a
\* step-up, had a grant for exactly this body and pair consumed.
THEOREM CallsApprovedCorrect == Spec => []CallsApproved
<1>1. ASSUME QuestionInv PROVE CallsApproved
  <2> DEFINE c == [by |-> run.owner, body |-> run.body, rd |-> run.rd]
  <2>0. TypeOK /\ RunOK
    BY <1>1 DEF QuestionInv
  <2>1. calls \subseteq {c} /\ (calls # {} => run.st # "none")
    BY <2>0 DEF RunOK
  <2>2. c.by = run.owner /\ c.body = run.body /\ c.rd = run.rd
    OBVIOUS
  <2> HIDE DEF c
  <2>3. Cardinality(calls) <= 1
    <3>1. calls = {} \/ calls = {c}
      BY <2>1
    <3>2. Cardinality({}) = 0
      BY FS_EmptySet
    <3>3. Cardinality({c}) = 1
      BY FS_Singleton
    <3> QED
      BY <3>1, <3>2, <3>3
  <2>4. OneCall
    BY <2>1, <2>2, <2>3 DEF OneCall
  <2>5. ApprovedCall /\ PolicySnapshot
    <3> SUFFICES ASSUME NEW d \in calls, d.body \in External
                 PROVE  /\ Effective(d.rd) # "deny"
                        /\ Effective(d.rd) = "step_up" =>
                             spent # NoRequest /\ grant[spent] = [body |-> d.body, rd |-> d.rd]
                        /\ d.rd \in pairs
      BY DEF ApprovedCall, PolicySnapshot
    <3>1. d = c /\ run.st # "none"
      BY <2>1
    <3>2. d.body = run.body /\ d.rd = run.rd
      BY <2>2, <3>1
    <3> QED
      BY <2>0, <3>1, <3>2, QuestionAssumption DEF RunOK, Granted
  <2> QED
    BY <2>4, <2>5 DEF CallsApproved
<1> QED
  BY <1>1, QuestionInvCorrect, PTL

\* A turn has a notice or a run, never both, and whoever is answered asked what the
\* completed run of the turn answered.
THEOREM AnswersAgreeCorrect == Spec => []AnswersAgree
<1>1. ASSUME QuestionInv PROVE AnswersAgree
  BY <1>1 DEF QuestionInv, AnswersAgree, NoticeOrRun, AnswerOfRun, RunOK, ReqOK
<1> QED
  BY <1>1, QuestionInvCorrect, PTL

\* A run is settled by its owner alone: once the owner has ended or an outcome is stored,
\* no waiter, retry or late thread changes it.
THEOREM OwnerSettlesCorrect == Spec => OwnerSettles
<1>1. ASSUME QuestionInv, [Next]_vars
      PROVE  [run.st # "none" /\ (run.st # "accepted" \/ req[run.owner].st = "done") => run' = run]_vars
  <2> SUFFICES ASSUME run.st # "none", run.st # "accepted" \/ req[run.owner].st = "done"
               PROVE  run' = run
    OBVIOUS
  <2>1. ASSUME NEW r \in Requests, PersistCompleted(r) \/ PersistFailed(r) PROVE run' = run
    <3>1. req[r].st \in Owning /\ Owns(r, req[r]) /\ req[r].st # "done"
      BY <1>1, <2>1 DEF PersistCompleted, PersistFailed, Owning, QuestionInv
    <3>2. run.st = "accepted" /\ run.owner = r
      BY <3>1 DEF Owns
    <3> QED
      BY <3>1, <3>2
  <2>2. ASSUME NEW r \in Requests, Authorize(r) PROVE run' = run
    BY <2>2 DEF Authorize
  <2>3. ASSUME NEW r \in Requests, Step(r) PROVE run' = run
    BY <2>1, <2>2, <2>3
       DEF Step, CheckNotice, ReplayCompleted, ReplayFailed, NoReplay, Preflight, Claim, Prepare, ReadOrg,
           ReadWs, DecideReplay, IssueGrant, Approve, Ask, CallProvider, ProviderAnswers,
           PersistUnavailable, WaitOwner, RecordEvent, stored
  <2>4. CASE Environment
    BY <2>4 DEF Environment, Crash, CheckParent, ChangeModel, ActivateOrganization, ActivateWorkspace,
                ChangeSource, stored
  <2> QED
    BY <1>1, <2>3, <2>4 DEF Next, Admit, Disconnect, vars
<1> QED
  BY <1>1, QuestionInvCorrect, PTL DEF Spec, OwnerSettles
=============================================================================
