----------------------------- MODULE Membership -----------------------------
(***************************************************************************)
(* Who may work in a workspace of an organization, and how every change of *)
(* it reaches the audit store.  Two components write the same rows: the    *)
(* organization's own workflow (invitations, join requests, members) and   *)
(* the system administrator's role change.  Both lock the row of the       *)
(* workspace before they look at anything, so an operation is one action.  *)
(* Each leaves a receipt in the transaction that makes the change; a loop  *)
(* takes the receipts to the central audit store.  The state is that of    *)
(* one workspace.  Refusals that other components cause (a suspended       *)
(* account, an expired invitation) and repeated keys change nothing; that  *)
(* an operation need not happen stands for them.                           *)
(***************************************************************************)
EXTENDS Integers, FiniteSets, FiniteSetsExt

CONSTANTS
  Users,        \* accounts that may be or become members
  Founders,     \* the workspace administrators of the beginning
  Invitations,  \* ids of invitations
  Issued,       \* the invitations that exist in the beginning
  MaxRequests,  \* bound on join requests
  MaxUses,      \* max_uses of an invitation
  MaxOrg,       \* bound on receipts of the organization's workflow
  MaxAdmin,     \* bound on receipts of the system administrator
  Page,         \* rows the loop reads at once (32 and 100)
  MaxLoopFaults \* bound on failed appends, lost answers and restarts

ASSUME MembershipAssumption ==
  /\ Founders \subseteq Users /\ Founders # {} /\ Issued \subseteq Invitations
  /\ {MaxUses, Page} \subseteq Nat \ {0}
  /\ {MaxRequests, MaxOrg, MaxAdmin, MaxLoopFaults} \subseteq Nat

VARIABLES
  invite,   \* invitation_codes
  join,     \* organization_join_requests
  member,   \* tenant_memberships
  auth,     \* auth_memberships of the workspace
  acl,      \* acl_version of the workspace
  org,      \* organization_operation_outbox, by created_at
  admin,    \* auth_admin_role_operations, by created_at
  central,  \* receipts in the central audit store
  acked,    \* receipts with a delivered_at
  poison,   \* receipts of the administrator the central store refuses for good
  loop,     \* the thread admin_audit_retry_loop and its memory
  loopFaults

access == <<invite, join, member, auth, acl, org, admin>>
delivery == <<central, acked, loop, loopFaults>>
memberVars == <<access, delivery, poison>>

Requests == 1..MaxRequests
\* A reviewer and an approver come and go like an editor.
JoinRoles == {"viewer", "editor"}
Roles == JoinRoles \cup {"workspace_admin"}
NoUser == "no user"
NoOp == [op |-> "none", on |-> NoUser, seen |-> 0, from |-> "none", to |-> "none"]

Org == {"org"} \X (1..MaxOrg)
Admin == {"admin"} \X (1..MaxAdmin)
Receipts == Org \cup Admin
Receipt(e) == IF e[1] = "org" THEN org[e[2]] ELSE admin[e[2]]
Written(e) == Receipt(e) # NoOp

-----------------------------------------------------------------------------
(* The organization's workflow: execute_management_operation.              *)

\* The receipt goes into the transaction of the change.  created_at is read under the
\* lock of the workspace, so receipts are written in its order.
Record(r) ==
  \E n \in 1..MaxOrg :
    /\ org[n] = NoOp /\ \A k \in 1..(n - 1) : org[k] # NoOp
    /\ org' = [org EXCEPT ![n] = r]

Op(op, on, seen, from, to) ==
  [op |-> op, on |-> on, seen |-> seen, from |-> from, to |-> to]

Usable(i) == invite[i].st = "active" /\ invite[i].uses < MaxUses

CreateInvitation(i) ==
  /\ invite[i].st = "none"
  /\ invite' = [invite EXCEPT ![i] = [st |-> "active", uses |-> 0, ver |-> 1]]
  /\ Record(Op("invite", i, 0, "none", "active"))
  /\ UNCHANGED <<join, member, auth, acl, admin, delivery, poison>>

\* v is the version the manager saw in the list of invitations.
RevokeInvitation(i, v) ==
  /\ invite[i].st = "active" /\ invite[i].ver = v
  /\ invite' = [invite EXCEPT ![i].st = "revoked", ![i].ver = @ + 1]
  /\ Record(Op("revoke", i, v, "active", "revoked"))
  /\ UNCHANGED <<join, member, auth, acl, admin, delivery, poison>>

Pending(u) == \E q \in Requests : join[q].st = "pending" /\ join[q].user = u

\* Ids are new: the next unused one.
Fresh(q) == join[q].st = "none" /\ \A p \in 1..(q - 1) : join[p].st # "none"

CreateJoin(q, u, i) ==
  /\ Fresh(q) /\ Usable(i) /\ ~Pending(u)
  /\ join' = [join EXCEPT ![q] = [st |-> "pending", user |-> u, inv |-> i]]
  /\ Record(Op("join", q, 0, "none", "pending"))
  /\ UNCHANGED <<invite, member, auth, acl, admin, delivery, poison>>

\* The row a join request needs for its approval: no membership of any kind yet, an
\* invitation that still has a use left.
Approvable(q) ==
  LET u == join[q].user IN
  /\ member[u].st = "none" /\ auth[u].role = "none"
  /\ Usable(join[q].inv)

\* The use of the invitation, the membership, the role and acl_version change together.
\* The receipt of the code names the request, pending and then approved; here it carries the
\* role that came with it, so that the receipts of a user tell the history of the role.
ApproveJoin(q) ==
  LET u == join[q].user IN
  /\ join[q].st = "pending" /\ Approvable(q)
  /\ invite' = [invite EXCEPT ![join[q].inv].uses = @ + 1, ![join[q].inv].ver = @ + 1]
  /\ join' = [join EXCEPT ![q].st = "approved"]
  /\ member' = [member EXCEPT ![u] = [st |-> "active", ver |-> 1]]
  /\ auth' = [auth EXCEPT ![u] = [role |-> "viewer", ver |-> 1]]
  /\ acl' = acl + 1
  /\ Record(Op("approve", u, 0, "none", "viewer"))
  /\ UNCHANGED <<admin, delivery, poison>>

RejectJoin(q) ==
  /\ join[q].st = "pending"
  /\ join' = [join EXCEPT ![q].st = "rejected"]
  /\ Record(Op("reject", q, 0, "pending", "rejected"))
  /\ UNCHANGED <<invite, member, auth, acl, admin, delivery, poison>>

\* Mutant: the version of the role is not compared.
SeenMember(u, v, av) == member[u].ver = v
\* expected_version of the membership and expected_auth_version of the role.
SeenBoth(u, v, av) == member[u].ver = v /\ auth[u].ver = av

\* The role is written even when it is the one the member has.
ChangeJoinRole(u, r, v, av) ==
  /\ member[u].st = "active"
  /\ auth[u].role \in JoinRoles /\ SeenBoth(u, v, av)
  /\ auth' = [auth EXCEPT ![u] = [role |-> r, ver |-> @.ver + 1]]
  /\ member' = [member EXCEPT ![u].ver = @ + 1]
  /\ acl' = acl + 1
  /\ Record(Op("role", u, av, auth[u].role, r))
  /\ UNCHANGED <<invite, join, admin, delivery, poison>>

SetMembership(u, st, v) ==
  /\ member[u].st # "none" /\ member[u].ver = v
  /\ member' = [member EXCEPT ![u] = [st |-> st, ver |-> @.ver + 1]]
  /\ Record(Op("state", u, v, member[u].st, st))
  /\ UNCHANGED <<invite, join, auth, acl, admin, delivery, poison>>

-----------------------------------------------------------------------------
(* The system administrator: change_existing_workspace_role.               *)

Administers(u) == auth[u].role = "workspace_admin"

\* The workspace keeps an administrator.
Demotable(u, r) ==
  (Administers(u) /\ r # "workspace_admin") => \E o \in Users \ {u} : Administers(o)

\* The time of the operation was read before the lock: receipts of this table are
\* committed in any order of their created_at.
ChangeWorkspaceRole(u, r, v) ==
  /\ auth[u].role # "none" /\ auth[u].ver = v /\ Demotable(u, r)
  /\ LET changed == r # auth[u].role IN
     /\ auth' = [auth EXCEPT ![u] = [role |-> r, ver |-> IF changed THEN @.ver + 1 ELSE @.ver]]
     /\ acl' = IF changed THEN acl + 1 ELSE acl
     /\ \E n \in 1..MaxAdmin :
          /\ admin[n] = NoOp
          /\ admin' = [admin EXCEPT ![n] =
                         Op(IF changed THEN "changed" ELSE "unchanged", u, v, auth[u].role, r)]
  /\ UNCHANGED <<invite, join, member, org, delivery, poison>>

-----------------------------------------------------------------------------
(* admin_audit_retry_loop: a page of each table in turn, for ever.          *)

Unacked(K) == {e \in K : Written(e)} \ acked
Stamp(e) == e[2]
FirstRows(S) == {e \in S : Cardinality({f \in S : Stamp(f) < Stamp(e)}) < Page}
LastStamp(S) == Max({Stamp(e) : e \in S})

NoLoop == [pc |-> "admin", rows |-> {}, cursor |-> 0, mark |-> 0]

\* Mutant: every page begins at the first pending receipt.
SweptFromStart(cursor, mark) == {e \in Unacked(Admin) : Stamp(e) <= mark}
\* A sweep goes from the first pending receipt to the last one there was when it began.
Swept(cursor, mark) == {e \in Unacked(Admin) : cursor < Stamp(e) /\ Stamp(e) <= mark}

\* _dispatch_pending_audit looks twice: a sweep that has nothing left ends, and the
\* next one begins in the same transaction.  0 stands for None.
ReadAdminPage ==
  /\ loop.pc = "admin"
  /\ LET rest == FirstRows(Swept(loop.cursor, loop.mark))
         fresh == IF Unacked(Admin) = {} THEN 0 ELSE LastStamp(Unacked(Admin))
         first == FirstRows(Swept(0, fresh))
     IN loop' = CASE rest # {} ->
                       [loop EXCEPT !.pc = "rows", !.rows = rest, !.cursor = LastStamp(rest)]
                  [] rest = {} /\ fresh = 0 -> [NoLoop EXCEPT !.pc = "org"]
                  [] OTHER -> [pc |-> "rows", rows |-> first, cursor |-> LastStamp(first),
                               mark |-> fresh]
  /\ UNCHANGED <<access, central, acked, loopFaults, poison>>

\* dispatch_pending_management_audits: the oldest pending receipts.
ReadOrgPage ==
  /\ loop.pc = "org"
  /\ loop' = LET S == FirstRows(Unacked(Org)) IN
             IF S = {} THEN [loop EXCEPT !.pc = "admin"]
             ELSE [loop EXCEPT !.pc = "rows", !.rows = S]
  /\ UNCHANGED <<access, central, acked, loopFaults, poison>>

\* After the rows of one table comes the page of the other.
Following(e) == IF e[1] = "org" THEN "admin" ELSE "org"
Current(e) == loop.pc = "rows" /\ e \in loop.rows /\ \A f \in loop.rows : Stamp(e) <= Stamp(f)
Skip(e) ==
  loop' = [loop EXCEPT !.rows = @ \ {e}, !.pc = IF loop.rows = {e} THEN Following(e) ELSE "rows"]

\* The append is new, or a duplicate with the content of this receipt.
AppendReceipt(e) ==
  /\ Current(e) /\ e \notin poison
  /\ central' = central \cup {e}
  /\ loop' = [loop EXCEPT !.pc = "ack"]
  /\ UNCHANGED <<access, acked, loopFaults, poison>>

Refuse(e) ==
  /\ Current(e) /\ e \in poison
  /\ Skip(e)
  /\ UNCHANGED <<access, central, acked, loopFaults, poison>>

\* The store does not answer: the event may or may not be in it.
AppendFails(e) ==
  /\ Current(e) /\ e \notin poison /\ loopFaults < MaxLoopFaults
  /\ loopFaults' = loopFaults + 1
  /\ central' \in {central, central \cup {e}}
  /\ Skip(e)
  /\ UNCHANGED <<access, acked, poison>>

AtAck(e) == loop.pc = "ack" /\ e \in loop.rows /\ \A f \in loop.rows : Stamp(e) <= Stamp(f)

Ack(e) ==
  /\ AtAck(e)
  /\ acked' = acked \cup {e}
  /\ Skip(e)
  /\ UNCHANGED <<access, central, loopFaults, poison>>

\* The transaction of the mark fails; the receipt stays pending.
AckFails(e) ==
  /\ AtAck(e) /\ loopFaults < MaxLoopFaults
  /\ loopFaults' = loopFaults + 1
  /\ Skip(e)
  /\ UNCHANGED <<access, central, acked, poison>>

\* The process restarts: cursor and watermark are in its memory.
Restart ==
  /\ loopFaults < MaxLoopFaults /\ loop # NoLoop
  /\ loopFaults' = loopFaults + 1
  /\ loop' = NoLoop
  /\ UNCHANGED <<access, central, acked, poison>>

-----------------------------------------------------------------------------
MemberInit ==
  /\ invite = [i \in Invitations |->
                 [st |-> IF i \in Issued THEN "active" ELSE "none", uses |-> 0,
                  ver |-> IF i \in Issued THEN 1 ELSE 0]]
  /\ join = [q \in Requests |-> [st |-> "none", user |-> NoUser, inv |-> "none"]]
  /\ member = [u \in Users |-> [st |-> "none", ver |-> 0]]
  /\ auth = [u \in Users |-> IF u \in Founders THEN [role |-> "workspace_admin", ver |-> 1]
                             ELSE [role |-> "none", ver |-> 0]]
  /\ acl = 1
  /\ org = [n \in 1..MaxOrg |-> NoOp] /\ admin = [n \in 1..MaxAdmin |-> NoOp]
  /\ central = {} /\ acked = {}
  /\ poison \in {{}} \cup {{e} : e \in Admin}
  /\ loop = NoLoop /\ loopFaults = 0

Manage ==
  \/ \E i \in Invitations : CreateInvitation(i) \/ RevokeInvitation(i, invite[i].ver)
  \/ \E q \in Requests, u \in Users, i \in Invitations : CreateJoin(q, u, i)
  \/ \E q \in Requests : ApproveJoin(q) \/ RejectJoin(q)
  \/ \E u \in Users, r \in JoinRoles : \E v \in 1..member[u].ver, av \in 1..auth[u].ver :
       ChangeJoinRole(u, r, v, av)
  \/ \E u \in Users, st \in {"active", "suspended"} : \E v \in 1..member[u].ver :
       SetMembership(u, st, v)
  \/ \E u \in Users, r \in Roles : \E v \in 1..auth[u].ver : ChangeWorkspaceRole(u, r, v)

Deliver ==
  \/ ReadAdminPage \/ ReadOrgPage
  \/ \E e \in Receipts : AppendReceipt(e) \/ Refuse(e) \/ Ack(e)

LoopFails == Restart \/ \E e \in Receipts : AppendFails(e) \/ AckFails(e)

MemberNext == Manage \/ Deliver \/ LoopFails

MemberSpec == MemberInit /\ [][MemberNext]_memberVars

\* The loop runs every minute, and its calls of database and store are bounded in time.
FairSpec == MemberSpec /\ WF_memberVars(Deliver)
-----------------------------------------------------------------------------
(* Types and properties.                                                   *)

MemberTypeOK ==
  /\ invite \in [Invitations -> [st : {"none", "active", "revoked"}, uses : 0..MaxUses,
                                 ver : 0..(MaxUses + 2)]]
  /\ DOMAIN join = Requests
  /\ \A q \in Requests : join[q].st \in {"none", "pending", "approved", "rejected"}
  /\ member \in [Users -> [st : {"none", "active", "suspended"}, ver : 0..MaxOrg]]
  /\ auth \in [Users -> [role : Roles \cup {"none"}, ver : 0..(MaxOrg + MaxAdmin + 1)]]
  /\ acl \in 1..(MaxOrg + MaxAdmin + 1)
  /\ acked \subseteq Receipts /\ central \subseteq Receipts /\ loopFaults \in 0..MaxLoopFaults
  /\ loop.pc \in {"admin", "org", "rows", "ack"} /\ loop.rows \subseteq Receipts

Grants == {"approve", "role", "changed"}
GrantsOf(u) == {e \in Receipts : Receipt(e).op \in Grants /\ Receipt(e).on = u}
FirstVersion(u) == IF u \in Founders THEN 1 ELSE 0

\* The receipts of both components together are the history of a role: one for each
\* version, made by somebody who saw the version before it, each beginning with the
\* role the one before it ended with.
RolesChained ==
  /\ acl = 1 + Cardinality({e \in Receipts : Receipt(e).op \in Grants})
  /\ \A u \in Users :
       /\ {Receipt(e).seen : e \in GrantsOf(u)} = FirstVersion(u)..(auth[u].ver - 1)
       /\ Cardinality(GrantsOf(u)) = auth[u].ver - FirstVersion(u)
       /\ \A e \in GrantsOf(u) :
            IF Receipt(e).seen = auth[u].ver - 1 THEN Receipt(e).to = auth[u].role
            ELSE \E f \in GrantsOf(u) :
                   Receipt(f).seen = Receipt(e).seen + 1 /\ Receipt(f).from = Receipt(e).to

Approved(S) == {q \in Requests : join[q].st = "approved" /\ <<join[q].user, join[q].inv>> \in S}

\* An invitation lets in as many as it was issued for, each through one request of their
\* own, and whoever was let in has a membership and a role.
InvitesAccounted ==
  /\ \A i \in Invitations :
       /\ invite[i].uses = Cardinality(Approved(Users \X {i}))
       /\ invite[i].st # "none" =>
            invite[i].ver = 1 + invite[i].uses + (IF invite[i].st = "revoked" THEN 1 ELSE 0)
  /\ \A u \in Users :
       /\ Cardinality(Approved({u} \X Invitations)) = (IF member[u].st = "none" THEN 0 ELSE 1)
       /\ Cardinality({q \in Requests : join[q].st = "pending" /\ join[q].user = u}) <= 1
       /\ member[u].st # "none" => auth[u].role # "none"

\* Whatever two administrators ask for, the workspace keeps one of its own.
AdminStays == \E u \in Users : Administers(u)

\* Access can be explained from the audit records, whichever component changed it.
AccessExplained ==
  MemberTypeOK /\ RolesChained /\ InvitesAccounted /\ AdminStays /\ acked \subseteq central

\* Every change reaches the central store and is ticked off, although an answer is lost,
\* the process restarts, or a receipt in front of it is refused for good.
SweepReaches ==
  <>[](\A e \in Receipts : (Written(e) /\ e \notin poison) => e \in acked)
=============================================================================
