------------------------------ MODULE Identity ------------------------------
(* Accounts, sessions, refresh families, step-up grants and the audit intents of
   identity.py, with the services that share its repository: account settings,
   the administrator's user directory and the Android browser login.

   One API process owns the repository and its lock serialises every transaction,
   so a transaction is an action; the dispatch of audit intents runs outside it.
   Each login creates a device of its own, so a device has the name of the session
   it was created with.  Secrets are the numbers of their versions.  Every expiry in this
   code only refuses a call, so an expired credential is one that nobody presents. *)
EXTENDS Naturals, FiniteSets

CONSTANTS
  Users,         \* accounts
  Local,         \* those with a password; the others come from an OIDC provider
  Sessions,      \* session ids
  Grants,        \* step-up authorizations
  Codes,         \* login transactions: Android browser codes and OIDC states
  Op,            \* a protected operation of another component
  NoUser, NoSession,
  MaxPassword,   \* bound: versions of a password
  MaxRotations,  \* bound: refresh tokens of a family
  MaxMail,       \* MAIL_REQUEST_MAX_PER_WINDOW: unused verification tokens of an account
  MaxReset,      \* and unused password reset tokens
  MaxRequests    \* bound: requests of administrators and devices that are trusted

ASSUME IdentityAssumption ==
  /\ Local \subseteq Users
  /\ NoUser \notin Users /\ NoSession \notin Sessions /\ Op \notin Sessions
  /\ MaxPassword \in Nat \ {0} /\ MaxRotations \in Nat \ {0} /\ MaxMail \in Nat /\ MaxReset \in Nat
  /\ MaxRequests \in Nat
  /\ Codes \cap {"password", "switch"} = {}

VARIABLES
  user,     \* account rows: state, password version, forced change, verified address
  mail,     \* unused verification and reset tokens of an account
  sess,     \* session rows with their device
  family,   \* refresh families
  reused,   \* sessions whose used refresh token was presented again (history)
  grant,    \* step-up authorizations
  uses,     \* how many operations a grant has authorized (history)
  code,     \* login transactions
  outbox,   \* audit intents of the logout or tenant switch that ended a session
  log,      \* sessions whose end is in the central audit store
  requests  \* those requests so far (bound)

vars == <<user, mail, sess, family, reused, grant, uses, code,
          outbox, log, requests>>

account == <<user, mail>>
access == <<sess, family, reused>>
stepUp == <<grant, uses>>
audit == <<outbox, log>>

\* Only a bound: no code counts its requests.
Request == requests < MaxRequests /\ requests' = requests + 1

UserStates == {"none", "pending_email", "pending_approval", "active", "suspended", "deleted"}

TypeOK ==
  /\ user \in [Users -> [st: UserStates, pw: 1..MaxPassword, must: BOOLEAN, verified: BOOLEAN,
                      first: BOOLEAN]]
  /\ mail \in [Users -> [verify: 0..MaxMail, reset: 0..MaxReset]]
  /\ sess \in [Sessions -> [st: {"none", "active", "revoked"}, user: Users \cup {NoUser},
                            kind: {"web", "native"}, device: {"registered", "trusted", "revoked"},
                            via: Codes \cup {"password", "switch"}, pw: 1..MaxPassword]]
  /\ family \in [Sessions -> [st: {"none", "active", "revoked"}, newest: 0..MaxRotations,
                              used: SUBSET (1..MaxRotations)]]
  /\ reused \subseteq Sessions
  /\ grant \in [Grants -> [st: {"none", "open", "used"},
                           session: Sessions \cup {NoSession},
                           target: Sessions \cup {Op, NoSession}]]
  /\ uses \in [Grants -> Nat]
  /\ code \in [Codes -> [st: {"none", "begun", "authorized", "used"},
                         user: Users \cup {NoUser}, pw: 1..MaxPassword]]
  /\ outbox \in [Sessions -> [kind: {"logout", "switch"}, st: {"none", "pending", "delivered"}]]
  /\ log \subseteq Sessions
  /\ requests \in 0..MaxRequests

----------------------------------------------------------------------------
(* Sessions and their credentials. *)

NoSess == [st |-> "none", user |-> NoUser, kind |-> "web", device |-> "registered",
           via |-> "password", pw |-> 1]
NoFamily == [st |-> "none", newest |-> 0, used |-> {}]
NewFamily == [st |-> "active", newest |-> 1, used |-> {}]

Init ==
  /\ \E first \in {{}} \cup {{u} : u \in Local} :
       user = [u \in Users |->
                 [st |-> IF u \in Local \ first THEN "none" ELSE "active", pw |-> 1,
                  must |-> u \in first, verified |-> FALSE, first |-> u \in first]]
  /\ mail = [u \in Users |-> [verify |-> 0, reset |-> 0]]
  /\ sess = [s \in Sessions |-> NoSess]
  /\ family = [s \in Sessions |-> NoFamily]
  /\ reused = {}
  /\ grant = [g \in Grants |-> [st |-> "none",
                                session |-> NoSession, target |-> NoSession]]
  /\ uses = [g \in Grants |-> 0]
  /\ code = [c \in Codes |-> [st |-> "none", user |-> NoUser, pw |-> 1]]
  /\ outbox = [s \in Sessions |-> [kind |-> "logout", st |-> "none"]]
  /\ log = {} /\ requests = 0

Of(u) == {s \in Sessions : sess[s].user = u}
Revoked(S) == [s \in Sessions |-> IF s \in S THEN [sess[s] EXCEPT !.st = "revoked"] ELSE sess[s]]
RevokedFamilies(S) ==
  [s \in Sessions |-> IF s \in S /\ family[s].st # "none"
                        THEN [family[s] EXCEPT !.st = "revoked"] ELSE family[s]]

RevokeSessionsOnly(u) == sess' = Revoked(Of(u)) /\ UNCHANGED family
RevokeUserSessions(u) == sess' = Revoked(Of(u)) /\ family' = RevokedFamilies(Of(u))

\* A login writes a device, a session and, for a native client, a refresh family.
OpenSession(s, u, kind, via, pw, old) ==
  /\ sess[s].st = "none"
  /\ sess' = [Revoked(old) EXCEPT ![s] =
                [st |-> "active", user |-> u, kind |-> kind, device |-> "registered",
                 via |-> via, pw |-> pw]]
  /\ family' = [RevokedFamilies(old) EXCEPT ![s] = IF kind = "native" THEN NewFamily ELSE NoFamily]
  /\ UNCHANGED reused

\* A presented access token is accepted.
Principal(s) == sess[s].st = "active"

----------------------------------------------------------------------------
(* Accounts and passwords. *)

Signup(u) ==
  /\ u \in Local /\ user[u].st = "none" /\ MaxMail > 0
  /\ user' = [user EXCEPT ![u] = [@ EXCEPT !.st = "pending_email"]]
  /\ mail' = [mail EXCEPT ![u].verify = 1]
  /\ UNCHANGED <<access, stepUp, code, audit, requests>>

\* Any unused token of the account, also one sent before the account was suspended.
VerifyEmail(u) ==
  /\ mail[u].verify > 0 /\ user[u].st # "deleted"
  /\ user' = [user EXCEPT ![u] = [@ EXCEPT !.st = "active", !.verified = TRUE]]
  /\ mail' = [mail EXCEPT ![u].verify = @ - 1]
  /\ UNCHANGED <<access, stepUp, code, audit, requests>>

ResendVerification(u) ==
  /\ user[u].st = "pending_email" /\ mail[u].verify < MaxMail
  /\ mail' = [mail EXCEPT ![u].verify = @ + 1]
  /\ UNCHANGED <<user, access, stepUp, code, audit, requests>>

RequestPasswordReset(u) ==
  /\ u \in Local /\ user[u].verified /\ user[u].st # "deleted" /\ mail[u].reset < MaxReset
  /\ mail' = [mail EXCEPT ![u].reset = @ + 1]
  /\ UNCHANGED <<user, access, stepUp, code, audit, requests>>

ConfirmKeepsSessions(u) ==
  /\ mail[u].reset > 0 /\ user[u].pw < MaxPassword
  /\ user' = [user EXCEPT ![u].pw = @ + 1]
  /\ mail' = [mail EXCEPT ![u].reset = @ - 1]
  /\ UNCHANGED <<access, stepUp, code, audit, requests>>

ConfirmPasswordReset(u) ==
  /\ mail[u].reset > 0 /\ user[u].pw < MaxPassword
  /\ user' = [user EXCEPT ![u].pw = @ + 1]
  /\ mail' = [mail EXCEPT ![u].reset = @ - 1]
  /\ RevokeUserSessions(u)
  /\ UNCHANGED <<reused, stepUp, code, audit, requests>>

\* Every session of the account is revoked, the one that asked included.
ChangeCurrentPassword(s) ==
  LET u == sess[s].user IN
  /\ Principal(s) /\ u \in Local /\ user[u].pw < MaxPassword
  /\ user' = [user EXCEPT ![u].pw = @ + 1, ![u].must = FALSE]
  /\ RevokeUserSessions(u)
  /\ UNCHANGED <<mail, reused, stepUp, code, audit, requests>>

----------------------------------------------------------------------------
(* Logins. *)

\* The initial administrator has no mail address that could be verified.
LocalLogin(u, s) ==
  /\ u \in Local /\ user[u].st = "active"
  /\ user[u].verified \/ user[u].first
  /\ OpenSession(s, u, "web", "password", user[u].pw, {})
  /\ UNCHANGED <<account, stepUp, code, audit, requests>>

LocalNativeLogin(u, s) ==
  /\ u \in Local /\ user[u].verified /\ user[u].st = "active"
  /\ OpenSession(s, u, "native", "password", user[u].pw, {})
  /\ UNCHANGED <<account, stepUp, code, audit, requests>>

\* begin of the Android browser login and begin_oidc_login
BeginCode(c) ==
  /\ code[c].st = "none"
  /\ code' = [code EXCEPT ![c].st = "begun"]
  /\ UNCHANGED <<account, access, stepUp, audit, requests>>

MaySelect(u) == user[u].st = "active" /\ ~user[u].must /\ (u \in Local => user[u].verified)

\* A web session vouches for the Android client; the code remembers account and tenant.
AuthorizeCode(c, s) ==
  LET u == sess[s].user IN
  /\ code[c].st = "begun"
  /\ Principal(s) /\ sess[s].kind = "web" /\ MaySelect(u)
  /\ code' = [code EXCEPT ![c] = [@ EXCEPT !.st = "authorized", !.user = u, !.pw = sess[s].pw]]
  /\ UNCHANGED <<account, access, stepUp, audit, requests>>

ExchangeCode(c, s) ==
  /\ code[c].st = "authorized" /\ MaySelect(code[c].user)
  /\ code' = [code EXCEPT ![c].st = "used"]
  /\ OpenSession(s, code[c].user, "native", c, code[c].pw, {})
  /\ UNCHANGED <<account, stepUp, audit, requests>>

\* The provider's claims select the account; its state is not looked at.
CompleteOidcLogin(c, u, s, kind) ==
  /\ u \in Users \ Local /\ user[u].st # "deleted"
  /\ code[c].st = "begun"
  /\ code' = [code EXCEPT ![c].st = "used"]
  /\ OpenSession(s, u, kind, c, user[u].pw, {})
  /\ UNCHANGED <<account, stepUp, audit, requests>>

SwitchSessionTenant(s, new) ==
  LET u == sess[s].user IN
  /\ Principal(s) /\ user[u].st = "active"
  /\ OpenSession(new, u, sess[s].kind,
                 IF sess[s].via = "password" THEN "password" ELSE "switch", sess[s].pw, {s})
  /\ outbox' = [outbox EXCEPT ![s] = [kind |-> "switch", st |-> "pending"]]
  /\ UNCHANGED <<account, stepUp, code, log, requests>>

----------------------------------------------------------------------------
(* Refresh tokens: token i of a family is used once, and using it again ends the session. *)

RotateRefresh(s, i) ==
  /\ i \in 1..family[s].newest /\ i \notin family[s].used
  /\ family[s].st = "active" /\ sess[s].st = "active"
  /\ family[s].newest < MaxRotations
  /\ family' = [family EXCEPT ![s].newest = @ + 1, ![s].used = @ \cup {i}]
  /\ UNCHANGED <<account, sess, reused, stepUp, code, audit, requests>>

ReplayRefresh(s, i) ==
  /\ i \in family[s].used
  /\ \/ /\ sess' = Revoked({s}) /\ family' = RevokedFamilies({s})
        /\ reused' = reused \cup {s}
     \/ UNCHANGED access
  /\ UNCHANGED <<account, stepUp, code, audit, requests>>

----------------------------------------------------------------------------
(* Step-up grants: bound to the session and the target they were issued for. *)

IssueStepUp(s, g, target) ==
  /\ Principal(s) /\ sess[s].user \in Local /\ grant[g].st = "none"
  /\ grant' = [grant EXCEPT ![g] =
                 [st |-> "open", session |-> s, target |-> target]]
  /\ UNCHANGED <<account, access, uses, code, audit, requests>>

GrantValidTwice(g, s, target) ==
  /\ grant[g].st # "none"
  /\ grant[g].session = s /\ grant[g].target = target

\* _consume_step_up without a record of the same operation: the first use
GrantValid(g, s, target) ==
  /\ grant[g].st = "open"
  /\ grant[g].session = s /\ grant[g].target = target

Spend(g) ==
  /\ grant' = [grant EXCEPT ![g].st = "used"]
  /\ uses' = [uses EXCEPT ![g] = @ + 1]

\* consume_step_up for an operation of another component.  A repeated call with the
\* operation's idempotency key is answered again and changes nothing.
ConsumeStepUp(s, g) ==
  /\ Principal(s) /\ GrantValid(g, s, Op)
  /\ Spend(g)
  /\ UNCHANGED <<account, access, code, audit, requests>>

\* The targets of revocations belong to the account of the caller and are not revoked yet.
OwnSession(s, t) == sess[t].user = sess[s].user /\ sess[t].st = "active"
OwnDevice(s, t) == sess[t].user = sess[s].user /\ sess[t].st # "none" /\ sess[t].device # "revoked"

ActiveUser(s) == Principal(s) /\ user[sess[s].user].st = "active" /\ ~user[sess[s].user].must

RevokeSession(s, t, g) ==
  /\ ActiveUser(s) /\ OwnSession(s, t) /\ GrantValid(g, s, t)
  /\ Spend(g)
  /\ sess' = Revoked({t}) /\ family' = RevokedFamilies({t})
  /\ UNCHANGED <<account, reused, code, audit, requests>>

RevokeDevice(s, t, g) ==
  /\ ActiveUser(s) /\ OwnDevice(s, t) /\ GrantValid(g, s, t)
  /\ Spend(g)
  /\ sess' = [Revoked({t}) EXCEPT ![t].device = "revoked"]
  /\ family' = RevokedFamilies({t})
  /\ UNCHANGED <<account, reused, code, audit, requests>>

TrustUnchecked(s) ==
  /\ sess[s].st # "none"
  /\ sess' = [sess EXCEPT ![s].device = "trusted"]
  /\ Request
  /\ UNCHANGED <<account, family, reused, stepUp, code, audit>>

TrustDevice(s) ==
  /\ ActiveUser(s) /\ sess[s].device # "revoked"
  /\ sess' = [sess EXCEPT ![s].device = "trusted"]
  /\ Request
  /\ UNCHANGED <<account, family, reused, stepUp, code, audit>>

\* Logout writes the revocation and its audit intent together.  A web session of an
\* OIDC login carries an hour's expiry that Principal ignores and logout does not:
\* after it, logout is answered as a replay and changes nothing.
EndSession(s) ==
  /\ sess[s].st = "active"
  /\ sess' = Revoked({s}) /\ family' = RevokedFamilies({s})
  /\ outbox' = [outbox EXCEPT ![s] = [kind |-> "logout", st |-> "pending"]]
  /\ UNCHANGED <<account, reused, stepUp, code, log, requests>>

RevokeCurrentWebSession(s) == sess[s].kind = "web" /\ EndSession(s)
RevokeCurrentNativeSession(s) == sess[s].kind = "native" /\ EndSession(s)

----------------------------------------------------------------------------
(* The administrator's directory.  A request repeated with its idempotency key is answered
   from its reservation row and changes nothing, like a repeated account request above. *)

CreateUser(u) ==
  /\ u \in Local /\ user[u].st = "none"
  /\ user' = [user EXCEPT ![u] = [@ EXCEPT !.st = "pending_approval", !.must = TRUE]]
  /\ Request
  /\ UNCHANGED <<mail, access, stepUp, code, audit>>

ChangeState(u, st) ==
  /\ user[u].st \in {"pending_approval", "active", "suspended"}
  /\ st = "suspended" => ~user[u].first
  /\ user' = [user EXCEPT ![u].st = st,
                          ![u].verified = @ \/ (st = "active" /\ user[u].st = "pending_approval")]
  /\ IF user[u].st # st THEN RevokeUserSessions(u) ELSE UNCHANGED <<sess, family>>
  /\ Request
  /\ UNCHANGED <<mail, reused, stepUp, code, audit>>

AdminPasswordReset(u) ==
  /\ u \in Local /\ user[u].st = "active" /\ user[u].verified /\ mail[u].reset < MaxReset
  /\ mail' = [mail EXCEPT ![u].reset = @ + 1]
  /\ RevokeUserSessions(u)
  /\ Request
  /\ UNCHANGED <<user, reused, stepUp, code, audit>>

\* The server console gives the initial administrator the first password again.
ResetInitialAdmin(u) ==
  /\ user[u].first /\ user[u].pw < MaxPassword
  /\ user' = [user EXCEPT ![u].pw = @ + 1, ![u].must = TRUE]
  /\ RevokeUserSessions(u)
  /\ UNCHANGED <<mail, reused, stepUp, code, audit, requests>>

\* Grants refer to sessions and are not deleted: the foreign key refuses the deletion
\* of an account that ever had one.  Undelivered logout intents go with their sessions.
DeleteUser(u) ==
  /\ user[u].st \notin {"none", "deleted"} /\ ~user[u].first
  /\ \A g \in Grants : grant[g].session \notin Of(u)
  /\ user' = [user EXCEPT ![u].st = "deleted"]
  /\ mail' = [mail EXCEPT ![u] = [verify |-> 0, reset |-> 0]]
  /\ sess' = [s \in Sessions |-> IF s \in Of(u) THEN [sess[s] EXCEPT !.st = "revoked"] ELSE sess[s]]
  /\ family' = [s \in Sessions |-> IF s \in Of(u) THEN NoFamily ELSE family[s]]
  /\ outbox' = [s \in Sessions |-> IF s \in Of(u) /\ outbox[s].kind = "logout"
                                   THEN [outbox[s] EXCEPT !.st = "none"] ELSE outbox[s]]
  /\ Request
  /\ UNCHANGED <<reused, stepUp, code, log>>

----------------------------------------------------------------------------
(* Delivery of audit intents: append to the central store, then mark.  A dispatcher that
   fails or dies in between leaves the intent to the next one, which meets a duplicate. *)

AppendEvent(e) ==
  /\ outbox[e].st = "pending"
  /\ log' = log \cup {e}
  /\ UNCHANGED <<account, access, stepUp, code, outbox, requests>>

Mark(e) ==
  /\ outbox[e].st = "pending" /\ e \in log
  /\ outbox' = [outbox EXCEPT ![e].st = "delivered"]
  /\ UNCHANGED <<account, access, stepUp, code, log, requests>>

----------------------------------------------------------------------------
AccountStep ==
  \E u \in Users :
    \/ Signup(u) \/ VerifyEmail(u) \/ ResendVerification(u)
    \/ RequestPasswordReset(u) \/ ConfirmPasswordReset(u)

LoginStep ==
  \E s \in Sessions :
    \/ ChangeCurrentPassword(s)
    \/ \E u \in Users : LocalLogin(u, s) \/ LocalNativeLogin(u, s)
    \/ \E c \in Codes :
         \/ BeginCode(c) \/ AuthorizeCode(c, s) \/ ExchangeCode(c, s)
         \/ \E u \in Users, kind \in {"web", "native"} : CompleteOidcLogin(c, u, s, kind)
    \/ \E new \in Sessions : SwitchSessionTenant(s, new)
    \/ \E i \in 1..MaxRotations : RotateRefresh(s, i) \/ ReplayRefresh(s, i)
    \/ RevokeCurrentWebSession(s) \/ RevokeCurrentNativeSession(s)

GrantStep ==
  \E g \in Grants :
    \/ \E s \in Sessions :
         \/ \E t \in Sessions \cup {Op} : IssueStepUp(s, g, t)
         \/ ConsumeStepUp(s, g)
         \/ \E t \in Sessions : RevokeSession(s, t, g) \/ RevokeDevice(s, t, g)

AdminStep ==
  \/ \E s \in Sessions : TrustDevice(s)
  \/ \E u \in Users :
         \/ CreateUser(u) \/ AdminPasswordReset(u) \/ DeleteUser(u) \/ ResetInitialAdmin(u)
         \/ \E st \in {"active", "suspended"} : ChangeState(u, st)

AuditStep == \E e \in Sessions : AppendEvent(e) \/ Mark(e)

Next == AccountStep \/ LoginStep \/ GrantStep \/ AdminStep \/ AuditStep

Spec == Init /\ [][Next]_vars

----------------------------------------------------------------------------
(* Properties. *)

\* A refresh family lives exactly as long as its session, and of the tokens of a live
\* family exactly the newest is unused: no operation revokes one without the other.
FamilyAgrees ==
  \A s \in Sessions :
    /\ sess[s].st = "active" /\ sess[s].kind = "native" <=> family[s].st = "active"
    /\ family[s].st = "active" => (1..family[s].newest) \ family[s].used = {family[s].newest}

\* A refresh token that came back after its use has ended its session for good, although
\* the holder of the newest token did nothing wrong (rotate_refresh).  A replay whose audit
\* append fails is rolled back and counts as not answered.
ReuseEndsSession ==
  \A s \in reused : sess[s].st = "revoked" /\ family[s].st # "active"

\* An account with a password that is not active has no live session, whichever of
\* suspension, approval, deletion and login came first.
SuspendedOut ==
  \A s \in Sessions : sess[s].st = "active" /\ sess[s].user \in Local => user[sess[s].user].st = "active"

\* A live session was opened with the password the account has now, also after tenant
\* switches.  A session from a browser code is excepted: a code authorized before
\* the password changed is still exchanged after it.
PasswordCurrent ==
  \A s \in Sessions :
    sess[s].st = "active" /\ sess[s].user \in Local /\ sess[s].via = "password"
      => sess[s].pw = user[sess[s].user].pw

\* A revoked device carries no live session and stays revoked.
DeviceGone ==
  \A s \in Sessions : sess[s].device = "revoked" => sess[s].st = "revoked"

\* A grant authorizes at most one operation, on the target it was issued for: once a grant
\* for a revocation is used, its target is revoked.
GrantOnce ==
  \A g \in Grants :
    /\ uses[g] = IF grant[g].st = "used" THEN 1 ELSE 0
    /\ grant[g].st = "used" /\ grant[g].target \in Sessions => sess[grant[g].target].st = "revoked"

\* A browser code or OIDC state opens at most one session, however often it is presented.
CodeOnce ==
  \A c \in Codes : Cardinality({s \in Sessions : sess[s].via = c}) <= 1

\* An intent is marked delivered only when the central store has its event, whichever
\* dispatcher died between the two writes.
DeliveredLogged == \A e \in Sessions : outbox[e].st = "delivered" => e \in log

\* Nothing brings a revoked session, a revoked device or a spent grant back.
RevocationFinal ==
  [][/\ \A s \in Sessions :
          /\ sess[s].st = "revoked" => sess'[s].st = "revoked"
          /\ sess[s].device = "revoked" => sess'[s].device = "revoked"
     /\ \A g \in Grants : grant[g].st = "used" => grant'[g].st = "used"]_vars

\* Sessions end together with their family and their device, and an audit intent is
\* marked only when its event is in the central store.
SessionsAgree == TypeOK /\ FamilyAgrees /\ DeviceGone /\ DeliveredLogged

\* Nobody stays inside after a suspension, a new password or the reuse of a token.
LockedOut == SuspendedOut /\ PasswordCurrent /\ ReuseEndsSession

\* Step-up grants, browser codes and OIDC states work once.
UsedOnce == GrantOnce /\ CodeOnce
=============================================================================
