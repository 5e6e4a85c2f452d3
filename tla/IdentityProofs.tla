--------------------------- MODULE IdentityProofs ---------------------------
(* Proofs about Identity, for every number of accounts, sessions, grants and login
   transactions.  Many operations end sessions and one operator opens them, so the
   proofs are in two layers: what each way of changing the session and family tables
   keeps (AccessOK, Kept), and what the operations build on it.  At the end the proofs
   about OfflineStudio. *)
EXTENDS Identity, OfflineStudio, FiniteSetTheorems, SequenceTheorems, TLAPS

UserType == [st: UserStates, pw: 1..MaxPassword, must: BOOLEAN, verified: BOOLEAN, first: BOOLEAN]
SessType == [st: {"none", "active", "revoked"}, user: Users \cup {NoUser},
             kind: {"web", "native"}, device: {"registered", "trusted", "revoked"},
             via: Codes \cup {"password", "switch"}, pw: 1..MaxPassword]
FamilyType == [st: {"none", "active", "revoked"}, newest: 0..MaxRotations,
               used: SUBSET (1..MaxRotations)]

\* A session and its family: both or neither exist, they are live together, and the
\* used tokens of a live family are all but the newest.
SessionOK(s) ==
  /\ sess[s].st = "none" <=> sess[s].user = NoUser
  /\ sess[s].st = "none" => family[s].st = "none"
  /\ family[s].st = "none" => family[s].used = {}
  /\ (sess[s].st = "active" /\ sess[s].kind = "native") <=> family[s].st = "active"
  /\ family[s].st = "active" => family[s].newest > 0 /\ family[s].used = 1..(family[s].newest - 1)
  /\ sess[s].device = "revoked" => sess[s].st = "revoked"

AccessOK ==
  /\ sess \in [Sessions -> SessType] /\ family \in [Sessions -> FamilyType]
  /\ \A s \in Sessions : SessionOK(s)

\* A login transaction that is not used up has opened no session, one that is has opened
\* one; an authorized one knows its account.
CodesOpenOne ==
  /\ \A c \in Codes : code[c].st = "authorized" => code[c].user \in Users
  /\ \A s \in Sessions : sess[s].via \in Codes =>
       /\ code[sess[s].via].st = "used"
       /\ \A t \in Sessions : sess[t].via = sess[s].via => t = s

\* The tables other than sessions and families.
OthersTyped ==
  /\ user \in [Users -> UserType]
  /\ mail \in [Users -> [verify: 0..MaxMail, reset: 0..MaxReset]]
  /\ reused \subseteq Sessions
  /\ grant \in [Grants -> [st: {"none", "open", "used"}, session: Sessions \cup {NoSession},
                           target: Sessions \cup {Op, NoSession}]]
  /\ uses \in [Grants -> Nat]
  /\ code \in [Codes -> [st: {"none", "begun", "authorized", "used"},
                         user: Users \cup {NoUser}, pw: 1..MaxPassword]]
  /\ outbox \in [Sessions -> [kind: {"logout", "switch"}, st: {"none", "pending", "delivered"}]]
  /\ log \subseteq Sessions
  /\ requests \in 0..MaxRequests

IdentityInv ==
  OthersTyped /\ AccessOK /\ LockedOut /\ GrantOnce /\ CodesOpenOne /\ DeliveredLogged

----------------------------------------------------------------------------
(* Changes of the session and family tables. *)

\* A session that goes on or ends: whose it is and how it was opened never change,
\* and what is revoked stays revoked.
Kept(s) ==
  /\ sess'[s].user = sess[s].user /\ sess'[s].via = sess[s].via /\ sess'[s].pw = sess[s].pw
  /\ sess'[s].st = sess[s].st \/ (sess[s].st # "none" /\ sess'[s].st = "revoked")
  /\ sess[s].device = "revoked" => sess'[s].device = "revoked"

\* A step that leaves sessions and refresh families alone keeps what access rests on.
LEMMA Unmoved ==
  ASSUME AccessOK, UNCHANGED <<sess, family>>
  PROVE  AccessOK' /\ \A s \in Sessions : Kept(s)
BY DEF AccessOK, SessionOK, Kept

\* The session and family of s after a revocation of the sessions in S.
LEMMA RevokedOne ==
  ASSUME AccessOK, NEW S, NEW s \in Sessions
  PROVE  /\ Revoked(S)[s] \in SessType /\ RevokedFamilies(S)[s] \in FamilyType
         /\ s \notin S => Revoked(S)[s] = sess[s] /\ RevokedFamilies(S)[s] = family[s]
         /\ s \in S => /\ Revoked(S)[s].st = "revoked"
                       /\ Revoked(S)[s].user = sess[s].user /\ Revoked(S)[s].via = sess[s].via
                       /\ Revoked(S)[s].pw = sess[s].pw /\ Revoked(S)[s].device = sess[s].device
                       /\ Revoked(S)[s].kind = sess[s].kind
                       /\ RevokedFamilies(S)[s].st = IF family[s].st = "none" THEN "none" ELSE "revoked"
                       /\ RevokedFamilies(S)[s].used = family[s].used
<1>1. sess[s] \in SessType /\ family[s] \in FamilyType
  BY DEF AccessOK
<1>2. /\ Revoked(S)[s] = IF s \in S THEN [sess[s] EXCEPT !.st = "revoked"] ELSE sess[s]
      /\ RevokedFamilies(S)[s] = IF s \in S /\ family[s].st # "none"
                                   THEN [family[s] EXCEPT !.st = "revoked"] ELSE family[s]
  BY DEF Revoked, RevokedFamilies
<1> QED
  BY <1>1, <1>2 DEF SessType, FamilyType

\* The tables after a revocation still have their types.
LEMMA RevokedTables ==
  ASSUME AccessOK, NEW S
  PROVE  Revoked(S) \in [Sessions -> SessType] /\ RevokedFamilies(S) \in [Sessions -> FamilyType]
<1>1. \A s \in Sessions : Revoked(S)[s] \in SessType /\ RevokedFamilies(S)[s] \in FamilyType
  BY RevokedOne
<1> QED
  BY <1>1 DEF Revoked, RevokedFamilies

\* Revoking a set of sessions with their families keeps what access rests on.
LEMMA Revocation ==
  ASSUME AccessOK, NEW S, \A s \in S : s \in Sessions /\ sess[s].st # "none",
         sess' = Revoked(S), family' = RevokedFamilies(S)
  PROVE  /\ AccessOK'
         /\ \A s \in Sessions : Kept(s)
         /\ \A s \in S : sess'[s].st = "revoked"
<1>1. sess' \in [Sessions -> SessType] /\ family' \in [Sessions -> FamilyType]
  BY RevokedTables
<1>2. ASSUME NEW s \in Sessions PROVE SessionOK(s)' /\ Kept(s) /\ (s \in S => sess'[s].st = "revoked")
  <2>1. SessionOK(s)
    BY DEF AccessOK
  <2>2. CASE s \notin S
    BY <2>1, <2>2, RevokedOne DEF SessionOK, Kept
  <2>3. CASE s \in S
    BY <2>1, <2>3, RevokedOne DEF SessionOK, Kept
  <2> QED
    BY <2>2, <2>3
<1> QED
  BY <1>1, <1>2 DEF AccessOK

\* The sessions of an account exist.
LEMMA OfExist ==
  ASSUME AccessOK, NEW u \in Users
  PROVE  \A s \in Of(u) : s \in Sessions /\ sess[s].st # "none"
BY IdentityAssumption DEF AccessOK, SessionOK, Of

\* So does opening a session with a fresh family.
LEMMA Opening ==
  ASSUME AccessOK, NEW s \in Sessions, NEW u \in Users, NEW kind \in {"web", "native"},
         NEW via \in Codes \cup {"password", "switch"}, NEW pw \in 1..MaxPassword,
         NEW old, \A t \in old : t \in Sessions /\ sess[t].st # "none",
         OpenSession(s, u, kind, via, pw, old)
  PROVE  /\ AccessOK' /\ UNCHANGED reused
         /\ \A t \in Sessions \ {s} : Kept(t)
         /\ \A t \in old : sess'[t].st = "revoked"
         /\ sess[s].st = "none" /\ sess[s].device # "revoked"
         /\ sess'[s].st = "active" /\ sess'[s].user = u /\ sess'[s].via = via /\ sess'[s].pw = pw
         /\ family'[s].st \in {"none", "active"}
<1> DEFINE x == [st |-> "active", user |-> u, kind |-> kind, device |-> "registered",
                 via |-> via, pw |-> pw]
           y == IF kind = "native" THEN NewFamily ELSE NoFamily
<1>1. x \in SessType
  BY DEF SessType
<1>2. y \in FamilyType
  BY IdentityAssumption DEF FamilyType, NewFamily, NoFamily
<1>3. /\ sess[s].st = "none"
      /\ sess' = [Revoked(old) EXCEPT ![s] = x]
      /\ family' = [RevokedFamilies(old) EXCEPT ![s] = y]
  BY DEF OpenSession
<1>4. /\ sess' \in [Sessions -> SessType] /\ family' \in [Sessions -> FamilyType]
      /\ sess'[s] = x /\ family'[s] = y
      /\ \A t \in Sessions : t # s => sess'[t] = Revoked(old)[t] /\ family'[t] = RevokedFamilies(old)[t]
  BY <1>1, <1>2, <1>3, RevokedTables
<1>5. SessionOK(s)'
  <2>1. y.st = (IF kind = "native" THEN "active" ELSE "none") /\ y.used = {}
        /\ (kind = "native" => y.newest = 1)
    BY DEF NewFamily, NoFamily
  <2>2. 1..(1 - 1) = {}
    BY SMT
  <2>3. u # NoUser
    BY IdentityAssumption
  <2>4. x.st = "active" /\ x.user = u /\ x.kind = kind /\ x.device = "registered"
    OBVIOUS
  <2> HIDE DEF x, y
  <2> QED
    BY <1>4, <2>1, <2>2, <2>3, <2>4 DEF SessionOK
<1>6. ASSUME NEW t \in Sessions, t # s
      PROVE  SessionOK(t)' /\ Kept(t) /\ (t \in old => sess'[t].st = "revoked")
  <2>1. SessionOK(t) /\ sess'[t] = Revoked(old)[t] /\ family'[t] = RevokedFamilies(old)[t]
    BY <1>4, <1>6 DEF AccessOK
  <2>2. CASE t \notin old
    BY <2>1, <2>2, RevokedOne DEF SessionOK, Kept
  <2>3. CASE t \in old
    BY <2>1, <2>3, RevokedOne DEF SessionOK, Kept
  <2> QED
    BY <2>2, <2>3
<1>7. AccessOK'
  BY <1>4, <1>5, <1>6 DEF AccessOK
<1>8. s \notin old
  BY <1>3
<1>9. sess[s].device # "revoked"
  BY <1>3 DEF AccessOK, SessionOK
<1>10. /\ sess'[s].st = "active" /\ sess'[s].user = u /\ sess'[s].via = via /\ sess'[s].pw = pw
       /\ family'[s].st \in {"none", "active"}
  BY <1>4 DEF NewFamily, NoFamily
<1> QED
  BY <1>3, <1>6, <1>7, <1>8, <1>9, <1>10 DEF OpenSession

\* So does revoking a device with the sessions on it.
LEMMA DeviceRevocation ==
  ASSUME AccessOK, NEW t \in Sessions, sess[t].st # "none",
         sess' = [Revoked({t}) EXCEPT ![t].device = "revoked"], family' = RevokedFamilies({t})
  PROVE  AccessOK' /\ sess'[t].st = "revoked" /\ \A s \in Sessions : Kept(s)
<1> DEFINE x == Revoked({t})[t]
<1>1. x \in SessType
  BY RevokedOne
<1>2. [x EXCEPT !.device = "revoked"] \in SessType
  BY <1>1 DEF SessType
<1>3. Revoked({t}) \in [Sessions -> SessType] /\ family' \in [Sessions -> FamilyType]
  BY RevokedTables
<1>4. /\ sess' \in [Sessions -> SessType] /\ sess'[t] = [x EXCEPT !.device = "revoked"]
      /\ \A s \in Sessions : s # t => sess'[s] = Revoked({t})[s]
  BY <1>2, <1>3
<1>5. /\ sess'[t].st = x.st /\ sess'[t].user = x.user /\ sess'[t].via = x.via
      /\ sess'[t].pw = x.pw /\ sess'[t].kind = x.kind /\ sess'[t].device = "revoked"
  BY <1>1, <1>4 DEF SessType
<1> HIDE DEF x
<1>6. x = Revoked({t})[t]
  BY DEF x
<1>7. SessionOK(t)' /\ Kept(t) /\ sess'[t].st = "revoked"
  BY <1>5, <1>6, RevokedOne DEF AccessOK, SessionOK, Kept
<1>8. ASSUME NEW s \in Sessions, s # t PROVE SessionOK(s)' /\ Kept(s)
  <2>1. sess'[s] = sess[s] /\ family'[s] = family[s] /\ SessionOK(s)
    BY <1>4, <1>8, RevokedOne DEF AccessOK
  <2> QED
    BY <2>1 DEF SessionOK, Kept
<1> QED
  BY <1>3, <1>4, <1>7, <1>8 DEF AccessOK

\* So does trusting a device.
LEMMA Trusting ==
  ASSUME AccessOK, NEW t \in Sessions, sess[t].device # "revoked",
         sess' = [sess EXCEPT ![t].device = "trusted"], UNCHANGED family
  PROVE  AccessOK' /\ \A s \in Sessions : Kept(s)
<1>1. sess[t] \in SessType
  BY DEF AccessOK
<1>2. [sess[t] EXCEPT !.device = "trusted"] \in SessType
  BY <1>1 DEF SessType
<1>3. /\ sess' \in [Sessions -> SessType] /\ sess'[t] = [sess[t] EXCEPT !.device = "trusted"]
      /\ \A s \in Sessions : s # t => sess'[s] = sess[s]
  BY <1>2 DEF AccessOK
<1>4. /\ sess'[t].st = sess[t].st /\ sess'[t].user = sess[t].user /\ sess'[t].via = sess[t].via
      /\ sess'[t].pw = sess[t].pw /\ sess'[t].kind = sess[t].kind /\ sess'[t].device = "trusted"
  BY <1>1, <1>3 DEF SessType
<1>5. \A s \in Sessions : SessionOK(s)' /\ Kept(s)
  BY <1>3, <1>4 DEF AccessOK, SessionOK, Kept
<1> QED
  BY <1>3, <1>5 DEF AccessOK

\* Of a live family only the newest token is unused, so that is the one that is rotated.
LEMMA Rotation ==
  ASSUME AccessOK, NEW t \in Sessions, NEW i, i \in 1..family[t].newest, i \notin family[t].used,
         family[t].st = "active", family[t].newest < MaxRotations,
         family' = [family EXCEPT ![t].newest = @ + 1, ![t].used = @ \cup {i}],
         UNCHANGED sess
  PROVE  AccessOK' /\ \A s \in Sessions : Kept(s)
<1> DEFINE f == family[t]
           y == [f EXCEPT !.newest = f.newest + 1, !.used = f.used \cup {i}]
<1>1. f \in FamilyType /\ MaxRotations \in Nat
  BY IdentityAssumption DEF AccessOK
<1>2. f.newest \in Nat /\ f.newest > 0 /\ f.used = 1..(f.newest - 1)
  BY <1>1 DEF AccessOK, SessionOK, FamilyType
<1>3. i = f.newest
  BY <1>2
<1>4. f.used \cup {i} = 1..((f.newest + 1) - 1)
  BY <1>2, <1>3
<1>5. f.newest + 1 \in 0..MaxRotations /\ f.used \cup {i} \in SUBSET (1..MaxRotations)
  BY <1>1, <1>2, <1>3
<1>6. y \in FamilyType
  BY <1>1, <1>5 DEF FamilyType
<1>7. y.st = f.st /\ y.newest = f.newest + 1 /\ y.used = f.used \cup {i}
  BY <1>1 DEF FamilyType
<1>8. family' = [family EXCEPT ![t] = y]
  BY DEF AccessOK
<1> HIDE DEF y
<1>9. /\ family' \in [Sessions -> FamilyType] /\ family'[t] = y
      /\ \A s \in Sessions : s # t => family'[s] = family[s]
  BY <1>6, <1>8 DEF AccessOK
<1>10. SessionOK(t)'
  BY <1>2, <1>4, <1>7, <1>9 DEF AccessOK, SessionOK
<1>11. \A s \in Sessions : s # t => SessionOK(s)'
  BY <1>9 DEF AccessOK, SessionOK
<1> QED
  BY <1>9, <1>10, <1>11 DEF AccessOK, Kept

\* So does deleting an account.
LEMMA Deletion ==
  ASSUME AccessOK, NEW u \in Users,
         sess' = [s \in Sessions |-> IF s \in Of(u) THEN [sess[s] EXCEPT !.st = "revoked"] ELSE sess[s]],
         family' = [s \in Sessions |-> IF s \in Of(u) THEN NoFamily ELSE family[s]]
  PROVE  AccessOK' /\ \A s \in Sessions : Kept(s) /\ (s \in Of(u) => sess'[s].st = "revoked")
<1>1. sess' = Revoked(Of(u))
  BY DEF Revoked
<1>2. NoFamily \in FamilyType
  BY IdentityAssumption DEF FamilyType, NoFamily
<1>3. sess' \in [Sessions -> SessType] /\ family' \in [Sessions -> FamilyType]
  BY <1>1, <1>2, RevokedTables DEF AccessOK
<1>4. NoFamily.st = "none" /\ NoFamily.used = {}
  BY DEF NoFamily
<1>5. ASSUME NEW s \in Sessions
      PROVE  SessionOK(s)' /\ Kept(s) /\ (s \in Of(u) => sess'[s].st = "revoked")
  <2>1. CASE s \in Of(u)
    <3>1. family'[s] = NoFamily /\ sess[s].st # "none"
      BY <2>1, OfExist
    <3> QED
      BY <1>1, <1>4, <2>1, <3>1, RevokedOne DEF AccessOK, SessionOK, Kept
  <2>2. CASE s \notin Of(u)
    <3>1. family'[s] = family[s] /\ sess'[s] = sess[s] /\ SessionOK(s)
      BY <2>2 DEF AccessOK
    <3> QED
      BY <2>2, <3>1 DEF SessionOK, Kept
  <2> QED
    BY <2>1, <2>2
<1> QED
  BY <1>3, <1>5 DEF AccessOK

----------------------------------------------------------------------------
(* What the other invariants keep while no session is opened. *)

\* Lockout survives a step that keeps every session and, under an active one, neither locks
\* the account nor changes its password.
LEMMA LockedOutKept ==
  ASSUME IdentityInv, AccessOK', \A s \in Sessions : Kept(s), UNCHANGED reused,
         \A s \in Sessions : sess'[s].st = "active" /\ sess[s].user \in Local =>
           /\ user'[sess[s].user].st \in {user[sess[s].user].st, "active"}
           /\ user'[sess[s].user].pw = user[sess[s].user].pw
  PROVE  LockedOut'
<1>1. SuspendedOut' /\ PasswordCurrent'
  BY DEF IdentityInv, LockedOut, SuspendedOut, PasswordCurrent, Kept
<1>2. ReuseEndsSession'
  BY DEF IdentityInv, LockedOut, ReuseEndsSession, Kept, AccessOK, SessionOK, OthersTyped
<1> QED
  BY <1>1, <1>2 DEF LockedOut

\* A step that leaves the grants alone and revives no session keeps GrantOnce.
LEMMA GrantsKept ==
  ASSUME IdentityInv, \A s \in Sessions : sess[s].st = "revoked" => sess'[s].st = "revoked",
         UNCHANGED <<grant, uses>>
  PROVE  GrantOnce'
BY DEF IdentityInv, GrantOnce

\* A step that opens no session and reopens no used code keeps CodesOpenOne.
LEMMA CodesKept ==
  ASSUME IdentityInv, \A s \in Sessions : sess'[s].via = sess[s].via,
         \A c \in Codes : /\ code[c].st = "used" => code'[c].st = "used"
                          /\ code'[c].st = "authorized" => code'[c].user \in Users
  PROVE  CodesOpenOne'
BY DEF IdentityInv, CodesOpenOne

----------------------------------------------------------------------------
(* The operations. *)

\* A changed account row is a row, and the others are as they were.
LEMMA UserChanged ==
  ASSUME OthersTyped, NEW u \in Users, NEW x \in UserType, user' = [user EXCEPT ![u] = x]
  PROVE  /\ user' \in [Users -> UserType] /\ user'[u] = x
         /\ \A v \in Users : v # u => user'[v] = user[v]
BY DEF OthersTyped

\* A step that counts one mail of one user leaves the mail table typed.
LEMMA MailChanged ==
  ASSUME OthersTyped, NEW u \in Users,
         \/ \E n \in 0..MaxMail : mail' = [mail EXCEPT ![u].verify = n]
         \/ \E n \in 0..MaxReset : mail' = [mail EXCEPT ![u].reset = n]
  PROVE  mail' \in [Users -> [verify: 0..MaxMail, reset: 0..MaxReset]]
<1>1. mail[u] \in [verify: 0..MaxMail, reset: 0..MaxReset]
  BY DEF OthersTyped
<1>2. ASSUME NEW n \in 0..MaxMail, mail' = [mail EXCEPT ![u].verify = n]
      PROVE  mail' \in [Users -> [verify: 0..MaxMail, reset: 0..MaxReset]]
  <2>1. [mail[u] EXCEPT !.verify = n] \in [verify: 0..MaxMail, reset: 0..MaxReset]
    BY <1>1
  <2> QED
    BY <1>2, <2>1 DEF OthersTyped
<1>3. ASSUME NEW n \in 0..MaxReset, mail' = [mail EXCEPT ![u].reset = n]
      PROVE  mail' \in [Users -> [verify: 0..MaxMail, reset: 0..MaxReset]]
  <2>1. [mail[u] EXCEPT !.reset = n] \in [verify: 0..MaxMail, reset: 0..MaxReset]
    BY <1>1
  <2> QED
    BY <1>3, <2>1 DEF OthersTyped
<1> QED
  BY <1>2, <1>3

\* The sessions of an account are revoked together.
LEMMA UserRevocation ==
  ASSUME AccessOK, NEW u \in Users, RevokeUserSessions(u)
  PROVE  /\ AccessOK' /\ \A s \in Sessions : Kept(s)
         /\ \A s \in Sessions : sess[s].user = u => sess'[s].st = "revoked"
<1>1. AccessOK' /\ (\A s \in Sessions : Kept(s)) /\ \A s \in Of(u) : sess'[s].st = "revoked"
  BY OfExist, Revocation DEF RevokeUserSessions
<1> QED
  BY <1>1 DEF Of

\* The console's reset of the initial administrator's password keeps the invariant.
LEMMA ConsoleInv ==
  ASSUME IdentityInv, NEW u \in Users, ResetInitialAdmin(u)
  PROVE  IdentityInv'
<1> USE DEF IdentityInv
<1>1. user[u] \in UserType /\ UNCHANGED <<mail, reused, grant, uses, code, outbox, log, requests>>
  BY DEF OthersTyped, ResetInitialAdmin, stepUp, audit
<1>2. AccessOK' /\ (\A s \in Sessions : Kept(s))
      /\ \A s \in Sessions : sess[s].user = u => sess'[s].st = "revoked"
  BY UserRevocation DEF ResetInitialAdmin
<1>3. user[u].pw + 1 \in 1..MaxPassword
  BY <1>1, IdentityAssumption DEF ResetInitialAdmin, UserType
<1> DEFINE y == [user[u] EXCEPT !.pw = user[u].pw + 1, !.must = TRUE]
<1>4. y \in UserType
  BY <1>1, <1>3 DEF UserType
<1>5. user' = [user EXCEPT ![u] = y]
  BY DEF ResetInitialAdmin
<1>6. user' \in [Users -> UserType] /\ \A v \in Users : v # u => user'[v] = user[v]
  BY <1>4, <1>5, UserChanged
<1>7. OthersTyped'
  BY <1>1, <1>6 DEF OthersTyped
<1>8. LockedOut'
  BY <1>1, <1>2, <1>6, IdentityAssumption, LockedOutKept
<1>9. GrantOnce' /\ CodesOpenOne' /\ DeliveredLogged'
  BY <1>1, <1>2, GrantsKept, CodesKept DEF Kept, DeliveredLogged, CodesOpenOne
<1> QED
  BY <1>2, <1>7, <1>8, <1>9

\* Signing up, verifying the mail address and resetting the password keep the invariant.
LEMMA AccountInv ==
  ASSUME IdentityInv, AccountStep
  PROVE  IdentityInv'
<1> USE DEF IdentityInv
<1>1. PICK u \in Users : \/ Signup(u) \/ VerifyEmail(u) \/ ResendVerification(u)
                         \/ RequestPasswordReset(u) \/ ConfirmPasswordReset(u)
  BY DEF AccountStep
<1>2. user[u] \in UserType /\ mail[u] \in [verify: 0..MaxMail, reset: 0..MaxReset]
  BY DEF OthersTyped
<1>3. UNCHANGED <<reused, grant, uses, code, outbox, log, requests>>
  BY <1>1 DEF Signup, VerifyEmail, ResendVerification, RequestPasswordReset, ConfirmPasswordReset,
              access, stepUp, audit
<1>4. mail' \in [Users -> [verify: 0..MaxMail, reset: 0..MaxReset]]
  <2>1. \/ \E n \in 0..MaxMail : mail' = [mail EXCEPT ![u].verify = n]
        \/ \E n \in 0..MaxReset : mail' = [mail EXCEPT ![u].reset = n]
    <3>1. CASE Signup(u)
      <4>1. 1 \in 0..MaxMail
        BY <3>1, IdentityAssumption DEF Signup
      <4> QED
        BY <3>1, <4>1 DEF Signup
    <3>2. CASE VerifyEmail(u)
      <4>1. mail[u].verify - 1 \in 0..MaxMail
        BY <1>2, <3>2, IdentityAssumption DEF VerifyEmail
      <4> QED
        BY <3>2, <4>1 DEF VerifyEmail
    <3>3. CASE ResendVerification(u)
      <4>1. mail[u].verify + 1 \in 0..MaxMail
        BY <1>2, <3>3, IdentityAssumption DEF ResendVerification
      <4> QED
        BY <3>3, <4>1 DEF ResendVerification
    <3>4. CASE RequestPasswordReset(u)
      <4>1. mail[u].reset + 1 \in 0..MaxReset
        BY <1>2, <3>4, IdentityAssumption DEF RequestPasswordReset
      <4> QED
        BY <3>4, <4>1 DEF RequestPasswordReset
    <3>5. CASE ConfirmPasswordReset(u)
      <4>1. mail[u].reset - 1 \in 0..MaxReset
        BY <1>2, <3>5, IdentityAssumption DEF ConfirmPasswordReset
      <4> QED
        BY <3>5, <4>1 DEF ConfirmPasswordReset
    <3> QED
      BY <1>1, <3>1, <3>2, <3>3, <3>4, <3>5
  <2> QED
    BY <2>1, MailChanged
<1>5. CASE ConfirmPasswordReset(u)
  <2>1. AccessOK' /\ (\A s \in Sessions : Kept(s))
        /\ \A s \in Sessions : sess[s].user = u => sess'[s].st = "revoked"
    BY <1>5, UserRevocation DEF ConfirmPasswordReset
  <2>2. user[u].pw + 1 \in 1..MaxPassword
    BY <1>2, <1>5, IdentityAssumption DEF ConfirmPasswordReset, UserType
  <2>3. [user[u] EXCEPT !.pw = user[u].pw + 1] \in UserType
    BY <1>2, <2>2 DEF UserType
  <2>4. user' = [user EXCEPT ![u] = [user[u] EXCEPT !.pw = user[u].pw + 1]]
    BY <1>5 DEF ConfirmPasswordReset
  <2>5. user' \in [Users -> UserType] /\ \A v \in Users : v # u => user'[v] = user[v]
    BY <2>3, <2>4, UserChanged
  <2>6. OthersTyped'
    BY <1>3, <1>4, <2>5 DEF OthersTyped
  <2>7. LockedOut'
    BY <1>3, <2>1, <2>5, IdentityAssumption, LockedOutKept
  <2>8. GrantOnce' /\ CodesOpenOne' /\ DeliveredLogged'
    BY <1>3, <2>1, GrantsKept, CodesKept DEF Kept, DeliveredLogged, CodesOpenOne
  <2> QED
    BY <2>1, <2>6, <2>7, <2>8
<1>6. CASE ~ConfirmPasswordReset(u)
  <2>1. UNCHANGED <<sess, family>>
    BY <1>1, <1>6 DEF Signup, VerifyEmail, ResendVerification, RequestPasswordReset, access
  <2>2. AccessOK' /\ \A s \in Sessions : Kept(s)
    BY <2>1, Unmoved
  <2>3. /\ user' \in [Users -> UserType]
        /\ \A v \in Users : user'[v].pw = user[v].pw
        /\ \A v \in Users : user'[v].st \in {user[v].st, "active"} \/ user[v].st = "none"
    <3>1. CASE UNCHANGED user
      BY <3>1 DEF OthersTyped
    <3>2. CASE Signup(u)
      <4>1. [user[u] EXCEPT !.st = "pending_email"] \in UserType
        BY <1>2 DEF UserType, UserStates
      <4> QED
        BY <1>2, <3>2, <4>1, UserChanged DEF Signup, UserType
    <3>3. CASE VerifyEmail(u)
      <4>1. [user[u] EXCEPT !.st = "active", !.verified = TRUE] \in UserType
        BY <1>2 DEF UserType, UserStates
      <4>2. user' = [user EXCEPT ![u] = [user[u] EXCEPT !.st = "active", !.verified = TRUE]]
        BY <3>3 DEF VerifyEmail
      <4>3. LET y == [user[u] EXCEPT !.st = "active", !.verified = TRUE]
            IN  y.pw = user[u].pw /\ y.st = "active"
        BY <1>2 DEF UserType
      <4> QED
        BY <4>1, <4>2, <4>3, UserChanged
    <3> QED
      BY <1>1, <1>6, <3>1, <3>2, <3>3 DEF ResendVerification, RequestPasswordReset
  <2>4. OthersTyped'
    BY <1>3, <1>4, <2>3 DEF OthersTyped
  <2>5. \A s \in Sessions : sess[s].st = "active" /\ sess[s].user \in Local => user[sess[s].user].st = "active"
    BY DEF LockedOut, SuspendedOut
  <2>6. LockedOut'
    BY <1>3, <2>1, <2>2, <2>3, <2>5, IdentityAssumption, LockedOutKept
  <2>7. GrantOnce' /\ CodesOpenOne' /\ DeliveredLogged'
    BY <1>3, <2>1, GrantsKept, CodesKept DEF DeliveredLogged, CodesOpenOne
  <2> QED
    BY <2>2, <2>4, <2>6, <2>7
<1> QED
  BY <1>5, <1>6

\* The invariant after a login: one session more, of an account that may log in.
LEMMA LoginInv ==
  ASSUME IdentityInv, OthersTyped', AccessOK', NEW s \in Sessions, NEW u \in Users,
         \A t \in Sessions \ {s} : Kept(t),
         sess[s].st = "none", sess'[s].st = "active", sess'[s].user = u,
         u \in Local => user[u].st = "active",
         sess'[s].via = "password" /\ u \in Local => sess'[s].pw = user[u].pw,
         sess'[s].via \in Codes => /\ code[sess'[s].via].st # "used"
                                   /\ code'[sess'[s].via].st = "used",
         \A c \in Codes : c # sess'[s].via => code'[c] = code[c],
         UNCHANGED <<user, reused, grant, uses>>, DeliveredLogged'
  PROVE  IdentityInv'
<1> USE DEF IdentityInv
<1>1. s \notin reused
  BY DEF LockedOut, ReuseEndsSession
<1>2. SuspendedOut' /\ PasswordCurrent'
  BY DEF LockedOut, SuspendedOut, PasswordCurrent, Kept
<1>3. ReuseEndsSession'
  <2> SUFFICES ASSUME NEW t \in reused PROVE sess'[t].st = "revoked" /\ family'[t].st # "active"
    BY DEF ReuseEndsSession
  <2>1. t \in Sessions \ {s} /\ sess[t].st = "revoked"
    BY <1>1 DEF LockedOut, ReuseEndsSession, OthersTyped
  <2>2. sess'[t].st = "revoked" /\ SessionOK(t)'
    BY <2>1 DEF Kept, AccessOK
  <2> QED
    BY <2>2 DEF SessionOK
<1>4. GrantOnce'
  <2>1. \A t \in Sessions : sess[t].st = "revoked" => sess'[t].st = "revoked"
    BY DEF Kept
  <2> QED
    BY <2>1, GrantsKept
<1>5. CodesOpenOne'
  <2>1. \A t \in Sessions : t # s => sess'[t].via = sess[t].via
    BY DEF Kept
  <2>2. ASSUME NEW t \in Sessions, t # s, sess'[t].via \in Codes
        PROVE  code'[sess'[t].via].st = "used" /\ sess'[t].via # sess'[s].via
    BY <2>1, <2>2 DEF CodesOpenOne
  <2> QED
    BY <2>1, <2>2 DEF CodesOpenOne
<1> QED
  BY <1>2, <1>3, <1>4, <1>5 DEF LockedOut

\* A login by password keeps the invariant.
LEMMA PasswordLoginInv ==
  ASSUME IdentityInv, NEW u \in Users, NEW s \in Sessions, LocalLogin(u, s) \/ LocalNativeLogin(u, s)
  PROVE  IdentityInv'
<1> USE DEF IdentityInv
<1>1. PICK kind \in {"web", "native"} : OpenSession(s, u, kind, "password", user[u].pw, {})
  BY DEF LocalLogin, LocalNativeLogin
<1>2. /\ user[u].st = "active" /\ user[u].pw \in 1..MaxPassword
      /\ UNCHANGED <<user, mail, grant, uses, code, outbox, log, requests>>
  BY DEF LocalLogin, LocalNativeLogin, account, stepUp, audit, OthersTyped, UserType
<1>3. /\ AccessOK' /\ UNCHANGED reused
      /\ \A t \in Sessions \ {s} : Kept(t)
      /\ sess[s].st = "none"
      /\ sess'[s].st = "active" /\ sess'[s].user = u /\ sess'[s].via = "password"
      /\ sess'[s].pw = user[u].pw
  BY <1>1, <1>2, Opening
<1>4. OthersTyped' /\ DeliveredLogged' /\ "password" \notin Codes
  BY <1>2, <1>3, IdentityAssumption DEF OthersTyped, DeliveredLogged
<1> QED
  BY <1>2, <1>3, <1>4, LoginInv

\* A login by code keeps it.
LEMMA CodeLoginInv ==
  ASSUME IdentityInv, NEW c \in Codes, NEW s \in Sessions,
         \/ ExchangeCode(c, s)
         \/ \E u \in Users, kind \in {"web", "native"} : CompleteOidcLogin(c, u, s, kind)
  PROVE  IdentityInv'
<1> USE DEF IdentityInv
<1>a. code[c] \in [st: {"none", "begun", "authorized", "used"}, user: Users \cup {NoUser}, pw: 1..MaxPassword]
  BY DEF OthersTyped
<1>1. PICK u \in Users, kind \in {"web", "native"}, pw \in 1..MaxPassword :
        OpenSession(s, u, kind, c, pw, {}) /\ (u \in Local => user[u].st = "active")
  <2>1. CASE ExchangeCode(c, s)
    BY <1>a, <2>1 DEF ExchangeCode, MaySelect, CodesOpenOne
  <2>2. ASSUME NEW u \in Users, NEW kind \in {"web", "native"}, CompleteOidcLogin(c, u, s, kind)
        PROVE  /\ OpenSession(s, u, kind, c, user[u].pw, {}) /\ user[u].pw \in 1..MaxPassword
               /\ u \notin Local
    BY <2>2 DEF CompleteOidcLogin, OthersTyped, UserType
  <2> QED
    BY <2>1, <2>2
<1>2. /\ code' = [code EXCEPT ![c].st = "used"] /\ code[c].st # "used"
      /\ UNCHANGED <<user, mail, grant, uses, outbox, log, requests>>
  BY DEF ExchangeCode, CompleteOidcLogin, account, stepUp, audit
<1>3. /\ AccessOK' /\ UNCHANGED reused
      /\ \A t \in Sessions \ {s} : Kept(t)
      /\ sess[s].st = "none"
      /\ sess'[s].st = "active" /\ sess'[s].user = u /\ sess'[s].via = c
  BY <1>1, Opening
<1>4. [code[c] EXCEPT !.st = "used"] \in [st: {"none", "begun", "authorized", "used"},
                                           user: Users \cup {NoUser}, pw: 1..MaxPassword]
  BY <1>a
<1>5. OthersTyped' /\ DeliveredLogged'
  BY <1>2, <1>3, <1>4 DEF OthersTyped, DeliveredLogged
<1>6. code'[c].st = "used" /\ \A d \in Codes : d # c => code'[d] = code[d]
  BY <1>2, <1>a DEF OthersTyped
<1>7. c # "password"
  BY IdentityAssumption
<1> QED
  BY <1>1, <1>2, <1>3, <1>5, <1>6, <1>7, LoginInv

\* Switching the organization keeps it.
LEMMA SwitchInv ==
  ASSUME IdentityInv, NEW s \in Sessions, NEW new \in Sessions, SwitchSessionTenant(s, new)
  PROVE  IdentityInv'
<1> USE DEF IdentityInv
<1> DEFINE u == sess[s].user
           via == IF sess[s].via = "password" THEN "password" ELSE "switch"
<1>1. /\ sess[s].st = "active" /\ user[u].st = "active"
      /\ OpenSession(new, u, sess[s].kind, via, sess[s].pw, {s})
      /\ outbox' = [outbox EXCEPT ![s] = [kind |-> "switch", st |-> "pending"]]
      /\ UNCHANGED <<user, mail, grant, uses, code, log, requests>>
  BY DEF SwitchSessionTenant, Principal, account, stepUp
<1>2. /\ u \in Users /\ sess[s].kind \in {"web", "native"} /\ sess[s].pw \in 1..MaxPassword
      /\ via \in Codes \cup {"password", "switch"}
  BY <1>1 DEF AccessOK, SessionOK, SessType
<1>3. u \in Local /\ via = "password" => sess[s].pw = user[u].pw
  BY <1>1 DEF LockedOut, PasswordCurrent
<1>4. via \notin Codes
  BY IdentityAssumption
<1>5. \A t \in {s} : t \in Sessions /\ sess[t].st # "none"
  BY <1>1
<1> HIDE DEF via
<1>6. /\ AccessOK' /\ UNCHANGED reused
      /\ \A t \in Sessions \ {new} : Kept(t)
      /\ sess[new].st = "none"
      /\ sess'[new].st = "active" /\ sess'[new].user = u /\ sess'[new].via = via
      /\ sess'[new].pw = sess[s].pw
  <2>1. PICK kd, pw : kd = sess[s].kind /\ pw = sess[s].pw
    OBVIOUS
  <2>2. kd \in {"web", "native"} /\ pw \in 1..MaxPassword /\ OpenSession(new, u, kd, via, pw, {s})
    BY <2>1, <1>1, <1>2
  <2>3. AccessOK /\ u \in Users /\ via \in Codes \cup {"password", "switch"}
    BY <1>2
  <2> HIDE DEF u, IdentityInv
  <2>4. /\ AccessOK' /\ UNCHANGED reused
        /\ \A t \in Sessions \ {new} : Kept(t)
        /\ sess[new].st = "none"
        /\ sess'[new].st = "active" /\ sess'[new].user = u /\ sess'[new].via = via
        /\ sess'[new].pw = pw
    BY <2>2, <2>3, <1>5, Opening, SMTT(30)
  <2> QED
    BY <2>1, <2>4
<1>7. OthersTyped' /\ DeliveredLogged'
  BY <1>1, <1>6 DEF OthersTyped, DeliveredLogged
<1>8. PICK v \in Users : v = u
  BY <1>2
<1> HIDE DEF u
<1> QED
  BY <1>1, <1>3, <1>4, <1>6, <1>7, <1>8, LoginInv

\* The invariant after a step that opens no session and leaves the accounts alone.
LEMMA KeptInv ==
  ASSUME IdentityInv, OthersTyped', AccessOK', \A s \in Sessions : Kept(s),
         UNCHANGED <<user, reused, code>>, GrantOnce', DeliveredLogged'
  PROVE  IdentityInv'
<1>1. LockedOut'
  BY LockedOutKept
<1>2. CodesOpenOne'
  BY CodesKept DEF Kept, IdentityInv, CodesOpenOne
<1> QED
  BY <1>1, <1>2 DEF IdentityInv

\* Changing the password keeps it.
LEMMA ChangePasswordInv ==
  ASSUME IdentityInv, NEW s \in Sessions, ChangeCurrentPassword(s)
  PROVE  IdentityInv'
<1> USE DEF IdentityInv
<1>1. PICK u \in Users : u = sess[s].user
  BY DEF ChangeCurrentPassword, Principal, AccessOK, SessionOK, SessType
<1>2. /\ user[u].pw < MaxPassword /\ user' = [user EXCEPT ![u].pw = @ + 1, ![u].must = FALSE]
      /\ RevokeUserSessions(u)
      /\ UNCHANGED <<mail, reused, grant, uses, code, outbox, log, requests>>
  BY <1>1 DEF ChangeCurrentPassword, stepUp, audit
<1>3. user[u] \in UserType
  BY DEF OthersTyped
<1>4. user[u].pw + 1 \in 1..MaxPassword
  BY <1>2, <1>3, IdentityAssumption DEF UserType
<1> DEFINE x == [user[u] EXCEPT !.pw = user[u].pw + 1, !.must = FALSE]
<1>5. x \in UserType
  BY <1>3, <1>4 DEF UserType
<1>6. user' = [user EXCEPT ![u] = x]
  BY <1>2 DEF OthersTyped
<1> HIDE DEF x
<1>7. user' \in [Users -> UserType] /\ \A v \in Users : v # u => user'[v] = user[v]
  BY <1>5, <1>6, UserChanged
<1>8. /\ AccessOK' /\ (\A t \in Sessions : Kept(t))
      /\ \A t \in Sessions : sess[t].user = u => sess'[t].st = "revoked"
  BY <1>2, UserRevocation
<1>9. OthersTyped'
  BY <1>2, <1>7 DEF OthersTyped
<1>10. LockedOut'
  BY <1>2, <1>7, <1>8, IdentityAssumption, LockedOutKept
<1>11. GrantOnce' /\ CodesOpenOne' /\ DeliveredLogged'
  BY <1>2, <1>8, GrantsKept, CodesKept DEF Kept, DeliveredLogged, CodesOpenOne
<1> QED
  BY <1>8, <1>9, <1>10, <1>11

\* Beginning and authorizing a device code keeps it.
LEMMA CodeInv ==
  ASSUME IdentityInv, NEW c \in Codes, NEW s \in Sessions, BeginCode(c) \/ AuthorizeCode(c, s)
  PROVE  IdentityInv'
<1> USE DEF IdentityInv
<1> DEFINE CodeType == [st: {"none", "begun", "authorized", "used"}, user: Users \cup {NoUser},
                        pw: 1..MaxPassword]
<1>1. UNCHANGED <<user, mail, sess, family, reused, grant, uses, outbox, log, requests>>
  BY DEF BeginCode, AuthorizeCode, account, access, stepUp, audit
<1>2. code[c] \in CodeType /\ code \in [Codes -> CodeType]
  BY DEF OthersTyped
<1>3. PICK y \in CodeType : /\ code' = [code EXCEPT ![c] = y] /\ code[c].st # "used"
                            /\ y.st = "authorized" => y.user \in Users
  <2>1. CASE BeginCode(c)
    <3>1. LET y == [code[c] EXCEPT !.st = "begun"]
          IN  y \in CodeType /\ y.st = "begun" /\ code' = [code EXCEPT ![c] = y]
      BY <1>2, <2>1 DEF BeginCode
    <3> QED
      BY <2>1, <3>1 DEF BeginCode
  <2>2. CASE AuthorizeCode(c, s)
    <3>1. sess[s].user \in Users /\ sess[s].pw \in 1..MaxPassword
      BY <2>2 DEF AuthorizeCode, Principal, AccessOK, SessionOK, SessType
    <3> DEFINE y == [code[c] EXCEPT !.st = "authorized", !.user = sess[s].user, !.pw = sess[s].pw]
    <3>2. y \in CodeType /\ y.user = sess[s].user
      BY <1>2, <3>1
    <3>3. code' = [code EXCEPT ![c] = y] /\ code[c].st = "begun"
      BY <2>2 DEF AuthorizeCode
    <3> QED
      BY <3>1, <3>2, <3>3
  <2> QED
    BY <2>1, <2>2
<1> HIDE DEF CodeType
<1>4. code' \in [Codes -> CodeType] /\ code'[c] = y /\ \A d \in Codes : d # c => code'[d] = code[d]
  BY <1>2, <1>3
<1>5. OthersTyped'
  BY <1>1, <1>4 DEF OthersTyped, CodeType
<1>6. CodesOpenOne'
  BY <1>1, <1>3, <1>4, CodesKept DEF CodesOpenOne
<1>7. AccessOK' /\ \A t \in Sessions : Kept(t)
  BY <1>1, Unmoved
<1>8. LockedOut' /\ GrantOnce' /\ DeliveredLogged'
  BY <1>1, <1>7, LockedOutKept, GrantsKept DEF DeliveredLogged
<1> QED
  BY <1>5, <1>6, <1>7, <1>8

\* Refreshing, also with a token used before, keeps it.
LEMMA RefreshInv ==
  ASSUME IdentityInv, NEW s \in Sessions, NEW i, RotateRefresh(s, i) \/ ReplayRefresh(s, i)
  PROVE  IdentityInv'
<1> USE DEF IdentityInv
<1>1. UNCHANGED <<user, mail, grant, uses, code, outbox, log, requests>>
  BY DEF RotateRefresh, ReplayRefresh, account, stepUp, audit
<1>2. CASE RotateRefresh(s, i)
  <2>1. AccessOK' /\ \A t \in Sessions : Kept(t)
    BY <1>2, Rotation DEF RotateRefresh
  <2>2. OthersTyped' /\ DeliveredLogged' /\ UNCHANGED <<sess, reused>>
    BY <1>1, <1>2 DEF RotateRefresh, OthersTyped, DeliveredLogged
  <2>3. GrantOnce'
    BY <1>1, <2>2, GrantsKept
  <2> QED
    BY <1>1, <2>1, <2>2, <2>3, KeptInv
<1>3. CASE ReplayRefresh(s, i) /\ UNCHANGED access
  <2>1. AccessOK' /\ \A t \in Sessions : Kept(t)
    BY <1>3, Unmoved DEF access
  <2>2. OthersTyped' /\ DeliveredLogged' /\ UNCHANGED <<sess, reused>>
    BY <1>1, <1>3 DEF access, OthersTyped, DeliveredLogged
  <2>3. GrantOnce'
    BY <1>1, <2>2, GrantsKept
  <2> QED
    BY <1>1, <2>1, <2>2, <2>3, KeptInv
<1>4. CASE ReplayRefresh(s, i) /\ ~UNCHANGED access
  <2>1. sess[s].st # "none"
    BY <1>4 DEF ReplayRefresh, AccessOK, SessionOK
  <2>2. AccessOK' /\ (\A t \in Sessions : Kept(t)) /\ sess'[s].st = "revoked"
    BY <1>4, <2>1, Revocation DEF ReplayRefresh
  <2>3. OthersTyped' /\ DeliveredLogged' /\ reused' = reused \cup {s}
    BY <1>1, <1>4 DEF ReplayRefresh, OthersTyped, DeliveredLogged
  <2>4. GrantOnce' /\ CodesOpenOne'
    BY <1>1, <2>2, GrantsKept, CodesKept DEF Kept, CodesOpenOne
  <2>5. SuspendedOut' /\ PasswordCurrent'
    BY <1>1, <2>2 DEF LockedOut, SuspendedOut, PasswordCurrent, Kept
  <2>6. ReuseEndsSession'
    <3> SUFFICES ASSUME NEW t \in reused' PROVE sess'[t].st = "revoked" /\ family'[t].st # "active"
      BY DEF ReuseEndsSession
    <3>1. t \in Sessions /\ sess'[t].st = "revoked"
      BY <2>2, <2>3 DEF LockedOut, ReuseEndsSession, Kept, OthersTyped
    <3> QED
      BY <2>2, <3>1 DEF AccessOK, SessionOK
  <2> QED
    BY <2>2, <2>3, <2>4, <2>5, <2>6 DEF LockedOut
<1> QED
  BY <1>2, <1>3, <1>4

\* Ending a session keeps it.
LEMMA LogoutInv ==
  ASSUME IdentityInv, NEW s \in Sessions, EndSession(s)
  PROVE  IdentityInv'
<1> USE DEF IdentityInv
<1>1. /\ sess[s].st = "active" /\ sess' = Revoked({s}) /\ family' = RevokedFamilies({s})
      /\ outbox' = [outbox EXCEPT ![s] = [kind |-> "logout", st |-> "pending"]]
      /\ UNCHANGED <<user, mail, reused, grant, uses, code, log, requests>>
  BY DEF EndSession, account, stepUp
<1>2. AccessOK' /\ \A t \in Sessions : Kept(t)
  BY <1>1, Revocation
<1>3. OthersTyped' /\ DeliveredLogged'
  BY <1>1 DEF OthersTyped, DeliveredLogged
<1>4. GrantOnce'
  BY <1>1, <1>2, GrantsKept DEF Kept
<1> QED
  BY <1>1, <1>2, <1>3, <1>4, KeptInv

\* Spending an open grant, when a grant for a revocation has revoked its target.
LEMMA Spending ==
  ASSUME IdentityInv, NEW g \in Grants, Spend(g), grant[g].st = "open",
         \A s \in Sessions : Kept(s),
         grant[g].target \in Sessions => sess'[grant[g].target].st = "revoked"
  PROVE  /\ GrantOnce'
         /\ grant' \in [Grants -> [st: {"none", "open", "used"}, session: Sessions \cup {NoSession},
                                   target: Sessions \cup {Op, NoSession}]]
         /\ uses' \in [Grants -> Nat]
<1> DEFINE GrantType == [st: {"none", "open", "used"}, session: Sessions \cup {NoSession},
                         target: Sessions \cup {Op, NoSession}]
<1>1. grant \in [Grants -> GrantType] /\ uses \in [Grants -> Nat] /\ uses[g] = 0
  BY DEF IdentityInv, OthersTyped, GrantOnce
<1>2. /\ [grant[g] EXCEPT !.st = "used"] \in GrantType
      /\ [grant[g] EXCEPT !.st = "used"].target = grant[g].target
      /\ [grant[g] EXCEPT !.st = "used"].st = "used"
  BY <1>1
<1>3. grant' = [grant EXCEPT ![g] = [grant[g] EXCEPT !.st = "used"]] /\ uses' = [uses EXCEPT ![g] = 1]
  BY <1>1 DEF Spend
<1> HIDE DEF GrantType
<1>4. /\ grant' \in [Grants -> GrantType] /\ uses' \in [Grants -> Nat]
      /\ grant'[g].target = grant[g].target /\ grant'[g].st = "used" /\ uses'[g] = 1
      /\ \A h \in Grants : h # g => grant'[h] = grant[h] /\ uses'[h] = uses[h]
  BY <1>1, <1>2, <1>3
<1>5. GrantOnce'
  BY <1>4 DEF IdentityInv, GrantOnce, Kept
<1> QED
  BY <1>4, <1>5 DEF GrantType

\* Issuing and consuming a step-up grant, and the revocations it permits, keep it.
LEMMA GrantInv ==
  ASSUME IdentityInv, GrantStep
  PROVE  IdentityInv'
<1> USE DEF IdentityInv
<1>1. PICK g \in Grants, s \in Sessions :
        \/ \E t \in Sessions \cup {Op} : IssueStepUp(s, g, t)
        \/ ConsumeStepUp(s, g)
        \/ \E t \in Sessions : RevokeSession(s, t, g) \/ RevokeDevice(s, t, g)
  BY DEF GrantStep
<1>2. UNCHANGED <<user, mail, reused, code, outbox, log, requests>>
  BY <1>1 DEF IssueStepUp, ConsumeStepUp, RevokeSession, RevokeDevice, account, access, audit
<1>3. DeliveredLogged'
  BY <1>2 DEF DeliveredLogged
<1>4. ASSUME NEW t \in Sessions \cup {Op}, IssueStepUp(s, g, t) PROVE IdentityInv'
  <2>1. UNCHANGED <<sess, family, uses>>
    BY <1>4 DEF IssueStepUp, access
  <2> DEFINE y == [st |-> "open", session |-> s, target |-> t]
  <2>2. grant' = [grant EXCEPT ![g] = y] /\ grant[g].st = "none"
    BY <1>4 DEF IssueStepUp
  <2>3. /\ OthersTyped' /\ grant'[g] = y
        /\ \A h \in Grants : h # g => grant'[h] = grant[h]
    BY <1>2, <2>1, <2>2 DEF OthersTyped
  <2>4. GrantOnce'
    BY <2>1, <2>2, <2>3 DEF GrantOnce
  <2> QED
    BY <1>2, <1>3, <2>1, <2>3, <2>4, Unmoved, KeptInv
<1>5. CASE ConsumeStepUp(s, g)
  <2>1. /\ UNCHANGED <<sess, family>> /\ Spend(g) /\ grant[g].st = "open" /\ grant[g].target = Op
    BY <1>5 DEF ConsumeStepUp, GrantValid, access
  <2>2. AccessOK' /\ \A t \in Sessions : Kept(t)
    BY <2>1, Unmoved
  <2>3. GrantOnce' /\ OthersTyped'
    BY <1>2, <2>1, <2>2, Spending, IdentityAssumption DEF OthersTyped
  <2> QED
    BY <1>2, <1>3, <2>2, <2>3, KeptInv
<1>6. ASSUME NEW t \in Sessions, RevokeSession(s, t, g) \/ RevokeDevice(s, t, g) PROVE IdentityInv'
  <2>1. Spend(g) /\ grant[g].st = "open" /\ grant[g].target = t
    BY <1>6 DEF RevokeSession, RevokeDevice, GrantValid
  <2>2. AccessOK' /\ sess'[t].st = "revoked" /\ \A r \in Sessions : Kept(r)
    <3>1. CASE RevokeSession(s, t, g)
      BY <3>1, Revocation DEF RevokeSession, OwnSession
    <3>2. CASE RevokeDevice(s, t, g)
      BY <3>2, DeviceRevocation DEF RevokeDevice, OwnDevice
    <3> QED
      BY <1>6, <3>1, <3>2
  <2>3. GrantOnce' /\ OthersTyped'
    BY <1>2, <2>1, <2>2, Spending DEF OthersTyped
  <2> QED
    BY <1>2, <1>3, <2>2, <2>3, KeptInv
<1> QED
  BY <1>1, <1>4, <1>5, <1>6

\* A counted request stays within its bound.
LEMMA Counted ==
  ASSUME OthersTyped, Request
  PROVE  requests' \in 0..MaxRequests
BY IdentityAssumption DEF OthersTyped, Request

\* Trusting a device keeps it.
LEMMA TrustInv ==
  ASSUME IdentityInv, NEW s \in Sessions, TrustDevice(s)
  PROVE  IdentityInv'
<1> USE DEF IdentityInv
<1>1. /\ UNCHANGED <<user, mail, family, reused, grant, uses, code, outbox, log>>
      /\ requests' \in 0..MaxRequests
      /\ sess[s].device # "revoked" /\ sess' = [sess EXCEPT ![s].device = "trusted"]
  BY Counted DEF TrustDevice, account, stepUp, audit
<1>2. AccessOK' /\ \A t \in Sessions : Kept(t)
  BY <1>1, Trusting
<1>3. OthersTyped' /\ DeliveredLogged'
  BY <1>1 DEF OthersTyped, DeliveredLogged
<1>4. GrantOnce'
  BY <1>1, <1>2, GrantsKept DEF Kept
<1> QED
  BY <1>1, <1>2, <1>3, <1>4, KeptInv

\* Creating a user and changing its state by an administrator keep it.
LEMMA DirectoryInv ==
  ASSUME IdentityInv, NEW u \in Users,
         CreateUser(u) \/ \E st \in {"active", "suspended"} : ChangeState(u, st)
  PROVE  IdentityInv'
<1> USE DEF IdentityInv
<1>1. UNCHANGED <<mail, reused, grant, uses, code, outbox, log>> /\ requests' \in 0..MaxRequests
  BY Counted DEF CreateUser, ChangeState, access, stepUp, audit
<1>2. user[u] \in UserType
  BY DEF OthersTyped
<1>3. ASSUME CreateUser(u) PROVE IdentityInv'
  <2> DEFINE x == [user[u] EXCEPT !.st = "pending_approval", !.must = TRUE]
  <2>1. x \in UserType /\ x.pw = user[u].pw
    BY <1>2 DEF UserType, UserStates
  <2>2. /\ user' = [user EXCEPT ![u] = x] /\ user[u].st = "none"
        /\ UNCHANGED <<sess, family>>
    BY <1>3 DEF CreateUser, access
  <2> HIDE DEF x
  <2>3. user' \in [Users -> UserType] /\ \A v \in Users : v # u => user'[v] = user[v]
    BY <2>1, <2>2, UserChanged
  <2>4. AccessOK' /\ \A s \in Sessions : Kept(s)
    BY <2>2, Unmoved
  <2>5. \A s \in Sessions : sess[s].st = "active" /\ sess[s].user \in Local => sess[s].user # u
    BY <2>2 DEF LockedOut, SuspendedOut
  <2>6. LockedOut'
    BY <1>1, <2>2, <2>3, <2>4, <2>5, IdentityAssumption, LockedOutKept
  <2>7. OthersTyped'
    BY <1>1, <2>3 DEF OthersTyped
  <2>8. GrantOnce' /\ CodesOpenOne' /\ DeliveredLogged'
    BY <1>1, <2>2, GrantsKept, CodesKept DEF DeliveredLogged, CodesOpenOne
  <2> QED
    BY <2>4, <2>6, <2>7, <2>8
<1>4. ASSUME NEW st \in {"active", "suspended"}, ChangeState(u, st) PROVE IdentityInv'
  <2> DEFINE ver == user[u].verified \/ (st = "active" /\ user[u].st = "pending_approval")
             x == [user[u] EXCEPT !.st = st, !.verified = ver]
  <2>a. ver \in BOOLEAN
    BY <1>2 DEF UserType
  <2> HIDE DEF ver
  <2>1. x \in UserType /\ x.pw = user[u].pw /\ x.st = st
    BY <1>2, <2>a DEF UserType, UserStates
  <2>2. user' = [user EXCEPT ![u] = x]
    BY <1>4 DEF ChangeState, ver, OthersTyped
  <2> HIDE DEF x
  <2>3. /\ user' \in [Users -> UserType] /\ user'[u] = x
        /\ \A v \in Users : v # u => user'[v] = user[v]
    BY <2>1, <2>2, UserChanged
  <2>4. /\ AccessOK' /\ \A s \in Sessions : Kept(s)
        /\ user[u].st # st => \A s \in Sessions : sess[s].user = u => sess'[s].st = "revoked"
    <3>1. CASE user[u].st # st
      BY <1>4, <3>1, UserRevocation DEF ChangeState
    <3>2. CASE user[u].st = st
      BY <1>4, <3>2, Unmoved DEF ChangeState
    <3> QED
      BY <3>1, <3>2
  <2>5. LockedOut'
    BY <1>1, <2>1, <2>3, <2>4, IdentityAssumption, LockedOutKept
  <2>6. OthersTyped'
    BY <1>1, <2>3 DEF OthersTyped
  <2>7. GrantOnce' /\ CodesOpenOne' /\ DeliveredLogged'
    BY <1>1, <2>4, GrantsKept, CodesKept DEF Kept, DeliveredLogged, CodesOpenOne
  <2> QED
    BY <2>4, <2>5, <2>6, <2>7
<1> QED
  BY <1>3, <1>4

\* A password reset by the administrator keeps it.
LEMMA AdminResetInv ==
  ASSUME IdentityInv, NEW u \in Users, AdminPasswordReset(u)
  PROVE  IdentityInv'
<1> USE DEF IdentityInv
<1>1. /\ UNCHANGED <<user, reused, grant, uses, code, outbox, log>> /\ requests' \in 0..MaxRequests
      /\ RevokeUserSessions(u)
  BY Counted DEF AdminPasswordReset, stepUp, audit
<1>2. mail[u].reset + 1 \in 0..MaxReset
  BY IdentityAssumption DEF OthersTyped, AdminPasswordReset
<1>3. mail' \in [Users -> [verify: 0..MaxMail, reset: 0..MaxReset]]
  <2>1. mail' = [mail EXCEPT ![u].reset = mail[u].reset + 1]
    BY DEF AdminPasswordReset
  <2> QED
    BY <1>2, <2>1, MailChanged
<1>4. AccessOK' /\ \A t \in Sessions : Kept(t)
  BY <1>1, UserRevocation
<1>5. OthersTyped' /\ DeliveredLogged'
  BY <1>1, <1>3 DEF OthersTyped, DeliveredLogged
<1>6. GrantOnce'
  BY <1>1, <1>4, GrantsKept DEF Kept
<1> QED
  BY <1>1, <1>4, <1>5, <1>6, KeptInv

\* Deleting a user keeps it.
LEMMA DeleteInv ==
  ASSUME IdentityInv, NEW u \in Users, DeleteUser(u)
  PROVE  IdentityInv'
<1> USE DEF IdentityInv
<1> DEFINE OutboxType == [kind: {"logout", "switch"}, st: {"none", "pending", "delivered"}]
<1>1. UNCHANGED <<reused, grant, uses, code, log>> /\ requests' \in 0..MaxRequests
  BY Counted DEF DeleteUser, stepUp
<1>2. user[u] \in UserType
  BY DEF OthersTyped
<1>3. [user[u] EXCEPT !.st = "deleted"] \in UserType
  BY <1>2 DEF UserType, UserStates
<1>4. user' = [user EXCEPT ![u] = [user[u] EXCEPT !.st = "deleted"]]
  BY DEF DeleteUser
<1>5. user' \in [Users -> UserType] /\ \A v \in Users : v # u => user'[v] = user[v]
  BY <1>3, <1>4, UserChanged
<1>6. mail' \in [Users -> [verify: 0..MaxMail, reset: 0..MaxReset]]
  <2>1. [verify |-> 0, reset |-> 0] \in [verify: 0..MaxMail, reset: 0..MaxReset]
    BY IdentityAssumption
  <2> QED
    BY <2>1 DEF DeleteUser, OthersTyped
<1>7. ASSUME NEW s \in Sessions
      PROVE  outbox'[s] \in OutboxType /\ outbox'[s].st \in {outbox[s].st, "none"}
  <2>1. outbox[s] \in OutboxType
    BY DEF OthersTyped
  <2>2. [outbox[s] EXCEPT !.st = "none"] \in OutboxType /\ [outbox[s] EXCEPT !.st = "none"].st = "none"
    BY <2>1
  <2> QED
    BY <2>1, <2>2 DEF DeleteUser
<1>8. outbox' \in [Sessions -> OutboxType]
  <2>1. outbox' = [s \in Sessions |-> outbox'[s]]
    BY DEF DeleteUser
  <2> QED
    BY <1>7, <2>1
<1>9. OthersTyped'
  BY <1>1, <1>5, <1>6, <1>8 DEF OthersTyped
<1>10. DeliveredLogged'
  BY <1>1, <1>7 DEF DeliveredLogged
<1>11. AccessOK' /\ \A s \in Sessions : Kept(s) /\ (s \in Of(u) => sess'[s].st = "revoked")
  BY Deletion DEF DeleteUser
<1>12. \A s \in Sessions : sess[s].user = u => sess'[s].st = "revoked"
  BY <1>11 DEF Of
<1>13. LockedOut'
  BY <1>1, <1>5, <1>11, <1>12, IdentityAssumption, LockedOutKept
<1>14. GrantOnce' /\ CodesOpenOne'
  BY <1>1, <1>11, GrantsKept, CodesKept DEF Kept, CodesOpenOne
<1> QED
  BY <1>9, <1>10, <1>11, <1>13, <1>14

\* The delivery of audit intents keeps it.
LEMMA AuditInv ==
  ASSUME IdentityInv, AuditStep
  PROVE  IdentityInv'
<1> USE DEF IdentityInv
<1>1. PICK e \in Sessions : AppendEvent(e) \/ Mark(e)
  BY DEF AuditStep
<1>2. UNCHANGED <<user, mail, sess, family, reused, grant, uses, code, requests>>
  BY <1>1 DEF AppendEvent, Mark, account, access, stepUp
<1>3. OthersTyped' /\ DeliveredLogged'
  <2>1. CASE AppendEvent(e)
    BY <1>2, <2>1 DEF AppendEvent, OthersTyped, DeliveredLogged
  <2>2. CASE Mark(e)
    <3>1. outbox[e] \in [kind: {"logout", "switch"}, st: {"none", "pending", "delivered"}]
      BY DEF OthersTyped
    <3>2. [outbox[e] EXCEPT !.st = "delivered"]
            \in [kind: {"logout", "switch"}, st: {"none", "pending", "delivered"}]
      BY <3>1
    <3>3. outbox' = [outbox EXCEPT ![e] = [outbox[e] EXCEPT !.st = "delivered"]] /\ e \in log /\ UNCHANGED log
      BY <2>2 DEF Mark
    <3>4. OthersTyped' /\ \A s \in Sessions : s # e => outbox'[s] = outbox[s]
      BY <1>2, <3>2, <3>3 DEF OthersTyped
    <3> QED
      BY <3>3, <3>4 DEF DeliveredLogged
  <2> QED
    BY <1>1, <2>1, <2>2
<1>4. AccessOK' /\ \A t \in Sessions : Kept(t)
  BY <1>2, Unmoved
<1>5. GrantOnce'
  BY <1>2, GrantsKept
<1> QED
  BY <1>2, <1>3, <1>4, <1>5, KeptInv

----------------------------------------------------------------------------
(* Results. *)

\* The invariant holds of a server without sessions, grants and codes.
THEOREM InitInv == Init => IdentityInv
<1> SUFFICES ASSUME Init PROVE IdentityInv
  OBVIOUS
<1> USE DEF Init
<1>1. OthersTyped
  <2>1. \A u \in Users : user[u] \in UserType
    BY IdentityAssumption DEF UserType, UserStates
  <2>2. user \in [Users -> UserType]
    BY <2>1
  <2>3. mail \in [Users -> [verify: 0..MaxMail, reset: 0..MaxReset]]
    BY IdentityAssumption
  <2>4. code \in [Codes -> [st: {"none", "begun", "authorized", "used"},
                             user: Users \cup {NoUser}, pw: 1..MaxPassword]]
    BY IdentityAssumption
  <2>5. requests \in 0..MaxRequests
    BY IdentityAssumption
  <2> QED
    BY <2>2, <2>3, <2>4, <2>5 DEF OthersTyped
<1>2. \A s \in Sessions : sess[s] = NoSess /\ family[s] = NoFamily
  OBVIOUS
<1>3. NoSess \in SessType /\ NoFamily \in FamilyType
  BY IdentityAssumption DEF SessType, FamilyType, NoSess, NoFamily
<1>4. AccessOK
  BY <1>3 DEF AccessOK, SessionOK, NoSess, NoFamily
<1>5. LockedOut
  BY <1>2 DEF LockedOut, SuspendedOut, PasswordCurrent, ReuseEndsSession, NoSess
<1>6. GrantOnce
  BY DEF GrantOnce
<1>7. CodesOpenOne
  BY <1>2, IdentityAssumption DEF CodesOpenOne, NoSess
<1>8. DeliveredLogged
  BY DEF DeliveredLogged
<1> QED
  BY <1>1, <1>4, <1>5, <1>6, <1>7, <1>8 DEF IdentityInv

\* Every operation on accounts, sessions, grants, codes and devices keeps the invariant.
THEOREM NextInv == IdentityInv /\ [Next]_vars => IdentityInv'
<1> SUFFICES ASSUME IdentityInv, [Next]_vars PROVE IdentityInv'
  OBVIOUS
<1>1. CASE UNCHANGED vars
  <2>1. OthersTyped' /\ DeliveredLogged'
    BY <1>1 DEF IdentityInv, OthersTyped, DeliveredLogged, vars
  <2>2. GrantOnce'
    BY <1>1, GrantsKept DEF vars
  <2>3. AccessOK' /\ \A s \in Sessions : Kept(s)
    BY <1>1, Unmoved DEF IdentityInv, vars
  <2> QED
    BY <1>1, <2>1, <2>2, <2>3, KeptInv DEF vars
<1>2. CASE LoginStep
  BY <1>2, ChangePasswordInv, PasswordLoginInv, CodeInv, CodeLoginInv, SwitchInv, RefreshInv, LogoutInv
     DEF LoginStep, RevokeCurrentWebSession, RevokeCurrentNativeSession
<1>3. CASE AdminStep
  BY <1>3, TrustInv, DirectoryInv, AdminResetInv, DeleteInv, ConsoleInv DEF AdminStep
<1> QED
  BY <1>1, <1>2, <1>3, AccountInv, GrantInv, AuditInv DEF Next

\* The inductive invariant holds in every reachable state of the identity repository.
THEOREM IdentityInvCorrect == Spec => []IdentityInv
BY InitInv, NextInv, PTL DEF Spec

\* Sessions, families and devices end together and every delivered audit intent is in the
\* central store, whatever the order of logins, revocations and deletions.
THEOREM SessionsAgreeCorrect == Spec => []SessionsAgree
<1>1. IdentityInv => SessionsAgree
  <2> SUFFICES ASSUME IdentityInv PROVE SessionsAgree
    OBVIOUS
  <2> USE DEF IdentityInv
  <2>1. TypeOK
    BY DEF TypeOK, OthersTyped, AccessOK, UserType, SessType, FamilyType
  <2>2. FamilyAgrees
    <3> SUFFICES ASSUME NEW s \in Sessions
                 PROVE  /\ (sess[s].st = "active" /\ sess[s].kind = "native") <=> family[s].st = "active"
                        /\ family[s].st = "active" =>
                             (1..family[s].newest) \ family[s].used = {family[s].newest}
      BY DEF FamilyAgrees
    <3>1. SessionOK(s) /\ family[s].newest \in Nat
      BY DEF AccessOK, FamilyType
    <3>2. family[s].newest > 0 => (1..family[s].newest) \ (1..(family[s].newest - 1)) = {family[s].newest}
      BY <3>1
    <3> QED
      BY <3>1, <3>2 DEF SessionOK
  <2>3. DeviceGone
    BY DEF DeviceGone, AccessOK, SessionOK
  <2> QED
    BY <2>1, <2>2, <2>3 DEF SessionsAgree
<1> QED
  BY <1>1, IdentityInvCorrect, PTL

\* Every variable keeps its type.
THEOREM TypeCorrect == Spec => []TypeOK
<1>1. SessionsAgree => TypeOK
  BY DEF SessionsAgree
<1> QED
  BY <1>1, SessionsAgreeCorrect, PTL

\* An account that is not active, a session opened with an old password and a session
\* whose refresh token was used twice have no way in.
THEOREM LockedOutCorrect == Spec => []LockedOut
<1>1. IdentityInv => LockedOut
  BY DEF IdentityInv
<1> QED
  BY <1>1, IdentityInvCorrect, PTL

\* A grant authorizes one operation, on its target, and a login transaction opens at most
\* one session.
THEOREM UsedOnceCorrect == Spec => []UsedOnce
<1>1. IdentityInv => UsedOnce
  <2> SUFFICES ASSUME IdentityInv, NEW c \in Codes
               PROVE  Cardinality({s \in Sessions : sess[s].via = c}) <= 1
    BY DEF IdentityInv, UsedOnce, CodeOnce
  <2> DEFINE S == {s \in Sessions : sess[s].via = c}
  <2>1. CASE S = {}
    BY <2>1, FS_EmptySet
  <2>2. CASE S # {}
    <3>1. PICK s \in Sessions : sess[s].via = c
      BY <2>2
    <3>2. S = {s}
      BY <3>1 DEF IdentityInv, CodesOpenOne
    <3>3. Cardinality({s}) = 1
      BY FS_Singleton
    <3> QED
      BY <3>2, <3>3
  <2> QED
    BY <2>1, <2>2
<1> QED
  BY <1>1, IdentityInvCorrect, PTL

\* What is over stays over, one session at a time.
Final(s) ==
  /\ sess[s].st = "revoked" => sess'[s].st = "revoked"
  /\ sess[s].device = "revoked" => sess'[s].device = "revoked"

\* A revocation revives no session and no device.
LEMMA RevokedFinal ==
  ASSUME AccessOK, NEW S, sess' = Revoked(S)
  PROVE  \A t \in Sessions : Final(t)
BY RevokedOne DEF Final

\* Opening a session revives no revoked one.
LEMMA OpenFinal ==
  ASSUME AccessOK, NEW s \in Sessions, NEW u, NEW kind, NEW via, NEW pw, NEW old,
         OpenSession(s, u, kind, via, pw, old)
  PROVE  \A t \in Sessions : Final(t)
<1> SUFFICES ASSUME NEW t \in Sessions PROVE Final(t)
  OBVIOUS
<1>1. CASE t = s
  BY <1>1 DEF OpenSession, AccessOK, SessionOK, Final
<1>2. CASE t # s
  <2>1. sess'[t] = Revoked(old)[t]
    BY <1>2, RevokedTables DEF OpenSession
  <2> QED
    BY <2>1, RevokedOne DEF Final
<1> QED
  BY <1>1, <1>2

\* No step revives a revoked session or device.
LEMMA StepFinal ==
  ASSUME IdentityInv, Next
  PROVE  \A t \in Sessions : Final(t)
<1>a. AccessOK
  BY DEF IdentityInv
<1>b. UNCHANGED sess => \A t \in Sessions : Final(t)
  BY DEF Final
<1>1. CASE AccountStep
  BY <1>1, <1>a, <1>b, RevokedFinal
     DEF AccountStep, Signup, VerifyEmail, ResendVerification, RequestPasswordReset,
         ConfirmPasswordReset, RevokeUserSessions, access
<1>2. CASE LoginStep
  <2>1. PICK s \in Sessions :
          \/ ChangeCurrentPassword(s)
          \/ \E u \in Users : LocalLogin(u, s) \/ LocalNativeLogin(u, s)
          \/ \E c \in Codes :
               \/ BeginCode(c) \/ AuthorizeCode(c, s) \/ ExchangeCode(c, s)
               \/ \E u \in Users, kind \in {"web", "native"} : CompleteOidcLogin(c, u, s, kind)
          \/ \E new \in Sessions : SwitchSessionTenant(s, new)
          \/ \E i \in 1..MaxRotations : RotateRefresh(s, i) \/ ReplayRefresh(s, i)
          \/ RevokeCurrentWebSession(s) \/ RevokeCurrentNativeSession(s)
    BY <1>2 DEF LoginStep
  <2>2. CASE ChangeCurrentPassword(s) \/ RevokeCurrentWebSession(s) \/ RevokeCurrentNativeSession(s)
    BY <2>2, <1>a, RevokedFinal
       DEF ChangeCurrentPassword, RevokeUserSessions, RevokeCurrentWebSession,
           RevokeCurrentNativeSession, EndSession
  <2>3. ASSUME NEW u \in Users, LocalLogin(u, s) \/ LocalNativeLogin(u, s)
        PROVE  \A t \in Sessions : Final(t)
    BY <2>3, <1>a, OpenFinal DEF LocalLogin, LocalNativeLogin
  <2>4. ASSUME NEW c \in Codes, BeginCode(c) \/ AuthorizeCode(c, s)
        PROVE  \A t \in Sessions : Final(t)
    BY <2>4, <1>b DEF BeginCode, AuthorizeCode, access
  <2>5. ASSUME NEW c \in Codes, ExchangeCode(c, s)
        PROVE  \A t \in Sessions : Final(t)
    BY <2>5, <1>a, OpenFinal DEF ExchangeCode
  <2>6. ASSUME NEW c \in Codes, NEW u \in Users, NEW kind \in {"web", "native"},
               CompleteOidcLogin(c, u, s, kind)
        PROVE  \A t \in Sessions : Final(t)
    BY <2>6, <1>a, OpenFinal DEF CompleteOidcLogin
  <2>7. ASSUME NEW new \in Sessions, SwitchSessionTenant(s, new)
        PROVE  \A t \in Sessions : Final(t)
    BY <2>7, <1>a, OpenFinal DEF SwitchSessionTenant
  <2>8. ASSUME NEW i \in 1..MaxRotations, RotateRefresh(s, i) \/ ReplayRefresh(s, i)
        PROVE  \A t \in Sessions : Final(t)
    BY <2>8, <1>a, <1>b, RevokedFinal DEF RotateRefresh, ReplayRefresh, access
  <2> QED
    BY <2>1, <2>2, <2>3, <2>4, <2>5, <2>6, <2>7, <2>8
<1>3. CASE GrantStep
  <2>1. PICK g \in Grants, s \in Sessions :
          \/ \E t \in Sessions \cup {Op} : IssueStepUp(s, g, t)
          \/ ConsumeStepUp(s, g)
          \/ \E t \in Sessions : RevokeSession(s, t, g) \/ RevokeDevice(s, t, g)
    BY <1>3 DEF GrantStep
  <2>2. CASE (\E t \in Sessions \cup {Op} : IssueStepUp(s, g, t)) \/ ConsumeStepUp(s, g)
    BY <2>2, <1>b DEF IssueStepUp, ConsumeStepUp, access
  <2>3. ASSUME NEW t \in Sessions, RevokeSession(s, t, g)
        PROVE  \A r \in Sessions : Final(r)
    BY <2>3, <1>a, RevokedFinal DEF RevokeSession
  <2>4. ASSUME NEW t \in Sessions, RevokeDevice(s, t, g)
        PROVE  \A r \in Sessions : Final(r)
    BY <2>4, <1>a, DeviceRevocation DEF RevokeDevice, OwnDevice, Kept, Final
  <2> QED
    BY <2>1, <2>2, <2>3, <2>4
<1>4. CASE AdminStep
  <2>1. ASSUME NEW s \in Sessions, TrustDevice(s) PROVE \A t \in Sessions : Final(t)
    BY <2>1, <1>a, Trusting DEF TrustDevice, Kept, Final
  <2>2. ASSUME NEW u \in Users, CreateUser(u) \/ AdminPasswordReset(u) \/ ResetInitialAdmin(u)
        PROVE  \A t \in Sessions : Final(t)
    BY <2>2, <1>a, <1>b, RevokedFinal
       DEF CreateUser, AdminPasswordReset, ResetInitialAdmin, RevokeUserSessions, access
  <2>3. ASSUME NEW u \in Users, DeleteUser(u) PROVE \A t \in Sessions : Final(t)
    BY <2>3, <1>a, Deletion DEF DeleteUser, Kept, Final
  <2>4. ASSUME NEW u \in Users, NEW st \in {"active", "suspended"}, ChangeState(u, st)
        PROVE  \A t \in Sessions : Final(t)
    BY <2>4, <1>a, <1>b, RevokedFinal DEF ChangeState, RevokeUserSessions
  <2> QED
    BY <1>4, <2>1, <2>2, <2>3, <2>4 DEF AdminStep
<1>5. CASE AuditStep
  BY <1>5, <1>b DEF AuditStep, AppendEvent, Mark, access
<1> QED
  BY <1>1, <1>2, <1>3, <1>4, <1>5 DEF Next

\* No step makes a consumed grant usable again.
LEMMA GrantsFinal ==
  ASSUME IdentityInv, Next
  PROVE  \A g \in Grants : grant[g].st = "used" => grant'[g].st = "used"
<1>1. CASE GrantStep
  <2>1. PICK g \in Grants : \/ Spend(g)
                            \/ \E s \in Sessions, t \in Sessions \cup {Op} : IssueStepUp(s, g, t)
    BY <1>1 DEF GrantStep, ConsumeStepUp, RevokeSession, RevokeDevice
  <2>2. CASE Spend(g)
    <3>1. grant' = [grant EXCEPT ![g] = [grant[g] EXCEPT !.st = "used"]]
      BY <2>2 DEF Spend
    <3>2. [grant[g] EXCEPT !.st = "used"].st = "used"
      BY DEF IdentityInv, OthersTyped
    <3> QED
      BY <3>1, <3>2 DEF IdentityInv, OthersTyped
  <2>3. ASSUME NEW s \in Sessions, NEW t \in Sessions \cup {Op}, IssueStepUp(s, g, t)
        PROVE  \A h \in Grants : grant[h].st = "used" => grant'[h].st = "used"
    BY <2>3 DEF IssueStepUp, IdentityInv, OthersTyped
  <2> QED
    BY <2>1, <2>2, <2>3
<1>2. CASE ~GrantStep
  <2>1. UNCHANGED grant
    BY <1>2, ZenonT(60) DEF Next, AccountStep, Signup, VerifyEmail, ResendVerification, RequestPasswordReset,
       ConfirmPasswordReset, ResetInitialAdmin, LoginStep, ChangeCurrentPassword, LocalLogin, LocalNativeLogin, BeginCode,
       AuthorizeCode, ExchangeCode, CompleteOidcLogin, SwitchSessionTenant, RotateRefresh, ReplayRefresh,
       RevokeCurrentWebSession, RevokeCurrentNativeSession, EndSession, AdminStep, TrustDevice,
       CreateUser, AdminPasswordReset, DeleteUser, ChangeState, AuditStep, AppendEvent, Mark, stepUp
  <2> QED
    BY <2>1
<1> QED
  BY <1>1, <1>2

\* Nothing brings a revoked session, a revoked device or a spent grant back.
THEOREM RevocationFinalCorrect == Spec => RevocationFinal
<1>1. IdentityInv /\ [Next]_vars
      => [/\ \A s \in Sessions :
               /\ sess[s].st = "revoked" => sess'[s].st = "revoked"
               /\ sess[s].device = "revoked" => sess'[s].device = "revoked"
          /\ \A g \in Grants : grant[g].st = "used" => grant'[g].st = "used"]_vars
  BY StepFinal, GrantsFinal DEF Final
<1> QED
  BY <1>1, IdentityInvCorrect, PTL DEF Spec, RevocationFinal

-----------------------------------------------------------------------------
(***************************************************************************)
(* OfflineStudio, the service of one user on one device, for every number  *)
(* of items, objects, requests, keys, jobs and faults.  The invariant      *)
(* follows the one handler that runs (HandlerFits, JobsFollow) and counts  *)
(* what is half done outside of its hands (LeftExplained): an operation    *)
(* moves a thing between its hands and the finished ones, and only a death *)
(* or a storage error drops it, one at a time.                             *)
(***************************************************************************)
Importing == {"temp", "rename", "row", "envelope", "unrow", "unblob"}
Confirming == {"configuring", "settings", "submitted"}
Generating == {"provider", "run", "snapshot", "output", "version"}

\* What the handler that runs works on, and how far it is.
HandlerFits ==
    /\ ~up => job = Idle
    /\ job.at \in Importing =>
         /\ job.on \in Items /\ owner[job.on] = None
         /\ job.obj \in Objects /\ \A i \in Items : owner[i] # job.obj
         /\ job.at = "row" => job.obj \in blob
         /\ job.at \in {"temp", "rename", "row", "unblob"} => job.obj \notin rows
         /\ job.at = "envelope" => job.obj \in rows
    /\ job.at \in Confirming =>
         /\ job.on \in Requests /\ job.key \in Contexts /\ context[job.key] # {}
         /\ request[job.on].at = (CASE job.at = "configuring" -> None
                                    [] job.at = "settings" -> "configuring"
                                    [] job.at = "submitted" -> "settings")
    /\ job.at \in Generating =>
         /\ job.on \in Requests /\ job.key \in Keys
         /\ request[job.on].at = "submitted" /\ version[job.on] = 0
         /\ job.at \in {"snapshot", "output", "version"} => Attempt \in runs
         /\ job.at \in {"output", "version"} => Attempt \in snaps
         /\ job.at = "version" => job.on \in outputs
    /\ job.at \in {"scan", "repairing"} => job.on \in Jobs

\* What a request was confirmed with, and a context was prepared from, stays.
ContextsHold ==
    /\ \A r \in Requests : request[r].at # None =>
         request[r].context \in Contexts /\ context[request[r].context] # {}
    /\ \A x \in Contexts : \A i \in context[x] : owner[i] # None

\* A draft has an output, a run with its snapshot and a submitted request.
DraftsBacked ==
    \A r \in Requests : version[r] > 0 =>
      /\ r \in outputs /\ request[r].at = "submitted"
      /\ \E k \in Keys : <<r, k>> \in runs /\ <<r, k>> \in snaps

\* The states a recovery job goes through, in their order.
FollowsScan(s) ==
    /\ Len(s) \in 0 .. 6
    /\ Len(s) >= 1 => s[1] = "detected"
    /\ Len(s) >= 2 => s[2] = "quarantined"
    /\ Len(s) >= 3 => s[3] = "scanning"
    /\ Len(s) >= 4 => s[4] \in {"repairable", "manual_recovery_required"}
    /\ Len(s) >= 5 => s[4] = "repairable" /\ s[5] = "repairing"
    /\ Len(s) >= 6 => s[6] = "verified"
JobsFollow ==
    /\ \A j \in Jobs : FollowsScan(recovery[j])
    /\ job.at = "scan" => Len(recovery[job.on]) <= 3
    /\ job.at = "repairing" => Len(recovery[job.on]) = 5

\* What is half done and not in the hands of the handler that runs.
LeftObjects == Unowned \ (IF job.at \in {"envelope", "unrow"} THEN {job.obj} ELSE {})
LeftRequests == HalfRequests \ (IF job.at \in {"settings", "submitted"} THEN {job.on} ELSE {})
LeftJobs == HalfJobs \ (IF job.at \in {"scan", "repairing"} THEN {job.on} ELSE {})
LeftRuns == HalfRuns \ (IF job.at \in {"snapshot", "output", "version"} THEN {Attempt} ELSE {})
LeftDrafts == {r \in Requests : \E k \in Keys : <<r, k>> \in LeftRuns}

LeftExplained ==
    Cardinality(LeftObjects) + Cardinality(LeftRequests) + Cardinality(LeftJobs)
      + Cardinality(LeftDrafts) <= faults

\* An output without a version was left by a run that is still half done.
OutputsLeft ==
    \A r \in outputs : version[r] = 0 =>
      (job.at = "version" /\ job.on = r) \/ r \in LeftDrafts

\* A call of the provider that did not fail has its draft, or its handler still runs.
CallsPaid ==
    faults = 0 => \A r \in Requests :
      calls[r] <= fails[r] + (IF version[r] > 0 \/ (job.at \in Generating /\ job.on = r) THEN 1 ELSE 0)

OfflineInv ==
    /\ OfflineTypeOK /\ HandlerFits /\ StoredReadable /\ ContextsHold /\ DraftsBacked
    /\ JobsFollow /\ LeftExplained /\ OutputsLeft /\ CallsPaid

\* The identifiers a handler may leave something under are finitely many.
LEMMA LeftFinite ==
  ASSUME OfflineTypeOK
  PROVE  /\ IsFiniteSet(LeftObjects) /\ IsFiniteSet(LeftRequests)
         /\ IsFiniteSet(LeftJobs) /\ IsFiniteSet(LeftDrafts)
<1>1. IsFiniteSet(Objects) /\ IsFiniteSet(Requests) /\ IsFiniteSet(Jobs)
  BY ConstantsOK
<1>2. /\ LeftObjects \subseteq Objects /\ LeftRequests \subseteq Requests
      /\ LeftJobs \subseteq Jobs /\ LeftDrafts \subseteq Requests
  BY DEF LeftObjects, Unowned, LeftRequests, HalfRequests, LeftJobs, HalfJobs, LeftDrafts,
     OfflineTypeOK
<1> QED
  BY <1>1, <1>2, FS_Subset

\* Without a death and a storage error no handler left anything.
LEMMA NothingLeft ==
  ASSUME OfflineInv, faults = 0
  PROVE  LeftDrafts = {}
<1>1. /\ Cardinality(LeftObjects) \in Nat /\ Cardinality(LeftRequests) \in Nat
      /\ Cardinality(LeftJobs) \in Nat /\ Cardinality(LeftDrafts) \in Nat
  BY LeftFinite, FS_CardinalityType DEF OfflineInv
<1>2. Cardinality(LeftDrafts) = 0
  BY <1>1 DEF OfflineInv, LeftExplained
<1> QED
  BY <1>2, LeftFinite, FS_EmptySet DEF OfflineInv

\* A run, or an output, that is there when the handler is about to append it was
\* left by an earlier handler.
LEMMA LeftOpen ==
  ASSUME OfflineInv, LeftDrafts = {}
  PROVE  /\ job.at = "run" => Attempt \notin runs
         /\ job.at = "output" => job.on \notin outputs
<1>1. CASE job.at = "run"
  <2>1. job.on \in Requests /\ job.key \in Keys /\ version[job.on] = 0
    BY <1>1 DEF OfflineInv, HandlerFits, Generating
  <2>2. Attempt \in runs => Attempt \in LeftRuns
    BY <2>1, <1>1 DEF LeftRuns, HalfRuns, Attempt
  <2> QED
    BY <2>1, <2>2, <1>1 DEF LeftDrafts, Attempt
<1>2. CASE job.at = "output"
  <2>1. job.on \in Requests /\ version[job.on] = 0
    BY <1>2 DEF OfflineInv, HandlerFits, Generating
  <2> QED
    BY <2>1, <1>2 DEF OfflineInv, OutputsLeft
<1> QED
  BY <1>1, <1>2

\* The four counts stay within the faults when nothing more is left...
LEMMA LeftShrinks ==
  ASSUME OfflineInv, faults' = faults,
         LeftObjects' \subseteq LeftObjects, LeftRequests' \subseteq LeftRequests,
         LeftJobs' \subseteq LeftJobs, LeftDrafts' \subseteq LeftDrafts
  PROVE  LeftExplained'
<1>1. /\ IsFiniteSet(LeftObjects) /\ IsFiniteSet(LeftRequests)
      /\ IsFiniteSet(LeftJobs) /\ IsFiniteSet(LeftDrafts)
  BY LeftFinite DEF OfflineInv
<1>2. /\ IsFiniteSet(LeftObjects') /\ Cardinality(LeftObjects') <= Cardinality(LeftObjects)
      /\ IsFiniteSet(LeftRequests') /\ Cardinality(LeftRequests') <= Cardinality(LeftRequests)
      /\ IsFiniteSet(LeftJobs') /\ Cardinality(LeftJobs') <= Cardinality(LeftJobs)
      /\ IsFiniteSet(LeftDrafts') /\ Cardinality(LeftDrafts') <= Cardinality(LeftDrafts)
  BY <1>1, FS_Subset
<1>3. /\ Cardinality(LeftObjects) \in Nat /\ Cardinality(LeftRequests) \in Nat
      /\ Cardinality(LeftJobs) \in Nat /\ Cardinality(LeftDrafts) \in Nat
      /\ Cardinality(LeftObjects') \in Nat /\ Cardinality(LeftRequests') \in Nat
      /\ Cardinality(LeftJobs') \in Nat /\ Cardinality(LeftDrafts') \in Nat
  BY <1>1, <1>2, FS_CardinalityType
<1>4. faults \in Nat
  BY ConstantsOK DEF OfflineInv, OfflineTypeOK
<1> QED
  BY <1>2, <1>3, <1>4 DEF OfflineInv, LeftExplained

\* ...a set that gains at most one element counts at most one more.
LEMMA OneMore ==
  ASSUME NEW S, IsFiniteSet(S), NEW x, NEW T, T \subseteq S \cup {x}
  PROVE  /\ Cardinality(T) \in Nat /\ Cardinality(S) \in Nat
         /\ Cardinality(T) <= Cardinality(S) + 1
<1>1. /\ IsFiniteSet(S \cup {x})
      /\ Cardinality(S \cup {x}) = IF x \in S THEN Cardinality(S) ELSE Cardinality(S) + 1
  BY FS_AddElement
<1>2. IsFiniteSet(T) /\ Cardinality(T) <= Cardinality(S \cup {x})
  BY <1>1, FS_Subset
<1>3. Cardinality(T) \in Nat /\ Cardinality(S) \in Nat
  BY <1>2, FS_CardinalityType
<1> QED
  BY <1>1, <1>2, <1>3

\* ...and a set that gains none counts no more.
LEMMA SameCount ==
  ASSUME NEW S, IsFiniteSet(S), NEW T, T \subseteq S
  PROVE  /\ Cardinality(T) \in Nat /\ Cardinality(S) \in Nat
         /\ Cardinality(T) <= Cardinality(S)
BY FS_Subset, FS_CardinalityType

\* A handler that ends anywhere leaves at most the one thing it was doing.
LEMMA HandlerEnds ==
  ASSUME OfflineInv, job' = Idle, faults' = faults + 1,
         UNCHANGED <<rows, owner, request, recovery, runs, snaps, outputs, version>>
  PROVE  LeftExplained' /\ OutputsLeft' /\ JobsFollow'
<1>1. Unowned' = Unowned /\ HalfRequests' = HalfRequests /\ HalfJobs' = HalfJobs /\ HalfRuns' = HalfRuns
  BY DEF Unowned, HalfRequests, HalfJobs, HalfRuns, LastOf
<1>2. LeftObjects' = Unowned /\ LeftRequests' = HalfRequests /\ LeftJobs' = HalfJobs /\ LeftRuns' = HalfRuns
  BY <1>1 DEF LeftObjects, LeftRequests, LeftJobs, LeftRuns, Idle
<1>3. /\ job.at \notin {"envelope", "unrow"} => LeftObjects' \subseteq LeftObjects
      /\ job.at \notin {"settings", "submitted"} => LeftRequests' \subseteq LeftRequests
      /\ job.at \notin {"scan", "repairing"} => LeftJobs' \subseteq LeftJobs
      /\ LeftObjects' \subseteq LeftObjects \cup {job.obj}
      /\ LeftRequests' \subseteq LeftRequests \cup {job.on}
      /\ LeftJobs' \subseteq LeftJobs \cup {job.on}
  BY <1>2 DEF LeftObjects, LeftRequests, LeftJobs
<1>4. /\ job.at \notin {"snapshot", "output", "version"} => LeftDrafts' = LeftDrafts
      /\ LeftDrafts' \subseteq LeftDrafts \cup {job.on}
      /\ LeftDrafts \subseteq LeftDrafts'
  BY <1>2 DEF LeftDrafts, LeftRuns, Attempt
<1>5. /\ IsFiniteSet(LeftObjects) /\ IsFiniteSet(LeftRequests)
      /\ IsFiniteSet(LeftJobs) /\ IsFiniteSet(LeftDrafts)
  BY LeftFinite DEF OfflineInv
<1>6. faults \in Nat
  BY ConstantsOK DEF OfflineInv, OfflineTypeOK
<1>7. LeftExplained'
  <2> DEFINE o == Cardinality(LeftObjects)
             q == Cardinality(LeftRequests)
             j == Cardinality(LeftJobs)
             d == Cardinality(LeftDrafts)
             o1 == Cardinality(LeftObjects')
             q1 == Cardinality(LeftRequests')
             j1 == Cardinality(LeftJobs')
             d1 == Cardinality(LeftDrafts')
  <2>1. o1 \in Nat /\ o \in Nat /\ o1 <= o + 1 /\ (job.at \notin {"envelope", "unrow"} => o1 <= o)
    BY <1>3, <1>5, OneMore, SameCount
  <2>2. q1 \in Nat /\ q \in Nat /\ q1 <= q + 1 /\ (job.at \notin {"settings", "submitted"} => q1 <= q)
    BY <1>3, <1>5, OneMore, SameCount
  <2>3. j1 \in Nat /\ j \in Nat /\ j1 <= j + 1 /\ (job.at \notin {"scan", "repairing"} => j1 <= j)
    BY <1>3, <1>5, OneMore, SameCount
  <2>4. d1 \in Nat /\ d \in Nat /\ d1 <= d + 1 /\ (job.at \notin {"snapshot", "output", "version"} => d1 <= d)
    BY <1>4, <1>5, OneMore, SameCount
  <2>5. o + q + j + d <= faults
    BY DEF OfflineInv, LeftExplained
  <2> HIDE DEF o, q, j, d, o1, q1, j1, d1
  <2>6. o1 + q1 + j1 + d1 <= o + q + j + d + 1
    BY <2>1, <2>2, <2>3, <2>4
  <2>7. o1 + q1 + j1 + d1 <= faults + 1
    BY <2>1, <2>2, <2>3, <2>4, <2>5, <2>6, <1>6
  <2> QED
    BY <2>7 DEF LeftExplained, o1, q1, j1, d1
<1>8. OutputsLeft'
  <2>1. ASSUME NEW r \in outputs, version[r] = 0
        PROVE  r \in LeftDrafts'
    <3>1. CASE r \in LeftDrafts
      BY <3>1, <1>4
    <3>2. CASE job.at = "version" /\ job.on = r
      <4>1. job.on \in Requests /\ job.key \in Keys /\ Attempt \in runs
        BY <3>2 DEF OfflineInv, HandlerFits, Generating
      <4>2. Attempt \in HalfRuns
        BY <4>1, <3>2, <2>1 DEF HalfRuns, Attempt
      <4> QED
        BY <4>1, <4>2, <1>2, <3>2 DEF LeftDrafts, Attempt
    <3> QED
      BY <3>1, <3>2, <2>1 DEF OfflineInv, OutputsLeft
  <2> QED
    BY <2>1 DEF OutputsLeft
<1>9. JobsFollow'
  BY DEF OfflineInv, JobsFollow, Idle
<1> QED
  BY <1>7, <1>8, <1>9

\* An operation leaves alone what is half done in the parts it does not touch.
LEMMA ObjectsKept ==
  ASSUME UNCHANGED <<rows, owner>>,
         job.at \notin {"envelope", "unrow"}, job'.at \notin {"envelope", "unrow"}
  PROVE  LeftObjects' = LeftObjects
BY DEF LeftObjects, Unowned

LEMMA RequestsKept ==
  ASSUME request' = request,
         job.at \notin {"settings", "submitted"}, job'.at \notin {"settings", "submitted"}
  PROVE  LeftRequests' = LeftRequests
BY DEF LeftRequests, HalfRequests

LEMMA JobsKept ==
  ASSUME OfflineInv, recovery' = recovery,
         job.at \notin {"scan", "repairing"}, job'.at \notin {"scan", "repairing"}
  PROVE  LeftJobs' = LeftJobs /\ JobsFollow'
BY DEF LeftJobs, HalfJobs, LastOf, JobsFollow, OfflineInv

LEMMA RunsKept ==
  ASSUME OfflineInv, UNCHANGED <<runs, snaps, outputs, version>>,
         job.at \notin {"snapshot", "output", "version"},
         job'.at \notin {"snapshot", "output", "version"}
  PROVE  LeftDrafts' = LeftDrafts /\ OutputsLeft'
<1>1. LeftRuns' = LeftRuns
  BY DEF LeftRuns, HalfRuns
<1>2. LeftDrafts' = LeftDrafts
  BY <1>1 DEF LeftDrafts
<1> QED
  BY <1>2 DEF OfflineInv, OutputsLeft

\* The object of a new item is drawn: it is under no name yet.
LEMMA PutFileInv ==
  ASSUME OfflineInv, NEW i \in Items, PutFile(i)
  PROVE  /\ OfflineTypeOK' /\ HandlerFits' /\ StoredReadable' /\ ContextsHold' /\ DraftsBacked' /\ CallsPaid'
         /\ JobsFollow' /\ LeftExplained' /\ OutputsLeft'
<1>1. OfflineTypeOK'
  <2>1. job' \in Handlers
    BY ConstantsOK DEF OfflineInv, OfflineTypeOK, PutFile, Ready, Idle, Handlers, Places, Items
  <2> QED
    BY <2>1 DEF OfflineInv, OfflineTypeOK, PutFile, Ready, Idle, files, items, drafts,
       counts, world, outside
<1>2. HandlerFits'
  BY ConstantsOK, <1>1 DEF OfflineInv, HandlerFits, PutFile, Ready, Idle, files, items,
     drafts, counts, world, outside, Handlers, Confirmed, Importing, Confirming, Generating, Attempt,
     OfflineTypeOK, StoredReadable, ContextsHold, DraftsBacked
<1>3. StoredReadable'
  BY ConstantsOK, <1>1 DEF OfflineInv, StoredReadable, PutFile, Ready, Idle, files, items,
     drafts, counts, world, outside, Handlers, Confirmed, HandlerFits, Importing, OfflineTypeOK
<1>4. ContextsHold'
  BY ConstantsOK, <1>1 DEF OfflineInv, ContextsHold, PutFile, Ready, Idle, files, items,
     drafts, counts, world, outside, Handlers, Confirmed, HandlerFits, Importing, Confirming,
     OfflineTypeOK
<1>5. DraftsBacked'
  BY ConstantsOK, <1>1 DEF OfflineInv, DraftsBacked, PutFile, Ready, Idle, files, items,
     drafts, counts, world, outside, Handlers, Confirmed, HandlerFits, Confirming, Generating,
     Attempt, OfflineTypeOK
<1>6. CallsPaid'
  BY ConstantsOK, <1>1 DEF OfflineInv, CallsPaid, PutFile, Ready, Idle, files, items,
     drafts, counts, world, outside, Handlers, Confirmed, HandlerFits, Generating, OfflineTypeOK
<1>7. LeftExplained' /\ OutputsLeft' /\ JobsFollow'
  <2>1. LeftObjects' = LeftObjects
    <3>1. UNCHANGED <<rows, owner>> /\ job.at \notin {"envelope", "unrow"} /\ job'.at \notin {"envelope", "unrow"}
      BY DEF OfflineInv, OfflineTypeOK, Handlers, PutFile, Ready, Idle, files, items, drafts
    <3> QED
      BY <3>1, ObjectsKept
  <2>2. LeftRequests' = LeftRequests
    <3>1. request' = request /\ job.at \notin {"settings", "submitted"} /\ job'.at \notin {"settings", "submitted"}
      BY DEF OfflineInv, OfflineTypeOK, Handlers, PutFile, Ready, Idle, files, items, drafts
    <3> QED
      BY <3>1, RequestsKept
  <2>3. LeftJobs' = LeftJobs /\ JobsFollow'
    <3>1. recovery' = recovery /\ job.at \notin {"scan", "repairing"} /\ job'.at \notin {"scan", "repairing"}
      BY DEF OfflineInv, OfflineTypeOK, Handlers, PutFile, Ready, Idle, files, items, drafts
    <3> QED
      BY <3>1, JobsKept
  <2>4. LeftDrafts' = LeftDrafts /\ OutputsLeft'
    <3>1. UNCHANGED <<runs, snaps, outputs, version>> /\ job.at \notin {"snapshot", "output", "version"} /\ job'.at \notin {"snapshot", "output", "version"}
      BY DEF OfflineInv, OfflineTypeOK, Handlers, PutFile, Ready, Idle, files, items, drafts
    <3> QED
      BY <3>1, RunsKept
  <2>5. faults' = faults
    BY DEF PutFile, world, outside
  <2> QED
    BY <2>1, <2>2, <2>3, <2>4, <2>5, LeftShrinks
<1> QED
  BY <1>1, <1>2, <1>3, <1>4, <1>5, <1>6, <1>7

\* A temporary file is written.
LEMMA WriteTempInv ==
  ASSUME OfflineInv, WriteTemp
  PROVE  /\ OfflineTypeOK' /\ HandlerFits' /\ StoredReadable' /\ ContextsHold' /\ DraftsBacked' /\ CallsPaid'
         /\ JobsFollow' /\ LeftExplained' /\ OutputsLeft'
<1>1. OfflineTypeOK'
  <2>1. job' \in Handlers
    BY ConstantsOK DEF OfflineInv, OfflineTypeOK, WriteTemp, At, Step, Handlers, Places,
       Items, Idle
  <2>2. job.obj \in Objects
    BY ConstantsOK DEF OfflineInv, OfflineTypeOK, WriteTemp, At, Step, HandlerFits,
       Importing, Confirming, Generating, Attempt
  <2> QED
    BY <2>1, <2>2 DEF OfflineInv, OfflineTypeOK, WriteTemp, At, Step, files, items,
       drafts, counts, world, outside
<1>2. HandlerFits'
  BY ConstantsOK, <1>1 DEF OfflineInv, HandlerFits, WriteTemp, At, Step, files, items,
     drafts, counts, world, outside, Handlers, Confirmed, Importing, Confirming, Generating, Attempt,
     OfflineTypeOK, StoredReadable, ContextsHold, DraftsBacked, Idle
<1>3. StoredReadable'
  BY ConstantsOK, <1>1 DEF OfflineInv, StoredReadable, WriteTemp, At, Step, files, items,
     drafts, counts, world, outside, Handlers, Confirmed, HandlerFits, Importing, OfflineTypeOK
<1>4. ContextsHold'
  BY ConstantsOK, <1>1 DEF OfflineInv, ContextsHold, WriteTemp, At, Step, files, items,
     drafts, counts, world, outside, Handlers, Confirmed, HandlerFits, Importing, Confirming,
     OfflineTypeOK
<1>5. DraftsBacked'
  BY ConstantsOK, <1>1 DEF OfflineInv, DraftsBacked, WriteTemp, At, Step, files, items,
     drafts, counts, world, outside, Handlers, Confirmed, HandlerFits, Confirming, Generating,
     Attempt, OfflineTypeOK
<1>6. CallsPaid'
  BY ConstantsOK, <1>1 DEF OfflineInv, CallsPaid, WriteTemp, At, Step, files, items, drafts,
     counts, world, outside, Handlers, Confirmed, HandlerFits, Generating, OfflineTypeOK, Idle
<1>7. LeftExplained' /\ OutputsLeft' /\ JobsFollow'
  <2>1. LeftObjects' = LeftObjects
    <3>1. UNCHANGED <<rows, owner>> /\ job.at \notin {"envelope", "unrow"} /\ job'.at \notin {"envelope", "unrow"}
      BY DEF OfflineInv, OfflineTypeOK, Handlers, WriteTemp, At, Step, Idle, files,
         items, drafts
    <3> QED
      BY <3>1, ObjectsKept
  <2>2. LeftRequests' = LeftRequests
    <3>1. request' = request /\ job.at \notin {"settings", "submitted"} /\ job'.at \notin {"settings", "submitted"}
      BY DEF OfflineInv, OfflineTypeOK, Handlers, WriteTemp, At, Step, Idle, files,
         items, drafts
    <3> QED
      BY <3>1, RequestsKept
  <2>3. LeftJobs' = LeftJobs /\ JobsFollow'
    <3>1. recovery' = recovery /\ job.at \notin {"scan", "repairing"} /\ job'.at \notin {"scan", "repairing"}
      BY DEF OfflineInv, OfflineTypeOK, Handlers, WriteTemp, At, Step, Idle, files,
         items, drafts
    <3> QED
      BY <3>1, JobsKept
  <2>4. LeftDrafts' = LeftDrafts /\ OutputsLeft'
    <3>1. UNCHANGED <<runs, snaps, outputs, version>> /\ job.at \notin {"snapshot", "output", "version"} /\ job'.at \notin {"snapshot", "output", "version"}
      BY DEF OfflineInv, OfflineTypeOK, Handlers, WriteTemp, At, Step, Idle, files,
         items, drafts
    <3> QED
      BY <3>1, RunsKept
  <2>5. faults' = faults
    BY DEF WriteTemp, world, outside
  <2> QED
    BY <2>1, <2>2, <2>3, <2>4, <2>5, LeftShrinks
<1> QED
  BY <1>1, <1>2, <1>3, <1>4, <1>5, <1>6, <1>7

\* The file gets its name before its row exists.
LEMMA RenameInv ==
  ASSUME OfflineInv, Rename
  PROVE  /\ OfflineTypeOK' /\ HandlerFits' /\ StoredReadable' /\ ContextsHold' /\ DraftsBacked' /\ CallsPaid'
         /\ JobsFollow' /\ LeftExplained' /\ OutputsLeft'
<1>1. OfflineTypeOK'
  <2>1. job' \in Handlers
    BY ConstantsOK DEF OfflineInv, OfflineTypeOK, Rename, At, Step, Handlers, Places,
       Items, Idle
  <2>2. job.obj \in Objects
    BY ConstantsOK DEF OfflineInv, OfflineTypeOK, Rename, At, Step, HandlerFits,
       Importing, Confirming, Generating, Attempt
  <2> QED
    BY <2>1, <2>2 DEF OfflineInv, OfflineTypeOK, Rename, At, Step, files, items, drafts,
       counts, world, outside
<1>2. HandlerFits'
  BY ConstantsOK, <1>1 DEF OfflineInv, HandlerFits, Rename, At, Step, files, items, drafts,
     counts, world, outside, Handlers, Confirmed, Importing, Confirming, Generating, Attempt,
     OfflineTypeOK, StoredReadable, ContextsHold, DraftsBacked, Idle
<1>3. StoredReadable'
  BY ConstantsOK, <1>1 DEF OfflineInv, StoredReadable, Rename, At, Step, files, items,
     drafts, counts, world, outside, Handlers, Confirmed, HandlerFits, Importing, OfflineTypeOK
<1>4. ContextsHold'
  BY ConstantsOK, <1>1 DEF OfflineInv, ContextsHold, Rename, At, Step, files, items, drafts,
     counts, world, outside, Handlers, Confirmed, HandlerFits, Importing, Confirming, OfflineTypeOK
<1>5. DraftsBacked'
  BY ConstantsOK, <1>1 DEF OfflineInv, DraftsBacked, Rename, At, Step, files, items, drafts,
     counts, world, outside, Handlers, Confirmed, HandlerFits, Confirming, Generating, Attempt,
     OfflineTypeOK
<1>6. CallsPaid'
  BY ConstantsOK, <1>1 DEF OfflineInv, CallsPaid, Rename, At, Step, files, items, drafts,
     counts, world, outside, Handlers, Confirmed, HandlerFits, Generating, OfflineTypeOK, Idle
<1>7. LeftExplained' /\ OutputsLeft' /\ JobsFollow'
  <2>1. LeftObjects' = LeftObjects
    <3>1. UNCHANGED <<rows, owner>> /\ job.at \notin {"envelope", "unrow"} /\ job'.at \notin {"envelope", "unrow"}
      BY DEF OfflineInv, OfflineTypeOK, Handlers, Rename, At, Step, Idle, files, items, drafts
    <3> QED
      BY <3>1, ObjectsKept
  <2>2. LeftRequests' = LeftRequests
    <3>1. request' = request /\ job.at \notin {"settings", "submitted"} /\ job'.at \notin {"settings", "submitted"}
      BY DEF OfflineInv, OfflineTypeOK, Handlers, Rename, At, Step, Idle, files, items, drafts
    <3> QED
      BY <3>1, RequestsKept
  <2>3. LeftJobs' = LeftJobs /\ JobsFollow'
    <3>1. recovery' = recovery /\ job.at \notin {"scan", "repairing"} /\ job'.at \notin {"scan", "repairing"}
      BY DEF OfflineInv, OfflineTypeOK, Handlers, Rename, At, Step, Idle, files, items, drafts
    <3> QED
      BY <3>1, JobsKept
  <2>4. LeftDrafts' = LeftDrafts /\ OutputsLeft'
    <3>1. UNCHANGED <<runs, snaps, outputs, version>> /\ job.at \notin {"snapshot", "output", "version"} /\ job'.at \notin {"snapshot", "output", "version"}
      BY DEF OfflineInv, OfflineTypeOK, Handlers, Rename, At, Step, Idle, files, items, drafts
    <3> QED
      BY <3>1, RunsKept
  <2>5. faults' = faults
    BY DEF Rename, world, outside
  <2> QED
    BY <2>1, <2>2, <2>3, <2>4, <2>5, LeftShrinks
<1> QED
  BY <1>1, <1>2, <1>3, <1>4, <1>5, <1>6, <1>7

\* The row of an object whose file is there.
LEMMA InsertRowInv ==
  ASSUME OfflineInv, InsertRow
  PROVE  /\ OfflineTypeOK' /\ HandlerFits' /\ StoredReadable' /\ ContextsHold' /\ DraftsBacked' /\ CallsPaid'
         /\ JobsFollow' /\ LeftExplained' /\ OutputsLeft'
<1>1. OfflineTypeOK'
  <2>1. job' \in Handlers
    BY ConstantsOK DEF OfflineInv, OfflineTypeOK, InsertRow, At, Step, Handlers, Places,
       Items, Idle
  <2>2. job.obj \in Objects
    BY ConstantsOK DEF OfflineInv, OfflineTypeOK, InsertRow, At, Step, HandlerFits,
       Importing, Confirming, Generating, Attempt
  <2> QED
    BY <2>1, <2>2 DEF OfflineInv, OfflineTypeOK, InsertRow, At, Step, files, items,
       drafts, counts, world, outside
<1>2. HandlerFits'
  BY ConstantsOK, <1>1 DEF OfflineInv, HandlerFits, InsertRow, At, Step, files, items,
     drafts, counts, world, outside, Handlers, Confirmed, Importing, Confirming, Generating, Attempt,
     OfflineTypeOK, StoredReadable, ContextsHold, DraftsBacked, Idle
<1>3. StoredReadable'
  BY ConstantsOK, <1>1 DEF OfflineInv, StoredReadable, InsertRow, At, Step, files, items,
     drafts, counts, world, outside, Handlers, Confirmed, HandlerFits, Importing, OfflineTypeOK
<1>4. ContextsHold'
  BY ConstantsOK, <1>1 DEF OfflineInv, ContextsHold, InsertRow, At, Step, files, items,
     drafts, counts, world, outside, Handlers, Confirmed, HandlerFits, Importing, Confirming,
     OfflineTypeOK
<1>5. DraftsBacked'
  BY ConstantsOK, <1>1 DEF OfflineInv, DraftsBacked, InsertRow, At, Step, files, items,
     drafts, counts, world, outside, Handlers, Confirmed, HandlerFits, Confirming, Generating,
     Attempt, OfflineTypeOK
<1>6. CallsPaid'
  BY ConstantsOK, <1>1 DEF OfflineInv, CallsPaid, InsertRow, At, Step, files, items, drafts,
     counts, world, outside, Handlers, Confirmed, HandlerFits, Generating, OfflineTypeOK, Idle
<1>7. LeftExplained' /\ OutputsLeft' /\ JobsFollow'
  <2>1. LeftObjects' \subseteq LeftObjects
    BY DEF OfflineInv, OfflineTypeOK, Handlers, HandlerFits, Importing, LeftObjects,
       Unowned, InsertRow, At, Step, files, items
  <2>2. LeftRequests' = LeftRequests
    <3>1. request' = request /\ job.at \notin {"settings", "submitted"} /\ job'.at \notin {"settings", "submitted"}
      BY DEF OfflineInv, OfflineTypeOK, Handlers, InsertRow, At, Step, Idle, files,
         items, drafts
    <3> QED
      BY <3>1, RequestsKept
  <2>3. LeftJobs' = LeftJobs /\ JobsFollow'
    <3>1. recovery' = recovery /\ job.at \notin {"scan", "repairing"} /\ job'.at \notin {"scan", "repairing"}
      BY DEF OfflineInv, OfflineTypeOK, Handlers, InsertRow, At, Step, Idle, files,
         items, drafts
    <3> QED
      BY <3>1, JobsKept
  <2>4. LeftDrafts' = LeftDrafts /\ OutputsLeft'
    <3>1. UNCHANGED <<runs, snaps, outputs, version>> /\ job.at \notin {"snapshot", "output", "version"} /\ job'.at \notin {"snapshot", "output", "version"}
      BY DEF OfflineInv, OfflineTypeOK, Handlers, InsertRow, At, Step, Idle, files,
         items, drafts
    <3> QED
      BY <3>1, RunsKept
  <2>5. faults' = faults
    BY DEF InsertRow, world, outside
  <2> QED
    BY <2>1, <2>2, <2>3, <2>4, <2>5, LeftShrinks
<1> QED
  BY <1>1, <1>2, <1>3, <1>4, <1>5, <1>6, <1>7

\* A failed put_file leaves no row.
LEMMA PutFileFailsInv ==
  ASSUME OfflineInv, PutFileFails
  PROVE  /\ OfflineTypeOK' /\ HandlerFits' /\ StoredReadable' /\ ContextsHold' /\ DraftsBacked' /\ CallsPaid'
         /\ JobsFollow' /\ LeftExplained' /\ OutputsLeft'
<1>1. OfflineTypeOK'
  <2>1. job' \in Handlers
    BY ConstantsOK DEF OfflineInv, OfflineTypeOK, PutFileFails, Done, Idle, Handlers,
       Places, Items
  <2>2. faults' \in 0 .. MaxFaults
    BY ConstantsOK DEF OfflineInv, OfflineTypeOK, PutFileFails, Done, Idle, HandlerFits,
       Importing, Confirming, Generating, Attempt
  <2> QED
    BY <2>1, <2>2 DEF OfflineInv, OfflineTypeOK, PutFileFails, Done, Idle, files, items,
       drafts, counts, world, outside
<1>2. HandlerFits'
  BY ConstantsOK, <1>1 DEF OfflineInv, HandlerFits, PutFileFails, Done, Idle, files, items,
     drafts, counts, world, outside, Handlers, Confirmed, Importing, Confirming, Generating, Attempt,
     OfflineTypeOK, StoredReadable, ContextsHold, DraftsBacked
<1>3. StoredReadable'
  BY ConstantsOK, <1>1 DEF OfflineInv, StoredReadable, PutFileFails, Done, Idle, files,
     items, drafts, counts, world, outside, Handlers, Confirmed, HandlerFits, Importing,
     OfflineTypeOK
<1>4. ContextsHold'
  BY ConstantsOK, <1>1 DEF OfflineInv, ContextsHold, PutFileFails, Done, Idle, files, items,
     drafts, counts, world, outside, Handlers, Confirmed, HandlerFits, Importing, Confirming,
     OfflineTypeOK
<1>5. DraftsBacked'
  BY ConstantsOK, <1>1 DEF OfflineInv, DraftsBacked, PutFileFails, Done, Idle, files, items,
     drafts, counts, world, outside, Handlers, Confirmed, HandlerFits, Confirming, Generating,
     Attempt, OfflineTypeOK
<1>6. CallsPaid'
  BY ConstantsOK, <1>1 DEF OfflineInv, CallsPaid, PutFileFails, Done, Idle, files, items,
     drafts, counts, world, outside, Handlers, Confirmed, HandlerFits, Generating, OfflineTypeOK
<1>7. LeftExplained' /\ OutputsLeft' /\ JobsFollow'
  <2>1. /\ job' = Idle /\ faults' = faults + 1
        /\ UNCHANGED <<rows, owner, request, recovery, runs, snaps, outputs, version>>
    BY DEF PutFileFails, Done, files, items, drafts
  <2> QED
    BY <2>1, HandlerEnds
<1> QED
  BY <1>1, <1>2, <1>3, <1>4, <1>5, <1>6, <1>7

\* The envelope of a copy names the object of its import.
LEMMA PutCanonicalEnvelopeInv ==
  ASSUME OfflineInv, PutCanonicalEnvelope
  PROVE  /\ OfflineTypeOK' /\ HandlerFits' /\ StoredReadable' /\ ContextsHold' /\ DraftsBacked' /\ CallsPaid'
         /\ JobsFollow' /\ LeftExplained' /\ OutputsLeft'
<1>1. OfflineTypeOK'
  <2>1. job' \in Handlers
    BY ConstantsOK DEF OfflineInv, OfflineTypeOK, PutCanonicalEnvelope, At, Done, Idle,
       Handlers, Places, Items
  <2>2. owner' \in [Items -> Objects \cup {None}]
    BY ConstantsOK DEF OfflineInv, OfflineTypeOK, PutCanonicalEnvelope, At, Done, Idle,
       HandlerFits, Importing, Confirming, Generating, Attempt, Items
  <2>3. copy' \in [Copies -> Seq({"approved", "revoked", "expired"})]
    BY ConstantsOK DEF OfflineInv, OfflineTypeOK, PutCanonicalEnvelope, At, Done, Idle,
       HandlerFits, Importing, Confirming, Generating, Attempt
  <2> QED
    BY <2>1, <2>2, <2>3 DEF OfflineInv, OfflineTypeOK, PutCanonicalEnvelope, At, Done,
       Idle, files, items, drafts, counts, world, outside
<1>2. HandlerFits'
  BY ConstantsOK, <1>1 DEF OfflineInv, HandlerFits, PutCanonicalEnvelope, At, Done, Idle,
     files, items, drafts, counts, world, outside, Handlers, Confirmed, Importing, Confirming,
     Generating, Attempt, OfflineTypeOK, StoredReadable, ContextsHold, DraftsBacked
<1>3. StoredReadable'
  BY ConstantsOK, <1>1 DEF OfflineInv, StoredReadable, PutCanonicalEnvelope, At, Done, Idle,
     files, items, drafts, counts, world, outside, Handlers, Confirmed, HandlerFits, Importing,
     OfflineTypeOK
<1>4. ContextsHold'
  BY ConstantsOK, <1>1 DEF OfflineInv, ContextsHold, PutCanonicalEnvelope, At, Done, Idle,
     files, items, drafts, counts, world, outside, Handlers, Confirmed, HandlerFits, Importing,
     Confirming, OfflineTypeOK
<1>5. DraftsBacked'
  BY ConstantsOK, <1>1 DEF OfflineInv, DraftsBacked, PutCanonicalEnvelope, At, Done, Idle,
     files, items, drafts, counts, world, outside, Handlers, Confirmed, HandlerFits, Confirming,
     Generating, Attempt, OfflineTypeOK
<1>6. CallsPaid'
  BY ConstantsOK, <1>1 DEF OfflineInv, CallsPaid, PutCanonicalEnvelope, At, Done, Idle,
     files, items, drafts, counts, world, outside, Handlers, Confirmed, HandlerFits, Generating,
     OfflineTypeOK
<1>7. LeftExplained' /\ OutputsLeft' /\ JobsFollow'
  <2>1. LeftObjects' \subseteq LeftObjects
    <3>1. /\ job.at = "envelope" /\ job'.at = "idle" /\ job.on \in Items /\ owner[job.on] = None
          /\ owner' = [owner EXCEPT ![job.on] = job.obj] /\ rows' = rows
          /\ owner \in [Items -> Objects \cup {None}] /\ rows \subseteq Objects
      BY DEF OfflineInv, OfflineTypeOK, HandlerFits, Importing, PutCanonicalEnvelope,
         At, Done, Idle, files
    <3>2. None \notin Objects
      BY ConstantsOK
    <3>3. ASSUME NEW o \in rows, \A i \in Items : owner'[i] # o
          PROVE  o # job.obj /\ \A i \in Items : owner[i] # o
      <4>1. o # job.obj
        BY <3>1, <3>3
      <4>2. ASSUME NEW i \in Items
            PROVE  owner[i] # o
        <5>1. CASE i = job.on
          BY <5>1, <3>1, <3>2
        <5>2. CASE i # job.on
          BY <5>2, <3>1, <3>3
        <5> QED
          BY <5>1, <5>2
      <4> QED
        BY <4>1, <4>2
    <3> QED
      BY <3>1, <3>3 DEF LeftObjects, Unowned
  <2>2. LeftRequests' = LeftRequests
    <3>1. request' = request /\ job.at \notin {"settings", "submitted"} /\ job'.at \notin {"settings", "submitted"}
      BY DEF OfflineInv, OfflineTypeOK, Handlers, PutCanonicalEnvelope, At, Done, Idle,
         files, items, drafts
    <3> QED
      BY <3>1, RequestsKept
  <2>3. LeftJobs' = LeftJobs /\ JobsFollow'
    <3>1. recovery' = recovery /\ job.at \notin {"scan", "repairing"} /\ job'.at \notin {"scan", "repairing"}
      BY DEF OfflineInv, OfflineTypeOK, Handlers, PutCanonicalEnvelope, At, Done, Idle,
         files, items, drafts
    <3> QED
      BY <3>1, JobsKept
  <2>4. LeftDrafts' = LeftDrafts /\ OutputsLeft'
    <3>1. UNCHANGED <<runs, snaps, outputs, version>> /\ job.at \notin {"snapshot", "output", "version"} /\ job'.at \notin {"snapshot", "output", "version"}
      BY DEF OfflineInv, OfflineTypeOK, Handlers, PutCanonicalEnvelope, At, Done, Idle,
         files, items, drafts
    <3> QED
      BY <3>1, RunsKept
  <2>5. faults' = faults
    BY DEF PutCanonicalEnvelope, world, outside
  <2> QED
    BY <2>1, <2>2, <2>3, <2>4, <2>5, LeftShrinks
<1> QED
  BY <1>1, <1>2, <1>3, <1>4, <1>5, <1>6, <1>7

\* The bundle of a raw source names the object of its import.
LEMMA PutRawSourceBundleInv ==
  ASSUME OfflineInv, PutRawSourceBundle
  PROVE  /\ OfflineTypeOK' /\ HandlerFits' /\ StoredReadable' /\ ContextsHold' /\ DraftsBacked' /\ CallsPaid'
         /\ JobsFollow' /\ LeftExplained' /\ OutputsLeft'
<1>1. OfflineTypeOK'
  <2>1. job' \in Handlers
    BY ConstantsOK DEF OfflineInv, OfflineTypeOK, PutRawSourceBundle, At, Done, Idle,
       Handlers, Places, Items
  <2>2. owner' \in [Items -> Objects \cup {None}]
    BY ConstantsOK DEF OfflineInv, OfflineTypeOK, PutRawSourceBundle, At, Done, Idle,
       HandlerFits, Importing, Confirming, Generating, Attempt, Items
  <2> QED
    BY <2>1, <2>2 DEF OfflineInv, OfflineTypeOK, PutRawSourceBundle, At, Done, Idle,
       files, items, drafts, counts, world, outside
<1>2. HandlerFits'
  BY ConstantsOK, <1>1 DEF OfflineInv, HandlerFits, PutRawSourceBundle, At, Done, Idle,
     files, items, drafts, counts, world, outside, Handlers, Confirmed, Importing, Confirming,
     Generating, Attempt, OfflineTypeOK, StoredReadable, ContextsHold, DraftsBacked
<1>3. StoredReadable'
  BY ConstantsOK, <1>1 DEF OfflineInv, StoredReadable, PutRawSourceBundle, At, Done, Idle,
     files, items, drafts, counts, world, outside, Handlers, Confirmed, HandlerFits, Importing,
     OfflineTypeOK
<1>4. ContextsHold'
  BY ConstantsOK, <1>1 DEF OfflineInv, ContextsHold, PutRawSourceBundle, At, Done, Idle,
     files, items, drafts, counts, world, outside, Handlers, Confirmed, HandlerFits, Importing,
     Confirming, OfflineTypeOK
<1>5. DraftsBacked'
  BY ConstantsOK, <1>1 DEF OfflineInv, DraftsBacked, PutRawSourceBundle, At, Done, Idle,
     files, items, drafts, counts, world, outside, Handlers, Confirmed, HandlerFits, Confirming,
     Generating, Attempt, OfflineTypeOK
<1>6. CallsPaid'
  BY ConstantsOK, <1>1 DEF OfflineInv, CallsPaid, PutRawSourceBundle, At, Done, Idle, files,
     items, drafts, counts, world, outside, Handlers, Confirmed, HandlerFits, Generating,
     OfflineTypeOK
<1>7. LeftExplained' /\ OutputsLeft' /\ JobsFollow'
  <2>1. LeftObjects' \subseteq LeftObjects
    <3>1. /\ job.at = "envelope" /\ job'.at = "idle" /\ job.on \in Items /\ owner[job.on] = None
          /\ owner' = [owner EXCEPT ![job.on] = job.obj] /\ rows' = rows
          /\ owner \in [Items -> Objects \cup {None}] /\ rows \subseteq Objects
      BY DEF OfflineInv, OfflineTypeOK, HandlerFits, Importing, PutRawSourceBundle, At,
         Done, Idle, files
    <3>2. None \notin Objects
      BY ConstantsOK
    <3>3. ASSUME NEW o \in rows, \A i \in Items : owner'[i] # o
          PROVE  o # job.obj /\ \A i \in Items : owner[i] # o
      <4>1. o # job.obj
        BY <3>1, <3>3
      <4>2. ASSUME NEW i \in Items
            PROVE  owner[i] # o
        <5>1. CASE i = job.on
          BY <5>1, <3>1, <3>2
        <5>2. CASE i # job.on
          BY <5>2, <3>1, <3>3
        <5> QED
          BY <5>1, <5>2
      <4> QED
        BY <4>1, <4>2
    <3> QED
      BY <3>1, <3>3 DEF LeftObjects, Unowned
  <2>2. LeftRequests' = LeftRequests
    <3>1. request' = request /\ job.at \notin {"settings", "submitted"} /\ job'.at \notin {"settings", "submitted"}
      BY DEF OfflineInv, OfflineTypeOK, Handlers, PutRawSourceBundle, At, Done, Idle,
         files, items, drafts
    <3> QED
      BY <3>1, RequestsKept
  <2>3. LeftJobs' = LeftJobs /\ JobsFollow'
    <3>1. recovery' = recovery /\ job.at \notin {"scan", "repairing"} /\ job'.at \notin {"scan", "repairing"}
      BY DEF OfflineInv, OfflineTypeOK, Handlers, PutRawSourceBundle, At, Done, Idle,
         files, items, drafts
    <3> QED
      BY <3>1, JobsKept
  <2>4. LeftDrafts' = LeftDrafts /\ OutputsLeft'
    <3>1. UNCHANGED <<runs, snaps, outputs, version>> /\ job.at \notin {"snapshot", "output", "version"} /\ job'.at \notin {"snapshot", "output", "version"}
      BY DEF OfflineInv, OfflineTypeOK, Handlers, PutRawSourceBundle, At, Done, Idle,
         files, items, drafts
    <3> QED
      BY <3>1, RunsKept
  <2>5. faults' = faults
    BY DEF PutRawSourceBundle, world, outside
  <2> QED
    BY <2>1, <2>2, <2>3, <2>4, <2>5, LeftShrinks
<1> QED
  BY <1>1, <1>2, <1>3, <1>4, <1>5, <1>6, <1>7

\* The refused import still holds its object.
LEMMA EnvelopesRefusedInv ==
  ASSUME OfflineInv, EnvelopesRefused
  PROVE  /\ OfflineTypeOK' /\ HandlerFits' /\ StoredReadable' /\ ContextsHold' /\ DraftsBacked' /\ CallsPaid'
         /\ JobsFollow' /\ LeftExplained' /\ OutputsLeft'
<1>1. OfflineTypeOK'
  <2>1. job' \in Handlers
    BY ConstantsOK DEF OfflineInv, OfflineTypeOK, EnvelopesRefused, At, Step, Handlers,
       Places, Items, Idle
  <2> QED
    BY <2>1 DEF OfflineInv, OfflineTypeOK, EnvelopesRefused, At, Step, files, items,
       drafts, counts, world, outside
<1>2. HandlerFits'
  BY ConstantsOK, <1>1 DEF OfflineInv, HandlerFits, EnvelopesRefused, At, Step, files,
     items, drafts, counts, world, outside, Handlers, Confirmed, Importing, Confirming, Generating,
     Attempt, OfflineTypeOK, StoredReadable, ContextsHold, DraftsBacked, Idle
<1>3. StoredReadable'
  BY ConstantsOK, <1>1 DEF OfflineInv, StoredReadable, EnvelopesRefused, At, Step, files,
     items, drafts, counts, world, outside, Handlers, Confirmed, HandlerFits, Importing,
     OfflineTypeOK
<1>4. ContextsHold'
  BY ConstantsOK, <1>1 DEF OfflineInv, ContextsHold, EnvelopesRefused, At, Step, files,
     items, drafts, counts, world, outside, Handlers, Confirmed, HandlerFits, Importing, Confirming,
     OfflineTypeOK
<1>5. DraftsBacked'
  BY ConstantsOK, <1>1 DEF OfflineInv, DraftsBacked, EnvelopesRefused, At, Step, files,
     items, drafts, counts, world, outside, Handlers, Confirmed, HandlerFits, Confirming, Generating,
     Attempt, OfflineTypeOK
<1>6. CallsPaid'
  BY ConstantsOK, <1>1 DEF OfflineInv, CallsPaid, EnvelopesRefused, At, Step, files, items,
     drafts, counts, world, outside, Handlers, Confirmed, HandlerFits, Generating, OfflineTypeOK,
     Idle
<1>7. LeftExplained' /\ OutputsLeft' /\ JobsFollow'
  <2>1. LeftObjects' \subseteq LeftObjects
    BY DEF OfflineInv, OfflineTypeOK, Handlers, HandlerFits, Importing, LeftObjects,
       Unowned, EnvelopesRefused, At, Step, files, items
  <2>2. LeftRequests' = LeftRequests
    <3>1. request' = request /\ job.at \notin {"settings", "submitted"} /\ job'.at \notin {"settings", "submitted"}
      BY DEF OfflineInv, OfflineTypeOK, Handlers, EnvelopesRefused, At, Step, Idle,
         files, items, drafts
    <3> QED
      BY <3>1, RequestsKept
  <2>3. LeftJobs' = LeftJobs /\ JobsFollow'
    <3>1. recovery' = recovery /\ job.at \notin {"scan", "repairing"} /\ job'.at \notin {"scan", "repairing"}
      BY DEF OfflineInv, OfflineTypeOK, Handlers, EnvelopesRefused, At, Step, Idle,
         files, items, drafts
    <3> QED
      BY <3>1, JobsKept
  <2>4. LeftDrafts' = LeftDrafts /\ OutputsLeft'
    <3>1. UNCHANGED <<runs, snaps, outputs, version>> /\ job.at \notin {"snapshot", "output", "version"} /\ job'.at \notin {"snapshot", "output", "version"}
      BY DEF OfflineInv, OfflineTypeOK, Handlers, EnvelopesRefused, At, Step, Idle,
         files, items, drafts
    <3> QED
      BY <3>1, RunsKept
  <2>5. faults' = faults
    BY DEF EnvelopesRefused, world, outside
  <2> QED
    BY <2>1, <2>2, <2>3, <2>4, <2>5, LeftShrinks
<1> QED
  BY <1>1, <1>2, <1>3, <1>4, <1>5, <1>6, <1>7

\* The row goes before the file.
LEMMA RemoveRowInv ==
  ASSUME OfflineInv, RemoveRow
  PROVE  /\ OfflineTypeOK' /\ HandlerFits' /\ StoredReadable' /\ ContextsHold' /\ DraftsBacked' /\ CallsPaid'
         /\ JobsFollow' /\ LeftExplained' /\ OutputsLeft'
<1>1. OfflineTypeOK'
  <2>1. job' \in Handlers
    BY ConstantsOK DEF OfflineInv, OfflineTypeOK, RemoveRow, At, Step, Handlers, Places,
       Items, Idle
  <2> QED
    BY <2>1 DEF OfflineInv, OfflineTypeOK, RemoveRow, At, Step, files, items, drafts,
       counts, world, outside
<1>2. HandlerFits'
  BY ConstantsOK, <1>1 DEF OfflineInv, HandlerFits, RemoveRow, At, Step, files, items,
     drafts, counts, world, outside, Handlers, Confirmed, Importing, Confirming, Generating, Attempt,
     OfflineTypeOK, StoredReadable, ContextsHold, DraftsBacked, Idle
<1>3. StoredReadable'
  BY ConstantsOK, <1>1 DEF OfflineInv, StoredReadable, RemoveRow, At, Step, files, items,
     drafts, counts, world, outside, Handlers, Confirmed, HandlerFits, Importing, OfflineTypeOK
<1>4. ContextsHold'
  BY ConstantsOK, <1>1 DEF OfflineInv, ContextsHold, RemoveRow, At, Step, files, items,
     drafts, counts, world, outside, Handlers, Confirmed, HandlerFits, Importing, Confirming,
     OfflineTypeOK
<1>5. DraftsBacked'
  BY ConstantsOK, <1>1 DEF OfflineInv, DraftsBacked, RemoveRow, At, Step, files, items,
     drafts, counts, world, outside, Handlers, Confirmed, HandlerFits, Confirming, Generating,
     Attempt, OfflineTypeOK
<1>6. CallsPaid'
  BY ConstantsOK, <1>1 DEF OfflineInv, CallsPaid, RemoveRow, At, Step, files, items, drafts,
     counts, world, outside, Handlers, Confirmed, HandlerFits, Generating, OfflineTypeOK, Idle
<1>7. LeftExplained' /\ OutputsLeft' /\ JobsFollow'
  <2>1. LeftObjects' \subseteq LeftObjects
    BY DEF OfflineInv, OfflineTypeOK, Handlers, HandlerFits, Importing, LeftObjects,
       Unowned, RemoveRow, At, Step, files, items
  <2>2. LeftRequests' = LeftRequests
    <3>1. request' = request /\ job.at \notin {"settings", "submitted"} /\ job'.at \notin {"settings", "submitted"}
      BY DEF OfflineInv, OfflineTypeOK, Handlers, RemoveRow, At, Step, Idle, files,
         items, drafts
    <3> QED
      BY <3>1, RequestsKept
  <2>3. LeftJobs' = LeftJobs /\ JobsFollow'
    <3>1. recovery' = recovery /\ job.at \notin {"scan", "repairing"} /\ job'.at \notin {"scan", "repairing"}
      BY DEF OfflineInv, OfflineTypeOK, Handlers, RemoveRow, At, Step, Idle, files,
         items, drafts
    <3> QED
      BY <3>1, JobsKept
  <2>4. LeftDrafts' = LeftDrafts /\ OutputsLeft'
    <3>1. UNCHANGED <<runs, snaps, outputs, version>> /\ job.at \notin {"snapshot", "output", "version"} /\ job'.at \notin {"snapshot", "output", "version"}
      BY DEF OfflineInv, OfflineTypeOK, Handlers, RemoveRow, At, Step, Idle, files,
         items, drafts
    <3> QED
      BY <3>1, RunsKept
  <2>5. faults' = faults
    BY DEF RemoveRow, world, outside
  <2> QED
    BY <2>1, <2>2, <2>3, <2>4, <2>5, LeftShrinks
<1> QED
  BY <1>1, <1>2, <1>3, <1>4, <1>5, <1>6, <1>7

\* The file of a refused import goes, or stays without a row.
LEMMA RemoveBlobInv ==
  ASSUME OfflineInv, RemoveBlob
  PROVE  /\ OfflineTypeOK' /\ HandlerFits' /\ StoredReadable' /\ ContextsHold' /\ DraftsBacked' /\ CallsPaid'
         /\ JobsFollow' /\ LeftExplained' /\ OutputsLeft'
<1>1. OfflineTypeOK'
  <2>1. job' \in Handlers
    BY ConstantsOK DEF OfflineInv, OfflineTypeOK, RemoveBlob, At, Done, Idle, Handlers,
       Places, Items
  <2> QED
    BY <2>1 DEF OfflineInv, OfflineTypeOK, RemoveBlob, At, Done, Idle, files, items,
       drafts, counts, world, outside
<1>2. HandlerFits'
  BY ConstantsOK, <1>1 DEF OfflineInv, HandlerFits, RemoveBlob, At, Done, Idle, files,
     items, drafts, counts, world, outside, Handlers, Confirmed, Importing, Confirming, Generating,
     Attempt, OfflineTypeOK, StoredReadable, ContextsHold, DraftsBacked
<1>3. StoredReadable'
  BY ConstantsOK, <1>1 DEF OfflineInv, StoredReadable, RemoveBlob, At, Done, Idle, files,
     items, drafts, counts, world, outside, Handlers, Confirmed, HandlerFits, Importing,
     OfflineTypeOK
<1>4. ContextsHold'
  BY ConstantsOK, <1>1 DEF OfflineInv, ContextsHold, RemoveBlob, At, Done, Idle, files,
     items, drafts, counts, world, outside, Handlers, Confirmed, HandlerFits, Importing, Confirming,
     OfflineTypeOK
<1>5. DraftsBacked'
  BY ConstantsOK, <1>1 DEF OfflineInv, DraftsBacked, RemoveBlob, At, Done, Idle, files,
     items, drafts, counts, world, outside, Handlers, Confirmed, HandlerFits, Confirming, Generating,
     Attempt, OfflineTypeOK
<1>6. CallsPaid'
  BY ConstantsOK, <1>1 DEF OfflineInv, CallsPaid, RemoveBlob, At, Done, Idle, files, items,
     drafts, counts, world, outside, Handlers, Confirmed, HandlerFits, Generating, OfflineTypeOK
<1>7. LeftExplained' /\ OutputsLeft' /\ JobsFollow'
  <2>1. LeftObjects' = LeftObjects
    <3>1. UNCHANGED <<rows, owner>> /\ job.at \notin {"envelope", "unrow"} /\ job'.at \notin {"envelope", "unrow"}
      BY DEF OfflineInv, OfflineTypeOK, Handlers, RemoveBlob, At, Done, Idle, files,
         items, drafts
    <3> QED
      BY <3>1, ObjectsKept
  <2>2. LeftRequests' = LeftRequests
    <3>1. request' = request /\ job.at \notin {"settings", "submitted"} /\ job'.at \notin {"settings", "submitted"}
      BY DEF OfflineInv, OfflineTypeOK, Handlers, RemoveBlob, At, Done, Idle, files,
         items, drafts
    <3> QED
      BY <3>1, RequestsKept
  <2>3. LeftJobs' = LeftJobs /\ JobsFollow'
    <3>1. recovery' = recovery /\ job.at \notin {"scan", "repairing"} /\ job'.at \notin {"scan", "repairing"}
      BY DEF OfflineInv, OfflineTypeOK, Handlers, RemoveBlob, At, Done, Idle, files,
         items, drafts
    <3> QED
      BY <3>1, JobsKept
  <2>4. LeftDrafts' = LeftDrafts /\ OutputsLeft'
    <3>1. UNCHANGED <<runs, snaps, outputs, version>> /\ job.at \notin {"snapshot", "output", "version"} /\ job'.at \notin {"snapshot", "output", "version"}
      BY DEF OfflineInv, OfflineTypeOK, Handlers, RemoveBlob, At, Done, Idle, files,
         items, drafts
    <3> QED
      BY <3>1, RunsKept
  <2>5. faults' = faults
    BY DEF RemoveBlob, world, outside
  <2> QED
    BY <2>1, <2>2, <2>3, <2>4, <2>5, LeftShrinks
<1> QED
  BY <1>1, <1>2, <1>3, <1>4, <1>5, <1>6, <1>7

\* Another version of a copy.
LEMMA RefreshCopyInv ==
  ASSUME OfflineInv, NEW c \in Copies, NEW s \in {"approved", "revoked", "expired"},
     RefreshCopy(c, s)
  PROVE  /\ OfflineTypeOK' /\ HandlerFits' /\ StoredReadable' /\ ContextsHold' /\ DraftsBacked' /\ CallsPaid'
         /\ JobsFollow' /\ LeftExplained' /\ OutputsLeft'
<1>1. OfflineTypeOK'
  <2>1. copy' \in [Copies -> Seq({"approved", "revoked", "expired"})]
    BY ConstantsOK DEF OfflineInv, OfflineTypeOK, RefreshCopy, Ready, HandlerFits,
       Importing, Confirming, Generating, Attempt
  <2> QED
    BY <2>1 DEF OfflineInv, OfflineTypeOK, RefreshCopy, Ready, files, items, drafts,
       counts, world, outside
<1>2. HandlerFits'
  BY ConstantsOK, <1>1 DEF OfflineInv, HandlerFits, RefreshCopy, Ready, files, items,
     drafts, counts, world, outside, Handlers, Confirmed, Importing, Confirming, Generating, Attempt,
     OfflineTypeOK, StoredReadable, ContextsHold, DraftsBacked, Idle
<1>3. StoredReadable'
  BY ConstantsOK, <1>1 DEF OfflineInv, StoredReadable, RefreshCopy, Ready, files, items,
     drafts, counts, world, outside, Handlers, Confirmed, HandlerFits, Importing, OfflineTypeOK
<1>4. ContextsHold'
  BY ConstantsOK, <1>1 DEF OfflineInv, ContextsHold, RefreshCopy, Ready, files, items,
     drafts, counts, world, outside, Handlers, Confirmed, HandlerFits, Importing, Confirming,
     OfflineTypeOK
<1>5. DraftsBacked'
  BY ConstantsOK, <1>1 DEF OfflineInv, DraftsBacked, RefreshCopy, Ready, files, items,
     drafts, counts, world, outside, Handlers, Confirmed, HandlerFits, Confirming, Generating,
     Attempt, OfflineTypeOK
<1>6. CallsPaid'
  BY ConstantsOK, <1>1 DEF OfflineInv, CallsPaid, RefreshCopy, Ready, files, items, drafts,
     counts, world, outside, Handlers, Confirmed, HandlerFits, Generating, OfflineTypeOK, Idle
<1>7. LeftExplained' /\ OutputsLeft' /\ JobsFollow'
  <2>1. LeftObjects' = LeftObjects
    <3>1. UNCHANGED <<rows, owner>> /\ job.at \notin {"envelope", "unrow"} /\ job'.at \notin {"envelope", "unrow"}
      BY DEF OfflineInv, OfflineTypeOK, Handlers, RefreshCopy, Ready, Idle, files, items, drafts
    <3> QED
      BY <3>1, ObjectsKept
  <2>2. LeftRequests' = LeftRequests
    <3>1. request' = request /\ job.at \notin {"settings", "submitted"} /\ job'.at \notin {"settings", "submitted"}
      BY DEF OfflineInv, OfflineTypeOK, Handlers, RefreshCopy, Ready, Idle, files, items, drafts
    <3> QED
      BY <3>1, RequestsKept
  <2>3. LeftJobs' = LeftJobs /\ JobsFollow'
    <3>1. recovery' = recovery /\ job.at \notin {"scan", "repairing"} /\ job'.at \notin {"scan", "repairing"}
      BY DEF OfflineInv, OfflineTypeOK, Handlers, RefreshCopy, Ready, Idle, files, items, drafts
    <3> QED
      BY <3>1, JobsKept
  <2>4. LeftDrafts' = LeftDrafts /\ OutputsLeft'
    <3>1. UNCHANGED <<runs, snaps, outputs, version>> /\ job.at \notin {"snapshot", "output", "version"} /\ job'.at \notin {"snapshot", "output", "version"}
      BY DEF OfflineInv, OfflineTypeOK, Handlers, RefreshCopy, Ready, Idle, files, items, drafts
    <3> QED
      BY <3>1, RunsKept
  <2>5. faults' = faults
    BY DEF RefreshCopy, world, outside
  <2> QED
    BY <2>1, <2>2, <2>3, <2>4, <2>5, LeftShrinks
<1> QED
  BY <1>1, <1>2, <1>3, <1>4, <1>5, <1>6, <1>7

\* Another selection of the catalogue.
LEMMA ImportProviderSettingsInv ==
  ASSUME OfflineInv, ImportProviderSettings
  PROVE  /\ OfflineTypeOK' /\ HandlerFits' /\ StoredReadable' /\ ContextsHold' /\ DraftsBacked' /\ CallsPaid'
         /\ JobsFollow' /\ LeftExplained' /\ OutputsLeft'
<1>1. OfflineTypeOK'
  <2>1. model' \in 1 .. MaxModel
    BY ConstantsOK DEF OfflineInv, OfflineTypeOK, ImportProviderSettings, Ready,
       HandlerFits, Importing, Confirming, Generating, Attempt
  <2> QED
    BY <2>1 DEF OfflineInv, OfflineTypeOK, ImportProviderSettings, Ready, files, items,
       drafts, counts, world, outside
<1>2. HandlerFits'
  BY ConstantsOK, <1>1 DEF OfflineInv, HandlerFits, ImportProviderSettings, Ready, files,
     items, drafts, counts, world, outside, Handlers, Confirmed, Importing, Confirming, Generating,
     Attempt, OfflineTypeOK, StoredReadable, ContextsHold, DraftsBacked, Idle
<1>3. StoredReadable'
  BY ConstantsOK, <1>1 DEF OfflineInv, StoredReadable, ImportProviderSettings, Ready, files,
     items, drafts, counts, world, outside, Handlers, Confirmed, HandlerFits, Importing,
     OfflineTypeOK
<1>4. ContextsHold'
  BY ConstantsOK, <1>1 DEF OfflineInv, ContextsHold, ImportProviderSettings, Ready, files,
     items, drafts, counts, world, outside, Handlers, Confirmed, HandlerFits, Importing, Confirming,
     OfflineTypeOK
<1>5. DraftsBacked'
  BY ConstantsOK, <1>1 DEF OfflineInv, DraftsBacked, ImportProviderSettings, Ready, files,
     items, drafts, counts, world, outside, Handlers, Confirmed, HandlerFits, Confirming, Generating,
     Attempt, OfflineTypeOK
<1>6. CallsPaid'
  BY ConstantsOK, <1>1 DEF OfflineInv, CallsPaid, ImportProviderSettings, Ready, files,
     items, drafts, counts, world, outside, Handlers, Confirmed, HandlerFits, Generating,
     OfflineTypeOK, Idle
<1>7. LeftExplained' /\ OutputsLeft' /\ JobsFollow'
  <2>1. LeftObjects' = LeftObjects
    <3>1. UNCHANGED <<rows, owner>> /\ job.at \notin {"envelope", "unrow"} /\ job'.at \notin {"envelope", "unrow"}
      BY DEF OfflineInv, OfflineTypeOK, Handlers, ImportProviderSettings, Ready, Idle,
         files, items, drafts
    <3> QED
      BY <3>1, ObjectsKept
  <2>2. LeftRequests' = LeftRequests
    <3>1. request' = request /\ job.at \notin {"settings", "submitted"} /\ job'.at \notin {"settings", "submitted"}
      BY DEF OfflineInv, OfflineTypeOK, Handlers, ImportProviderSettings, Ready, Idle,
         files, items, drafts
    <3> QED
      BY <3>1, RequestsKept
  <2>3. LeftJobs' = LeftJobs /\ JobsFollow'
    <3>1. recovery' = recovery /\ job.at \notin {"scan", "repairing"} /\ job'.at \notin {"scan", "repairing"}
      BY DEF OfflineInv, OfflineTypeOK, Handlers, ImportProviderSettings, Ready, Idle,
         files, items, drafts
    <3> QED
      BY <3>1, JobsKept
  <2>4. LeftDrafts' = LeftDrafts /\ OutputsLeft'
    <3>1. UNCHANGED <<runs, snaps, outputs, version>> /\ job.at \notin {"snapshot", "output", "version"} /\ job'.at \notin {"snapshot", "output", "version"}
      BY DEF OfflineInv, OfflineTypeOK, Handlers, ImportProviderSettings, Ready, Idle,
         files, items, drafts
    <3> QED
      BY <3>1, RunsKept
  <2>5. faults' = faults
    BY DEF ImportProviderSettings, world, outside
  <2> QED
    BY <2>1, <2>2, <2>3, <2>4, <2>5, LeftShrinks
<1> QED
  BY <1>1, <1>2, <1>3, <1>4, <1>5, <1>6, <1>7

\* A context is prepared from stored items.
LEMMA PrepareContextInv ==
  ASSUME OfflineInv, NEW x \in Contexts, NEW chosen \in SUBSET Items, PrepareContext(x, chosen)
  PROVE  /\ OfflineTypeOK' /\ HandlerFits' /\ StoredReadable' /\ ContextsHold' /\ DraftsBacked' /\ CallsPaid'
         /\ JobsFollow' /\ LeftExplained' /\ OutputsLeft'
<1>1. OfflineTypeOK'
  <2>1. context' \in [Contexts -> SUBSET Items]
    BY ConstantsOK DEF OfflineInv, OfflineTypeOK, PrepareContext, Approved, Ready,
       HandlerFits, Importing, Confirming, Generating, Attempt
  <2> QED
    BY <2>1 DEF OfflineInv, OfflineTypeOK, PrepareContext, Approved, Ready, files, items,
       drafts, counts, world, outside
<1>2. HandlerFits'
  BY ConstantsOK, <1>1 DEF OfflineInv, HandlerFits, PrepareContext, Approved, Ready, files,
     items, drafts, counts, world, outside, Handlers, Confirmed, Importing, Confirming, Generating,
     Attempt, OfflineTypeOK, StoredReadable, ContextsHold, DraftsBacked, Idle
<1>3. StoredReadable'
  BY ConstantsOK, <1>1 DEF OfflineInv, StoredReadable, PrepareContext, Approved, Ready,
     files, items, drafts, counts, world, outside, Handlers, Confirmed, HandlerFits, Importing,
     OfflineTypeOK
<1>4. ContextsHold'
  BY ConstantsOK, <1>1 DEF OfflineInv, ContextsHold, PrepareContext, Approved, Ready, files,
     items, drafts, counts, world, outside, Handlers, Confirmed, HandlerFits, Importing, Confirming,
     OfflineTypeOK
<1>5. DraftsBacked'
  BY ConstantsOK, <1>1 DEF OfflineInv, DraftsBacked, PrepareContext, Approved, Ready, files,
     items, drafts, counts, world, outside, Handlers, Confirmed, HandlerFits, Confirming, Generating,
     Attempt, OfflineTypeOK
<1>6. CallsPaid'
  BY ConstantsOK, <1>1 DEF OfflineInv, CallsPaid, PrepareContext, Approved, Ready, files,
     items, drafts, counts, world, outside, Handlers, Confirmed, HandlerFits, Generating,
     OfflineTypeOK, Idle
<1>7. LeftExplained' /\ OutputsLeft' /\ JobsFollow'
  <2>1. LeftObjects' = LeftObjects
    <3>1. UNCHANGED <<rows, owner>> /\ job.at \notin {"envelope", "unrow"} /\ job'.at \notin {"envelope", "unrow"}
      BY DEF OfflineInv, OfflineTypeOK, Handlers, PrepareContext, Approved, Ready, Idle,
         files, items, drafts
    <3> QED
      BY <3>1, ObjectsKept
  <2>2. LeftRequests' = LeftRequests
    <3>1. request' = request /\ job.at \notin {"settings", "submitted"} /\ job'.at \notin {"settings", "submitted"}
      BY DEF OfflineInv, OfflineTypeOK, Handlers, PrepareContext, Approved, Ready, Idle,
         files, items, drafts
    <3> QED
      BY <3>1, RequestsKept
  <2>3. LeftJobs' = LeftJobs /\ JobsFollow'
    <3>1. recovery' = recovery /\ job.at \notin {"scan", "repairing"} /\ job'.at \notin {"scan", "repairing"}
      BY DEF OfflineInv, OfflineTypeOK, Handlers, PrepareContext, Approved, Ready, Idle,
         files, items, drafts
    <3> QED
      BY <3>1, JobsKept
  <2>4. LeftDrafts' = LeftDrafts /\ OutputsLeft'
    <3>1. UNCHANGED <<runs, snaps, outputs, version>> /\ job.at \notin {"snapshot", "output", "version"} /\ job'.at \notin {"snapshot", "output", "version"}
      BY DEF OfflineInv, OfflineTypeOK, Handlers, PrepareContext, Approved, Ready, Idle,
         files, items, drafts
    <3> QED
      BY <3>1, RunsKept
  <2>5. faults' = faults
    BY DEF PrepareContext, world, outside
  <2> QED
    BY <2>1, <2>2, <2>3, <2>4, <2>5, LeftShrinks
<1> QED
  BY <1>1, <1>2, <1>3, <1>4, <1>5, <1>6, <1>7

\* A request is confirmed against a context that exists.
LEMMA ConfirmSettingsInv ==
  ASSUME OfflineInv, NEW r \in Requests, NEW x \in Contexts, ConfirmSettings(r, x)
  PROVE  /\ OfflineTypeOK' /\ HandlerFits' /\ StoredReadable' /\ ContextsHold' /\ DraftsBacked' /\ CallsPaid'
         /\ JobsFollow' /\ LeftExplained' /\ OutputsLeft'
<1>1. OfflineTypeOK'
  <2>1. job' \in Handlers
    BY ConstantsOK DEF OfflineInv, OfflineTypeOK, ConfirmSettings, Ready, Idle, NoRequest,
       Handlers, Places, Items
  <2> QED
    BY <2>1 DEF OfflineInv, OfflineTypeOK, ConfirmSettings, Ready, Idle, NoRequest, files,
       items, drafts, counts, world, outside
<1>2. HandlerFits'
  BY ConstantsOK, <1>1 DEF OfflineInv, HandlerFits, ConfirmSettings, Ready, Idle, NoRequest,
     files, items, drafts, counts, world, outside, Handlers, Confirmed, Importing, Confirming,
     Generating, Attempt, OfflineTypeOK, StoredReadable, ContextsHold, DraftsBacked
<1>3. StoredReadable'
  BY ConstantsOK, <1>1 DEF OfflineInv, StoredReadable, ConfirmSettings, Ready, Idle,
     NoRequest, files, items, drafts, counts, world, outside, Handlers, Confirmed, HandlerFits,
     Importing, OfflineTypeOK
<1>4. ContextsHold'
  BY ConstantsOK, <1>1 DEF OfflineInv, ContextsHold, ConfirmSettings, Ready, Idle,
     NoRequest, files, items, drafts, counts, world, outside, Handlers, Confirmed, HandlerFits,
     Importing, Confirming, OfflineTypeOK
<1>5. DraftsBacked'
  BY ConstantsOK, <1>1 DEF OfflineInv, DraftsBacked, ConfirmSettings, Ready, Idle,
     NoRequest, files, items, drafts, counts, world, outside, Handlers, Confirmed, HandlerFits,
     Confirming, Generating, Attempt, OfflineTypeOK
<1>6. CallsPaid'
  BY ConstantsOK, <1>1 DEF OfflineInv, CallsPaid, ConfirmSettings, Ready, Idle, NoRequest,
     files, items, drafts, counts, world, outside, Handlers, Confirmed, HandlerFits, Generating,
     OfflineTypeOK
<1>7. LeftExplained' /\ OutputsLeft' /\ JobsFollow'
  <2>1. LeftObjects' = LeftObjects
    <3>1. UNCHANGED <<rows, owner>> /\ job.at \notin {"envelope", "unrow"} /\ job'.at \notin {"envelope", "unrow"}
      BY DEF OfflineInv, OfflineTypeOK, Handlers, ConfirmSettings, Ready, Idle,
         NoRequest, files, items, drafts
    <3> QED
      BY <3>1, ObjectsKept
  <2>2. LeftRequests' = LeftRequests
    <3>1. request' = request /\ job.at \notin {"settings", "submitted"} /\ job'.at \notin {"settings", "submitted"}
      BY DEF OfflineInv, OfflineTypeOK, Handlers, ConfirmSettings, Ready, Idle,
         NoRequest, files, items, drafts
    <3> QED
      BY <3>1, RequestsKept
  <2>3. LeftJobs' = LeftJobs /\ JobsFollow'
    <3>1. recovery' = recovery /\ job.at \notin {"scan", "repairing"} /\ job'.at \notin {"scan", "repairing"}
      BY DEF OfflineInv, OfflineTypeOK, Handlers, ConfirmSettings, Ready, Idle,
         NoRequest, files, items, drafts
    <3> QED
      BY <3>1, JobsKept
  <2>4. LeftDrafts' = LeftDrafts /\ OutputsLeft'
    <3>1. UNCHANGED <<runs, snaps, outputs, version>> /\ job.at \notin {"snapshot", "output", "version"} /\ job'.at \notin {"snapshot", "output", "version"}
      BY DEF OfflineInv, OfflineTypeOK, Handlers, ConfirmSettings, Ready, Idle,
         NoRequest, files, items, drafts
    <3> QED
      BY <3>1, RunsKept
  <2>5. faults' = faults
    BY DEF ConfirmSettings, world, outside
  <2> QED
    BY <2>1, <2>2, <2>3, <2>4, <2>5, LeftShrinks
<1> QED
  BY <1>1, <1>2, <1>3, <1>4, <1>5, <1>6, <1>7

\* One of the three envelopes of a request.
LEMMA AppendRequestInv ==
  ASSUME OfflineInv, AppendRequest
  PROVE  /\ OfflineTypeOK' /\ HandlerFits' /\ StoredReadable' /\ ContextsHold' /\ DraftsBacked' /\ CallsPaid'
         /\ JobsFollow' /\ LeftExplained' /\ OutputsLeft'
<1>1. OfflineTypeOK'
  <2>1. job' \in Handlers
    BY ConstantsOK DEF OfflineInv, OfflineTypeOK, AppendRequest, Idle, Handlers, Places,
       Items, HandlerFits, Importing, Confirming, Generating, Attempt
  <2>2. request' \in [Requests -> Confirmed]
    BY ConstantsOK DEF OfflineInv, OfflineTypeOK, AppendRequest, Idle, HandlerFits,
       Importing, Confirming, Generating, Attempt, Confirmed
  <2> QED
    BY <2>1, <2>2 DEF OfflineInv, OfflineTypeOK, AppendRequest, Idle, files, items,
       drafts, counts, world, outside
<1>2. HandlerFits'
  BY ConstantsOK, <1>1 DEF OfflineInv, HandlerFits, AppendRequest, Idle, files, items,
     drafts, counts, world, outside, Handlers, Confirmed, Importing, Confirming, Generating, Attempt,
     OfflineTypeOK, StoredReadable, ContextsHold, DraftsBacked
<1>3. StoredReadable'
  BY ConstantsOK, <1>1 DEF OfflineInv, StoredReadable, AppendRequest, Idle, files, items,
     drafts, counts, world, outside, Handlers, Confirmed, HandlerFits, Importing, OfflineTypeOK
<1>4. ContextsHold'
  BY ConstantsOK, <1>1 DEF OfflineInv, ContextsHold, AppendRequest, Idle, files, items,
     drafts, counts, world, outside, Handlers, Confirmed, HandlerFits, Importing, Confirming,
     OfflineTypeOK
<1>5. DraftsBacked'
  <2>1. job.on \in Requests /\ request[job.on].at # "submitted"
    BY ConstantsOK DEF OfflineInv, HandlerFits, Confirming, AppendRequest, None
  <2>2. ASSUME NEW r \in Requests, version[r] > 0
        PROVE  r # job.on /\ request'[r] = request[r]
    BY <2>1, <2>2 DEF OfflineInv, DraftsBacked, OfflineTypeOK, AppendRequest
  <2> QED
    BY <2>2 DEF OfflineInv, DraftsBacked, AppendRequest, drafts
<1>6. CallsPaid'
  BY ConstantsOK, <1>1 DEF OfflineInv, CallsPaid, AppendRequest, Idle, files, items, drafts,
     counts, world, outside, Handlers, Confirmed, HandlerFits, Generating, OfflineTypeOK
<1>7. LeftExplained' /\ OutputsLeft' /\ JobsFollow'
  <2>1. LeftObjects' = LeftObjects
    <3>1. UNCHANGED <<rows, owner>> /\ job.at \notin {"envelope", "unrow"} /\ job'.at \notin {"envelope", "unrow"}
      BY DEF OfflineInv, OfflineTypeOK, Handlers, AppendRequest, Idle, files, items, drafts
    <3> QED
      BY <3>1, ObjectsKept
  <2>2. LeftRequests' \subseteq LeftRequests
    BY DEF OfflineInv, OfflineTypeOK, Handlers, HandlerFits, Confirming, LeftRequests,
       HalfRequests, AppendRequest, Idle
  <2>3. LeftJobs' = LeftJobs /\ JobsFollow'
    <3>1. recovery' = recovery /\ job.at \notin {"scan", "repairing"} /\ job'.at \notin {"scan", "repairing"}
      BY DEF OfflineInv, OfflineTypeOK, Handlers, AppendRequest, Idle, files, items, drafts
    <3> QED
      BY <3>1, JobsKept
  <2>4. LeftDrafts' = LeftDrafts /\ OutputsLeft'
    <3>1. UNCHANGED <<runs, snaps, outputs, version>> /\ job.at \notin {"snapshot", "output", "version"} /\ job'.at \notin {"snapshot", "output", "version"}
      BY DEF OfflineInv, OfflineTypeOK, Handlers, AppendRequest, Idle, files, items, drafts
    <3> QED
      BY <3>1, RunsKept
  <2>5. faults' = faults
    BY DEF AppendRequest, world, outside
  <2> QED
    BY <2>1, <2>2, <2>3, <2>4, <2>5, LeftShrinks
<1> QED
  BY <1>1, <1>2, <1>3, <1>4, <1>5, <1>6, <1>7

\* A call of the provider, for a request without a draft.
LEMMA GenerateDraftInv ==
  ASSUME OfflineInv, NEW r \in Requests, NEW k \in Keys, GenerateDraft(r, k)
  PROVE  /\ OfflineTypeOK' /\ HandlerFits' /\ StoredReadable' /\ ContextsHold' /\ DraftsBacked' /\ CallsPaid'
         /\ JobsFollow' /\ LeftExplained' /\ OutputsLeft'
<1>1. OfflineTypeOK'
  <2>1. job' \in Handlers
    BY ConstantsOK DEF OfflineInv, OfflineTypeOK, GenerateDraft, Ready, Idle, Handlers,
       Places, Items
  <2>2. calls' \in [Requests -> Nat]
    BY ConstantsOK DEF OfflineInv, OfflineTypeOK, GenerateDraft, Ready, Idle, HandlerFits,
       Importing, Confirming, Generating, Attempt
  <2> QED
    BY <2>1, <2>2 DEF OfflineInv, OfflineTypeOK, GenerateDraft, Ready, Idle, files, items,
       drafts, counts, world, outside
<1>2. HandlerFits'
  BY ConstantsOK, <1>1 DEF OfflineInv, HandlerFits, GenerateDraft, Ready, Idle, files,
     items, drafts, counts, world, outside, Handlers, Confirmed, Importing, Confirming, Generating,
     Attempt, OfflineTypeOK, StoredReadable, ContextsHold, DraftsBacked
<1>3. StoredReadable'
  BY ConstantsOK, <1>1 DEF OfflineInv, StoredReadable, GenerateDraft, Ready, Idle, files,
     items, drafts, counts, world, outside, Handlers, Confirmed, HandlerFits, Importing,
     OfflineTypeOK
<1>4. ContextsHold'
  BY ConstantsOK, <1>1 DEF OfflineInv, ContextsHold, GenerateDraft, Ready, Idle, files,
     items, drafts, counts, world, outside, Handlers, Confirmed, HandlerFits, Importing, Confirming,
     OfflineTypeOK
<1>5. DraftsBacked'
  BY ConstantsOK, <1>1 DEF OfflineInv, DraftsBacked, GenerateDraft, Ready, Idle, files,
     items, drafts, counts, world, outside, Handlers, Confirmed, HandlerFits, Confirming, Generating,
     Attempt, OfflineTypeOK
<1>6. CallsPaid'
  <2>1. job'.at = "provider" /\ job'.on = r /\ job.at = "idle" /\ version[r] = 0
    BY DEF GenerateDraft, Ready, Idle
  <2>2. ASSUME faults = 0, NEW q \in Requests
        PROVE  calls'[q] <= fails[q] + (IF version[q] > 0 \/ q = r THEN 1 ELSE 0)
    <3>1. calls[q] <= fails[q] + (IF version[q] > 0 THEN 1 ELSE 0)
      BY <2>1, <2>2 DEF OfflineInv, CallsPaid, Generating
    <3>2. calls[q] \in Nat /\ fails[q] \in Nat /\ calls \in [Requests -> Nat]
      BY <2>2 DEF OfflineInv, OfflineTypeOK
    <3>3. CASE q = r
      BY <3>1, <3>2, <3>3, <2>1 DEF GenerateDraft
    <3>4. CASE q # r
      BY <3>1, <3>2, <3>4 DEF GenerateDraft
    <3> QED
      BY <3>3, <3>4
  <2>3. fails' = fails /\ version' = version /\ faults' = faults
    BY DEF GenerateDraft, drafts, world, outside
  <2>4. \A q \in Requests : (version'[q] > 0 \/ (job'.at \in Generating /\ job'.on = q)) <=> (version[q] > 0 \/ q = r)
    BY <2>1, <2>3 DEF Generating
  <2> QED
    BY <2>2, <2>3, <2>4 DEF CallsPaid
<1>7. LeftExplained' /\ OutputsLeft' /\ JobsFollow'
  <2>1. LeftObjects' = LeftObjects
    <3>1. UNCHANGED <<rows, owner>> /\ job.at \notin {"envelope", "unrow"} /\ job'.at \notin {"envelope", "unrow"}
      BY DEF OfflineInv, OfflineTypeOK, Handlers, GenerateDraft, Ready, Idle, files,
         items, drafts
    <3> QED
      BY <3>1, ObjectsKept
  <2>2. LeftRequests' = LeftRequests
    <3>1. request' = request /\ job.at \notin {"settings", "submitted"} /\ job'.at \notin {"settings", "submitted"}
      BY DEF OfflineInv, OfflineTypeOK, Handlers, GenerateDraft, Ready, Idle, files,
         items, drafts
    <3> QED
      BY <3>1, RequestsKept
  <2>3. LeftJobs' = LeftJobs /\ JobsFollow'
    <3>1. recovery' = recovery /\ job.at \notin {"scan", "repairing"} /\ job'.at \notin {"scan", "repairing"}
      BY DEF OfflineInv, OfflineTypeOK, Handlers, GenerateDraft, Ready, Idle, files,
         items, drafts
    <3> QED
      BY <3>1, JobsKept
  <2>4. LeftDrafts' = LeftDrafts /\ OutputsLeft'
    <3>1. UNCHANGED <<runs, snaps, outputs, version>> /\ job.at \notin {"snapshot", "output", "version"} /\ job'.at \notin {"snapshot", "output", "version"}
      BY DEF OfflineInv, OfflineTypeOK, Handlers, GenerateDraft, Ready, Idle, files,
         items, drafts
    <3> QED
      BY <3>1, RunsKept
  <2>5. faults' = faults
    BY DEF GenerateDraft, world, outside
  <2> QED
    BY <2>1, <2>2, <2>3, <2>4, <2>5, LeftShrinks
<1> QED
  BY <1>1, <1>2, <1>3, <1>4, <1>5, <1>6, <1>7

\* The provider answers.
LEMMA ProviderAnswersInv ==
  ASSUME OfflineInv, ProviderAnswers
  PROVE  /\ OfflineTypeOK' /\ HandlerFits' /\ StoredReadable' /\ ContextsHold' /\ DraftsBacked' /\ CallsPaid'
         /\ JobsFollow' /\ LeftExplained' /\ OutputsLeft'
<1>1. OfflineTypeOK'
  <2>1. job' \in Handlers
    BY ConstantsOK DEF OfflineInv, OfflineTypeOK, ProviderAnswers, At, Step, Handlers,
       Places, Items, Idle
  <2> QED
    BY <2>1 DEF OfflineInv, OfflineTypeOK, ProviderAnswers, At, Step, files, items,
       drafts, counts, world, outside
<1>2. HandlerFits'
  BY ConstantsOK, <1>1 DEF OfflineInv, HandlerFits, ProviderAnswers, At, Step, files, items,
     drafts, counts, world, outside, Handlers, Confirmed, Importing, Confirming, Generating, Attempt,
     OfflineTypeOK, StoredReadable, ContextsHold, DraftsBacked, Idle
<1>3. StoredReadable'
  BY ConstantsOK, <1>1 DEF OfflineInv, StoredReadable, ProviderAnswers, At, Step, files,
     items, drafts, counts, world, outside, Handlers, Confirmed, HandlerFits, Importing,
     OfflineTypeOK
<1>4. ContextsHold'
  BY ConstantsOK, <1>1 DEF OfflineInv, ContextsHold, ProviderAnswers, At, Step, files,
     items, drafts, counts, world, outside, Handlers, Confirmed, HandlerFits, Importing, Confirming,
     OfflineTypeOK
<1>5. DraftsBacked'
  BY ConstantsOK, <1>1 DEF OfflineInv, DraftsBacked, ProviderAnswers, At, Step, files,
     items, drafts, counts, world, outside, Handlers, Confirmed, HandlerFits, Confirming, Generating,
     Attempt, OfflineTypeOK
<1>6. CallsPaid'
  BY ConstantsOK, <1>1 DEF OfflineInv, CallsPaid, ProviderAnswers, At, Step, files, items,
     drafts, counts, world, outside, Handlers, Confirmed, HandlerFits, Generating, OfflineTypeOK,
     Idle
<1>7. LeftExplained' /\ OutputsLeft' /\ JobsFollow'
  <2>1. LeftObjects' = LeftObjects
    <3>1. UNCHANGED <<rows, owner>> /\ job.at \notin {"envelope", "unrow"} /\ job'.at \notin {"envelope", "unrow"}
      BY DEF OfflineInv, OfflineTypeOK, Handlers, ProviderAnswers, At, Step, Idle,
         files, items, drafts
    <3> QED
      BY <3>1, ObjectsKept
  <2>2. LeftRequests' = LeftRequests
    <3>1. request' = request /\ job.at \notin {"settings", "submitted"} /\ job'.at \notin {"settings", "submitted"}
      BY DEF OfflineInv, OfflineTypeOK, Handlers, ProviderAnswers, At, Step, Idle,
         files, items, drafts
    <3> QED
      BY <3>1, RequestsKept
  <2>3. LeftJobs' = LeftJobs /\ JobsFollow'
    <3>1. recovery' = recovery /\ job.at \notin {"scan", "repairing"} /\ job'.at \notin {"scan", "repairing"}
      BY DEF OfflineInv, OfflineTypeOK, Handlers, ProviderAnswers, At, Step, Idle,
         files, items, drafts
    <3> QED
      BY <3>1, JobsKept
  <2>4. LeftDrafts' = LeftDrafts /\ OutputsLeft'
    <3>1. UNCHANGED <<runs, snaps, outputs, version>> /\ job.at \notin {"snapshot", "output", "version"} /\ job'.at \notin {"snapshot", "output", "version"}
      BY DEF OfflineInv, OfflineTypeOK, Handlers, ProviderAnswers, At, Step, Idle,
         files, items, drafts
    <3> QED
      BY <3>1, RunsKept
  <2>5. faults' = faults
    BY DEF ProviderAnswers, world, outside
  <2> QED
    BY <2>1, <2>2, <2>3, <2>4, <2>5, LeftShrinks
<1> QED
  BY <1>1, <1>2, <1>3, <1>4, <1>5, <1>6, <1>7

\* A failed call is not paid.
LEMMA ProviderFailsInv ==
  ASSUME OfflineInv, ProviderFails
  PROVE  /\ OfflineTypeOK' /\ HandlerFits' /\ StoredReadable' /\ ContextsHold' /\ DraftsBacked' /\ CallsPaid'
         /\ JobsFollow' /\ LeftExplained' /\ OutputsLeft'
<1>1. OfflineTypeOK'
  <2>1. job' \in Handlers
    BY ConstantsOK DEF OfflineInv, OfflineTypeOK, ProviderFails, At, Done, Idle, Handlers,
       Places, Items
  <2>2. fails' \in [Requests -> Nat]
    BY ConstantsOK DEF OfflineInv, OfflineTypeOK, ProviderFails, At, Done, Idle,
       HandlerFits, Importing, Confirming, Generating, Attempt
  <2> QED
    BY <2>1, <2>2 DEF OfflineInv, OfflineTypeOK, ProviderFails, At, Done, Idle, files,
       items, drafts, counts, world, outside
<1>2. HandlerFits'
  BY ConstantsOK, <1>1 DEF OfflineInv, HandlerFits, ProviderFails, At, Done, Idle, files,
     items, drafts, counts, world, outside, Handlers, Confirmed, Importing, Confirming, Generating,
     Attempt, OfflineTypeOK, StoredReadable, ContextsHold, DraftsBacked
<1>3. StoredReadable'
  BY ConstantsOK, <1>1 DEF OfflineInv, StoredReadable, ProviderFails, At, Done, Idle, files,
     items, drafts, counts, world, outside, Handlers, Confirmed, HandlerFits, Importing,
     OfflineTypeOK
<1>4. ContextsHold'
  BY ConstantsOK, <1>1 DEF OfflineInv, ContextsHold, ProviderFails, At, Done, Idle, files,
     items, drafts, counts, world, outside, Handlers, Confirmed, HandlerFits, Importing, Confirming,
     OfflineTypeOK
<1>5. DraftsBacked'
  BY ConstantsOK, <1>1 DEF OfflineInv, DraftsBacked, ProviderFails, At, Done, Idle, files,
     items, drafts, counts, world, outside, Handlers, Confirmed, HandlerFits, Confirming, Generating,
     Attempt, OfflineTypeOK
<1>6. CallsPaid'
  BY ConstantsOK, <1>1 DEF OfflineInv, CallsPaid, ProviderFails, At, Done, Idle, files,
     items, drafts, counts, world, outside, Handlers, Confirmed, HandlerFits, Generating,
     OfflineTypeOK
<1>7. LeftExplained' /\ OutputsLeft' /\ JobsFollow'
  <2>1. LeftObjects' = LeftObjects
    <3>1. UNCHANGED <<rows, owner>> /\ job.at \notin {"envelope", "unrow"} /\ job'.at \notin {"envelope", "unrow"}
      BY DEF OfflineInv, OfflineTypeOK, Handlers, ProviderFails, At, Done, Idle, files,
         items, drafts
    <3> QED
      BY <3>1, ObjectsKept
  <2>2. LeftRequests' = LeftRequests
    <3>1. request' = request /\ job.at \notin {"settings", "submitted"} /\ job'.at \notin {"settings", "submitted"}
      BY DEF OfflineInv, OfflineTypeOK, Handlers, ProviderFails, At, Done, Idle, files,
         items, drafts
    <3> QED
      BY <3>1, RequestsKept
  <2>3. LeftJobs' = LeftJobs /\ JobsFollow'
    <3>1. recovery' = recovery /\ job.at \notin {"scan", "repairing"} /\ job'.at \notin {"scan", "repairing"}
      BY DEF OfflineInv, OfflineTypeOK, Handlers, ProviderFails, At, Done, Idle, files,
         items, drafts
    <3> QED
      BY <3>1, JobsKept
  <2>4. LeftDrafts' = LeftDrafts /\ OutputsLeft'
    <3>1. UNCHANGED <<runs, snaps, outputs, version>> /\ job.at \notin {"snapshot", "output", "version"} /\ job'.at \notin {"snapshot", "output", "version"}
      BY DEF OfflineInv, OfflineTypeOK, Handlers, ProviderFails, At, Done, Idle, files,
         items, drafts
    <3> QED
      BY <3>1, RunsKept
  <2>5. faults' = faults
    BY DEF ProviderFails, world, outside
  <2> QED
    BY <2>1, <2>2, <2>3, <2>4, <2>5, LeftShrinks
<1> QED
  BY <1>1, <1>2, <1>3, <1>4, <1>5, <1>6, <1>7

\* The run of the attempt, or its refusal.
LEMMA AppendRunInv ==
  ASSUME OfflineInv, AppendRun
  PROVE  /\ OfflineTypeOK' /\ HandlerFits' /\ StoredReadable' /\ ContextsHold' /\ DraftsBacked' /\ CallsPaid'
         /\ JobsFollow' /\ LeftExplained' /\ OutputsLeft'
<1>1. OfflineTypeOK'
  <2>1. job' \in Handlers
    <3>1. Idle \in Handlers
      BY DEF Idle, Handlers, Places
    <3>2. [job EXCEPT !.at = "snapshot"] \in Handlers
      BY DEF OfflineInv, OfflineTypeOK, Handlers, Places
    <3> QED
      BY <3>1, <3>2 DEF AppendRun, Done, Step
  <2>2. runs' \subseteq Requests \X Keys
    BY ConstantsOK DEF OfflineInv, OfflineTypeOK, AppendRun, At, Done, Step, Idle,
       HandlerFits, Importing, Confirming, Generating, Attempt
  <2> QED
    BY <2>1, <2>2 DEF OfflineInv, OfflineTypeOK, AppendRun, At, Done, Step, Idle, files,
       items, drafts, counts, world, outside
<1>2. HandlerFits'
  BY ConstantsOK, <1>1 DEF OfflineInv, HandlerFits, AppendRun, At, Done, Step, Idle, files,
     items, drafts, counts, world, outside, Handlers, Confirmed, Importing, Confirming, Generating,
     Attempt, OfflineTypeOK, StoredReadable, ContextsHold, DraftsBacked
<1>3. StoredReadable'
  BY ConstantsOK, <1>1 DEF OfflineInv, StoredReadable, AppendRun, At, Done, Step, Idle,
     files, items, drafts, counts, world, outside, Handlers, Confirmed, HandlerFits, Importing,
     OfflineTypeOK
<1>4. ContextsHold'
  BY ConstantsOK, <1>1 DEF OfflineInv, ContextsHold, AppendRun, At, Done, Step, Idle, files,
     items, drafts, counts, world, outside, Handlers, Confirmed, HandlerFits, Importing, Confirming,
     OfflineTypeOK
<1>5. DraftsBacked'
  BY ConstantsOK, <1>1 DEF OfflineInv, DraftsBacked, AppendRun, At, Done, Step, Idle, files,
     items, drafts, counts, world, outside, Handlers, Confirmed, HandlerFits, Confirming, Generating,
     Attempt, OfflineTypeOK
<1>6. CallsPaid'
  <2> SUFFICES ASSUME faults = 0
               PROVE  CallsPaid'
    BY DEF CallsPaid, AppendRun, world, outside
  <2>1. LeftDrafts = {}
    BY NothingLeft
  <2>2. Attempt \notin runs
    BY <2>1, LeftOpen DEF AppendRun, At
  <2>3. job' = [job EXCEPT !.at = "snapshot"] /\ job'.on = job.on /\ job'.at = "snapshot" /\ job.at \in Generating
    BY <2>2 DEF AppendRun, Step, At, OfflineInv, OfflineTypeOK, Handlers, Generating
  <2> QED
    BY <2>3 DEF OfflineInv, CallsPaid, AppendRun, Generating, counts, drafts
<1>7. LeftExplained' /\ OutputsLeft' /\ JobsFollow'
  <2>1. LeftObjects' = LeftObjects
    <3>1. UNCHANGED <<rows, owner>> /\ job.at \notin {"envelope", "unrow"} /\ job'.at \notin {"envelope", "unrow"}
      BY DEF OfflineInv, OfflineTypeOK, Handlers, AppendRun, At, Done, Step, Idle,
         files, items, drafts
    <3> QED
      BY <3>1, ObjectsKept
  <2>2. LeftRequests' = LeftRequests
    <3>1. request' = request /\ job.at \notin {"settings", "submitted"} /\ job'.at \notin {"settings", "submitted"}
      BY DEF OfflineInv, OfflineTypeOK, Handlers, AppendRun, At, Done, Step, Idle,
         files, items, drafts
    <3> QED
      BY <3>1, RequestsKept
  <2>3. LeftJobs' = LeftJobs /\ JobsFollow'
    <3>1. recovery' = recovery /\ job.at \notin {"scan", "repairing"} /\ job'.at \notin {"scan", "repairing"}
      BY DEF OfflineInv, OfflineTypeOK, Handlers, AppendRun, At, Done, Step, Idle,
         files, items, drafts
    <3> QED
      BY <3>1, JobsKept
  <2>4. LeftDrafts' = LeftDrafts /\ OutputsLeft'
    <3>1. /\ UNCHANGED <<snaps, outputs, version>> /\ job.at = "run"
          /\ runs' = runs \cup {Attempt}
          /\ Attempt \in runs => job'.at = "idle"
          /\ Attempt \notin runs => job'.at = "snapshot" /\ Attempt' = Attempt
      BY DEF OfflineInv, OfflineTypeOK, Handlers, AppendRun, At, Step, Done, Idle, Attempt
    <3>2. LeftRuns' = LeftRuns
      BY <3>1 DEF LeftRuns, HalfRuns
    <3>3. LeftDrafts' = LeftDrafts
      BY <3>2 DEF LeftDrafts
    <3> QED
      BY <3>1, <3>3 DEF OfflineInv, OutputsLeft
  <2>5. faults' = faults
    BY DEF AppendRun, world, outside
  <2> QED
    BY <2>1, <2>2, <2>3, <2>4, <2>5, LeftShrinks
<1> QED
  BY <1>1, <1>2, <1>3, <1>4, <1>5, <1>6, <1>7

\* The snapshot of the run.
LEMMA AppendSnapshotInv ==
  ASSUME OfflineInv, AppendSnapshot
  PROVE  /\ OfflineTypeOK' /\ HandlerFits' /\ StoredReadable' /\ ContextsHold' /\ DraftsBacked' /\ CallsPaid'
         /\ JobsFollow' /\ LeftExplained' /\ OutputsLeft'
<1>1. OfflineTypeOK'
  <2>1. job' \in Handlers
    BY ConstantsOK DEF OfflineInv, OfflineTypeOK, AppendSnapshot, At, Step, Handlers,
       Places, Items, Idle
  <2>2. snaps' \subseteq Requests \X Keys
    BY ConstantsOK DEF OfflineInv, OfflineTypeOK, AppendSnapshot, At, Step, HandlerFits,
       Importing, Confirming, Generating, Attempt
  <2> QED
    BY <2>1, <2>2 DEF OfflineInv, OfflineTypeOK, AppendSnapshot, At, Step, files, items,
       drafts, counts, world, outside
<1>2. HandlerFits'
  BY ConstantsOK, <1>1 DEF OfflineInv, HandlerFits, AppendSnapshot, At, Step, files, items,
     drafts, counts, world, outside, Handlers, Confirmed, Importing, Confirming, Generating, Attempt,
     OfflineTypeOK, StoredReadable, ContextsHold, DraftsBacked, Idle
<1>3. StoredReadable'
  BY ConstantsOK, <1>1 DEF OfflineInv, StoredReadable, AppendSnapshot, At, Step, files,
     items, drafts, counts, world, outside, Handlers, Confirmed, HandlerFits, Importing,
     OfflineTypeOK
<1>4. ContextsHold'
  BY ConstantsOK, <1>1 DEF OfflineInv, ContextsHold, AppendSnapshot, At, Step, files, items,
     drafts, counts, world, outside, Handlers, Confirmed, HandlerFits, Importing, Confirming,
     OfflineTypeOK
<1>5. DraftsBacked'
  BY ConstantsOK, <1>1 DEF OfflineInv, DraftsBacked, AppendSnapshot, At, Step, files, items,
     drafts, counts, world, outside, Handlers, Confirmed, HandlerFits, Confirming, Generating,
     Attempt, OfflineTypeOK
<1>6. CallsPaid'
  BY ConstantsOK, <1>1 DEF OfflineInv, CallsPaid, AppendSnapshot, At, Step, files, items,
     drafts, counts, world, outside, Handlers, Confirmed, HandlerFits, Generating, OfflineTypeOK,
     Idle
<1>7. LeftExplained' /\ OutputsLeft' /\ JobsFollow'
  <2>1. LeftObjects' = LeftObjects
    <3>1. UNCHANGED <<rows, owner>> /\ job.at \notin {"envelope", "unrow"} /\ job'.at \notin {"envelope", "unrow"}
      BY DEF OfflineInv, OfflineTypeOK, Handlers, AppendSnapshot, At, Step, Idle, files,
         items, drafts
    <3> QED
      BY <3>1, ObjectsKept
  <2>2. LeftRequests' = LeftRequests
    <3>1. request' = request /\ job.at \notin {"settings", "submitted"} /\ job'.at \notin {"settings", "submitted"}
      BY DEF OfflineInv, OfflineTypeOK, Handlers, AppendSnapshot, At, Step, Idle, files,
         items, drafts
    <3> QED
      BY <3>1, RequestsKept
  <2>3. LeftJobs' = LeftJobs /\ JobsFollow'
    <3>1. recovery' = recovery /\ job.at \notin {"scan", "repairing"} /\ job'.at \notin {"scan", "repairing"}
      BY DEF OfflineInv, OfflineTypeOK, Handlers, AppendSnapshot, At, Step, Idle, files,
         items, drafts
    <3> QED
      BY <3>1, JobsKept
  <2>4. LeftDrafts' = LeftDrafts /\ OutputsLeft'
    <3>1. /\ UNCHANGED <<runs, outputs, version>> /\ snaps' = snaps \cup {Attempt}
          /\ job.at = "snapshot" /\ job'.at = "output" /\ Attempt' = Attempt
      BY DEF OfflineInv, OfflineTypeOK, Handlers, AppendSnapshot, At, Step, Attempt
    <3>2. LeftRuns' = LeftRuns
      BY <3>1 DEF LeftRuns, HalfRuns
    <3>3. LeftDrafts' = LeftDrafts
      BY <3>2 DEF LeftDrafts
    <3> QED
      BY <3>1, <3>3 DEF OfflineInv, OutputsLeft
  <2>5. faults' = faults
    BY DEF AppendSnapshot, world, outside
  <2> QED
    BY <2>1, <2>2, <2>3, <2>4, <2>5, LeftShrinks
<1> QED
  BY <1>1, <1>2, <1>3, <1>4, <1>5, <1>6, <1>7

\* The output of the request, or its refusal: then a run was left before.
LEMMA AppendOutputInv ==
  ASSUME OfflineInv, AppendOutput
  PROVE  /\ OfflineTypeOK' /\ HandlerFits' /\ StoredReadable' /\ ContextsHold' /\ DraftsBacked' /\ CallsPaid'
         /\ JobsFollow' /\ LeftExplained' /\ OutputsLeft'
<1>1. OfflineTypeOK'
  <2>1. job' \in Handlers
    <3>1. Idle \in Handlers
      BY DEF Idle, Handlers, Places
    <3>2. [job EXCEPT !.at = "version"] \in Handlers
      BY DEF OfflineInv, OfflineTypeOK, Handlers, Places
    <3> QED
      BY <3>1, <3>2 DEF AppendOutput, Done, Step
  <2>2. outputs' \subseteq Requests
    BY ConstantsOK DEF OfflineInv, OfflineTypeOK, AppendOutput, At, Step, Done, Idle,
       HandlerFits, Importing, Confirming, Generating, Attempt
  <2> QED
    BY <2>1, <2>2 DEF OfflineInv, OfflineTypeOK, AppendOutput, At, Step, Done, Idle,
       files, items, drafts, counts, world, outside
<1>2. HandlerFits'
  <2>1. CASE job.on \in outputs
    BY <2>1 DEF AppendOutput, Done, Idle, HandlerFits, Importing, Confirming, Generating
  <2>2. CASE job.on \notin outputs
    <3>1. /\ job'.at = "version" /\ job'.on = job.on /\ job'.key = job.key /\ job'.obj = job.obj
          /\ job.at = "output" /\ Attempt' = Attempt
      BY <2>2 DEF AppendOutput, At, Step, OfflineInv, OfflineTypeOK, Handlers, Attempt
    <3>2. /\ job.on \in Requests /\ job.key \in Keys /\ request[job.on].at = "submitted"
          /\ version[job.on] = 0 /\ Attempt \in runs /\ Attempt \in snaps
      BY <3>1 DEF OfflineInv, HandlerFits, Generating
    <3>3. /\ job'.on \in outputs' /\ up' /\ version' = version /\ request' = request
          /\ runs' = runs /\ snaps' = snaps
      BY <3>1 DEF AppendOutput, At, world, outside
    <3> QED
      BY <3>1, <3>2, <3>3 DEF HandlerFits, Importing, Confirming, Generating
  <2> QED
    BY <2>1, <2>2
<1>3. StoredReadable'
  BY ConstantsOK, <1>1 DEF OfflineInv, StoredReadable, AppendOutput, At, Step, Done, Idle,
     files, items, drafts, counts, world, outside, Handlers, Confirmed, HandlerFits, Importing,
     OfflineTypeOK
<1>4. ContextsHold'
  BY ConstantsOK, <1>1 DEF OfflineInv, ContextsHold, AppendOutput, At, Step, Done, Idle,
     files, items, drafts, counts, world, outside, Handlers, Confirmed, HandlerFits, Importing,
     Confirming, OfflineTypeOK
<1>5. DraftsBacked'
  BY ConstantsOK, <1>1 DEF OfflineInv, DraftsBacked, AppendOutput, At, Step, Done, Idle,
     files, items, drafts, counts, world, outside, Handlers, Confirmed, HandlerFits, Confirming,
     Generating, Attempt, OfflineTypeOK
<1>6. CallsPaid'
  <2> SUFFICES ASSUME faults = 0
               PROVE  CallsPaid'
    BY DEF CallsPaid, AppendOutput, world, outside
  <2>1. LeftDrafts = {}
    BY NothingLeft
  <2>2. job.on \notin outputs
    BY <2>1, LeftOpen DEF AppendOutput, At
  <2>3. job' = [job EXCEPT !.at = "version"] /\ job'.on = job.on /\ job'.at = "version" /\ job.at \in Generating
    BY <2>2 DEF AppendOutput, Step, At, OfflineInv, OfflineTypeOK, Handlers, Generating
  <2> QED
    BY <2>3 DEF OfflineInv, CallsPaid, AppendOutput, Generating, counts, drafts
<1>7. LeftExplained' /\ OutputsLeft' /\ JobsFollow'
  <2>1. LeftObjects' = LeftObjects
    <3>1. UNCHANGED <<rows, owner>> /\ job.at \notin {"envelope", "unrow"} /\ job'.at \notin {"envelope", "unrow"}
      BY DEF OfflineInv, OfflineTypeOK, Handlers, AppendOutput, At, Step, Done, Idle,
         files, items, drafts
    <3> QED
      BY <3>1, ObjectsKept
  <2>2. LeftRequests' = LeftRequests
    <3>1. request' = request /\ job.at \notin {"settings", "submitted"} /\ job'.at \notin {"settings", "submitted"}
      BY DEF OfflineInv, OfflineTypeOK, Handlers, AppendOutput, At, Step, Done, Idle,
         files, items, drafts
    <3> QED
      BY <3>1, RequestsKept
  <2>3. LeftJobs' = LeftJobs /\ JobsFollow'
    <3>1. recovery' = recovery /\ job.at \notin {"scan", "repairing"} /\ job'.at \notin {"scan", "repairing"}
      BY DEF OfflineInv, OfflineTypeOK, Handlers, AppendOutput, At, Step, Done, Idle,
         files, items, drafts
    <3> QED
      BY <3>1, JobsKept
  <2>4. LeftDrafts' = LeftDrafts /\ OutputsLeft'
    <3>1. /\ UNCHANGED <<runs, snaps, version>> /\ job.at = "output"
          /\ outputs' = outputs \cup {job.on}
          /\ job.on \in outputs => job'.at = "idle"
          /\ job.on \notin outputs => job'.at = "version" /\ job'.on = job.on /\ Attempt' = Attempt
      BY DEF OfflineInv, OfflineTypeOK, Handlers, AppendOutput, At, Step, Done, Idle, Attempt
    <3>2. job.on \in Requests /\ version[job.on] = 0
      BY <3>1 DEF OfflineInv, HandlerFits, Generating
    <3>3. HalfRuns' = HalfRuns
      BY <3>1 DEF HalfRuns
    <3>4. CASE job.on \in outputs
      <4>1. job.on \in LeftDrafts
        BY <3>1, <3>2, <3>4 DEF OfflineInv, OutputsLeft
      <4>2. LeftRuns' = HalfRuns /\ LeftRuns = HalfRuns \ {Attempt}
        BY <3>1, <3>3, <3>4 DEF LeftRuns
      <4>3. LeftDrafts' = LeftDrafts
        BY <4>1, <4>2 DEF LeftDrafts, Attempt
      <4>4. \A r \in outputs' : version'[r] = 0 => r \in LeftDrafts'
        BY <3>1, <3>4, <4>1, <4>3 DEF OfflineInv, OutputsLeft
      <4> QED
        BY <4>3, <4>4 DEF OutputsLeft
    <3>5. CASE job.on \notin outputs
      <4>1. LeftRuns' = LeftRuns
        BY <3>1, <3>3, <3>5 DEF LeftRuns
      <4>2. LeftDrafts' = LeftDrafts
        BY <4>1 DEF LeftDrafts
      <4> QED
        BY <3>1, <3>5, <4>2 DEF OfflineInv, OutputsLeft
    <3> QED
      BY <3>4, <3>5
  <2>5. faults' = faults
    BY DEF AppendOutput, world, outside
  <2> QED
    BY <2>1, <2>2, <2>3, <2>4, <2>5, LeftShrinks
<1> QED
  BY <1>1, <1>2, <1>3, <1>4, <1>5, <1>6, <1>7

\* The first version makes the draft whole.
LEMMA AppendVersionInv ==
  ASSUME OfflineInv, AppendVersion
  PROVE  /\ OfflineTypeOK' /\ HandlerFits' /\ StoredReadable' /\ ContextsHold' /\ DraftsBacked' /\ CallsPaid'
         /\ JobsFollow' /\ LeftExplained' /\ OutputsLeft'
<1>1. OfflineTypeOK'
  <2>1. job' \in Handlers
    BY ConstantsOK DEF OfflineInv, OfflineTypeOK, AppendVersion, At, Done, Idle, Handlers,
       Places, Items
  <2>2. version' \in [Requests -> 0 .. MaxVersions]
    BY ConstantsOK DEF OfflineInv, OfflineTypeOK, AppendVersion, At, Done, Idle,
       HandlerFits, Importing, Confirming, Generating, Attempt
  <2> QED
    BY <2>1, <2>2 DEF OfflineInv, OfflineTypeOK, AppendVersion, At, Done, Idle, files,
       items, drafts, counts, world, outside
<1>2. HandlerFits'
  BY ConstantsOK, <1>1 DEF OfflineInv, HandlerFits, AppendVersion, At, Done, Idle, files,
     items, drafts, counts, world, outside, Handlers, Confirmed, Importing, Confirming, Generating,
     Attempt, OfflineTypeOK, StoredReadable, ContextsHold, DraftsBacked
<1>3. StoredReadable'
  BY ConstantsOK, <1>1 DEF OfflineInv, StoredReadable, AppendVersion, At, Done, Idle, files,
     items, drafts, counts, world, outside, Handlers, Confirmed, HandlerFits, Importing,
     OfflineTypeOK
<1>4. ContextsHold'
  BY ConstantsOK, <1>1 DEF OfflineInv, ContextsHold, AppendVersion, At, Done, Idle, files,
     items, drafts, counts, world, outside, Handlers, Confirmed, HandlerFits, Importing, Confirming,
     OfflineTypeOK
<1>5. DraftsBacked'
  BY ConstantsOK, <1>1, ZenonT(60) DEF OfflineInv, DraftsBacked, AppendVersion, At, Done, Idle, files,
     items, drafts, counts, world, outside, Handlers, Confirmed, HandlerFits, Confirming, Generating,
     Attempt, OfflineTypeOK
<1>6. CallsPaid'
  BY ConstantsOK, <1>1, SMTT(30) DEF OfflineInv, CallsPaid, AppendVersion, At, Done, Idle, files,
     items, drafts, counts, world, outside, Handlers, Confirmed, HandlerFits, Generating,
     OfflineTypeOK
<1>7. LeftExplained' /\ OutputsLeft' /\ JobsFollow'
  <2>1. LeftObjects' = LeftObjects
    <3>1. UNCHANGED <<rows, owner>> /\ job.at \notin {"envelope", "unrow"} /\ job'.at \notin {"envelope", "unrow"}
      BY DEF OfflineInv, OfflineTypeOK, Handlers, AppendVersion, At, Done, Idle, files,
         items, drafts
    <3> QED
      BY <3>1, ObjectsKept
  <2>2. LeftRequests' = LeftRequests
    <3>1. request' = request /\ job.at \notin {"settings", "submitted"} /\ job'.at \notin {"settings", "submitted"}
      BY DEF OfflineInv, OfflineTypeOK, Handlers, AppendVersion, At, Done, Idle, files,
         items, drafts
    <3> QED
      BY <3>1, RequestsKept
  <2>3. LeftJobs' = LeftJobs /\ JobsFollow'
    <3>1. recovery' = recovery /\ job.at \notin {"scan", "repairing"} /\ job'.at \notin {"scan", "repairing"}
      BY DEF OfflineInv, OfflineTypeOK, Handlers, AppendVersion, At, Done, Idle, files,
         items, drafts
    <3> QED
      BY <3>1, JobsKept
  <2>4. LeftDrafts' \subseteq LeftDrafts /\ OutputsLeft'
    <3>1. /\ UNCHANGED <<runs, snaps, outputs>> /\ job.at = "version" /\ job'.at = "idle"
          /\ job.on \in Requests /\ version \in [Requests -> 0 .. MaxVersions]
          /\ version' = [version EXCEPT ![job.on] = 1]
          /\ runs \subseteq Requests \X Keys /\ Attempt \in snaps
      BY DEF OfflineInv, OfflineTypeOK, Handlers, AppendVersion, At, Done, Idle,
         HandlerFits, Generating
    <3>2. /\ version'[job.on] = 1
          /\ \A q \in Requests : q # job.on => version'[q] = version[q]
      BY <3>1
    <3>3. LeftRuns' = HalfRuns' /\ LeftRuns = HalfRuns \ {Attempt}
      BY <3>1 DEF LeftRuns
    <3>4. ASSUME NEW q \in Requests, NEW k \in Keys
          PROVE  /\ <<q, k>> \in LeftRuns' => <<q, k>> \in LeftRuns
                 /\ q # job.on /\ <<q, k>> \in LeftRuns => <<q, k>> \in LeftRuns'
      <4>1. CASE q = job.on
        <5>1. <<q, k>> \in HalfRuns' => <<q, k>> \in runs /\ <<q, k>> \notin snaps
          BY <3>1, <3>2, <4>1 DEF HalfRuns
        <5> QED
          BY <5>1, <3>1, <3>3, <4>1 DEF HalfRuns
      <4>2. CASE q # job.on
        BY <3>1, <3>2, <3>3, <4>2 DEF HalfRuns, Attempt
      <4> QED
        BY <4>1, <4>2
    <3>5. LeftDrafts' \subseteq LeftDrafts
      BY <3>4 DEF LeftDrafts
    <3>6. \A q \in LeftDrafts : q # job.on => q \in LeftDrafts'
      BY <3>4 DEF LeftDrafts
    <3> QED
      BY <3>1, <3>2, <3>5, <3>6 DEF OfflineInv, OutputsLeft, OfflineTypeOK
  <2>5. faults' = faults
    BY DEF AppendVersion, world, outside
  <2> QED
    BY <2>1, <2>2, <2>3, <2>4, <2>5, LeftShrinks
<1> QED
  BY <1>1, <1>2, <1>3, <1>4, <1>5, <1>6, <1>7

\* An edit of a draft.
LEMMA AppendEditInv ==
  ASSUME OfflineInv, NEW e \in Edits, AppendEdit(e)
  PROVE  /\ OfflineTypeOK' /\ HandlerFits' /\ StoredReadable' /\ ContextsHold' /\ DraftsBacked' /\ CallsPaid'
         /\ JobsFollow' /\ LeftExplained' /\ OutputsLeft'
<1> DEFINE r == edit[e][1]
<1>a. r \in Requests /\ version[r] \in Nat \ {0} /\ version[r] < MaxVersions
  <2>1. edit[e] \in Requests \X (Nat \ {0}) /\ version[r] = edit[e][2]
    BY DEF OfflineInv, OfflineTypeOK, AppendEdit
  <2> QED
    BY <2>1 DEF AppendEdit, Applies
<1>b. /\ version' = [version EXCEPT ![r] = @ + 1]
      /\ written' = [written EXCEPT ![e] = @ \cup {version[r] + 1}]
      /\ UNCHANGED <<job, tmp, blob, rows, owner, copy, context, request, runs, snaps, outputs,
                     queued, recovery, model, calls, fails, up, faults, lapsed, edit>>
  BY DEF AppendEdit, Applies, files, items, counts
<1>c. job = Idle /\ up
  BY DEF AppendEdit, Ready
<1> HIDE DEF r
<1>1. OfflineTypeOK'
  <2>1. version' \in [Requests -> 0 .. MaxVersions]
    BY <1>a, <1>b, <1>c, ConstantsOK DEF OfflineInv, OfflineTypeOK
  <2>2. written' \in [Edits -> SUBSET Nat]
    BY <1>a, <1>b DEF OfflineInv, OfflineTypeOK
  <2> QED
    BY <1>b, <2>1, <2>2 DEF OfflineInv, OfflineTypeOK, files, items, drafts,
       counts, world, outside
<1>2. HandlerFits'
  BY <1>a, <1>b, <1>c, ConstantsOK, <1>1 DEF OfflineInv, HandlerFits, files, items, drafts,
     counts, world, outside, Handlers, Confirmed, Importing, Confirming, Generating, Attempt,
     OfflineTypeOK, StoredReadable, ContextsHold, DraftsBacked, Idle
<1>3. StoredReadable'
  BY <1>a, <1>b, <1>c, ConstantsOK, <1>1 DEF OfflineInv, StoredReadable, files, items,
     drafts, counts, world, outside, Handlers, Confirmed, HandlerFits, Importing, OfflineTypeOK
<1>4. ContextsHold'
  BY <1>a, <1>b, <1>c, ConstantsOK, <1>1 DEF OfflineInv, ContextsHold, files, items,
     drafts, counts, world, outside, Handlers, Confirmed, HandlerFits, Importing, Confirming,
     OfflineTypeOK
<1>5. DraftsBacked'
  <2>1. ASSUME NEW q \in Requests, version'[q] > 0
        PROVE  version[q] > 0
    BY <1>a, <1>b, <2>1, ConstantsOK DEF OfflineInv, OfflineTypeOK
  <2> QED
    BY <1>b, <2>1 DEF OfflineInv, DraftsBacked
<1>6. CallsPaid'
  BY <1>a, <1>b, <1>c, ConstantsOK, <1>1, SMTT(30) DEF OfflineInv, CallsPaid, files, items, drafts,
     counts, world, outside, Handlers, Confirmed, HandlerFits, Generating, OfflineTypeOK, Idle
<1>7. LeftExplained' /\ OutputsLeft' /\ JobsFollow'
  <2>1. LeftObjects' = LeftObjects
    <3>1. UNCHANGED <<rows, owner>> /\ job.at \notin {"envelope", "unrow"} /\ job'.at \notin {"envelope", "unrow"}
      BY <1>b, <1>c DEF Idle
    <3> QED
      BY <3>1, ObjectsKept
  <2>2. LeftRequests' = LeftRequests
    <3>1. request' = request /\ job.at \notin {"settings", "submitted"} /\ job'.at \notin {"settings", "submitted"}
      BY <1>b, <1>c DEF Idle
    <3> QED
      BY <3>1, RequestsKept
  <2>3. LeftJobs' = LeftJobs /\ JobsFollow'
    <3>1. recovery' = recovery /\ job.at \notin {"scan", "repairing"} /\ job'.at \notin {"scan", "repairing"}
      BY <1>b, <1>c DEF Idle
    <3> QED
      BY <3>1, JobsKept
  <2>4. LeftDrafts' = LeftDrafts /\ OutputsLeft'
    <3>1. \A q \in Requests : (version'[q] = 0) <=> (version[q] = 0)
      BY <1>a, <1>b DEF OfflineInv, OfflineTypeOK
    <3>2. UNCHANGED <<runs, snaps, outputs, job>>
      BY <1>b
    <3>3. HalfRuns' = HalfRuns
      BY <3>1, <3>2 DEF HalfRuns, OfflineInv, OfflineTypeOK
    <3>4. LeftDrafts' = LeftDrafts
      BY <3>2, <3>3 DEF LeftDrafts, LeftRuns, Attempt
    <3> QED
      BY <3>1, <3>2, <3>4 DEF OfflineInv, OutputsLeft, OfflineTypeOK
  <2>5. faults' = faults
    BY <1>b
  <2> QED
    BY <2>1, <2>2, <2>3, <2>4, <2>5, LeftShrinks
<1> QED
  BY <1>1, <1>2, <1>3, <1>4, <1>5, <1>6, <1>7

\* The last version is queued.
LEMMA QueueSyncPreviewInv ==
  ASSUME OfflineInv, NEW p \in Previews, NEW r \in Requests, NEW v \in 1..MaxVersions,
     QueueSyncPreview(p, r, v)
  PROVE  /\ OfflineTypeOK' /\ HandlerFits' /\ StoredReadable' /\ ContextsHold' /\ DraftsBacked' /\ CallsPaid'
         /\ JobsFollow' /\ LeftExplained' /\ OutputsLeft'
<1>1. OfflineTypeOK'
  <2>1. queued' \in [Previews -> (Requests \X Nat) \cup {<<>>}]
    BY ConstantsOK DEF OfflineInv, OfflineTypeOK, QueueSyncPreview, Ready, HandlerFits,
       Importing, Confirming, Generating, Attempt
  <2> QED
    BY <2>1 DEF OfflineInv, OfflineTypeOK, QueueSyncPreview, Ready, files, items, drafts,
       counts, world, outside
<1>2. HandlerFits'
  BY ConstantsOK, <1>1 DEF OfflineInv, HandlerFits, QueueSyncPreview, Ready, files, items,
     drafts, counts, world, outside, Handlers, Confirmed, Importing, Confirming, Generating, Attempt,
     OfflineTypeOK, StoredReadable, ContextsHold, DraftsBacked, Idle
<1>3. StoredReadable'
  BY ConstantsOK, <1>1 DEF OfflineInv, StoredReadable, QueueSyncPreview, Ready, files,
     items, drafts, counts, world, outside, Handlers, Confirmed, HandlerFits, Importing,
     OfflineTypeOK
<1>4. ContextsHold'
  BY ConstantsOK, <1>1 DEF OfflineInv, ContextsHold, QueueSyncPreview, Ready, files, items,
     drafts, counts, world, outside, Handlers, Confirmed, HandlerFits, Importing, Confirming,
     OfflineTypeOK
<1>5. DraftsBacked'
  BY ConstantsOK, <1>1 DEF OfflineInv, DraftsBacked, QueueSyncPreview, Ready, files, items,
     drafts, counts, world, outside, Handlers, Confirmed, HandlerFits, Confirming, Generating,
     Attempt, OfflineTypeOK
<1>6. CallsPaid'
  BY ConstantsOK, <1>1 DEF OfflineInv, CallsPaid, QueueSyncPreview, Ready, files, items,
     drafts, counts, world, outside, Handlers, Confirmed, HandlerFits, Generating, OfflineTypeOK,
     Idle
<1>7. LeftExplained' /\ OutputsLeft' /\ JobsFollow'
  <2>1. LeftObjects' = LeftObjects
    <3>1. UNCHANGED <<rows, owner>> /\ job.at \notin {"envelope", "unrow"} /\ job'.at \notin {"envelope", "unrow"}
      BY DEF OfflineInv, OfflineTypeOK, Handlers, QueueSyncPreview, Ready, Idle, files,
         items, drafts
    <3> QED
      BY <3>1, ObjectsKept
  <2>2. LeftRequests' = LeftRequests
    <3>1. request' = request /\ job.at \notin {"settings", "submitted"} /\ job'.at \notin {"settings", "submitted"}
      BY DEF OfflineInv, OfflineTypeOK, Handlers, QueueSyncPreview, Ready, Idle, files,
         items, drafts
    <3> QED
      BY <3>1, RequestsKept
  <2>3. LeftJobs' = LeftJobs /\ JobsFollow'
    <3>1. recovery' = recovery /\ job.at \notin {"scan", "repairing"} /\ job'.at \notin {"scan", "repairing"}
      BY DEF OfflineInv, OfflineTypeOK, Handlers, QueueSyncPreview, Ready, Idle, files,
         items, drafts
    <3> QED
      BY <3>1, JobsKept
  <2>4. LeftDrafts' = LeftDrafts /\ OutputsLeft'
    <3>1. UNCHANGED <<runs, snaps, outputs, version>> /\ job.at \notin {"snapshot", "output", "version"} /\ job'.at \notin {"snapshot", "output", "version"}
      BY DEF OfflineInv, OfflineTypeOK, Handlers, QueueSyncPreview, Ready, Idle, files,
         items, drafts
    <3> QED
      BY <3>1, RunsKept
  <2>5. faults' = faults
    BY DEF QueueSyncPreview, world, outside
  <2> QED
    BY <2>1, <2>2, <2>3, <2>4, <2>5, LeftShrinks
<1> QED
  BY <1>1, <1>2, <1>3, <1>4, <1>5, <1>6, <1>7

\* A recovery job begins.
LEMMA ScanInv ==
  ASSUME OfflineInv, NEW j \in Jobs, Scan(j)
  PROVE  /\ OfflineTypeOK' /\ HandlerFits' /\ StoredReadable' /\ ContextsHold' /\ DraftsBacked' /\ CallsPaid'
         /\ JobsFollow' /\ LeftExplained' /\ OutputsLeft'
<1>1. OfflineTypeOK'
  <2>1. job' \in Handlers
    BY ConstantsOK DEF OfflineInv, OfflineTypeOK, Scan, Ready, Idle, Handlers, Places, Items
  <2> QED
    BY <2>1 DEF OfflineInv, OfflineTypeOK, Scan, Ready, Idle, files, items, drafts,
       counts, world, outside
<1>2. HandlerFits'
  BY ConstantsOK, <1>1 DEF OfflineInv, HandlerFits, Scan, Ready, Idle, files, items, drafts,
     counts, world, outside, Handlers, Confirmed, Importing, Confirming, Generating, Attempt,
     OfflineTypeOK, StoredReadable, ContextsHold, DraftsBacked
<1>3. StoredReadable'
  BY ConstantsOK, <1>1 DEF OfflineInv, StoredReadable, Scan, Ready, Idle, files, items,
     drafts, counts, world, outside, Handlers, Confirmed, HandlerFits, Importing, OfflineTypeOK
<1>4. ContextsHold'
  BY ConstantsOK, <1>1 DEF OfflineInv, ContextsHold, Scan, Ready, Idle, files, items,
     drafts, counts, world, outside, Handlers, Confirmed, HandlerFits, Importing, Confirming,
     OfflineTypeOK
<1>5. DraftsBacked'
  BY ConstantsOK, <1>1 DEF OfflineInv, DraftsBacked, Scan, Ready, Idle, files, items,
     drafts, counts, world, outside, Handlers, Confirmed, HandlerFits, Confirming, Generating,
     Attempt, OfflineTypeOK
<1>6. CallsPaid'
  BY ConstantsOK, <1>1 DEF OfflineInv, CallsPaid, Scan, Ready, Idle, files, items, drafts,
     counts, world, outside, Handlers, Confirmed, HandlerFits, Generating, OfflineTypeOK
<1>7. LeftExplained' /\ OutputsLeft' /\ JobsFollow'
  <2>1. LeftObjects' = LeftObjects
    <3>1. UNCHANGED <<rows, owner>> /\ job.at \notin {"envelope", "unrow"} /\ job'.at \notin {"envelope", "unrow"}
      BY DEF OfflineInv, OfflineTypeOK, Handlers, Scan, Ready, Idle, files, items, drafts
    <3> QED
      BY <3>1, ObjectsKept
  <2>2. LeftRequests' = LeftRequests
    <3>1. request' = request /\ job.at \notin {"settings", "submitted"} /\ job'.at \notin {"settings", "submitted"}
      BY DEF OfflineInv, OfflineTypeOK, Handlers, Scan, Ready, Idle, files, items, drafts
    <3> QED
      BY <3>1, RequestsKept
  <2>3. LeftJobs' \subseteq LeftJobs /\ JobsFollow'
    <3>1. /\ recovery' = recovery /\ recovery[j] = <<>> /\ job.at = "idle"
          /\ job'.at = "scan" /\ job'.on = j
      BY DEF Scan, Ready, Idle
    <3>2. LeftJobs' \subseteq LeftJobs
      BY <3>1 DEF LeftJobs, HalfJobs, LastOf
    <3>3. Len(recovery[j]) = 0
      BY <3>1
    <3> QED
      BY <3>1, <3>2, <3>3 DEF OfflineInv, JobsFollow
  <2>4. LeftDrafts' = LeftDrafts /\ OutputsLeft'
    <3>1. UNCHANGED <<runs, snaps, outputs, version>> /\ job.at \notin {"snapshot", "output", "version"} /\ job'.at \notin {"snapshot", "output", "version"}
      BY DEF OfflineInv, OfflineTypeOK, Handlers, Scan, Ready, Idle, files, items, drafts
    <3> QED
      BY <3>1, RunsKept
  <2>5. faults' = faults
    BY DEF Scan, world, outside
  <2> QED
    BY <2>1, <2>2, <2>3, <2>4, <2>5, LeftShrinks
<1> QED
  BY <1>1, <1>2, <1>3, <1>4, <1>5, <1>6, <1>7

\* The next state of a scan.
LEMMA ScanAppendInv ==
  ASSUME OfflineInv, ScanAppend
  PROVE  /\ OfflineTypeOK' /\ HandlerFits' /\ StoredReadable' /\ ContextsHold' /\ DraftsBacked' /\ CallsPaid'
         /\ JobsFollow' /\ LeftExplained' /\ OutputsLeft'
<1>1. OfflineTypeOK'
  <2>1. job' \in Handlers
    BY ConstantsOK DEF OfflineInv, OfflineTypeOK, ScanAppend, At, Done, Idle, Handlers,
       Places, Items
  <2>2. recovery' \in [Jobs -> Seq(RecoveryStates)]
    BY ConstantsOK DEF OfflineInv, OfflineTypeOK, ScanAppend, At, Done, Idle, HandlerFits,
       Importing, Confirming, Generating, Attempt, RecoveryStates, ScanStates, Settled
  <2> QED
    BY <2>1, <2>2 DEF OfflineInv, OfflineTypeOK, ScanAppend, At, Done, Idle, files, items,
       drafts, counts, world, outside
<1>2. HandlerFits'
  BY ConstantsOK, <1>1 DEF OfflineInv, HandlerFits, ScanAppend, At, Done, Idle, files,
     items, drafts, counts, world, outside, Handlers, Confirmed, Importing, Confirming, Generating,
     Attempt, OfflineTypeOK, StoredReadable, ContextsHold, DraftsBacked
<1>3. StoredReadable'
  BY ConstantsOK, <1>1 DEF OfflineInv, StoredReadable, ScanAppend, At, Done, Idle, files,
     items, drafts, counts, world, outside, Handlers, Confirmed, HandlerFits, Importing,
     OfflineTypeOK
<1>4. ContextsHold'
  BY ConstantsOK, <1>1 DEF OfflineInv, ContextsHold, ScanAppend, At, Done, Idle, files,
     items, drafts, counts, world, outside, Handlers, Confirmed, HandlerFits, Importing, Confirming,
     OfflineTypeOK
<1>5. DraftsBacked'
  BY ConstantsOK, <1>1 DEF OfflineInv, DraftsBacked, ScanAppend, At, Done, Idle, files,
     items, drafts, counts, world, outside, Handlers, Confirmed, HandlerFits, Confirming, Generating,
     Attempt, OfflineTypeOK
<1>6. CallsPaid'
  BY ConstantsOK, <1>1 DEF OfflineInv, CallsPaid, ScanAppend, At, Done, Idle, files, items,
     drafts, counts, world, outside, Handlers, Confirmed, HandlerFits, Generating, OfflineTypeOK
<1>7. LeftExplained' /\ OutputsLeft' /\ JobsFollow'
  <2>1. LeftObjects' = LeftObjects
    <3>1. UNCHANGED <<rows, owner>> /\ job.at \notin {"envelope", "unrow"} /\ job'.at \notin {"envelope", "unrow"}
      BY DEF OfflineInv, OfflineTypeOK, Handlers, ScanAppend, At, Done, Idle, files,
         items, drafts
    <3> QED
      BY <3>1, ObjectsKept
  <2>2. LeftRequests' = LeftRequests
    <3>1. request' = request /\ job.at \notin {"settings", "submitted"} /\ job'.at \notin {"settings", "submitted"}
      BY DEF OfflineInv, OfflineTypeOK, Handlers, ScanAppend, At, Done, Idle, files,
         items, drafts
    <3> QED
      BY <3>1, RequestsKept
  <2>3. LeftJobs' \subseteq LeftJobs /\ JobsFollow'
    <3>1. /\ job.at = "scan" /\ job.on \in Jobs /\ recovery[job.on] \in Seq(RecoveryStates)
          /\ recovery \in [Jobs -> Seq(RecoveryStates)]
          /\ FollowsScan(recovery[job.on]) /\ Len(recovery[job.on]) <= 3
      BY DEF OfflineInv, OfflineTypeOK, HandlerFits, JobsFollow, ScanAppend, At
    <3> DEFINE n == Len(recovery[job.on])
               s == recovery'[job.on]
    <3>2. PICK next \in (IF n < 3 THEN {ScanStates[n + 1]}
                         ELSE {"repairable", "manual_recovery_required"}) :
            /\ recovery' = [recovery EXCEPT ![job.on] = Append(recovery[job.on], next)]
            /\ IF n < 3 THEN UNCHANGED job ELSE Done
      BY DEF ScanAppend
    <3>3. /\ s = Append(recovery[job.on], next)
          /\ \A j \in Jobs : j # job.on => recovery'[j] = recovery[j]
      BY <3>1, <3>2
    <3>0. n \in 0 .. 3
      <4>1. n \in 0 .. 6
        BY <3>1 DEF FollowsScan
      <4>2. n <= 3
        BY <3>1
      <4> HIDE DEF n
      <4> QED
        BY <4>1, <4>2
    <3> HIDE DEF n, s
    <3>4. /\ n = 0 => next = "detected"
          /\ n = 1 => next = "quarantined"
          /\ n = 2 => next = "scanning"
          /\ n = 3 => next \in {"repairable", "manual_recovery_required"}
          /\ next \in RecoveryStates
      <4>1. CASE n = 0
        BY <3>2, <4>1 DEF ScanStates, RecoveryStates, Settled
      <4>2. CASE n = 1
        BY <3>2, <4>2 DEF ScanStates, RecoveryStates, Settled
      <4>3. CASE n = 2
        BY <3>2, <4>3 DEF ScanStates, RecoveryStates, Settled
      <4>4. CASE n = 3
        BY <3>2, <4>4 DEF ScanStates, RecoveryStates, Settled
      <4> QED
        BY <3>0, <4>1, <4>2, <4>3, <4>4
    <3>5. /\ Len(s) = n + 1 /\ s[n + 1] = next
          /\ \A i \in 1 .. n : s[i] = recovery[job.on][i]
      BY <3>1, <3>3, <3>4, AppendProperties DEF n
    <3>a. /\ n >= 1 => recovery[job.on][1] = "detected"
          /\ n >= 2 => recovery[job.on][2] = "quarantined"
          /\ n >= 3 => recovery[job.on][3] = "scanning"
      BY <3>1 DEF FollowsScan, n
    <3>6. FollowsScan(s)
      <4>1. CASE n = 0
        BY <4>1, <3>4, <3>5 DEF FollowsScan
      <4>2. CASE n = 1
        BY <4>2, <3>4, <3>5, <3>a DEF FollowsScan
      <4>3. CASE n = 2
        BY <4>3, <3>4, <3>5, <3>a DEF FollowsScan
      <4>4. CASE n = 3
        BY <4>4, <3>4, <3>5, <3>a DEF FollowsScan
      <4> QED
        BY <3>0, <4>1, <4>2, <4>3, <4>4
    <3>7. n = 3 => job.on \notin HalfJobs'
      BY <3>4, <3>5 DEF HalfJobs, LastOf, Settled, s
    <3>8. \A j \in Jobs : j # job.on /\ j \in HalfJobs' => j \in HalfJobs
      BY <3>3 DEF HalfJobs, LastOf
    <3>9. (n < 3 => job' = job) /\ (n = 3 => job' = Idle)
      BY <3>0, <3>2 DEF Done
    <3>10. LeftJobs' \subseteq LeftJobs
      <4>1. CASE n < 3
        BY <4>1, <3>1, <3>8, <3>9 DEF LeftJobs, HalfJobs
      <4>2. CASE n = 3
        BY <4>2, <3>1, <3>7, <3>8, <3>9 DEF LeftJobs, HalfJobs, Idle
      <4> QED
        BY <3>0, <4>1, <4>2
    <3>11. \A j \in Jobs : FollowsScan(recovery'[j])
      BY <3>3, <3>6 DEF OfflineInv, JobsFollow, s
    <3>12. job'.at = "scan" => Len(recovery'[job'.on]) <= 3
      BY <3>0, <3>1, <3>5, <3>9 DEF Idle, s
    <3>13. job'.at # "repairing"
      BY <3>0, <3>1, <3>9 DEF Idle
    <3>14. JobsFollow'
      BY <3>11, <3>12, <3>13 DEF JobsFollow
    <3> QED
      BY <3>10, <3>14
  <2>4. LeftDrafts' = LeftDrafts /\ OutputsLeft'
    <3>1. UNCHANGED <<runs, snaps, outputs, version>> /\ job.at \notin {"snapshot", "output", "version"} /\ job'.at \notin {"snapshot", "output", "version"}
      BY DEF OfflineInv, OfflineTypeOK, Handlers, ScanAppend, At, Done, Idle, files,
         items, drafts
    <3> QED
      BY <3>1, RunsKept
  <2>5. faults' = faults
    BY DEF ScanAppend, world, outside
  <2> QED
    BY <2>1, <2>2, <2>3, <2>4, <2>5, LeftShrinks
<1> QED
  BY <1>1, <1>2, <1>3, <1>4, <1>5, <1>6, <1>7

\* Only a repairable job is repaired.
LEMMA RepairInv ==
  ASSUME OfflineInv, NEW j \in Jobs, Repair(j)
  PROVE  /\ OfflineTypeOK' /\ HandlerFits' /\ StoredReadable' /\ ContextsHold' /\ DraftsBacked' /\ CallsPaid'
         /\ JobsFollow' /\ LeftExplained' /\ OutputsLeft'
<1>1. OfflineTypeOK'
  <2>1. job' \in Handlers
    BY ConstantsOK DEF OfflineInv, OfflineTypeOK, Repair, Ready, Idle, LastOf, Handlers,
       Places, Items
  <2>2. recovery' \in [Jobs -> Seq(RecoveryStates)]
    BY ConstantsOK DEF OfflineInv, OfflineTypeOK, Repair, Ready, Idle, LastOf,
       HandlerFits, Importing, Confirming, Generating, Attempt, RecoveryStates
  <2> QED
    BY <2>1, <2>2 DEF OfflineInv, OfflineTypeOK, Repair, Ready, Idle, LastOf, files,
       items, drafts, counts, world, outside
<1>2. HandlerFits'
  BY ConstantsOK, <1>1 DEF OfflineInv, HandlerFits, Repair, Ready, Idle, LastOf, files,
     items, drafts, counts, world, outside, Handlers, Confirmed, Importing, Confirming, Generating,
     Attempt, OfflineTypeOK, StoredReadable, ContextsHold, DraftsBacked
<1>3. StoredReadable'
  BY ConstantsOK, <1>1 DEF OfflineInv, StoredReadable, Repair, Ready, Idle, LastOf, files,
     items, drafts, counts, world, outside, Handlers, Confirmed, HandlerFits, Importing,
     OfflineTypeOK
<1>4. ContextsHold'
  BY ConstantsOK, <1>1 DEF OfflineInv, ContextsHold, Repair, Ready, Idle, LastOf, files,
     items, drafts, counts, world, outside, Handlers, Confirmed, HandlerFits, Importing, Confirming,
     OfflineTypeOK
<1>5. DraftsBacked'
  BY ConstantsOK, <1>1 DEF OfflineInv, DraftsBacked, Repair, Ready, Idle, LastOf, files,
     items, drafts, counts, world, outside, Handlers, Confirmed, HandlerFits, Confirming, Generating,
     Attempt, OfflineTypeOK
<1>6. CallsPaid'
  BY ConstantsOK, <1>1 DEF OfflineInv, CallsPaid, Repair, Ready, Idle, LastOf, files, items,
     drafts, counts, world, outside, Handlers, Confirmed, HandlerFits, Generating, OfflineTypeOK
<1>7. LeftExplained' /\ OutputsLeft' /\ JobsFollow'
  <2>1. LeftObjects' = LeftObjects
    <3>1. UNCHANGED <<rows, owner>> /\ job.at \notin {"envelope", "unrow"} /\ job'.at \notin {"envelope", "unrow"}
      BY DEF OfflineInv, OfflineTypeOK, Handlers, Repair, Ready, Idle, LastOf, files,
         items, drafts
    <3> QED
      BY <3>1, ObjectsKept
  <2>2. LeftRequests' = LeftRequests
    <3>1. request' = request /\ job.at \notin {"settings", "submitted"} /\ job'.at \notin {"settings", "submitted"}
      BY DEF OfflineInv, OfflineTypeOK, Handlers, Repair, Ready, Idle, LastOf, files,
         items, drafts
    <3> QED
      BY <3>1, RequestsKept
  <2>3. LeftJobs' \subseteq LeftJobs /\ JobsFollow'
    <3> DEFINE s == recovery'[j]
    <3>1. /\ job.at = "idle" /\ job'.at = "repairing" /\ job'.on = j
          /\ recovery \in [Jobs -> Seq(RecoveryStates)]
          /\ recovery' = [recovery EXCEPT ![j] = Append(recovery[j], "repairing")]
          /\ recovery[j] # <<>> /\ LastOf(j) = "repairable"
      BY DEF OfflineInv, OfflineTypeOK, Repair, Ready, Idle
    <3>2. recovery[j] \in Seq(RecoveryStates) /\ FollowsScan(recovery[j])
      BY <3>1 DEF OfflineInv, JobsFollow
    <3>3. Len(recovery[j]) \in 1 .. 6
      BY <3>1, <3>2, EmptySeq, SeqEqual DEF FollowsScan
    <3>4. Len(recovery[j]) = 4 /\ recovery[j][4] = "repairable"
      <4> DEFINE n == Len(recovery[j])
      <4>1. /\ n = 1 => recovery[j][1] = "detected"
            /\ n = 2 => recovery[j][2] = "quarantined"
            /\ n = 3 => recovery[j][3] = "scanning"
            /\ n = 5 => recovery[j][5] = "repairing"
            /\ n = 6 => recovery[j][6] = "verified"
        BY <3>2 DEF FollowsScan
      <4>2. recovery[j][n] = "repairable" /\ n \in 1 .. 6
        BY <3>1, <3>3 DEF LastOf
      <4> HIDE DEF n
      <4>3. n = 4
        BY <4>1, <4>2
      <4> QED
        BY <4>2, <4>3 DEF n
    <3>5. "repairing" \in RecoveryStates
      BY DEF RecoveryStates
    <3>6. /\ s = Append(recovery[j], "repairing")
          /\ \A i \in Jobs : i # j => recovery'[i] = recovery[i]
      BY <3>1
    <3>7. /\ Len(s) = 5 /\ s[5] = "repairing"
          /\ \A i \in 1 .. 4 : s[i] = recovery[j][i]
      BY <3>2, <3>4, <3>5, <3>6, AppendProperties, SMTT(30)
    <3>8. FollowsScan(s)
      BY <3>2, <3>4, <3>7 DEF FollowsScan
    <3>9. LeftJobs' \subseteq LeftJobs
      BY <3>1, <3>6 DEF LeftJobs, HalfJobs, LastOf
    <3> QED
      BY <3>1, <3>6, <3>7, <3>8, <3>9 DEF OfflineInv, JobsFollow
  <2>4. LeftDrafts' = LeftDrafts /\ OutputsLeft'
    <3>1. UNCHANGED <<runs, snaps, outputs, version>> /\ job.at \notin {"snapshot", "output", "version"} /\ job'.at \notin {"snapshot", "output", "version"}
      BY DEF OfflineInv, OfflineTypeOK, Handlers, Repair, Ready, Idle, LastOf, files,
         items, drafts
    <3> QED
      BY <3>1, RunsKept
  <2>5. faults' = faults
    BY DEF Repair, world, outside
  <2> QED
    BY <2>1, <2>2, <2>3, <2>4, <2>5, LeftShrinks
<1> QED
  BY <1>1, <1>2, <1>3, <1>4, <1>5, <1>6, <1>7

\* The repaired job is verified.
LEMMA RepairVerifiedInv ==
  ASSUME OfflineInv, RepairVerified
  PROVE  /\ OfflineTypeOK' /\ HandlerFits' /\ StoredReadable' /\ ContextsHold' /\ DraftsBacked' /\ CallsPaid'
         /\ JobsFollow' /\ LeftExplained' /\ OutputsLeft'
<1>1. OfflineTypeOK'
  <2>1. job' \in Handlers
    BY ConstantsOK DEF OfflineInv, OfflineTypeOK, RepairVerified, At, Done, Idle,
       Handlers, Places, Items
  <2>2. recovery' \in [Jobs -> Seq(RecoveryStates)]
    BY ConstantsOK DEF OfflineInv, OfflineTypeOK, RepairVerified, At, Done, Idle,
       HandlerFits, Importing, Confirming, Generating, Attempt, RecoveryStates, Settled
  <2> QED
    BY <2>1, <2>2 DEF OfflineInv, OfflineTypeOK, RepairVerified, At, Done, Idle, files,
       items, drafts, counts, world, outside
<1>2. HandlerFits'
  BY ConstantsOK, <1>1 DEF OfflineInv, HandlerFits, RepairVerified, At, Done, Idle, files,
     items, drafts, counts, world, outside, Handlers, Confirmed, Importing, Confirming, Generating,
     Attempt, OfflineTypeOK, StoredReadable, ContextsHold, DraftsBacked
<1>3. StoredReadable'
  BY ConstantsOK, <1>1 DEF OfflineInv, StoredReadable, RepairVerified, At, Done, Idle,
     files, items, drafts, counts, world, outside, Handlers, Confirmed, HandlerFits, Importing,
     OfflineTypeOK
<1>4. ContextsHold'
  BY ConstantsOK, <1>1 DEF OfflineInv, ContextsHold, RepairVerified, At, Done, Idle, files,
     items, drafts, counts, world, outside, Handlers, Confirmed, HandlerFits, Importing, Confirming,
     OfflineTypeOK
<1>5. DraftsBacked'
  BY ConstantsOK, <1>1 DEF OfflineInv, DraftsBacked, RepairVerified, At, Done, Idle, files,
     items, drafts, counts, world, outside, Handlers, Confirmed, HandlerFits, Confirming, Generating,
     Attempt, OfflineTypeOK
<1>6. CallsPaid'
  BY ConstantsOK, <1>1 DEF OfflineInv, CallsPaid, RepairVerified, At, Done, Idle, files,
     items, drafts, counts, world, outside, Handlers, Confirmed, HandlerFits, Generating,
     OfflineTypeOK
<1>7. LeftExplained' /\ OutputsLeft' /\ JobsFollow'
  <2>1. LeftObjects' = LeftObjects
    <3>1. UNCHANGED <<rows, owner>> /\ job.at \notin {"envelope", "unrow"} /\ job'.at \notin {"envelope", "unrow"}
      BY DEF OfflineInv, OfflineTypeOK, Handlers, RepairVerified, At, Done, Idle, files,
         items, drafts
    <3> QED
      BY <3>1, ObjectsKept
  <2>2. LeftRequests' = LeftRequests
    <3>1. request' = request /\ job.at \notin {"settings", "submitted"} /\ job'.at \notin {"settings", "submitted"}
      BY DEF OfflineInv, OfflineTypeOK, Handlers, RepairVerified, At, Done, Idle, files,
         items, drafts
    <3> QED
      BY <3>1, RequestsKept
  <2>3. LeftJobs' \subseteq LeftJobs /\ JobsFollow'
    <3> DEFINE s == recovery'[job.on]
    <3>1. /\ job.at = "repairing" /\ job'.at = "idle" /\ job.on \in Jobs
          /\ recovery \in [Jobs -> Seq(RecoveryStates)]
          /\ recovery' = [recovery EXCEPT ![job.on] = Append(recovery[job.on], "verified")]
      BY DEF OfflineInv, OfflineTypeOK, HandlerFits, RepairVerified, At, Done, Idle
    <3>2. /\ recovery[job.on] \in Seq(RecoveryStates) /\ FollowsScan(recovery[job.on])
          /\ Len(recovery[job.on]) = 5
      BY <3>1 DEF OfflineInv, JobsFollow
    <3>3. "verified" \in RecoveryStates
      BY DEF RecoveryStates, Settled
    <3>4. /\ s = Append(recovery[job.on], "verified")
          /\ \A j \in Jobs : j # job.on => recovery'[j] = recovery[j]
      BY <3>1
    <3>5. /\ Len(s) = 6 /\ s[6] = "verified"
          /\ \A i \in 1 .. 5 : s[i] = recovery[job.on][i]
      <4>1. /\ Len(s) = Len(recovery[job.on]) + 1 /\ s[Len(recovery[job.on]) + 1] = "verified"
            /\ \A i \in 1 .. Len(recovery[job.on]) : s[i] = recovery[job.on][i]
        <5>1. recovery[job.on] \in Seq(RecoveryStates)
          BY <3>2
        <5>2. s = Append(recovery[job.on], "verified")
          BY <3>4
        <5> HIDE DEF s
        <5> QED
          BY <5>1, <5>2, <3>3, AppendProperties
      <4> QED
        BY <4>1, <3>2
    <3>6. FollowsScan(s)
      BY <3>2, <3>5 DEF FollowsScan
    <3>7. job.on \notin HalfJobs'
      BY <3>5 DEF HalfJobs, LastOf, Settled
    <3>8. LeftJobs' \subseteq LeftJobs
      BY <3>1, <3>4, <3>7 DEF LeftJobs, HalfJobs, LastOf
    <3> QED
      BY <3>1, <3>4, <3>6, <3>8 DEF OfflineInv, JobsFollow
  <2>4. LeftDrafts' = LeftDrafts /\ OutputsLeft'
    <3>1. UNCHANGED <<runs, snaps, outputs, version>> /\ job.at \notin {"snapshot", "output", "version"} /\ job'.at \notin {"snapshot", "output", "version"}
      BY DEF OfflineInv, OfflineTypeOK, Handlers, RepairVerified, At, Done, Idle, files,
         items, drafts
    <3> QED
      BY <3>1, RunsKept
  <2>5. faults' = faults
    BY DEF RepairVerified, world, outside
  <2> QED
    BY <2>1, <2>2, <2>3, <2>4, <2>5, LeftShrinks
<1> QED
  BY <1>1, <1>2, <1>3, <1>4, <1>5, <1>6, <1>7

\* An append that fails leaves one thing half done.
LEMMA AppendFailsInv ==
  ASSUME OfflineInv, AppendFails
  PROVE  /\ OfflineTypeOK' /\ HandlerFits' /\ StoredReadable' /\ ContextsHold' /\ DraftsBacked' /\ CallsPaid'
         /\ JobsFollow' /\ LeftExplained' /\ OutputsLeft'
<1>1. OfflineTypeOK'
  <2>1. job' \in Handlers
    BY ConstantsOK DEF OfflineInv, OfflineTypeOK, AppendFails, Done, Idle, Handlers,
       Places, Items
  <2>2. faults' \in 0 .. MaxFaults
    BY ConstantsOK DEF OfflineInv, OfflineTypeOK, AppendFails, Done, Idle, HandlerFits,
       Importing, Confirming, Generating, Attempt
  <2> QED
    BY <2>1, <2>2 DEF OfflineInv, OfflineTypeOK, AppendFails, Done, Idle, files, items,
       drafts, counts, world, outside
<1>2. HandlerFits'
  BY ConstantsOK, <1>1 DEF OfflineInv, HandlerFits, AppendFails, Done, Idle, files, items,
     drafts, counts, world, outside, Handlers, Confirmed, Importing, Confirming, Generating, Attempt,
     OfflineTypeOK, StoredReadable, ContextsHold, DraftsBacked
<1>3. StoredReadable'
  BY ConstantsOK, <1>1 DEF OfflineInv, StoredReadable, AppendFails, Done, Idle, files,
     items, drafts, counts, world, outside, Handlers, Confirmed, HandlerFits, Importing,
     OfflineTypeOK
<1>4. ContextsHold'
  BY ConstantsOK, <1>1 DEF OfflineInv, ContextsHold, AppendFails, Done, Idle, files, items,
     drafts, counts, world, outside, Handlers, Confirmed, HandlerFits, Importing, Confirming,
     OfflineTypeOK
<1>5. DraftsBacked'
  BY ConstantsOK, <1>1 DEF OfflineInv, DraftsBacked, AppendFails, Done, Idle, files, items,
     drafts, counts, world, outside, Handlers, Confirmed, HandlerFits, Confirming, Generating,
     Attempt, OfflineTypeOK
<1>6. CallsPaid'
  BY ConstantsOK, <1>1 DEF OfflineInv, CallsPaid, AppendFails, Done, Idle, files, items,
     drafts, counts, world, outside, Handlers, Confirmed, HandlerFits, Generating, OfflineTypeOK
<1>7. LeftExplained' /\ OutputsLeft' /\ JobsFollow'
  <2>1. /\ job' = Idle /\ faults' = faults + 1
        /\ UNCHANGED <<rows, owner, request, recovery, runs, snaps, outputs, version>>
    BY DEF AppendFails, Done, files, items, drafts
  <2> QED
    BY <2>1, HandlerEnds
<1> QED
  BY <1>1, <1>2, <1>3, <1>4, <1>5, <1>6, <1>7

\* A death leaves one thing half done.
LEMMA DieInv ==
  ASSUME OfflineInv, Die
  PROVE  /\ OfflineTypeOK' /\ HandlerFits' /\ StoredReadable' /\ ContextsHold' /\ DraftsBacked' /\ CallsPaid'
         /\ JobsFollow' /\ LeftExplained' /\ OutputsLeft'
<1>1. OfflineTypeOK'
  <2>1. job' \in Handlers
    BY ConstantsOK DEF OfflineInv, OfflineTypeOK, Die, Done, Idle, Handlers, Places, Items
  <2>2. faults' \in 0 .. MaxFaults
    BY ConstantsOK DEF OfflineInv, OfflineTypeOK, Die, Done, Idle, HandlerFits, Importing,
       Confirming, Generating, Attempt
  <2> QED
    BY <2>1, <2>2 DEF OfflineInv, OfflineTypeOK, Die, Done, Idle, files, items, drafts,
       counts, world, outside
<1>2. HandlerFits'
  BY ConstantsOK, <1>1 DEF OfflineInv, HandlerFits, Die, Done, Idle, files, items, drafts,
     counts, world, outside, Handlers, Confirmed, Importing, Confirming, Generating, Attempt,
     OfflineTypeOK, StoredReadable, ContextsHold, DraftsBacked
<1>3. StoredReadable'
  BY ConstantsOK, <1>1 DEF OfflineInv, StoredReadable, Die, Done, Idle, files, items,
     drafts, counts, world, outside, Handlers, Confirmed, HandlerFits, Importing, OfflineTypeOK
<1>4. ContextsHold'
  BY ConstantsOK, <1>1 DEF OfflineInv, ContextsHold, Die, Done, Idle, files, items, drafts,
     counts, world, outside, Handlers, Confirmed, HandlerFits, Importing, Confirming, OfflineTypeOK
<1>5. DraftsBacked'
  BY ConstantsOK, <1>1 DEF OfflineInv, DraftsBacked, Die, Done, Idle, files, items, drafts,
     counts, world, outside, Handlers, Confirmed, HandlerFits, Confirming, Generating, Attempt,
     OfflineTypeOK
<1>6. CallsPaid'
  BY ConstantsOK, <1>1 DEF OfflineInv, CallsPaid, Die, Done, Idle, files, items, drafts,
     counts, world, outside, Handlers, Confirmed, HandlerFits, Generating, OfflineTypeOK
<1>7. LeftExplained' /\ OutputsLeft' /\ JobsFollow'
  <2>1. /\ job' = Idle /\ faults' = faults + 1
        /\ UNCHANGED <<rows, owner, request, recovery, runs, snaps, outputs, version>>
    BY DEF Die, Done, files, items, drafts
  <2> QED
    BY <2>1, HandlerEnds
<1> QED
  BY <1>1, <1>2, <1>3, <1>4, <1>5, <1>6, <1>7

\* The start removes temporary files and files without a row.
LEMMA OpenInv ==
  ASSUME OfflineInv, Open
  PROVE  /\ OfflineTypeOK' /\ HandlerFits' /\ StoredReadable' /\ ContextsHold' /\ DraftsBacked' /\ CallsPaid'
         /\ JobsFollow' /\ LeftExplained' /\ OutputsLeft'
<1>1. OfflineTypeOK'
  <2> QED
    BY DEF OfflineInv, OfflineTypeOK, Open, files, items, drafts, counts, world, outside
<1>2. HandlerFits'
  BY ConstantsOK, <1>1 DEF OfflineInv, HandlerFits, Open, files, items, drafts, counts,
     world, outside, Handlers, Confirmed, Importing, Confirming, Generating, Attempt, OfflineTypeOK,
     StoredReadable, ContextsHold, DraftsBacked, Idle
<1>3. StoredReadable'
  BY ConstantsOK, <1>1 DEF OfflineInv, StoredReadable, Open, files, items, drafts, counts,
     world, outside, Handlers, Confirmed, HandlerFits, Importing, OfflineTypeOK
<1>4. ContextsHold'
  BY ConstantsOK, <1>1 DEF OfflineInv, ContextsHold, Open, files, items, drafts, counts,
     world, outside, Handlers, Confirmed, HandlerFits, Importing, Confirming, OfflineTypeOK
<1>5. DraftsBacked'
  BY ConstantsOK, <1>1 DEF OfflineInv, DraftsBacked, Open, files, items, drafts, counts,
     world, outside, Handlers, Confirmed, HandlerFits, Confirming, Generating, Attempt, OfflineTypeOK
<1>6. CallsPaid'
  BY ConstantsOK, <1>1 DEF OfflineInv, CallsPaid, Open, files, items, drafts, counts, world, outside,
     Handlers, Confirmed, HandlerFits, Generating, OfflineTypeOK, Idle
<1>7. LeftExplained' /\ OutputsLeft' /\ JobsFollow'
  <2>1. LeftObjects' = LeftObjects
    <3>1. UNCHANGED <<rows, owner>> /\ job.at \notin {"envelope", "unrow"} /\ job'.at \notin {"envelope", "unrow"}
      BY DEF OfflineInv, OfflineTypeOK, Handlers, Open, Idle, files, items, drafts, HandlerFits
    <3> QED
      BY <3>1, ObjectsKept
  <2>2. LeftRequests' = LeftRequests
    <3>1. request' = request /\ job.at \notin {"settings", "submitted"} /\ job'.at \notin {"settings", "submitted"}
      BY DEF OfflineInv, OfflineTypeOK, Handlers, Open, Idle, files, items, drafts, HandlerFits
    <3> QED
      BY <3>1, RequestsKept
  <2>3. LeftJobs' = LeftJobs /\ JobsFollow'
    <3>1. recovery' = recovery /\ job.at \notin {"scan", "repairing"} /\ job'.at \notin {"scan", "repairing"}
      BY DEF OfflineInv, OfflineTypeOK, Handlers, Open, Idle, files, items, drafts, HandlerFits
    <3> QED
      BY <3>1, JobsKept
  <2>4. LeftDrafts' = LeftDrafts /\ OutputsLeft'
    <3>1. UNCHANGED <<runs, snaps, outputs, version>> /\ job.at \notin {"snapshot", "output", "version"} /\ job'.at \notin {"snapshot", "output", "version"}
      BY DEF OfflineInv, OfflineTypeOK, Handlers, Open, Idle, files, items, drafts, HandlerFits
    <3> QED
      BY <3>1, RunsKept
  <2>5. faults' = faults
    BY DEF Open, world, outside
  <2> QED
    BY <2>1, <2>2, <2>3, <2>4, <2>5, LeftShrinks
<1> QED
  BY <1>1, <1>2, <1>3, <1>4, <1>5, <1>6, <1>7

\* The invariant holds when the store is opened for the first time.
LEMMA OfflineStart == OfflineInit => OfflineInv
<1> SUFFICES ASSUME OfflineInit PROVE OfflineInv
  OBVIOUS
<1>1. job.at = "idle" /\ job = Idle /\ up
  BY DEF OfflineInit, Idle
<1>2. OfflineTypeOK
  <2>1. job \in Handlers
    BY <1>1 DEF Idle, Handlers, Places
  <2>2. request \in [Requests -> Confirmed]
    BY DEF OfflineInit, Confirmed, NoRequest
  <2>3. copy \in [Copies -> Seq({"approved", "revoked", "expired"})]
    BY DEF OfflineInit
  <2>4. recovery \in [Jobs -> Seq(RecoveryStates)]
    BY DEF OfflineInit
  <2>5. /\ up \in BOOLEAN /\ tmp \subseteq Objects /\ blob \subseteq Objects /\ rows \subseteq Objects
        /\ owner \in [Items -> Objects \cup {None}] /\ context \in [Contexts -> SUBSET Items]
        /\ runs \subseteq Requests \X Keys /\ snaps \subseteq Requests \X Keys
        /\ outputs \subseteq Requests
        /\ queued \in [Previews -> (Requests \X Nat) \cup {<<>>}]
        /\ lapsed \subseteq Copies /\ edit \in [Edits -> (Requests \X (Nat \ {0})) \cup {<<>>}]
        /\ written \in [Edits -> SUBSET Nat]
    BY DEF OfflineInit
  <2>6. /\ version \in [Requests -> 0 .. MaxVersions] /\ model \in 1 .. MaxModel
        /\ calls \in [Requests -> Nat] /\ fails \in [Requests -> Nat] /\ faults \in 0 .. MaxFaults
    BY ConstantsOK DEF OfflineInit
  <2> QED
    BY <2>1, <2>2, <2>3, <2>4, <2>5, <2>6 DEF OfflineTypeOK
<1>3. HandlerFits
  BY <1>1 DEF HandlerFits, Importing, Confirming, Generating
<1>4. StoredReadable /\ ContextsHold /\ DraftsBacked
  BY DEF OfflineInit, StoredReadable, ContextsHold, DraftsBacked, NoRequest, None
<1>5. JobsFollow
  <2>1. \A j \in Jobs : Len(recovery[j]) = 0
    BY DEF OfflineInit
  <2> QED
    BY <1>1, <2>1 DEF JobsFollow, FollowsScan
<1>6. LeftExplained
  <2>1. LeftObjects = {} /\ LeftRequests = {} /\ LeftJobs = {} /\ LeftDrafts = {}
    BY <1>1 DEF OfflineInit, LeftObjects, Unowned, LeftRequests, HalfRequests, NoRequest, None, 
       LeftJobs, HalfJobs, LeftDrafts, LeftRuns, HalfRuns
  <2>2. Cardinality({}) = 0
    BY FS_EmptySet
  <2> QED
    BY <2>1, <2>2 DEF LeftExplained, OfflineInit
<1>7. OutputsLeft /\ CallsPaid
  BY <1>1 DEF OfflineInit, OutputsLeft, CallsPaid, Generating
<1> QED
  BY <1>2, <1>3, <1>4, <1>5, <1>6, <1>7 DEF OfflineInv

\* A step that changes nothing but the clock and what clients hold keeps the invariant.
LEMMA StoreUntouched ==
  ASSUME OfflineInv, OfflineTypeOK',
         UNCHANGED <<up, job, tmp, blob, rows, owner, copy, context, request, runs, snaps,
                     outputs, version, queued, recovery, model, calls, fails, faults>>
  PROVE  OfflineInv'
<1>1. HandlerFits'
  BY DEF OfflineInv, HandlerFits, Attempt
<1>2. StoredReadable' /\ ContextsHold' /\ DraftsBacked' /\ JobsFollow' /\ CallsPaid'
  BY DEF OfflineInv, StoredReadable, ContextsHold, DraftsBacked, JobsFollow, CallsPaid
<1>3. LeftDrafts' = LeftDrafts
  BY DEF LeftDrafts, LeftRuns, HalfRuns, Attempt
<1>4. LeftObjects' = LeftObjects /\ LeftRequests' = LeftRequests /\ LeftJobs' = LeftJobs
  BY DEF LeftObjects, Unowned, LeftRequests, HalfRequests, LeftJobs, HalfJobs, LastOf
<1>5. LeftExplained' /\ OutputsLeft'
  BY <1>3, <1>4 DEF OfflineInv, LeftExplained, OutputsLeft
<1> QED
  BY <1>1, <1>2, <1>5 DEF OfflineInv

LEMMA OfflineStutters ==
  ASSUME OfflineInv, UNCHANGED offlineVars
  PROVE  OfflineInv'
<1>1. OfflineTypeOK'
  BY DEF OfflineInv, offlineVars, OfflineTypeOK
<1> QED
  BY <1>1, StoreUntouched DEF offlineVars

\* A copy's time runs out.
LEMMA LapsesInv ==
  ASSUME OfflineInv, NEW c \in Copies, Lapses(c)
  PROVE  OfflineInv'
<1>1. OfflineTypeOK'
  BY DEF OfflineInv, OfflineTypeOK, Lapses, files, items, drafts, counts
<1> QED
  BY <1>1, StoreUntouched DEF Lapses, files, items, drafts, counts

\* A client reads a draft and edits it.
LEMMA GetDraftInv ==
  ASSUME OfflineInv, NEW e \in Edits, NEW r \in Requests, GetDraft(e, r)
  PROVE  OfflineInv'
<1>1. edit' \in [Edits -> (Requests \X (Nat \ {0})) \cup {<<>>}]
  <2>1. version[r] \in Nat \ {0}
    BY ConstantsOK DEF OfflineInv, OfflineTypeOK, GetDraft
  <2> QED
    BY <2>1 DEF OfflineInv, OfflineTypeOK, GetDraft
<1>2. OfflineTypeOK'
  BY <1>1 DEF OfflineInv, OfflineTypeOK, GetDraft, files, items, drafts, counts
<1> QED
  BY <1>2, StoreUntouched DEF GetDraft, files, items, drafts, counts

\* Every operation, failure and start keeps the invariant.
LEMMA OfflineKeeps == OfflineInv /\ [OfflineNext]_offlineVars => OfflineInv'
<1> SUFFICES ASSUME OfflineInv, [OfflineNext]_offlineVars PROVE OfflineInv'
  OBVIOUS
<1> USE DEF OfflineInv
<1>1. ASSUME NEW c \in Copies, ImportKnowledgeCopy(c) PROVE OfflineInv'
  BY <1>1, PutFileInv DEF ImportKnowledgeCopy, Items
<1>2. ASSUME NEW s \in Sources, ImportSource(s) PROVE OfflineInv'
  BY <1>2, PutFileInv DEF ImportSource, Items
<1>3. CASE WriteTemp
  BY <1>3, WriteTempInv
<1>4. CASE Rename
  BY <1>4, RenameInv
<1>5. CASE InsertRow
  BY <1>5, InsertRowInv
<1>6. CASE PutFileFails
  BY <1>6, PutFileFailsInv
<1>7. CASE PutCanonicalEnvelope
  BY <1>7, PutCanonicalEnvelopeInv
<1>8. CASE PutRawSourceBundle
  BY <1>8, PutRawSourceBundleInv
<1>9. CASE EnvelopesRefused
  BY <1>9, EnvelopesRefusedInv
<1>10. CASE RemoveRow
  BY <1>10, RemoveRowInv
<1>11. CASE RemoveBlob
  BY <1>11, RemoveBlobInv
<1>12. ASSUME NEW c \in Copies, NEW s \in {"approved", "revoked", "expired"}, RefreshCopy(c, s)
       PROVE OfflineInv'
  BY <1>12, RefreshCopyInv
<1>13. CASE ImportProviderSettings
  BY <1>13, ImportProviderSettingsInv
<1>14. ASSUME NEW x \in Contexts, NEW chosen \in SUBSET Items, PrepareContext(x, chosen)
       PROVE OfflineInv'
  BY <1>14, PrepareContextInv
<1>15. ASSUME NEW r \in Requests, NEW x \in Contexts, ConfirmSettings(r, x) PROVE OfflineInv'
  BY <1>15, ConfirmSettingsInv
<1>16. CASE AppendRequest
  BY <1>16, AppendRequestInv
<1>17. ASSUME NEW r \in Requests, NEW k \in Keys, GenerateDraft(r, k) PROVE OfflineInv'
  BY <1>17, GenerateDraftInv
<1>18. CASE ProviderAnswers
  BY <1>18, ProviderAnswersInv
<1>19. CASE ProviderFails
  BY <1>19, ProviderFailsInv
<1>20. CASE AppendRun
  BY <1>20, AppendRunInv
<1>21. CASE AppendSnapshot
  BY <1>21, AppendSnapshotInv
<1>22. CASE AppendOutput
  BY <1>22, AppendOutputInv
<1>23. CASE AppendVersion
  BY <1>23, AppendVersionInv
<1>24. ASSUME NEW e \in Edits, AppendEdit(e) PROVE OfflineInv'
  BY <1>24, AppendEditInv
<1>25. ASSUME NEW p \in Previews, NEW r \in Requests, NEW v \in 1..MaxVersions, QueueSyncPreview(p, r, v)
       PROVE OfflineInv'
  BY <1>25, QueueSyncPreviewInv
<1>26. ASSUME NEW j \in Jobs, Scan(j) PROVE OfflineInv'
  BY <1>26, ScanInv
<1>27. CASE ScanAppend
  BY <1>27, ScanAppendInv
<1>28. ASSUME NEW j \in Jobs, Repair(j) PROVE OfflineInv'
  BY <1>28, RepairInv
<1>29. CASE RepairVerified
  BY <1>29, RepairVerifiedInv
<1>30. CASE AppendFails
  BY <1>30, AppendFailsInv
<1>31. CASE Die
  BY <1>31, DieInv
<1>32. CASE Open
  BY <1>32, OpenInv
<1>33. CASE UNCHANGED offlineVars
  BY <1>33, OfflineStutters
<1>34. ASSUME NEW c \in Copies, Lapses(c) PROVE OfflineInv'
  BY <1>34, LapsesInv
<1>35. ASSUME NEW e \in Edits, NEW r \in Requests, GetDraft(e, r) PROVE OfflineInv'
  BY <1>35, GetDraftInv
<1> QED
  BY <1>1, <1>2, <1>3, <1>4, <1>5, <1>6, <1>7, <1>8, <1>9, <1>10, <1>11, <1>12, <1>13,
     <1>14, <1>15, <1>16, <1>17, <1>18, <1>19, <1>20, <1>21, <1>22, <1>23, <1>24, <1>25,
     <1>26, <1>27, <1>28, <1>29, <1>30, <1>31, <1>32, <1>33, <1>34, <1>35
     DEF OfflineNext

\* The invariant says of a store at rest what the property says of it.
LEMMA RestingStore == OfflineInv => StoreExplained
<1> SUFFICES ASSUME OfflineInv PROVE StoreExplained
  OBVIOUS
<1>1. OfflineTypeOK /\ StoredReadable
  BY DEF OfflineInv
<1>2. DraftLineage
  <2>1. ASSUME NEW r \in Requests, version[r] > 0
        PROVE  /\ r \in outputs
               /\ \E k \in Keys : <<r, k>> \in runs \cap snaps
               /\ request[r].at = "submitted"
               /\ context[request[r].context] # {}
               /\ \A i \in context[request[r].context] : owner[i] \in rows
    <3>1. /\ r \in outputs /\ request[r].at = "submitted"
          /\ \E k \in Keys : <<r, k>> \in runs \cap snaps
      BY <2>1 DEF OfflineInv, DraftsBacked
    <3>2. request[r].context \in Contexts /\ context[request[r].context] # {}
      BY <3>1 DEF OfflineInv, ContextsHold, None
    <3>3. \A i \in context[request[r].context] : i \in Items /\ owner[i] # None
      BY <3>2 DEF OfflineInv, ContextsHold, OfflineTypeOK
    <3>4. \A i \in context[request[r].context] : owner[i] \in rows
      BY <3>3, <1>1 DEF StoredReadable
    <3> QED
      BY <3>1, <3>2, <3>4
  <2> QED
    BY <2>1 DEF DraftLineage
<1>3. HalfExplained
  <2> SUFFICES ASSUME Ready PROVE Half <= faults
    BY DEF HalfExplained
  <2>1. job.at = "idle"
    BY DEF Ready, Idle
  <2>2. /\ LeftObjects = Unowned /\ LeftRequests = HalfRequests /\ LeftJobs = HalfJobs
        /\ LeftRuns = HalfRuns
    BY <2>1 DEF LeftObjects, LeftRequests, LeftJobs, LeftRuns
  <2>3. HalfRuns \subseteq Requests \X Keys
    BY <1>1 DEF HalfRuns, OfflineTypeOK
  <2>4. {a[1] : a \in HalfRuns} = LeftDrafts
    <3>1. ASSUME NEW a \in HalfRuns
          PROVE  a[1] \in LeftDrafts
      <4>1. PICK r \in Requests, k \in Keys : a = <<r, k>>
        BY <2>3
      <4> QED
        BY <4>1, <2>2 DEF LeftDrafts
    <3>2. ASSUME NEW r \in LeftDrafts
          PROVE  \E a \in HalfRuns : r = a[1]
      <4>1. PICK k \in Keys : <<r, k>> \in HalfRuns
        BY <2>2 DEF LeftDrafts
      <4> QED
        BY <4>1
    <3> QED
      BY <3>1, <3>2
  <2>5. /\ Cardinality(LeftObjects) \in Nat /\ Cardinality(LeftRequests) \in Nat
        /\ Cardinality(LeftJobs) \in Nat /\ Cardinality(LeftDrafts) \in Nat
    BY <1>1, LeftFinite, FS_CardinalityType
  <2> QED
    BY <2>2, <2>4, <2>5 DEF Half, OfflineInv, LeftExplained
<1>4. VerifiedWasRepairable
  <2> DEFINE T == ScanStates \o <<"repairable", "repairing", "verified">>
  <2>1. /\ T \in Seq(RecoveryStates) /\ Len(T) = 6
        /\ T[1] = "detected" /\ T[2] = "quarantined" /\ T[3] = "scanning"
        /\ T[4] = "repairable" /\ T[5] = "repairing" /\ T[6] = "verified"
    BY DEF ScanStates, RecoveryStates, Settled
  <2> HIDE DEF T
  <2>2. ASSUME NEW j \in Jobs, NEW n \in 1 .. Len(recovery[j]),
               recovery[j][n] \in {"repairing", "verified"}
        PROVE  recovery[j] = SubSeq(T, 1, Len(recovery[j]))
    <3> DEFINE s == recovery[j]
               t == SubSeq(T, 1, Len(s))
    <3>1. s \in Seq(RecoveryStates) /\ FollowsScan(s)
      BY <1>1 DEF OfflineInv, OfflineTypeOK, JobsFollow
    <3> DEFINE m == Len(s)
    <3>2. m \in 1 .. 6 /\ n \in 1 .. m
      BY <3>1, <2>2 DEF FollowsScan
    <3>3. /\ s[1] = "detected"
          /\ m >= 2 => s[2] = "quarantined"
          /\ m >= 3 => s[3] = "scanning"
          /\ m >= 4 => s[4] \in {"repairable", "manual_recovery_required"}
          /\ m >= 5 => s[4] = "repairable" /\ s[5] = "repairing"
          /\ m >= 6 => s[6] = "verified"
      BY <3>1, <3>2 DEF FollowsScan
    <3>4. s[n] \in {"repairing", "verified"}
      BY <2>2
    <3> HIDE DEF s, m
    <3>5. m >= 5
      BY <3>2, <3>3, <3>4
    <3>6. \A i \in 1 .. m : s[i] = T[i] /\ T[i] \in RecoveryStates
      BY <2>1, <3>2, <3>3, <3>5 DEF RecoveryStates, Settled
    <3>7. /\ SubSeq(T, 1, m) \in Seq(RecoveryStates) /\ Len(SubSeq(T, 1, m)) = m
          /\ \A i \in 1 .. m : SubSeq(T, 1, m)[i] = T[i]
      BY <3>2, <3>6, SubSeqProperties
    <3>8. s = SubSeq(T, 1, m)
      BY <3>1, <3>6, <3>7, SeqEqual DEF m
    <3> QED
      BY <3>8 DEF s, m
  <2> QED
    BY <2>2 DEF VerifiedWasRepairable, T
<1> QED
  BY <1>1, <1>2, <1>3, <1>4 DEF StoreExplained

\* The inductive invariant of the local service.
LEMMA OfflineInvariant == OfflineSpec => []OfflineInv
<1> QED
  BY OfflineStart, OfflineKeeps, PTL DEF OfflineSpec

\* Whatever a death or a storage error interrupts, files, rows and envelopes
\* explain each other: what an envelope names can be read, a draft has its
\* whole lineage, at rest every fault left at most one thing half done, and a
\* recovery job is verified only after it was found repairable (local_storage.py,
\* offline_studio.py, recovery.py).
THEOREM StoreExplainedCorrect == OfflineSpec => []StoreExplained
<1> QED
  BY OfflineInvariant, RestingStore, PTL

\* Without a death and a storage error a request pays for one answer of the
\* provider only, whatever keys its clients come with (generate_draft).
THEOREM PaidOnceCorrect == OfflineSpec => []PaidOnce
<1>1. OfflineInv => PaidOnce
  <2> SUFFICES ASSUME OfflineInv, NEW r \in Requests, faults = 0
               PROVE  calls[r] <= fails[r] + 1
    BY DEF PaidOnce
  <2>1. calls[r] \in Nat /\ fails[r] \in Nat
    BY DEF OfflineInv, OfflineTypeOK
  <2>2. calls[r] <= fails[r] + (IF version[r] > 0 \/ (job.at \in Generating /\ job.on = r) THEN 1 ELSE 0)
    BY DEF OfflineInv, CallsPaid
  <2> QED
    BY <2>1, <2>2
<1> QED
  BY <1>1, OfflineInvariant, PTL

\* Only generate_draft gets a handler to the call of the provider, and while the call is
\* out nothing happens but the passing of time.
LEMMA WhoSends ==
  ASSUME OfflineTypeOK, [OfflineNext]_offlineVars, job'.at = "provider"
  PROVE  \/ \E r \in Requests, k \in Keys : GenerateDraft(r, k)
         \/ UNCHANGED <<job, context, request, copy, model>>
<1> USE DEF Idle, Ready, At, Step, Done, files, items, drafts, counts, world, outside
<1>1. CASE \/ \E c \in Copies : ImportKnowledgeCopy(c)
           \/ \E s \in Sources : ImportSource(s)
           \/ WriteTemp \/ Rename \/ InsertRow \/ PutFileFails \/ PutCanonicalEnvelope
           \/ PutRawSourceBundle \/ EnvelopesRefused \/ RemoveRow \/ RemoveBlob
  BY <1>1 DEF ImportKnowledgeCopy, ImportSource, PutFile, WriteTemp, Rename, InsertRow,
     PutFileFails, PutCanonicalEnvelope, PutRawSourceBundle, EnvelopesRefused, RemoveRow,
     RemoveBlob, OfflineTypeOK, Handlers
<1>2. CASE \/ \E c \in Copies, s \in {"approved", "revoked", "expired"} : RefreshCopy(c, s)
           \/ \E c \in Copies : Lapses(c)
           \/ ImportProviderSettings
           \/ \E x \in Contexts, chosen \in SUBSET Items : PrepareContext(x, chosen)
           \/ \E e \in Edits, r \in Requests : GetDraft(e, r)
           \/ \E e \in Edits : AppendEdit(e)
           \/ \E p \in Previews, r \in Requests, v \in 1 .. MaxVersions : QueueSyncPreview(p, r, v)
  BY <1>2 DEF RefreshCopy, Lapses, ImportProviderSettings, PrepareContext, GetDraft,
     AppendEdit, Applies, QueueSyncPreview
<1>3. CASE \/ \E r \in Requests, x \in Contexts : ConfirmSettings(r, x)
           \/ AppendRequest
  <2>1. CASE \E r \in Requests, x \in Contexts : ConfirmSettings(r, x)
    BY <2>1 DEF ConfirmSettings
  <2>2. CASE AppendRequest
    <3>1. job'.at \in {"settings", "submitted", "idle"}
      BY <2>2 DEF AppendRequest, OfflineTypeOK, Handlers
    <3> QED
      BY <3>1
  <2> QED
    BY <1>3, <2>1, <2>2
<1>4. CASE ProviderAnswers \/ ProviderFails \/ AppendRun \/ AppendSnapshot \/ AppendOutput \/ AppendVersion
  BY <1>4 DEF ProviderAnswers, ProviderFails, AppendRun, AppendSnapshot, AppendOutput,
     AppendVersion, OfflineTypeOK, Handlers
<1>5. CASE \/ \E j \in Jobs : Scan(j) \/ Repair(j)
           \/ ScanAppend \/ RepairVerified \/ AppendFails \/ Die \/ Open
  <2>1. CASE \E j \in Jobs : Scan(j) \/ Repair(j)
    BY <2>1 DEF Scan, Repair
  <2>2. CASE ScanAppend
    <3>1. job.at = "scan" /\ (job' = job \/ job' = Idle)
      BY <2>2 DEF ScanAppend
    <3> QED
      BY <3>1
  <2>3. CASE RepairVerified \/ AppendFails \/ Die
    BY <2>3 DEF RepairVerified, AppendFails, Die
  <2>4. CASE Open
    BY <2>4 DEF Open
  <2> QED
    BY <1>5, <2>1, <2>2, <2>3, <2>4
<1>6. CASE UNCHANGED offlineVars
  BY <1>6 DEF offlineVars
<1> QED
  BY <1>1, <1>2, <1>3, <1>4, <1>5, <1>6 DEF OfflineNext

\* While the provider works, every copy it was sent is recorded as approved and the model
\* is the confirmed one (EncryptedEvidenceResolver, MODEL_SELECTION_STALE).
THEOREM SentCurrentCorrect == OfflineSpec => []SentCurrent
<1>1. OfflineInit => SentCurrent
  BY DEF OfflineInit, SentCurrent, Idle
<1>2. OfflineInv /\ SentCurrent /\ [OfflineNext]_offlineVars => SentCurrent'
  <2> SUFFICES ASSUME OfflineInv, SentCurrent, [OfflineNext]_offlineVars, job'.at = "provider"
               PROVE  SentCurrent'
    BY DEF SentCurrent
  <2>1. CASE UNCHANGED <<job, context, request, copy, model>>
    BY <2>1 DEF SentCurrent, Select, Latest
  <2>2. ASSUME NEW r \in Requests, NEW k \in Keys, GenerateDraft(r, k)
        PROVE  SentCurrent'
    <3>1. job'.on = r /\ UNCHANGED <<context, request, copy, model>>
      BY <2>2 DEF GenerateDraft, Idle, items
    <3>2. Select(r) /\ \A c \in context[request[r].context] \cap Copies : Latest(c) = "approved"
      BY <2>2 DEF GenerateDraft, Evidence, Approved
    <3> QED
      BY <3>1, <3>2 DEF SentCurrent, Select, Latest
  <2> QED
    BY <2>1, <2>2, WhoSends DEF OfflineInv
<1> QED
  BY <1>1, <1>2, OfflineInvariant, PTL DEF OfflineSpec

\* What a client saw exists, and an edit that was applied was made of an older version.
EditsSeen ==
    \A e \in Edits : edit[e] # <<>> =>
      /\ edit[e][2] <= version[edit[e][1]]
      /\ written[e] # {} => edit[e][2] < version[edit[e][1]]
EditsHeld == \A e \in Edits : written[e] # {} => edit[e] # <<>>
EditInv == EditsSeen /\ EditsHeld /\ EditedOnce

\* Only generate_draft and append_edit make versions, and only clients make edits.
LEMMA WhoEdits ==
  ASSUME [OfflineNext]_offlineVars
  PROVE  \/ UNCHANGED <<version, edit, written>>
         \/ AppendVersion
         \/ \E e \in Edits, r \in Requests : GetDraft(e, r)
         \/ \E e \in Edits : AppendEdit(e)
<1> USE DEF drafts, world, outside
<1>1. CASE \/ \E c \in Copies : ImportKnowledgeCopy(c)
           \/ \E s \in Sources : ImportSource(s)
           \/ WriteTemp \/ Rename \/ InsertRow \/ PutFileFails \/ PutCanonicalEnvelope
           \/ PutRawSourceBundle \/ EnvelopesRefused \/ RemoveRow \/ RemoveBlob
  BY <1>1 DEF ImportKnowledgeCopy, ImportSource, PutFile, WriteTemp, Rename, InsertRow,
     PutFileFails, PutCanonicalEnvelope, PutRawSourceBundle, EnvelopesRefused, RemoveRow,
     RemoveBlob
<1>2. CASE \/ \E c \in Copies, s \in {"approved", "revoked", "expired"} : RefreshCopy(c, s)
           \/ \E c \in Copies : Lapses(c)
           \/ ImportProviderSettings
  BY <1>2 DEF RefreshCopy, Lapses, ImportProviderSettings
<1>6. CASE \E x \in Contexts, chosen \in SUBSET Items : PrepareContext(x, chosen)
  BY <1>6 DEF PrepareContext
<1>7. CASE \E r \in Requests, x \in Contexts : ConfirmSettings(r, x)
  BY <1>7 DEF ConfirmSettings
<1>8. CASE AppendRequest
  BY <1>8 DEF AppendRequest
<1>9. CASE \E r \in Requests, k \in Keys : GenerateDraft(r, k)
  BY <1>9 DEF GenerateDraft
<1>10. CASE \E p \in Previews, r \in Requests, v \in 1 .. MaxVersions : QueueSyncPreview(p, r, v)
  BY <1>10 DEF QueueSyncPreview
<1>3. CASE ProviderAnswers \/ ProviderFails \/ AppendRun \/ AppendSnapshot \/ AppendOutput
  BY <1>3 DEF ProviderAnswers, ProviderFails, AppendRun, AppendSnapshot, AppendOutput
<1>4. CASE \E j \in Jobs : Scan(j)
  BY <1>4 DEF Scan
<1>11. CASE \E j \in Jobs : Repair(j)
  BY <1>11 DEF Repair
<1>12. CASE ScanAppend \/ RepairVerified
  BY <1>12 DEF ScanAppend, RepairVerified
<1>13. CASE AppendFails \/ Die
  BY <1>13 DEF AppendFails, Die
<1>14. CASE Open
  BY <1>14 DEF Open
<1>5. CASE UNCHANGED offlineVars
  BY <1>5 DEF offlineVars
<1> QED
  BY <1>1, <1>2, <1>3, <1>4, <1>5, <1>6, <1>7, <1>8, <1>9, <1>10, <1>11, <1>12, <1>13, <1>14
     DEF OfflineNext

\* The first version is not an edit.
LEMMA FirstVersionInv ==
  ASSUME OfflineInv, EditInv, AppendVersion
  PROVE  EditInv'
<1> DEFINE q == job.on
<1>1. q \in Requests /\ version[q] = 0
  BY DEF OfflineInv, HandlerFits, Generating, AppendVersion, At
<1>2. UNCHANGED <<edit, written>> /\ version' = [version EXCEPT ![q] = 1]
  BY DEF AppendVersion, world, outside
<1>3. /\ version'[q] = 1 /\ \A r \in Requests \ {q} : version'[r] = version[r]
      /\ \A r \in Requests : version[r] \in Nat /\ version'[r] \in Nat
  BY <1>1, <1>2, ConstantsOK DEF OfflineInv, OfflineTypeOK
<1>4. \A e \in Edits : edit[e] # <<>> => edit[e][1] \in Requests \ {q} /\ edit[e][2] \in Nat \ {0}
  <2> SUFFICES ASSUME NEW e \in Edits, edit[e] # <<>>
               PROVE  edit[e][1] \in Requests \ {q} /\ edit[e][2] \in Nat \ {0}
    OBVIOUS
  <2>1. edit[e] \in Requests \X (Nat \ {0})
    BY DEF OfflineInv, OfflineTypeOK
  <2>2. edit[e][2] <= version[edit[e][1]]
    BY DEF EditInv, EditsSeen
  <2> QED
    BY <1>1, <2>1, <2>2
<1>5. EditsSeen' /\ EditsHeld'
  BY <1>2, <1>3, <1>4 DEF EditInv, EditsSeen, EditsHeld
<1>6. EditedOnce'
  <2> SUFFICES ASSUME NEW r \in Requests, NEW v \in 2 .. version'[r]
               PROVE  OneEdit(r, v)'
    BY DEF EditedOnce
  <2>1. r # q /\ v \in 2 .. version[r]
    BY <1>3
  <2>2. OneEdit(r, v)
    BY <2>1 DEF EditInv, EditedOnce
  <2> QED
    BY <1>2, <2>2 DEF OneEdit
<1> QED
  BY <1>5, <1>6 DEF EditInv

LEMMA GetDraftEdits ==
  ASSUME OfflineInv, EditInv, NEW e \in Edits, NEW r \in Requests, GetDraft(e, r)
  PROVE  EditInv'
<1>1. /\ edit[e] = <<>> /\ written[e] = {} /\ UNCHANGED <<version, written>>
      /\ edit' = [edit EXCEPT ![e] = <<r, version[r]>>] /\ version[r] \in Nat
  BY ConstantsOK DEF GetDraft, drafts, EditInv, EditsHeld, OfflineInv, OfflineTypeOK
<1>2. edit'[e] = <<r, version[r]>> /\ \A f \in Edits \ {e} : edit'[f] = edit[f]
  BY <1>1 DEF OfflineInv, OfflineTypeOK
<1>3. EditsSeen' /\ EditsHeld'
  BY <1>1, <1>2 DEF EditInv, EditsSeen, EditsHeld
<1>4. EditedOnce'
  <2> SUFFICES ASSUME NEW q \in Requests, NEW v \in 2 .. version[q]
               PROVE  OneEdit(q, v)'
    BY <1>1 DEF EditedOnce
  <2>1. PICK d \in Edits : /\ edit[d] = <<q, v - 1>> /\ written[d] = {v}
                           /\ \A f \in Edits \ {d} : edit[f] = <<q, v - 1>> => written[f] = {}
    BY DEF EditInv, EditedOnce, OneEdit
  <2>2. d # e
    BY <1>1, <2>1
  <2>3. edit'[d] = <<q, v - 1>> /\ written'[d] = {v}
    BY <1>1, <1>2, <2>1, <2>2
  <2>4. \A f \in Edits \ {d} : edit'[f] = <<q, v - 1>> => written'[f] = {}
    BY <1>1, <1>2, <2>1
  <2> QED
    BY <2>3, <2>4 DEF OneEdit
<1> QED
  BY <1>3, <1>4 DEF EditInv

\* An edit is applied to the version its author saw, and no other edit was before.
LEMMA AppendEditEdits ==
  ASSUME OfflineInv, EditInv, NEW e \in Edits, AppendEdit(e)
  PROVE  EditInv'
<1>1. PICK q \in Requests, n \in Nat \ {0} : edit[e] = <<q, n>>
  <2>1. edit[e] \in Requests \X (Nat \ {0})
    BY DEF AppendEdit, OfflineInv, OfflineTypeOK
  <2>2. edit[e] = <<edit[e][1], edit[e][2]>> /\ edit[e][1] \in Requests /\ edit[e][2] \in Nat \ {0}
    BY <2>1
  <2> QED
    BY <2>2
<1>2. /\ version[q] = n /\ version' = [version EXCEPT ![q] = n + 1]
      /\ written' = [written EXCEPT ![e] = written[e] \cup {n + 1}] /\ edit' = edit
  BY <1>1 DEF AppendEdit, Applies
<1>3. /\ version'[q] = n + 1 /\ \A r \in Requests \ {q} : version'[r] = version[r]
      /\ \A r \in Requests : version[r] \in Nat /\ version'[r] \in Nat /\ version[r] <= version'[r]
  BY <1>1, <1>2, ConstantsOK DEF OfflineInv, OfflineTypeOK
<1>4. \A f \in Edits : edit[f] = <<q, n>> => written[f] = {}
  BY <1>1, <1>2 DEF EditInv, EditsSeen
<1>5. written'[e] = {n + 1} /\ \A f \in Edits \ {e} : written'[f] = written[f]
  BY <1>1, <1>2, <1>4 DEF OfflineInv, OfflineTypeOK
<1>6. EditsSeen'
  <2> SUFFICES ASSUME NEW f \in Edits, edit[f] # <<>>
               PROVE  /\ edit[f][2] <= version'[edit[f][1]]
                      /\ written'[f] # {} => edit[f][2] < version'[edit[f][1]]
    BY <1>2 DEF EditsSeen
  <2>1. edit[f][1] \in Requests /\ edit[f][2] \in Nat
    BY DEF OfflineInv, OfflineTypeOK
  <2>2. CASE f = e
    BY <1>1, <1>3, <2>2
  <2>3. CASE f # e
    BY <1>3, <1>5, <2>1, <2>3 DEF EditInv, EditsSeen
  <2> QED
    BY <2>2, <2>3
<1>7. EditsHeld'
  BY <1>1, <1>2, <1>5 DEF EditInv, EditsHeld
<1>8. EditedOnce'
  <2> SUFFICES ASSUME NEW r \in Requests, NEW v \in 2 .. version'[r]
               PROVE  OneEdit(r, v)'
    BY DEF EditedOnce
  <2>1. CASE r = q /\ v = n + 1
    <3>1. <<r, v - 1>> = <<q, n>>
      BY <2>1
    <3>2. \A f \in Edits \ {e} : edit[f] = <<q, n>> => written'[f] = {}
      BY <1>4, <1>5
    <3> QED
      BY <1>1, <1>2, <1>5, <2>1, <3>1, <3>2 DEF OneEdit
  <2>2. CASE ~(r = q /\ v = n + 1)
    <3>1. v \in 2 .. version[r] /\ (r = q => v - 1 # n)
      BY <1>2, <1>3, <2>2
    <3>2. PICK d \in Edits : /\ edit[d] = <<r, v - 1>> /\ written[d] = {v}
                             /\ \A f \in Edits \ {d} : edit[f] = <<r, v - 1>> => written[f] = {}
      BY <3>1 DEF EditInv, EditedOnce, OneEdit
    <3>3. edit[e] # <<r, v - 1>>
      BY <1>1, <3>1
    <3>4. d # e /\ written'[d] = {v}
      BY <1>5, <3>2, <3>3
    <3>5. \A f \in Edits \ {d} : edit[f] = <<r, v - 1>> => written'[f] = {}
      BY <1>5, <3>2, <3>3
    <3> QED
      BY <1>2, <3>2, <3>4, <3>5 DEF OneEdit
  <2> QED
    BY <2>1, <2>2
<1> QED
  BY <1>6, <1>7, <1>8 DEF EditInv

\* Whatever edits clients repeat or make of the same version, every later version of a
\* draft is one edit by a client that saw the version before it (append_edit).
THEOREM EditedOnceCorrect == OfflineSpec => []EditedOnce
<1>1. OfflineInit => EditInv
  BY DEF OfflineInit, EditInv, EditsSeen, EditsHeld, EditedOnce
<1>2. OfflineInv /\ EditInv /\ [OfflineNext]_offlineVars => EditInv'
  <2> SUFFICES ASSUME OfflineInv, EditInv, [OfflineNext]_offlineVars PROVE EditInv'
    OBVIOUS
  <2>1. CASE UNCHANGED <<version, edit, written>>
    <3>1. EditsSeen' /\ EditsHeld'
      BY <2>1 DEF EditInv, EditsSeen, EditsHeld
    <3>2. \A r, v : OneEdit(r, v) => OneEdit(r, v)'
      BY <2>1 DEF OneEdit
    <3>3. EditedOnce'
      BY <2>1, <3>2 DEF EditInv, EditedOnce
    <3> QED
      BY <3>1, <3>3 DEF EditInv
  <2> QED
    BY <2>1, WhoEdits, FirstVersionInv, GetDraftEdits, AppendEditEdits
<1>3. EditInv => EditedOnce
  BY DEF EditInv
<1> QED
  BY <1>1, <1>2, <1>3, OfflineInvariant, PTL DEF OfflineSpec

\* What a client of the local service asks for again is done once (generate_draft's look-up
\* by request, append_edit's previous_version_id).
THEOREM DoneOnceCorrect == OfflineSpec => []DoneOnce
BY PaidOnceCorrect, EditedOnceCorrect, PTL DEF DoneOnce
=============================================================================
