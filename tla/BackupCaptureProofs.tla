------------------------- MODULE BackupCaptureProofs -------------------------
(***************************************************************************)
(* Theorems about BackupCapture, for every number of requests, keys,       *)
(* versions of the selection and faults; at the end those about            *)
(* Notifications.                                                          *)
(***************************************************************************)
EXTENDS BackupCapture, Notifications, FiniteSetTheorems, SequenceTheorems, TLAPS

ReqRow == [pc: Steps, key: Keys, seen: 1..MaxSelection, created: BOOLEAN]
DirRow == [file: Files, owner: Reqs \cup {NoReq}, of: 0..MaxSelection]

\* The names of the steps and of the files.
LEMMA Names ==
  /\ {"idle", "resolved", "capture", "captured", "ledger", "discard"} \subseteq Steps
  /\ {"answered", "refused", "dead"} \subseteq Steps
  /\ {"none", "made", "owner", "data", "receipt"} \subseteq Files
BY DEF Steps, Ended, Files

LEMMA InitTyped == Init => TypeOK
<1> SUFFICES ASSUME Init PROVE TypeOK
  OBVIOUS
<1>1. req \in [Reqs -> ReqRow]
  <2>1. \A k \in Keys : [pc |-> "idle", key |-> k, seen |-> 1, created |-> FALSE] \in ReqRow
    BY BackupAssumption, Names DEF ReqRow
  <2> QED
    BY <2>1 DEF Init
<1>2. dir \in [Keys -> DirRow]
  BY BackupAssumption, Names DEF Init, DirRow
<1> QED
  BY <1>1, <1>2, BackupAssumption DEF Init, TypeOK, ReqRow, DirRow

\* Moving a request to another step keeps its row a row.
LEMMA GotoTyped ==
  ASSUME TypeOK, NEW r \in Reqs, NEW pc \in Steps, Goto(r, pc)
  PROVE  req' \in [Reqs -> ReqRow]
BY DEF TypeOK, Goto, ReqRow

\* The file a directory shows is one of the files it may show.
LEMMA FileTyped ==
  ASSUME TypeOK, NEW k \in Keys, NEW f \in Files
  PROVE  [dir EXCEPT ![k].file = f] \in [Keys -> DirRow]
BY DEF TypeOK, DirRow

\* Counting faults keeps the count in its range, and a count that grew is not zero.
LEMMA FaultsTyped ==
  ASSUME TypeOK, NEW n \in Nat, Faults(n)
  PROVE  faults' \in 0..MaxFaults /\ faults' >= faults /\ (n > 0 => faults' > 0)
BY BackupAssumption DEF TypeOK, Faults

LEMMA RaisesCount == \A r : Raises(r) \subseteq {0, 1}
BY DEF Raises

\* What an interrupted removal leaves is no more than there was.
LEMMA RemainsOf ==
  ASSUME NEW f \in Files, NEW g \in Remains(f)
  PROVE  /\ g \in Files
         /\ \/ g = f
            \/ f = "none" /\ g = "made"
            \/ f \in {"data", "receipt"} /\ g \in {"owner", "data"}
BY DEF Files, Remains

\* Every way a capture ends with an error changes at most the last file of its directory.
LEMMA ErrorFile ==
  ASSUME TypeOK, NEW r \in Reqs, CaptureRefused(r) \/ CaptureUnavailable(r) \/ CleanupUncertain(r)
  PROVE  \E f \in Files :
           /\ dir' = [dir EXCEPT ![Key(r)].file = f]
           /\ \/ f = dir[Key(r)].file
              \/ dir[Key(r)].file = "none" /\ f = "made"
              \/ dir[Key(r)].file \in {"data", "receipt"} /\ f \in {"owner", "data"}
<1> DEFINE file == dir[Key(r)].file
<1>1. Key(r) \in Keys /\ file \in Files
  BY DEF TypeOK, Key
<1>2. CASE UNCHANGED dir
  <2>1. dir = [dir EXCEPT ![Key(r)].file = file]
    BY <1>1 DEF TypeOK
  <2> QED
    BY <1>1, <1>2, <2>1
<1>3. CASE \E f \in Remains(file) : dir' = [dir EXCEPT ![Key(r)].file = f]
  BY <1>1, <1>3, RemainsOf
<1>4. CASE Cleanup(r)
  <2>1. PICK f : /\ dir' = [dir EXCEPT ![Key(r)].file = f]
                 /\ \/ file \in {"data", "receipt"} /\ f = "owner"
                    \/ file = "none" /\ f \in Remains("none")
                    \/ f = file
    BY <1>4 DEF Cleanup
  <2> QED
    BY <1>1, <2>1, RemainsOf, Names
<1> QED
  BY <1>2, <1>3, <1>4 DEF CaptureRefused, CaptureUnavailable, CleanupUncertain

LEMMA NextTyped == TypeOK /\ [Next]_vars => TypeOK'
<1> SUFFICES ASSUME TypeOK, [Next]_vars PROVE TypeOK'
  OBVIOUS
<1> USE BackupAssumption DEF ledger, ReqRow, DirRow
<1>1. CASE UNCHANGED vars
  BY <1>1 DEF vars, TypeOK
<1>2. CASE ChangeSelection
  BY <1>2 DEF ChangeSelection, TypeOK
<1>3. CASE Crash
  <2>1. req' \in [Reqs -> ReqRow]
    BY <1>3, Names DEF Crash, TypeOK, Ended
  <2> QED
    BY <2>1, <1>3 DEF Crash, Fault, Faults, TypeOK
<1>4. ASSUME NEW r \in Reqs, Request(r) PROVE TypeOK'
  <2> USE Names DEF Release, Fault, Faults
  <2>a. Key(r) \in Keys
    BY DEF Key, TypeOK
  <2>1. CASE Resolve(r)
    <3>1. [req[r] EXCEPT !.pc = "resolved", !.seen = selection] \in ReqRow
      BY ZenonT(60) DEF TypeOK
    <3>2. req' = [req EXCEPT ![r] = [req[r] EXCEPT !.pc = "resolved", !.seen = selection]]
      BY <2>1 DEF Resolve, TypeOK
    <3> QED
      BY <2>1, <3>1, <3>2 DEF Resolve, TypeOK
  <2>2. CASE Begin(r)
    <3>1. req' \in [Reqs -> ReqRow]
      <4>1. [req[r] EXCEPT !.pc = "capture", !.created = TRUE] \in ReqRow
        BY ZenonT(60) DEF TypeOK
      <4>2. \/ \E pc \in {"answered", "refused", "captured"} : Goto(r, pc)
            \/ req' = [req EXCEPT ![r] = [req[r] EXCEPT !.pc = "capture", !.created = TRUE]]
        BY <2>2 DEF Begin, Replay, Reuse, Create, TypeOK, Goto
      <4> QED
        BY <4>1, <4>2, GotoTyped DEF TypeOK
    <3> QED
      BY <3>1, <2>a, <2>2, ZenonT(60) DEF Begin, Replay, Reuse, Create, TypeOK
  <2>3. CASE CaptureFile(r)
    <3> DEFINE d == dir[Key(r)]
    <3>1. /\ [d EXCEPT !.file = "made"] \in DirRow
          /\ [d EXCEPT !.file = "owner", !.owner = r] \in DirRow
          /\ [d EXCEPT !.file = "data", !.of = req[r].seen] \in DirRow
          /\ [d EXCEPT !.file = "receipt"] \in DirRow
      <4>1. d \in DirRow /\ req[r].seen \in 0..MaxSelection
        BY <2>a DEF TypeOK
      <4> QED
        BY <4>1
    <3>2. \E x \in DirRow : dir' = [dir EXCEPT ![Key(r)] = x]
      BY <3>1, <2>3 DEF CaptureFile
    <3>3. dir' \in [Keys -> DirRow]
      BY <3>2, <2>a DEF TypeOK
    <3> QED
      BY <3>3, <2>3 DEF CaptureFile, TypeOK
  <2>4. CASE CaptureReceipt(r)
    BY <2>a, <2>4, GotoTyped DEF CaptureReceipt, Unlock, TypeOK
  <2>5. CASE CaptureRefused(r) \/ CaptureUnavailable(r) \/ CleanupUncertain(r)
    <3>1. req' \in [Reqs -> ReqRow]
      BY <2>a, <2>5, GotoTyped DEF CaptureRefused, CaptureUnavailable, CleanupUncertain
    <3>2. dir' \in [Keys -> DirRow]
      <4>1. PICK f \in Files : dir' = [dir EXCEPT ![Key(r)].file = f]
        BY <2>5, ErrorFile
      <4> QED
        BY <4>1, <2>a, FileTyped
    <3>3. keyLock' \in [Keys -> Reqs \cup {NoReq}] /\ fileLock' \in Reqs \cup {NoReq}
      BY <2>a, <2>5 DEF CaptureRefused, CaptureUnavailable, CleanupUncertain, Cleanup, Unlock, KeepLock, TypeOK
    <3>4. faults' \in 0..MaxFaults /\ UNCHANGED <<selection, row, events>>
      <4>1. \E n \in Nat : Faults(n)
        BY <2>5, RaisesCount DEF CaptureRefused, CaptureUnavailable, CleanupUncertain
      <4> QED
        BY <2>5, <4>1, FaultsTyped DEF CaptureRefused, CaptureUnavailable, CleanupUncertain
    <3> QED
      BY <3>1, <3>2, <3>3, <3>4 DEF TypeOK
  <2>6. CASE FinalCheck(r)
    <3>1. req' \in [Reqs -> ReqRow]
      BY <2>a, <2>6, GotoTyped DEF FinalCheck
    <3>2. faults' \in 0..MaxFaults /\ keyLock' \in [Keys -> Reqs \cup {NoReq}]
      BY <2>a, <2>6 DEF FinalCheck, TypeOK
    <3> QED
      BY <3>1, <3>2, <2>6 DEF FinalCheck, TypeOK
  <2>7. CASE Commit(r) \/ Rollback(r)
    <3>1. req' \in [Reqs -> ReqRow]
      BY <2>a, <2>7, GotoTyped DEF Commit, Rollback
    <3> QED
      <4>1. row' \in [Keys -> 0..MaxSelection] /\ events' \in [Keys -> Nat]
        <5>1. req[r].seen \in 0..MaxSelection /\ events[Key(r)] + 1 \in Nat
          BY <2>a DEF TypeOK
        <5> QED
          BY <5>1, <2>a, <2>7, SMTT(30) DEF Commit, Rollback, TypeOK
      <4>2. faults' \in 0..MaxFaults /\ keyLock' \in [Keys -> Reqs \cup {NoReq}]
        BY <2>a, <2>7 DEF Commit, Rollback, TypeOK
      <4> QED
        BY <3>1, <4>1, <4>2, <2>7 DEF Commit, Rollback, TypeOK
  <2>8. CASE DiscardUnreferenced(r)
    <3>1. req' \in [Reqs -> ReqRow]
      BY <2>a, <2>8, GotoTyped DEF DiscardUnreferenced
    <3>2. dir' \in [Keys -> DirRow]
      <4>1. [dir EXCEPT ![Key(r)].file = "owner"] \in [Keys -> DirRow]
        BY <2>a, FileTyped
      <4> QED
        BY <2>8, <4>1 DEF DiscardUnreferenced, TypeOK
    <3> QED
      BY <3>1, <3>2, <2>8 DEF DiscardUnreferenced, TypeOK
  <2>9. CASE DiscardFails(r)
    <3>1. req' \in [Reqs -> ReqRow]
      BY <2>a, <2>9, GotoTyped DEF DiscardFails
    <3>2. dir' \in [Keys -> DirRow]
      <4>1. dir[Key(r)].file \in Files
        BY <2>a DEF TypeOK
      <4> QED
        BY <2>a, <2>9, <4>1, RemainsOf, FileTyped DEF DiscardFails
    <3> QED
      BY <3>1, <3>2, <2>9 DEF DiscardFails, TypeOK
  <2>10. CASE LockWriteFails(r)
    <3>1. req' \in [Reqs -> ReqRow]
      BY <2>a, <2>10, GotoTyped DEF LockWriteFails
    <3> QED
      BY <3>1, <2>10 DEF LockWriteFails, TypeOK
  <2> QED
    BY <1>4, <2>1, <2>2, <2>3, <2>4, <2>5, <2>6, <2>7, <2>8, <2>9, <2>10 DEF Request
<1> QED
  BY <1>1, <1>2, <1>3, <1>4 DEF Next

\* Every variable keeps its type, however requests, faults and changes interleave.
THEOREM TypeCorrect == Spec => []TypeOK
BY InitTyped, NextTyped, PTL DEF Spec

-----------------------------------------------------------------------------
(***************************************************************************)
(* The inductive invariant.  A request that works on its capture holds the *)
(* lock of its key and meets no ledger row; what it knows of the directory *)
(* depends on the step it is in.                                           *)
(***************************************************************************)
Working == {"capture", "captured", "ledger"}

LockHeld ==
  \A r \in Reqs : req[r].pc \in Working => keyLock[Key(r)] = r /\ row[Key(r)] = 0

OwnFiles ==
  \A r \in Reqs : req[r].pc = "capture" =>
    /\ Key(r) \in Lineage => fileLock = r
    /\ dir[Key(r)].file \in {"owner", "data", "receipt"} => dir[Key(r)].owner = r
    /\ dir[Key(r)].file \in {"data", "receipt"} => dir[Key(r)].of = req[r].seen

CopyComplete ==
  \A r \in Reqs : req[r].pc \in {"captured", "ledger"} => Verified(r)

OwnerMarked ==
  \A k \in Keys : dir[k].owner # NoReq <=> dir[k].file \in {"owner", "data", "receipt"}

LockOfLineage == LockFileExplained /\ (fileLock # NoReq => Key(fileLock) \in Lineage)

Copies == LockHeld /\ OwnFiles /\ CopyComplete /\ OwnerMarked /\ LockOfLineage
Rows == BackupReadable /\ ReadyOnce /\ AnswerKept
BackupInv == TypeOK /\ Copies /\ Rows

LEMMA InitInv == Init => BackupInv
<1> SUFFICES ASSUME Init PROVE BackupInv
  OBVIOUS
<1>1. \A r \in Reqs : req[r].pc = "idle"
  BY DEF Init
<1> QED
  BY <1>1, InitTyped
  DEF Init, BackupInv, Copies, Rows, LockHeld, OwnFiles, CopyComplete, OwnerMarked, LockOfLineage,
      LockFileExplained, BackupReadable, ReadyOnce, AnswerKept, Working

\* A directory gets the next of its files.
Grows(d, e, r) ==
  \/ d.file = "none" /\ e.file = "made" /\ e.owner = d.owner /\ e.of = d.of
  \/ d.file = "made" /\ e.file = "owner" /\ e.owner = r /\ e.of = d.of
  \/ d.file = "owner" /\ e.file = "data" /\ e.owner = d.owner /\ e.of = req[r].seen
  \/ d.file = "data" /\ e.file = "receipt" /\ e.owner = d.owner /\ e.of = d.of

LEMMA CaptureFileGrows ==
  ASSUME TypeOK, NEW r \in Reqs, CaptureFile(r)
  PROVE  /\ \A h \in Keys \ {Key(r)} : dir'[h] = dir[h]
         /\ Grows(dir[Key(r)], dir'[Key(r)], r)
<1> DEFINE k == Key(r)
           d == dir[k]
<1>1. k \in Keys /\ d \in DirRow
  BY DEF TypeOK, DirRow, Key
<1>2. \A h \in Keys \ {k} : dir'[h] = dir[h]
  BY <1>1 DEF CaptureFile, TypeOK
<1>3. CASE d.file = "none" /\ dir' = [dir EXCEPT ![k] = [d EXCEPT !.file = "made"]]
  <2>1. dir'[k] = [d EXCEPT !.file = "made"]
    BY <1>1, <1>3 DEF TypeOK
  <2> QED
    BY <1>1, <1>2, <1>3, <2>1 DEF Grows, DirRow
<1>4. CASE d.file = "made" /\ dir' = [dir EXCEPT ![k] = [d EXCEPT !.file = "owner", !.owner = r]]
  <2>1. dir'[k] = [d EXCEPT !.file = "owner", !.owner = r]
    BY <1>1, <1>4 DEF TypeOK
  <2>2. LET e == [d EXCEPT !.file = "owner", !.owner = r] IN e.file = "owner" /\ e.owner = r /\ e.of = d.of
    BY <1>1 DEF DirRow
  <2> QED
    BY <1>2, <1>4, <2>1, <2>2 DEF Grows
<1>5. CASE d.file = "owner" /\ dir' = [dir EXCEPT ![k] = [d EXCEPT !.file = "data", !.of = req[r].seen]]
  <2>1. dir'[k] = [d EXCEPT !.file = "data", !.of = req[r].seen]
    BY <1>1, <1>5 DEF TypeOK
  <2>2. LET e == [d EXCEPT !.file = "data", !.of = req[r].seen] IN e.file = "data" /\ e.owner = d.owner /\ e.of = req[r].seen
    BY <1>1 DEF DirRow
  <2> QED
    BY <1>2, <1>5, <2>1, <2>2 DEF Grows
<1>6. CASE d.file = "data" /\ dir' = [dir EXCEPT ![k] = [d EXCEPT !.file = "receipt"]]
  <2>1. dir'[k] = [d EXCEPT !.file = "receipt"]
    BY <1>1, <1>6 DEF TypeOK
  <2> QED
    BY <1>1, <1>2, <1>6, <2>1 DEF Grows, DirRow
<1> QED
  BY <1>3, <1>4, <1>5, <1>6 DEF CaptureFile

\* A request goes to another step and gives up the lock of its key.
LEMMA GotoRow ==
  ASSUME TypeOK, NEW r \in Reqs, NEW pc \in Steps, Goto(r, pc)
  PROVE  /\ req'[r].pc = pc /\ req'[r].key = req[r].key /\ req'[r].seen = req[r].seen
         /\ \A q \in Reqs \ {r} : req'[q] = req[q]
BY DEF TypeOK, Goto

LEMMA ReleaseRow ==
  ASSUME TypeOK, NEW r \in Reqs, Release(r)
  PROVE  keyLock'[Key(r)] = NoReq /\ \A h \in Keys \ {Key(r)} : keyLock'[h] = keyLock[h]
BY DEF TypeOK, Release, Key

\* A capture that raised leaves its directory no further than it was, and the lock file
\* of a lineage store only when a fault kept it from being removed.
LEMMA CaptureEnds ==
  ASSUME TypeOK, NEW r \in Reqs, CaptureRefused(r) \/ CaptureUnavailable(r) \/ CleanupUncertain(r)
  PROVE  /\ req[r].pc = "capture" /\ req'[r].pc \in {"refused", "discard"}
         /\ req'[r].key = req[r].key /\ req'[r].seen = req[r].seen
         /\ \A q \in Reqs \ {r} : req'[q] = req[q]
         /\ \A h \in Keys \ {Key(r)} : dir'[h] = dir[h] /\ keyLock'[h] = keyLock[h]
         /\ dir'[Key(r)].owner = dir[Key(r)].owner /\ dir'[Key(r)].of = dir[Key(r)].of
         /\ \/ dir'[Key(r)].file = dir[Key(r)].file
            \/ dir[Key(r)].file = "none" /\ dir'[Key(r)].file = "made"
            \/ dir[Key(r)].file \in {"data", "receipt"} /\ dir'[Key(r)].file \in {"owner", "data"}
         /\ \/ fileLock' = NoReq /\ Key(r) \in Lineage
            \/ fileLock' = fileLock /\ (Key(r) \in Lineage => req'[r].pc = "refused" /\ faults' > 0)
         /\ faults' >= faults
         /\ UNCHANGED ledger
<1> DEFINE k == Key(r)
<1>1. k \in Keys /\ dir \in [Keys -> DirRow] /\ dir[k] \in DirRow
  BY DEF TypeOK, DirRow, Key
<1>2. PICK f \in Files :
        /\ dir' = [dir EXCEPT ![k].file = f]
        /\ \/ f = dir[k].file
           \/ dir[k].file = "none" /\ f = "made"
           \/ dir[k].file \in {"data", "receipt"} /\ f \in {"owner", "data"}
  BY ErrorFile
<1>3. [dir[k] EXCEPT !.file = f].file = f /\ [dir[k] EXCEPT !.file = f].owner = dir[k].owner
      /\ [dir[k] EXCEPT !.file = f].of = dir[k].of
  BY <1>1 DEF DirRow
<1>4. /\ dir'[k].file = f /\ dir'[k].owner = dir[k].owner /\ dir'[k].of = dir[k].of
      /\ \A h \in Keys \ {k} : dir'[h] = dir[h]
  BY <1>1, <1>2, <1>3
<1>5. PICK pc \in {"refused", "discard"} : Goto(r, pc)
  BY DEF CaptureRefused, CaptureUnavailable, CleanupUncertain
<1>6. /\ req'[r].pc = pc /\ req'[r].key = req[r].key /\ req'[r].seen = req[r].seen
      /\ \A q \in Reqs \ {r} : req'[q] = req[q]
  BY <1>5, GotoRow, Names
<1>7. \A h \in Keys \ {k} : keyLock'[h] = keyLock[h]
  BY ReleaseRow DEF CaptureRefused, CaptureUnavailable, CleanupUncertain
<1>8. req[r].pc = "capture" /\ UNCHANGED ledger
  BY DEF CaptureRefused, CaptureUnavailable, CleanupUncertain
<1>9. faults' >= faults
  <2>1. \E n \in Nat : Faults(n)
    BY RaisesCount DEF CaptureRefused, CaptureUnavailable, CleanupUncertain, Fault
  <2> QED
    BY <2>1, FaultsTyped
<1>10. CASE CaptureRefused(r) \/ CaptureUnavailable(r)
  <2>1. Unlock(r)
    BY <1>10 DEF CaptureRefused, CaptureUnavailable, Cleanup
  <2> QED
    BY <1>2, <1>4, <1>5, <1>6, <1>7, <1>8, <1>9, <2>1 DEF Unlock
<1>11. CASE CleanupUncertain(r)
  <2>1. fileLock' = fileLock /\ Goto(r, "refused")
    BY <1>11 DEF CleanupUncertain, KeepLock
  <2>2. req'[r].pc = "refused"
    BY <2>1, GotoRow, Names
  <2>3. \E n \in Nat : n > 0 /\ Faults(n)
    BY <1>11, RaisesCount DEF CleanupUncertain, Fault
  <2>4. faults' > 0
    BY <2>3, FaultsTyped
  <2> QED
    BY <1>2, <1>4, <1>6, <1>7, <1>8, <1>9, <2>1, <2>2, <2>4
<1> QED
  BY <1>10, <1>11

\* A step of a request that holds no lock file leaves the lock file explained.
LEMMA LockKept ==
  ASSUME TypeOK, TypeOK', NEW r \in Reqs, LockOfLineage, OwnFiles',
         fileLock' = fileLock, faults' >= faults,
         req[r].pc \notin {"capture", "dead", "refused"}, req'[r].key = req[r].key,
         \A q \in Reqs \ {r} : req'[q] = req[q]
  PROVE  LockOfLineage'
<1>1. \A q \in Reqs : req'[q].pc = "capture" /\ Key(q)' \in Lineage => fileLock' = q
  BY DEF OwnFiles
<1>2. faults \in Nat /\ faults' \in Nat
  BY DEF TypeOK
<1>3. CASE fileLock = NoReq
  BY <1>1, <1>3 DEF LockOfLineage, LockFileExplained
<1>4. CASE fileLock # NoReq
  <2>1. fileLock \in Reqs \ {r}
    BY <1>4 DEF LockOfLineage, LockFileExplained, TypeOK
  <2>2. req'[fileLock] = req[fileLock]
    BY <2>1
  <2> QED
    BY <1>1, <1>2, <1>4, <2>2 DEF LockOfLineage, LockFileExplained, Key
<1> QED
  BY <1>3, <1>4

\* A step of one request: what it is about to do, it does to its own key.
LEMMA RequestInv ==
  ASSUME BackupInv, TypeOK', NEW r \in Reqs, Request(r)
  PROVE  Copies' /\ Rows'
<1> DEFINE k == Key(r)
<1>a. k \in Keys /\ req[r].seen \in Nat \ {0}
  BY BackupAssumption DEF BackupInv, TypeOK, Key
<1> USE <1>a, BackupAssumption
    DEF BackupInv, Copies, Working, ledger, Goto, Release, Fault, Faults, Key
<1>1. CASE Resolve(r)
  <2>1. LockHeld'
    BY <1>1 DEF Resolve, LockHeld, TypeOK
  <2>2. OwnFiles'
    BY <1>1 DEF Resolve, OwnFiles, LockHeld, TypeOK
  <2>3. CopyComplete'
    BY <1>1 DEF Resolve, CopyComplete, Verified, LockHeld, OwnFiles, TypeOK
  <2>4. OwnerMarked'
    BY <1>1 DEF Resolve, OwnerMarked, OwnFiles, TypeOK
  <2>5. LockOfLineage'
    BY <1>1 DEF Resolve, LockOfLineage, LockFileExplained, OwnFiles, LockHeld, TypeOK
  <2>6. Rows'
    BY <1>1 DEF Resolve, Rows, BackupReadable, ReadyOnce, AnswerKept, LockHeld, CopyComplete, Verified, OwnFiles, TypeOK
  <2> QED
    BY <2>1, <2>2, <2>3, <2>4, <2>5, <2>6
<1>2. CASE Begin(r)
  <2>1. LockHeld'
    BY <1>2, SMTT(30) DEF Begin, Replay, Reuse, Create, Current, LockHeld, TypeOK
  <2>2. OwnFiles'
    BY <1>2, SMTT(30) DEF Begin, Replay, Reuse, Create, Current, OwnFiles, LockHeld, TypeOK
  <2>3. CopyComplete'
    <3>1. dir' = dir /\ \A t \in Reqs : t # r => req'[t] = req[t]
      BY <1>2 DEF Begin, Replay, Reuse, Create, TypeOK
    <3>2. /\ req'[r].seen = req[r].seen /\ req'[r].key = req[r].key /\ req'[r].pc # "ledger"
          /\ req'[r].pc = "captured" => Verified(r)
      <4>1. CASE Replay(r)
        BY <1>2, <4>1 DEF Begin, Replay, TypeOK
      <4>2. CASE Reuse(r)
        BY <1>2, <4>2 DEF Begin, Reuse, TypeOK
      <4>3. CASE Create(r)
        BY <1>2, <4>3 DEF Begin, Create, TypeOK
      <4> QED
        BY <1>2, <4>1, <4>2, <4>3 DEF Begin
    <3> QED
      BY <3>1, <3>2 DEF CopyComplete, Verified
  <2>4. OwnerMarked'
    BY <1>2 DEF Begin, Replay, Reuse, Create, Current, OwnerMarked, OwnFiles, TypeOK
  <2>5. LockOfLineage'
    <3>1. /\ req[r].pc = "resolved" /\ req'[r].key = req[r].key /\ faults' = faults
          /\ \A q \in Reqs \ {r} : req'[q] = req[q]
      BY <1>2 DEF Begin, Replay, Reuse, Create, TypeOK
    <3>2. CASE fileLock' = fileLock
      <4>1. faults' >= faults
        BY <3>1 DEF TypeOK
      <4> QED
        BY <2>2, <3>1, <3>2, <4>1, LockKept
    <3>3. CASE fileLock' # fileLock
      <4>1. fileLock' = r /\ k \in Lineage /\ req'[r].pc = "capture"
        BY <1>2, <3>3 DEF Begin, Replay, Reuse, Create, TypeOK
      <4>2. \A q \in Reqs : req'[q].pc = "capture" /\ Key(q)' \in Lineage => fileLock' = q
        BY <2>2 DEF OwnFiles
      <4> QED
        BY <3>1, <4>1, <4>2 DEF LockOfLineage, LockFileExplained
    <3> QED
      BY <3>2, <3>3
  <2>6. Rows'
    BY <1>2, SMTT(30) DEF Begin, Replay, Reuse, Create, Current, Rows, BackupReadable, ReadyOnce, AnswerKept, LockHeld, CopyComplete, Verified, OwnFiles, TypeOK
  <2> QED
    BY <2>1, <2>2, <2>3, <2>4, <2>5, <2>6
<1>3. CASE CaptureFile(r)
  <2>a. /\ \A h \in Keys \ {k} : dir'[h] = dir[h]
        /\ Grows(dir[k], dir'[k], r)
    BY <1>3, CaptureFileGrows
  <2>b. req[r].pc = "capture" /\ UNCHANGED <<req, keyLock, fileLock, row, events>>
    BY <1>3 DEF CaptureFile
  <2>1. LockHeld'
    BY <1>3 DEF CaptureFile, LockHeld, TypeOK
  <2>2. OwnFiles'
    BY <2>a, <2>b DEF Grows, OwnFiles, LockHeld, TypeOK
  <2>3. CopyComplete'
    BY <1>3 DEF CaptureFile, CopyComplete, Verified, LockHeld, OwnFiles, TypeOK
  <2>4. OwnerMarked'
    BY <2>a, <2>b DEF Grows, OwnerMarked, OwnFiles, TypeOK
  <2>5. LockOfLineage'
    BY <1>3 DEF CaptureFile, LockOfLineage, LockFileExplained, OwnFiles, LockHeld, TypeOK
  <2>6. Rows'
    BY <1>3 DEF CaptureFile, Rows, BackupReadable, ReadyOnce, AnswerKept, LockHeld, CopyComplete, Verified, OwnFiles, TypeOK
  <2> QED
    BY <2>1, <2>2, <2>3, <2>4, <2>5, <2>6
<1>4. CASE CaptureReceipt(r)
  <2>1. LockHeld'
    BY <1>4 DEF CaptureReceipt, Unlock, LockHeld, TypeOK
  <2>2. OwnFiles'
    BY <1>4 DEF CaptureReceipt, Unlock, OwnFiles, LockHeld, TypeOK
  <2>3. CopyComplete'
    BY <1>4 DEF CaptureReceipt, CopyComplete, Verified, LockHeld, OwnFiles, TypeOK
  <2>4. OwnerMarked'
    BY <1>4 DEF CaptureReceipt, OwnerMarked, OwnFiles, TypeOK
  <2>5. LockOfLineage'
    BY <1>4 DEF CaptureReceipt, Unlock, LockOfLineage, LockFileExplained, OwnFiles, LockHeld, TypeOK
  <2>6. Rows'
    BY <1>4 DEF CaptureReceipt, Rows, BackupReadable, ReadyOnce, AnswerKept, LockHeld, CopyComplete, Verified, OwnFiles, TypeOK
  <2> QED
    BY <2>1, <2>2, <2>3, <2>4, <2>5, <2>6
<1>5. CASE CaptureRefused(r) \/ CaptureUnavailable(r) \/ CleanupUncertain(r)
  <2>a. /\ req[r].pc = "capture" /\ req'[r].pc \in {"refused", "discard"}
        /\ req'[r].key = req[r].key /\ req'[r].seen = req[r].seen
        /\ \A q \in Reqs \ {r} : req'[q] = req[q]
        /\ \A h \in Keys \ {k} : dir'[h] = dir[h] /\ keyLock'[h] = keyLock[h]
        /\ dir'[k].owner = dir[k].owner /\ dir'[k].of = dir[k].of
        /\ \/ dir'[k].file = dir[k].file
           \/ dir[k].file = "none" /\ dir'[k].file = "made"
           \/ dir[k].file \in {"data", "receipt"} /\ dir'[k].file \in {"owner", "data"}
        /\ \/ fileLock' = NoReq /\ k \in Lineage
           \/ fileLock' = fileLock /\ (k \in Lineage => req'[r].pc = "refused" /\ faults' > 0)
        /\ faults' >= faults
        /\ row' = row /\ events' = events
    BY <1>5, CaptureEnds
  <2>b. \A q \in Reqs : req[q].key \in Keys /\ req'[q].key = req[q].key
    BY <2>a DEF TypeOK
  <2>c. \A q \in Reqs \ {r} : req[q].pc \in Working => Key(q) # k
    BY <2>a DEF LockHeld
  <2>d. row[k] = 0
    BY <2>a DEF LockHeld
  <2>1. LockHeld'
    BY <2>a, <2>b, <2>c DEF LockHeld
  <2>2. OwnFiles'
    <3> SUFFICES ASSUME NEW q \in Reqs, req'[q].pc = "capture"
                 PROVE  /\ Key(q)' \in Lineage => fileLock' = q
                        /\ dir'[Key(q)'].file \in {"owner", "data", "receipt"} => dir'[Key(q)'].owner = q
                        /\ dir'[Key(q)'].file \in {"data", "receipt"} => dir'[Key(q)'].of = req'[q].seen
      BY DEF OwnFiles
    <3>1. q # r /\ req'[q] = req[q] /\ req[q].pc = "capture"
      BY <2>a
    <3>2. Key(q) # k /\ Key(q) \in Keys /\ dir'[Key(q)] = dir[Key(q)] /\ Key(q)' = Key(q)
      BY <2>a, <2>b, <2>c, <3>1
    <3>3. Key(q) \in Lineage => fileLock = q /\ k \notin Lineage
      BY <2>a, <3>1 DEF OwnFiles
    <3>4. Key(q) \in Lineage => fileLock' = q
      BY <2>a, <3>3
    <3> QED
      BY <3>1, <3>2, <3>4 DEF OwnFiles
  <2>3. CopyComplete'
    BY <2>a, <2>b, <2>c DEF CopyComplete, Verified
  <2>4. OwnerMarked'
    BY <2>a DEF OwnerMarked
  <2>5. LockOfLineage'
    <3>1. \A q \in Reqs : req'[q].pc = "capture" /\ Key(q)' \in Lineage => fileLock' = q
      BY <2>2 DEF OwnFiles
    <3>2. CASE fileLock' = NoReq
      BY <3>1, <3>2 DEF LockOfLineage, LockFileExplained
    <3>3. CASE fileLock' # NoReq
      <4>1. fileLock' = fileLock /\ fileLock \in Reqs /\ (k \in Lineage => req'[r].pc = "refused" /\ faults' > 0)
        BY <2>a, <3>3 DEF TypeOK
      <4>2. Key(fileLock)' = Key(fileLock) /\ Key(fileLock) \in Lineage /\ LockFileExplained
        BY <2>b, <3>3, <4>1 DEF LockOfLineage
      <4>3. faults \in Nat /\ faults' \in Nat
        BY DEF TypeOK
      <4>4. LockFileExplained'
        <5>1. CASE fileLock # r
          BY <2>a, <3>1, <4>1, <4>2, <4>3, <5>1 DEF LockFileExplained
        <5>2. CASE fileLock = r
          BY <3>1, <4>1, <4>2, <5>2 DEF LockFileExplained
        <5> QED
          BY <5>1, <5>2
      <4> QED
        BY <4>1, <4>2, <4>4 DEF LockOfLineage
    <3> QED
      BY <3>2, <3>3
  <2>6. Rows'
    <3>1. BackupReadable'
      BY <2>a, <2>d DEF Rows, BackupReadable
    <3>2. ReadyOnce'
      BY <2>a DEF Rows, ReadyOnce
    <3>3. AnswerKept'
      BY <2>a, <2>b DEF Rows, AnswerKept
    <3> QED
      BY <3>1, <3>2, <3>3 DEF Rows
  <2> QED
    BY <2>1, <2>2, <2>3, <2>4, <2>5, <2>6
<1>7. CASE FinalCheck(r)
  <2>a. PICK pc \in {"ledger", "discard", "refused"} :
          Goto(r, pc) /\ ((pc = "ledger" /\ keyLock' = keyLock) \/ (pc # "ledger" /\ Release(r)))
    BY <1>7 DEF FinalCheck
  <2>b. /\ req'[r].pc = pc /\ req'[r].key = req[r].key /\ req'[r].seen = req[r].seen
        /\ \A q \in Reqs \ {r} : req'[q] = req[q]
    BY <2>a, GotoRow, Names
  <2>c. /\ UNCHANGED <<selection, dir, fileLock, row, events>> /\ req[r].pc = "captured"
        /\ pc = "ledger" => keyLock' = keyLock
        /\ \A h \in Keys \ {k} : keyLock'[h] = keyLock[h]
    <3>1. UNCHANGED <<selection, dir, fileLock, row, events>> /\ req[r].pc = "captured"
      BY <1>7 DEF FinalCheck
    <3>2. \A h \in Keys \ {k} : keyLock'[h] = keyLock[h]
      BY <2>a, ReleaseRow
    <3> QED
      BY <2>a, <3>1, <3>2
  <2>d. \A q \in Reqs \ {r} : req[q].pc \in Working => Key(q) # k
    BY <2>c DEF LockHeld
  <2>e. \A q \in Reqs : req[q].key \in Keys /\ req'[q].key = req[q].key
    BY <2>b DEF TypeOK
  <2>1. LockHeld'
    BY <2>a, <2>b, <2>c, <2>d, <2>e DEF LockHeld
  <2>2. OwnFiles'
    BY <2>a, <2>b, <2>c DEF OwnFiles
  <2>3. CopyComplete'
    BY <2>a, <2>b, <2>c DEF CopyComplete, Verified
  <2>4. OwnerMarked'
    BY <2>c DEF OwnerMarked
  <2>5. LockOfLineage'
    <3>1. faults \in Nat /\ faults' \in Nat /\ faults' >= faults
      BY <1>7 DEF FinalCheck, TypeOK
    <3> QED
      BY <2>2, <2>b, <2>c, <3>1, LockKept
  <2>6. Rows'
    BY <2>a, <2>b, <2>c, <2>e DEF Rows, BackupReadable, ReadyOnce, AnswerKept
  <2> QED
    BY <2>1, <2>2, <2>3, <2>4, <2>5, <2>6
<1>8. CASE Commit(r)
  <2>a. PICK pc \in {"answered", "refused"} : Goto(r, pc)
    BY <1>8 DEF Commit
  <2>b. /\ req'[r].pc = pc /\ req'[r].key = req[r].key /\ req'[r].seen = req[r].seen
        /\ \A q \in Reqs \ {r} : req'[q] = req[q]
    BY <2>a, GotoRow, Names
  <2>c. /\ UNCHANGED <<selection, dir, fileLock>> /\ req[r].pc = "ledger"
        /\ \A h \in Keys \ {k} : row'[h] = row[h] /\ keyLock'[h] = keyLock[h]
    BY <1>8, ReleaseRow DEF Commit, TypeOK
  <2>d. \A q \in Reqs \ {r} : req[q].pc \in Working => Key(q) # k
    BY <2>c DEF LockHeld
  <2>e. \A q \in Reqs : req[q].key \in Keys /\ req'[q].key = req[q].key
    BY <2>b DEF TypeOK
  <2>1. LockHeld'
    BY <2>b, <2>c, <2>d, <2>e DEF LockHeld
  <2>2. OwnFiles'
    BY <2>b, <2>c DEF OwnFiles
  <2>3. CopyComplete'
    BY <2>b, <2>c DEF CopyComplete, Verified
  <2>4. OwnerMarked'
    BY <2>c DEF OwnerMarked
  <2>5. LockOfLineage'
    <3>1. faults \in Nat /\ faults' \in Nat /\ faults' >= faults
      BY <1>8 DEF Commit, TypeOK
    <3> QED
      BY <2>2, <2>b, <2>c, <3>1, LockKept
  <2>6. Rows'
    <3>1. row[k] = 0 /\ Verified(r) /\ dir' = dir
      BY <1>8 DEF Commit, LockHeld, CopyComplete
    <3>2. BackupReadable' /\ ReadyOnce'
      BY <3>1, <1>8 DEF Commit, Rows, BackupReadable, ReadyOnce, Verified, TypeOK
    <3>3. AnswerKept'
      BY <3>1, <1>8, SMTT(30) DEF Commit, Rows, AnswerKept, TypeOK
    <3> QED
      BY <3>2, <3>3 DEF Rows
  <2> QED
    BY <2>1, <2>2, <2>3, <2>4, <2>5, <2>6
<1>9. CASE Rollback(r)
  <2>1. LockHeld'
    BY <1>9 DEF Rollback, LockHeld, TypeOK
  <2>2. OwnFiles'
    BY <1>9 DEF Rollback, OwnFiles, LockHeld, TypeOK
  <2>3. CopyComplete'
    BY <1>9 DEF Rollback, CopyComplete, Verified, LockHeld, OwnFiles, TypeOK
  <2>4. OwnerMarked'
    BY <1>9 DEF Rollback, OwnerMarked, OwnFiles, TypeOK
  <2>5. LockOfLineage'
    BY <1>9 DEF Rollback, LockOfLineage, LockFileExplained, OwnFiles, LockHeld, TypeOK
  <2>6. Rows'
    BY <1>9 DEF Rollback, Rows, BackupReadable, ReadyOnce, AnswerKept, LockHeld, CopyComplete, Verified, OwnFiles, TypeOK
  <2> QED
    BY <2>1, <2>2, <2>3, <2>4, <2>5, <2>6
<1>10. CASE DiscardUnreferenced(r)
  <2>1. LockHeld'
    BY <1>10 DEF DiscardUnreferenced, Discardable, LockHeld, TypeOK
  <2>2. OwnFiles'
    BY <1>10, SMTT(30) DEF DiscardUnreferenced, Discardable, OwnFiles, LockHeld, TypeOK
  <2>3. CopyComplete'
    BY <1>10 DEF DiscardUnreferenced, Discardable, CopyComplete, Verified, LockHeld, OwnFiles, TypeOK
  <2>4. OwnerMarked'
    <3>1. CASE Discardable(r)
      BY <1>10, <3>1 DEF DiscardUnreferenced, Discardable, OwnerMarked, TypeOK
    <3>2. CASE ~Discardable(r)
      BY <1>10, <3>2 DEF DiscardUnreferenced, OwnerMarked
    <3> QED
      BY <3>1, <3>2
  <2>5. LockOfLineage'
    BY <1>10 DEF DiscardUnreferenced, LockOfLineage, LockFileExplained, OwnFiles, LockHeld, TypeOK
  <2>6. Rows'
    BY <1>10 DEF DiscardUnreferenced, Discardable, Rows, BackupReadable, ReadyOnce, AnswerKept, LockHeld, CopyComplete, Verified, OwnFiles, TypeOK
  <2> QED
    BY <2>1, <2>2, <2>3, <2>4, <2>5, <2>6
<1>11. CASE LockWriteFails(r)
  <2>1. LockHeld'
    BY <1>11 DEF LockWriteFails, LockHeld, TypeOK
  <2>2. OwnFiles'
    BY <1>11 DEF LockWriteFails, OwnFiles, LockHeld, TypeOK
  <2>3. CopyComplete'
    BY <1>11 DEF LockWriteFails, CopyComplete, Verified, TypeOK
  <2>4. OwnerMarked'
    BY <1>11 DEF LockWriteFails, OwnerMarked, TypeOK
  <2>5. LockOfLineage'
    BY <1>11 DEF LockWriteFails, LockOfLineage, LockFileExplained, TypeOK
  <2>6. Rows'
    BY <1>11 DEF LockWriteFails, Rows, BackupReadable, ReadyOnce, AnswerKept, TypeOK
  <2> QED
    BY <2>1, <2>2, <2>3, <2>4, <2>5, <2>6
<1>12. CASE DiscardFails(r)
  <2>a. PICK f \in Files : dir' = [dir EXCEPT ![k].file = f] /\ (f = "receipt" => dir[k].file = "receipt")
                         /\ (dir[k].file \in {"owner", "data", "receipt"} => f \in {"owner", "data", "receipt"})
    <3>1. dir[k].file \in Files
      BY DEF TypeOK
    <3> QED
      BY <1>12, <3>1, RemainsOf DEF DiscardFails
  <2>b. /\ req'[r].pc = "refused" /\ req'[r].key = req[r].key /\ req'[r].seen = req[r].seen
        /\ \A q \in Reqs \ {r} : req'[q] = req[q]
    BY <1>12, GotoRow, Names DEF DiscardFails
  <2>c. /\ req[r].pc = "discard" /\ keyLock[k] = NoReq /\ row[k] = 0 /\ dir[k].owner = r
        /\ UNCHANGED <<keyLock, fileLock, row, events>> /\ faults \in Nat /\ faults' = faults + 1
    BY <1>12 DEF DiscardFails, Discardable, TypeOK
  <2>d. /\ dir'[k].file = f /\ dir'[k].owner = dir[k].owner /\ dir'[k].of = dir[k].of
        /\ \A h \in Keys \ {k} : dir'[h] = dir[h]
    <3>1. dir \in [Keys -> DirRow] /\ dir[k] \in DirRow
      BY DEF TypeOK, DirRow
    <3>2. dir'[k] = [dir[k] EXCEPT !.file = f] /\ \A h \in Keys \ {k} : dir'[h] = dir[h]
      BY <2>a, <3>1
    <3> QED
      BY <3>1, <3>2 DEF DirRow
  <2>e. \A q \in Reqs : req[q].key \in Keys /\ req'[q].key = req[q].key /\ (req[q].pc \in Working => req[q].key # k)
    <3>1. \A q \in Reqs : req[q].key \in Keys /\ req'[q].key = req[q].key
      BY <2>b DEF TypeOK
    <3>2. \A q \in Reqs : req[q].pc \in Working => req[q].key # k
      BY <2>c DEF LockHeld
    <3> QED
      BY <3>1, <3>2
  <2>1. LockHeld'
    BY <2>b, <2>c, <2>e DEF LockHeld
  <2>2. OwnFiles'
    BY <2>b, <2>c, <2>d, <2>e DEF OwnFiles
  <2>3. CopyComplete'
    BY <2>b, <2>c, <2>d, <2>e DEF CopyComplete, Verified
  <2>4. OwnerMarked'
    BY <2>a, <2>c, <2>d DEF OwnerMarked
  <2>5. LockOfLineage'
    <3>1. faults' >= faults
      BY <2>c
    <3> QED
      BY <2>2, <2>b, <2>c, <3>1, LockKept
  <2>6. Rows'
    BY <2>b, <2>c, <2>d, <2>e DEF Rows, BackupReadable, ReadyOnce, AnswerKept
  <2> QED
    BY <2>1, <2>2, <2>3, <2>4, <2>5, <2>6
<1> QED
  BY <1>1, <1>2, <1>3, <1>4, <1>5, <1>7, <1>8, <1>9, <1>10, <1>11, <1>12 DEF Request

\* The death of the process ends every request that works, and with it what LockHeld,
\* OwnFiles and CopyComplete say of it.
LEMMA CrashInv ==
  ASSUME BackupInv, TypeOK', Crash
  PROVE  Copies' /\ Rows'
<1>1. \A r \in Reqs :
        /\ req'[r].pc \notin Working /\ req'[r].key = req[r].key /\ req'[r].seen = req[r].seen
        /\ req'[r].pc = "answered" => req[r].pc = "answered"
        /\ req[r].pc \in {"capture", "dead"} => req'[r].pc = "dead"
        /\ req[r].pc = "refused" => req'[r].pc = "refused"
  BY DEF Crash, Ended, Working, BackupInv, TypeOK, Steps
<1>2. UNCHANGED <<dir, fileLock, row, events>> /\ faults' > 0
  BY DEF Crash, ledger, Fault, Faults, BackupInv, TypeOK
<1>3. LockHeld' /\ OwnFiles' /\ CopyComplete' /\ OwnerMarked'
  BY <1>1, <1>2 DEF LockHeld, OwnFiles, CopyComplete, OwnerMarked, BackupInv, Copies, Working
<1>4. LockOfLineage'
  BY <1>1, <1>2 DEF LockOfLineage, LockFileExplained, BackupInv, Copies, Key, TypeOK, Working
<1>5. Rows'
  BY <1>1, <1>2 DEF Rows, BackupReadable, ReadyOnce, AnswerKept, BackupInv, Key
<1> QED
  BY <1>3, <1>4, <1>5 DEF Copies

LEMMA NextInv == BackupInv /\ [Next]_vars => BackupInv'
<1> SUFFICES ASSUME BackupInv, [Next]_vars PROVE BackupInv'
  OBVIOUS
<1>1. TypeOK'
  BY NextTyped DEF BackupInv
<1>2. CASE UNCHANGED vars \/ ChangeSelection
  <2>1. UNCHANGED <<req, dir, keyLock, fileLock, row, events, faults>>
    BY <1>2 DEF vars, ChangeSelection, ledger
  <2> QED
    BY <1>1, <2>1
    DEF BackupInv, Copies, Rows, LockHeld, OwnFiles, CopyComplete, OwnerMarked, LockOfLineage,
        LockFileExplained, BackupReadable, ReadyOnce, AnswerKept, Key, Verified
<1>3. CASE Crash
  BY <1>1, <1>3, CrashInv DEF BackupInv
<1>4. CASE \E r \in Reqs : Request(r)
  BY <1>1, <1>4, RequestInv DEF BackupInv
<1> QED
  BY <1>2, <1>3, <1>4 DEF Next

LEMMA InvCorrect == Spec => []BackupInv
BY InitInv, NextInv, PTL DEF Spec

\* Whatever requests with the same key were refused, cut off, discarded or left half
\* cleaned up, a backup in the ledger can be read, two lineage captures never run at
\* once, and a lock file that is left belongs to a request that a fault ended in its
\* capture (discard_unreferenced, lineage-v3.lock).
THEOREM BackupsKeptCorrect == Spec => []BackupsKept
<1>1. BackupInv => BackupsKept
  BY DEF BackupInv, Copies, Rows, BackupsKept, LockOfLineage, LockFileExplained
<1> QED
  BY <1>1, InvCorrect, PTL

\* A key gets one row and one notification, and an answer once given stays true although
\* commits are repeated after a lost answer.
THEOREM OneBackupCorrect == Spec => []OneBackup
<1>1. BackupInv => OneBackup
  BY DEF BackupInv, Rows, OneBackup
<1> QED
  BY <1>1, InvCorrect, PTL

\* The owner of a capture directory is its owner for ever: a discard leaves the marker,
\* and only the owner writes the copy.
THEOREM MarkerStaysCorrect == Spec => MarkerStays
<1> DEFINE Kept == \A k \in Keys : dir[k].owner # NoReq =>
                     /\ dir'[k].owner = dir[k].owner
                     /\ dir'[k].of \in {dir[k].of, req[dir[k].owner].seen}
                     /\ dir'[k].file \in {"owner", "data", "receipt"}
<1>1. BackupInv /\ [Next]_vars => Kept
  <2> SUFFICES ASSUME BackupInv, [Next]_vars PROVE Kept
    OBVIOUS
  <2>1. CASE UNCHANGED vars
    BY <2>1 DEF vars, BackupInv, Copies, OwnerMarked
  <2>2. CASE ChangeSelection \/ Crash
    BY <2>2 DEF ChangeSelection, Crash, BackupInv, Copies, OwnerMarked
  <2>3. ASSUME NEW r \in Reqs, Request(r) PROVE Kept
    <3> USE DEF BackupInv, Copies, OwnerMarked
    <3>a. Key(r) \in Keys
      BY DEF TypeOK, Key
    <3>1. CASE Resolve(r) \/ Begin(r) \/ LockWriteFails(r) \/ CaptureReceipt(r) \/ FinalCheck(r) \/ Commit(r) \/ Rollback(r)
      BY <3>1 DEF Resolve, Begin, LockWriteFails, CaptureReceipt, FinalCheck, Commit, Rollback
    <3>2. CASE CaptureFile(r)
      <4>1. req[r].pc = "capture"
        BY <3>2 DEF CaptureFile
      <4> QED
        BY <3>2, <3>a, <4>1, CaptureFileGrows DEF Grows, OwnFiles
    <3>4. CASE CaptureRefused(r) \/ CaptureUnavailable(r) \/ CleanupUncertain(r) \/ DiscardFails(r)
      <4>1. \E f \in Files :
              /\ dir' = [dir EXCEPT ![Key(r)].file = f]
              /\ dir[Key(r)].owner # NoReq => f \in {"owner", "data", "receipt"}
        <5>1. dir[Key(r)].file \in Files
          BY <3>a DEF TypeOK
        <5>2. CASE DiscardFails(r)
          BY <3>a, <5>1, <5>2, RemainsOf DEF DiscardFails
        <5> QED
          BY <3>4, <3>a, <5>2, ErrorFile
      <4> QED
        BY <3>a, <4>1 DEF TypeOK
    <3>5. CASE DiscardUnreferenced(r)
      BY <3>5, <3>a DEF DiscardUnreferenced, TypeOK
    <3> QED
      BY <2>3, <3>1, <3>2, <3>4, <3>5 DEF Request
  <2> QED
    BY <2>1, <2>2, <2>3 DEF Next
<1>2. BackupInv /\ [Next]_vars
        => [\A k \in Keys : dir[k].owner # NoReq =>
              /\ dir'[k].owner = dir[k].owner /\ dir'[k].of \in {dir[k].of, req[dir[k].owner].seen}
              /\ dir'[k].file \in {"owner", "data", "receipt"}]_vars
  BY <1>1
<1> QED
  BY <1>2, InvCorrect, PTL DEF Spec, MarkerStays

-----------------------------------------------------------------------------
(***************************************************************************)
(* Notifications, for every number of events, recipients, keys, processes  *)
(* and faults and every size of a page.  The loops keep pages and cursors  *)
(* in memory, and act on them after the tables have moved on: the          *)
(* invariant says what this memory still tells of the tables (LoopsFit),   *)
(* and what an event that has not happened left (Untouched).               *)
(***************************************************************************)
\* The members of a sequence are its head and those of its tail.
LEMMA SeqParts ==
  ASSUME NEW S, NEW s \in Seq(S), s # <<>>
  PROVE  /\ Head(s) \in S /\ Tail(s) \in Seq(S)
         /\ Range(s) = {Head(s)} \cup Range(Tail(s))
<1>1. Len(s) \in Nat /\ Len(s) # 0 /\ s \in [1 .. Len(s) -> S]
  BY EmptySeq, SeqEqual, LenProperties
<1>2. /\ Tail(s) \in Seq(S) /\ Len(Tail(s)) = Len(s) - 1 /\ Head(s) = s[1]
      /\ \A i \in 1 .. Len(Tail(s)) : Tail(s)[i] = s[i + 1]
  BY HeadTailProperties
<1>3. DOMAIN Tail(s) = 1 .. Len(Tail(s)) /\ DOMAIN s = 1 .. Len(s)
  BY <1>1, <1>2, LenProperties
<1>4. Range(s) = {s[i] : i \in 1 .. Len(s)} /\ Range(Tail(s)) = {Tail(s)[i] : i \in 1 .. Len(Tail(s))}
  BY <1>3 DEF Range
<1>5. ASSUME NEW i \in 1 .. Len(s)
      PROVE  s[i] \in {Head(s)} \cup Range(Tail(s))
  <2>1. CASE i = 1
    BY <2>1, <1>2
  <2>2. CASE i # 1
    <3>1. i - 1 \in 1 .. Len(Tail(s)) /\ s[i] = Tail(s)[i - 1]
      BY <1>1, <1>2, <2>2
    <3> QED
      BY <3>1, <1>4
  <2> QED
    BY <2>1, <2>2
<1>6. ASSUME NEW i \in 1 .. Len(Tail(s))
      PROVE  Tail(s)[i] \in Range(s)
  <2>1. i + 1 \in 1 .. Len(s)
    BY <1>1, <1>2
  <2> QED
    BY <2>1, <1>2, <1>4
<1>7. Head(s) \in Range(s) /\ Head(s) \in S
  BY <1>1, <1>2, <1>4
<1> QED
  BY <1>2, <1>4, <1>5, <1>6, <1>7

\* The members of a sequence over a set are in it.
LEMMA RangeIn ==
  ASSUME NEW S, NEW s \in Seq(S)
  PROVE  Range(s) \subseteq S
BY LenProperties DEF Range

\* In a finite set every rank below its size is taken once, so a page has members of the
\* set it is drawn from (InOrder's CHOOSE finds one).
LEMMA RankTaken ==
  ASSUME NEW S, IsFiniteSet(S), NEW key, \A x \in S : key[x] \in Nat,
         \A x, y \in S : key[x] = key[y] => x = y,
         NEW n \in Nat, n < Cardinality(S)
  PROVE  \E x \in S : Cardinality({y \in S : key[y] < key[x]}) = n
<1> DEFINE Below(x) == {y \in S : key[y] < key[x]}
           N == Cardinality(S)
           rank == [x \in S |-> Cardinality(Below(x))]
<1>1. N \in Nat
  BY FS_CardinalityType
<1>2. ASSUME NEW x \in S
      PROVE  IsFiniteSet(Below(x)) /\ Cardinality(Below(x)) \in 0 .. N - 1
  <2>1. /\ IsFiniteSet(Below(x)) /\ Cardinality(Below(x)) <= N
        /\ N = Cardinality(Below(x)) => S = Below(x)
    BY <1>2, FS_Subset
  <2>2. x \notin Below(x)
    BY <1>2
  <2>3. Cardinality(Below(x)) \in Nat /\ Cardinality(Below(x)) # N
    BY <1>2, <2>1, <2>2, FS_CardinalityType
  <2> HIDE DEF Below
  <2> QED
    BY <1>1, <2>1, <2>3
<1>3. ASSUME NEW x \in S, NEW y \in S, key[x] < key[y]
      PROVE  Cardinality(Below(x)) # Cardinality(Below(y))
  <2>1. Below(x) \subseteq Below(y)
    BY <1>3
  <2>2. x \in Below(y) /\ x \notin Below(x)
    BY <1>3
  <2>3. IsFiniteSet(Below(y))
    BY <1>2
  <2> HIDE DEF Below
  <2> QED
    BY <2>1, <2>2, <2>3, FS_Subset
<1>4. rank \in Injection(S, 0 .. N - 1)
  <2>1. rank \in [S -> 0 .. N - 1]
    BY <1>2
  <2>2. ASSUME NEW x \in S, NEW y \in S, rank[x] = rank[y]
        PROVE  x = y
    <3>1. ~(key[x] < key[y]) /\ ~(key[y] < key[x])
      BY <1>3, <2>2
    <3> QED
      BY <3>1
  <2> QED
    BY <2>1, <2>2 DEF Injection, IsInjective
<1>5. IsFiniteSet(0 .. N - 1) /\ Cardinality(0 .. N - 1) = N
  <2>1. 0 \in Int /\ N - 1 \in Int
    BY <1>1
  <2>2. IsFiniteSet(0 .. N - 1) /\ Cardinality(0 .. N - 1) = IF 0 > N - 1 THEN 0 ELSE (N - 1) - 0 + 1
    BY <2>1, FS_Interval
  <2> HIDE DEF N
  <2> QED
    BY <1>1, <2>2
<1> HIDE DEF rank
<1>6. rank \in Surjection(S, 0 .. N - 1)
  BY <1>4, <1>5, FS_Injection
<1>7. \E x \in S : rank[x] = n
  BY <1>1, <1>6 DEF Surjection
<1> QED
  BY <1>7 DEF rank

\* A page is a sequence over the set it is drawn from.
LEMMA PageOf ==
  ASSUME NEW S, IsFiniteSet(S), NEW key, \A x \in S : key[x] \in Nat,
         \A x, y \in S : key[x] = key[y] => x = y
  PROVE  InOrder(S, key) \in Seq(S)
<1> DEFINE n == IF Cardinality(S) < Limit THEN Cardinality(S) ELSE Limit
<1>1. Cardinality(S) \in Nat /\ Limit \in Nat
  BY FS_CardinalityType, NotificationAssumption
<1>2. n \in Nat
  BY <1>1
<1>3. ASSUME NEW i \in 1 .. n
      PROVE  (CHOOSE x \in S : Cardinality({y \in S : key[y] < key[x]}) = i - 1) \in S
  <2>1. i - 1 \in Nat /\ i - 1 < Cardinality(S)
    BY <1>1, <1>3
  <2>2. \E x \in S : Cardinality({y \in S : key[y] < key[x]}) = i - 1
    BY <2>1, RankTaken
  <2> QED
    BY <2>2
<1>4. InOrder(S, key) = [i \in 1 .. n |-> CHOOSE x \in S : Cardinality({y \in S : key[y] < key[x]}) = i - 1]
  BY DEF InOrder
<1> HIDE DEF n
<1>5. InOrder(S, key) \in [1 .. n -> S]
  BY <1>3, <1>4
<1> QED
  BY <1>2, <1>5, SeqDef

-----------------------------------------------------------------------------
\* Where a loop is, what it decided of the sources of a batch, and its memory.
Places == {"idle", "consume", "check", "materialize", "select", "append", "ack"}
Outcomes == UNION {[D -> {"pending", "delivered", "suppressed"}] : D \in SUBSET Events}
Loops == [pc : Places, cursor : Recipients \cup {None}, scopes : Seq(Recipients),
          consumer : Nat, batch : Seq(Events), allowed : BOOLEAN, outcome : Outcomes,
          notices : [Recipients -> Nat], audits : Seq(Events \X Actions)]

\* What the memory of a loop says of the tables: what it is about to
\* materialise has its own audit in the store, what it is about to acknowledge
\* is in the central store, and it holds sources in a transaction only.
Fits(l, o, c, n) ==
    /\ l \in Loops
    /\ l.pc # "idle" => l.scopes # <<>>
    /\ l.pc = "materialize" => l.batch # <<>> /\ Head(l.batch) \in o
    /\ l.pc = "ack" => l.audits # <<>> /\ Head(l.audits) \in c
    /\ l.pc \notin {"check", "materialize"} => l.batch = <<>> /\ DOMAIN l.outcome = {}
    /\ DOMAIN l.outcome \subseteq o
    /\ \A x \in Range(l.audits) : n[x] # "absent"

\* The memory of every loop fits the tables.
LoopsFit ==
    /\ loop \in [Processes -> Loops]
    /\ \A p \in Processes : Fits(loop[p], origin, central, intent)

\* What has not happened left nothing, and an approval notice has no source.
Untouched ==
    /\ \A e \in Events \ happened :
         source[e] = "absent" /\ version[e] = 0 /\ \A a \in Actions : intent[<<e, a>>] = "absent"
    /\ \A e \in Notices : source[e] = "absent"

\* The inductive invariant: the two invariants the run checks, what the
\* memory of the loops says of the tables, and what is untouched.
InboxInv ==
    /\ InboxExact /\ AuditedInOrder /\ LoopsFit /\ Untouched

\* The sources a loop has locked, from its memory.
Holding(l) == Range(l.batch) \cup DOMAIN l.outcome

\* What the tables lose never makes a loop's memory wrong.
LEMMA LoopsKept ==
  ASSUME InboxInv, loop' = loop, origin \subseteq origin', central \subseteq central',
         \A x \in Events \X Actions : intent[x] # "absent" => intent'[x] # "absent",
         \A e \in Events : source[e] = "pending" => source'[e] = "pending"
  PROVE  LoopsFit' /\ HeldAlone'
<1>1. \A p \in Processes : Fits(loop[p], origin, central, intent) /\ loop[p] \in Loops
  BY DEF InboxInv, LoopsFit
<1>2. ASSUME NEW p \in Processes
      PROVE  Fits(loop[p], origin', central', intent')
  <2>1. Range(loop[p].audits) \subseteq Events \X Actions
    BY <1>1, RangeIn DEF Loops
  <2> QED
    BY <1>1, <2>1 DEF Fits
<1>3. LoopsFit'
  BY <1>2 DEF LoopsFit, InboxInv
<1>4. \A p \in Processes : Held(p)' = Held(p) /\ Held(p) \subseteq Events
  <2> SUFFICES ASSUME NEW p \in Processes PROVE Held(p)' = Held(p) /\ Held(p) \subseteq Events
    OBVIOUS
  <2>1. loop[p].batch \in Seq(Events) /\ DOMAIN loop[p].outcome \subseteq Events
    BY <1>1 DEF Loops, Outcomes
  <2>2. Range(loop[p].batch) \subseteq Events
    BY <2>1, RangeIn
  <2> QED
    BY <2>1, <2>2 DEF Held
<1>5. HeldAlone'
  BY <1>4 DEF HeldAlone, InboxInv, InboxExact
<1> QED
  BY <1>3, <1>5

\* A step of one loop: its new memory fits the tables, it holds nothing that
\* another one holds, and what the others hold is still pending.
LEMMA LoopMoved ==
  ASSUME InboxInv, NEW p \in Processes, NEW l, loop' = [loop EXCEPT ![p] = l],
         origin' = origin, central \subseteq central',
         \A x \in Events \X Actions : intent[x] # "absent" => intent'[x] # "absent",
         \A q \in Processes \ {p} : \A e \in Held(q) : source'[e] = source[e] /\ e \notin Holding(l),
         Fits(l, origin', central', intent'),
         \A e \in Holding(l) : source'[e] = "pending"
  PROVE  LoopsFit' /\ HeldAlone'
<1>1. \A q \in Processes : Fits(loop[q], origin, central, intent) /\ loop[q] \in Loops
  BY DEF InboxInv, LoopsFit
<1>2. loop'[p] = l /\ \A q \in Processes \ {p} : loop'[q] = loop[q]
  BY DEF InboxInv, LoopsFit
<1>3. ASSUME NEW q \in Processes
      PROVE  Fits(loop'[q], origin', central', intent')
  <2>1. CASE q = p
    BY <2>1, <1>2
  <2>2. CASE q # p
    <3>1. Range(loop[q].audits) \subseteq Events \X Actions
      BY <1>1, RangeIn DEF Loops
    <3> QED
      BY <1>1, <1>2, <2>2, <3>1 DEF Fits
  <2> QED
    BY <2>1, <2>2
<1>4. LoopsFit'
  <2>1. l \in Loops
    BY DEF Fits
  <2> QED
    BY <2>1, <1>3 DEF LoopsFit, InboxInv
<1>5. Held(p)' = Holding(l) /\ \A q \in Processes \ {p} : Held(q)' = Held(q)
  BY <1>2 DEF Held, Holding
<1>6. \A q \in Processes \ {p} : \A e \in Held(q) :
        source[e] = "pending" /\ \A r \in Processes \ {q} : e \notin Held(r)
  BY DEF InboxInv, InboxExact, HeldAlone
<1>7. HeldAlone'
  BY <1>5, <1>6 DEF HeldAlone
<1> QED
  BY <1>4, <1>7

-----------------------------------------------------------------------------
\* The types of the tables.
TablesTyped ==
    /\ family \in Assignments
    /\ happened \subseteq Events /\ origin \subseteq happened
    /\ denied \subseteq Events \X Facts
    /\ source \in [Events -> {"absent", "pending", "delivered", "suppressed"}]
    /\ version \in [Events -> 0..2]
    /\ intent \in [Events \X Actions -> {"absent", "pending", "delivered"}]
    /\ central \subseteq Events \X Actions
    /\ receipt \in [ReadKeys -> {NoReceipt} \cup (Events \X (1..2))]
    /\ changes \in 0..MaxChanges /\ loopFaults \in 0..MaxLoopFaults

\* The memory of the loops and the types of the tables make the type invariant.
LEMMA LoopsTyped ==
  ASSUME TablesTyped, LoopsFit
  PROVE  InboxTypeOK
<1>1. ASSUME NEW p \in Processes
      PROVE  loop[p].pc \in {"idle", "consume", "check", "materialize", "select", "append", "ack"}
             /\ loop[p].cursor \in Recipients \cup {None}
  <2>1. loop[p] \in Loops
    BY DEF LoopsFit
  <2> QED
    BY <2>1 DEF Loops, Places
<1> QED
  BY <1>1 DEF TablesTyped, InboxTypeOK

\* ...and so after a step.
LEMMA LoopsTypedNext ==
  ASSUME TablesTyped', LoopsFit'
  PROVE  InboxTypeOK'
<1>1. ASSUME NEW p \in Processes
      PROVE  loop'[p].pc \in {"idle", "consume", "check", "materialize", "select", "append", "ack"}
             /\ loop'[p].cursor \in Recipients \cup {None}
  <2>1. loop'[p] \in Loops
    BY DEF LoopsFit
  <2> QED
    BY <2>1 DEF Loops, Places
<1> QED
  BY <1>1 DEF TablesTyped, InboxTypeOK

\* What the tables say of each other.
TablesFit == Accounted /\ ReadOnce /\ AuditTrail /\ OriginFirst /\ Untouched

\* The parts of the invariant, put together after a step.
LEMMA Together ==
  ASSUME InboxInv, TablesTyped', TablesFit', LoopsFit', HeldAlone'
  PROVE  InboxInv'
BY LoopsTypedNext DEF InboxInv, InboxExact, AuditedInOrder, TablesFit

\* A step that leaves the tables alone keeps what is said of them.
LEMMA TablesSame ==
  ASSUME InboxInv, UNCHANGED <<family, durable>>, loopFaults' \in 0 .. MaxLoopFaults
  PROVE  TablesTyped' /\ TablesFit'
<1>1. UNCHANGED <<family, happened, origin, denied, source, version, intent, central, receipt, changes>>
  BY DEF durable
<1>2. TablesTyped'
  BY <1>1 DEF TablesTyped, InboxInv, InboxExact, InboxTypeOK
<1>3. Accounted' /\ OriginFirst' /\ Untouched'
  BY <1>1 DEF Accounted, OriginFirst, Untouched, Notices, InboxInv, InboxExact, AuditedInOrder
<1>4. ReadOnce' /\ AuditTrail'
  BY <1>1 DEF ReadOnce, AuditTrail, InboxInv, InboxExact, AuditedInOrder
<1> QED
  BY <1>2, <1>3, <1>4 DEF TablesFit

\* A step that only changes a loop's memory.
LEMMA MemoryStep ==
  ASSUME InboxInv, NEW p \in Processes, NEW l, loop' = [loop EXCEPT ![p] = l],
         UNCHANGED <<family, durable>>, loopFaults' \in 0 .. MaxLoopFaults,
         Fits(l, origin, central, intent),
         \A e \in Holding(l) : e \in Held(p) \/
            (source[e] = "pending" /\ \A q \in Processes \ {p} : e \notin Held(q))
  PROVE  InboxInv'
<1>1. UNCHANGED <<origin, source, intent, central>>
  BY DEF durable
<1>2. \A q \in Processes : \A e \in Held(q) :
        source[e] = "pending" /\ \A r \in Processes \ {q} : e \notin Held(r)
  BY DEF InboxInv, InboxExact, HeldAlone
<1>3. \A e \in Holding(l) : source[e] = "pending" /\ \A q \in Processes \ {p} : e \notin Held(q)
  BY <1>2
<1>4. LoopsFit' /\ HeldAlone'
  BY <1>1, <1>3, LoopMoved
<1> QED
  BY <1>4, TablesSame, Together

\* What the queries of a step return.
LEMMA PageOfNaturals ==
  ASSUME NEW S, IsFiniteSet(S), S \subseteq Nat
  PROVE  FirstOf(S) \in Seq(S)
<1> DEFINE key == [x \in S |-> x]
<1>1. \A x \in S : key[x] \in Nat
  OBVIOUS
<1>2. \A x, y \in S : key[x] = key[y] => x = y
  OBVIOUS
<1>3. FirstOf(S) = InOrder(S, key)
  BY DEF FirstOf
<1> HIDE DEF key
<1> QED
  BY <1>1, <1>2, <1>3, PageOf

\* A page of recipients.
LEMMA PageOfScopes ==
  ASSUME NEW p \in Processes
  PROVE  NextPage(p) \in Seq(Recipients)
<1> DEFINE E == {x \in Events : \/ source[x] = "pending"
                                \/ \E a \in Actions : intent[<<x, a>>] = "pending"
                                \/ Unprojected(x)}
           f == [e \in E |-> RecipientOf[e]]
           T == {r \in PendingScopes : r > loop[p].cursor}
<1>1. IsFiniteSet(E)
  BY NotificationAssumption, FS_Subset
<1>2. PendingScopes = {RecipientOf[e] : e \in E}
  BY DEF PendingScopes
<1> HIDE DEF E
<1>3. f \in Surjection(E, PendingScopes)
  BY <1>2 DEF Surjection
<1>4. IsFiniteSet(PendingScopes)
  BY <1>1, <1>3, FS_Surjection
<1>5. PendingScopes \subseteq Recipients
  BY <1>2, NotificationAssumption DEF E
<1>6. IsFiniteSet(T) /\ T \subseteq Recipients /\ T \subseteq Nat
  BY <1>4, <1>5, FS_Subset, NotificationAssumption
<1>7. NextPage(p) = FirstOf(T)
  BY DEF NextPage
<1> HIDE DEF T
<1>8. NextPage(p) \in Seq(T)
  BY <1>6, <1>7, PageOfNaturals
<1> QED
  BY <1>6, <1>8, SeqMonotonic

\* A page of events.
LEMMA PageOfEvents ==
  ASSUME NEW S, S \subseteq Events
  PROVE  /\ FirstOf(S) \in Seq(Events) /\ Range(FirstOf(S)) \subseteq S
<1>1. IsFiniteSet(S) /\ S \subseteq Nat
  BY NotificationAssumption, FS_Subset
<1>2. FirstOf(S) \in Seq(S)
  BY <1>1, PageOfNaturals
<1> QED
  BY <1>2, RangeIn, SeqMonotonic

\* An intent is an event and an action.
LEMMA PairIs ==
  ASSUME NEW A, NEW B, NEW x \in A \X B
  PROVE  x[1] \in A /\ x[2] \in B /\ x = <<x[1], x[2]>>
OBVIOUS

\* A page of intents holds pending ones.
LEMMA PageOfAudits ==
  ASSUME NEW r, InboxInv
  PROVE  /\ PendingAudits(r) \in Seq(Events \X Actions)
         /\ \A x \in Range(PendingAudits(r)) : intent[x] # "absent"
<1> DEFINE S == {x \in Events \X Actions : intent[x] = "pending" /\ RecipientOf[x[1]] = r}
           key == [x \in Events \X Actions |-> 2 * x[1] + (IF x[2] = "created" THEN 0 ELSE 1)]
<1>1. IsFiniteSet(S)
  <2>1. IsFiniteSet({"created"}) /\ Actions = {"created"} \cup {"read"}
    BY FS_Singleton DEF Actions
  <2>3. IsFiniteSet(Events) /\ IsFiniteSet(Actions)
    BY NotificationAssumption, <2>1, FS_AddElement
  <2>2. IsFiniteSet(Events \X Actions)
    BY <2>3, FS_Product
  <2> QED
    BY <2>2, FS_Subset
<1>2. ASSUME NEW x \in S
      PROVE  x[1] \in Nat /\ x[2] \in Actions /\ x = <<x[1], x[2]>>
             /\ key[x] = 2 * x[1] + (IF x[2] = "created" THEN 0 ELSE 1) /\ key[x] \in Nat
  <2>1. x[1] \in Nat /\ x[2] \in Actions /\ x = <<x[1], x[2]>> /\ x \in Events \X Actions
    <3>1. Events \subseteq Nat /\ x \in Events \X Actions
      BY <1>2, NotificationAssumption
    <3> QED
      BY <3>1, PairIs
  <2>2. key[x] = 2 * x[1] + (IF x[2] = "created" THEN 0 ELSE 1)
    BY <2>1
  <2> HIDE DEF key
  <2> QED
    BY <2>1, <2>2
<1>3. PendingAudits(r) = InOrder(S, key)
  BY DEF PendingAudits
<1> HIDE DEF S, key
<1>4. ASSUME NEW x \in S, NEW y \in S, key[x] = key[y]
      PROVE  x = y
  <2>1. x[1] = y[1] /\ ((x[2] = "created") <=> (y[2] = "created"))
    BY <1>2, <1>4
  <2>2. x[2] = y[2]
    BY <1>2, <2>1 DEF Actions
  <2> QED
    BY <1>2, <2>1, <2>2
<1>5. PendingAudits(r) \in Seq(S)
  BY <1>1, <1>2, <1>3, <1>4, PageOf
<1>6. Range(PendingAudits(r)) \subseteq S /\ S \subseteq Events \X Actions
  BY <1>5, RangeIn DEF S
<1> QED
  BY <1>5, <1>6, SeqMonotonic DEF S

-----------------------------------------------------------------------------
\* Outside of a batch a loop has locked nothing.
LEMMA NothingHeld ==
  /\ Range(<<>>) = {} /\ DOMAIN NoOutcome = {} /\ NoOutcome \in Outcomes
  /\ \A S : <<>> \in Seq(S)
<1>1. Range(<<>>) = {}
  BY DEF Range
<1>2. DOMAIN NoOutcome = {}
  BY DEF NoOutcome
<1>3. NoOutcome \in [{} -> {"pending", "delivered", "suppressed"}]
  BY DEF NoOutcome
<1>4. {} \in SUBSET Events
  OBVIOUS
<1>5. NoOutcome \in Outcomes
  BY <1>3, <1>4 DEF Outcomes
<1> QED
  BY <1>1, <1>2, <1>5, EmptySeq

\* What the invariant says of one loop.
LEMMA LoopOf ==
  ASSUME InboxInv, NEW p \in Processes
  PROVE  loop[p] \in Loops /\ Fits(loop[p], origin, central, intent)
BY DEF InboxInv, LoopsFit

\* The faults stay within their bound.
LEMMA FaultsCount ==
  ASSUME InboxInv, loopFaults' = loopFaults \/ (loopFaults < MaxLoopFaults /\ loopFaults' =
     loopFaults + 1)
  PROVE  loopFaults' \in 0 .. MaxLoopFaults
<1>1. loopFaults \in 0 .. MaxLoopFaults /\ MaxLoopFaults \in Nat
  BY NotificationAssumption DEF InboxInv, InboxExact, InboxTypeOK
<1> QED
  BY <1>1

\* Discover changes only the pages of the loop.
LEMMA DiscoverInv ==
  ASSUME InboxInv, NEW p \in Processes, Discover(p)
  PROVE  InboxInv'
<1> DEFINE l == loop[p]
           page == NextPage(p)
           m == IF page = <<>> THEN [l EXCEPT !.cursor = None]
                ELSE [l EXCEPT !.pc = "consume", !.scopes = page, !.consumer = 1]
<1>1. l \in Loops /\ Fits(l, origin, central, intent) /\ l.pc = "idle"
  BY LoopOf DEF Discover
<1>2. loop' = [loop EXCEPT ![p] = m] /\ UNCHANGED <<family, durable, loopFaults>>
  BY DEF Discover, Put, Wrap
<1>3. page \in Seq(Recipients)
  BY PageOfScopes
<1>4. l.batch = <<>> /\ DOMAIN l.outcome = {}
  BY <1>1 DEF Fits
<1> HIDE DEF l, page
<1>5. /\ m \in Loops /\ m.batch = l.batch /\ m.outcome = l.outcome /\ m.audits = l.audits
      /\ m.pc \in {"idle", "consume"} /\ (m.pc # "idle" => m.scopes # <<>>)
  <2>1. CASE page = <<>>
    BY <1>1, <2>1 DEF Loops
  <2>2. CASE page # <<>>
    BY <1>1, <1>3, <2>2 DEF Loops, Places
  <2> QED
    BY <2>1, <2>2
<1> HIDE DEF m
<1>6. Fits(m, origin, central, intent) /\ Holding(m) = {}
  BY <1>1, <1>4, <1>5, NothingHeld DEF Fits, Holding
<1> QED
  BY <1>2, <1>6, FaultsCount, MemoryStep

\* The loop goes on to its next consumer, whatever its transaction was.
LEMMA ConsumerMoves ==
  ASSUME InboxInv, NEW p \in Processes, loop[p].pc \in {"consume", "check", "materialize"},
         NEW o, NEW c, NEW n, Fits(loop[p], o, c, n)
  PROVE  Fits(NextConsumer(loop[p]), o, c, n) /\ Holding(NextConsumer(loop[p])) = {}
<1> DEFINE l == loop[p]
           k == l.consumer + 1
           m == [l EXCEPT !.consumer = k, !.pc = "consume", !.batch = <<>>, !.outcome = NoOutcome]
<1>1. l \in Loops /\ l.consumer \in Nat
  BY LoopOf DEF Loops
<1>0. k \in Nat /\ <<>> \in Seq(Events)
  BY <1>1, NothingHeld
<1>2. NextConsumer(l) = m
  BY DEF NextConsumer
<1>3. l.scopes # <<>> /\ \A x \in Range(l.audits) : n[x] # "absent"
  BY DEF Fits
<1> HIDE DEF l, k
<1>4. /\ m \in Loops /\ m.pc = "consume" /\ m.batch = <<>> /\ m.outcome = NoOutcome
      /\ m.scopes = l.scopes /\ m.audits = l.audits
  BY <1>0, <1>1, NothingHeld DEF Loops, Places
<1> HIDE DEF m
<1>5. Fits(m, o, c, n) /\ Holding(m) = {}
  BY <1>3, <1>4, NothingHeld DEF Fits, Holding
<1> QED
  BY <1>2, <1>5 DEF l

\* A batch locks pending sources that no other loop has locked.
LEMMA LockBatchInv ==
  ASSUME InboxInv, NEW p \in Processes, LockBatch(p)
  PROVE  InboxInv'
<1> DEFINE l == loop[p]
           f == Consumers[l.consumer]
           r == Head(l.scopes)
           S == {e \in Events : /\ source[e] = "pending"
                                /\ family[e] = f
                                /\ RecipientOf[e] = r
                                /\ \A q \in Processes \ {p} : e \notin Held(q)}
           batch == FirstOf(S)
           m == [l EXCEPT !.pc = "check", !.batch = batch]
<1>1. l \in Loops /\ Fits(l, origin, central, intent) /\ l.pc = "consume"
  BY LoopOf DEF LockBatch
<1>2. /\ loop' = [loop EXCEPT ![p] = IF batch = <<>> THEN NextConsumer(l) ELSE m]
      /\ UNCHANGED <<family, durable, loopFaults>>
  BY DEF LockBatch, Put, Batch
<1>3. batch \in Seq(Events) /\ Range(batch) \subseteq S
  BY PageOfEvents
<1>4. \A e \in S : source[e] = "pending" /\ \A q \in Processes \ {p} : e \notin Held(q)
  OBVIOUS
<1>5. CASE batch = <<>>
  <2>1. Fits(NextConsumer(l), origin, central, intent) /\ Holding(NextConsumer(l)) = {}
    BY <1>1, ConsumerMoves
  <2>2. loop' = [loop EXCEPT ![p] = NextConsumer(l)]
    BY <1>2, <1>5
  <2> HIDE DEF l, batch, S
  <2> QED
    BY <2>1, <2>2, <1>2, FaultsCount, MemoryStep
<1>6. CASE batch # <<>>
  <2>1. DOMAIN l.outcome = {} /\ l.scopes # <<>> /\ \A x \in Range(l.audits) : intent[x] # "absent"
    BY <1>1 DEF Fits
  <2>2. loop' = [loop EXCEPT ![p] = m]
    BY <1>2, <1>6
  <2> HIDE DEF l, batch, S
  <2>3. /\ m \in Loops /\ m.pc = "check" /\ m.batch = batch /\ m.outcome = l.outcome
        /\ m.scopes = l.scopes /\ m.audits = l.audits
    BY <1>1, <1>3 DEF Loops, Places
  <2> HIDE DEF m
  <2>4. Fits(m, origin, central, intent) /\ Holding(m) = Range(batch)
    BY <2>1, <2>3 DEF Fits, Holding
  <2>5. \A e \in Holding(m) : source[e] = "pending" /\ \A q \in Processes \ {p} : e \notin Held(q)
    BY <2>4, <1>3, <1>4
  <2>6. UNCHANGED <<family, durable>> /\ loopFaults' \in 0 .. MaxLoopFaults
    BY <1>2, FaultsCount
  <2> QED
    BY <2>2, <2>4, <2>5, <2>6, MemoryStep
<1> QED
  BY <1>5, <1>6

\* What is checked and goes on has its own audit in the store.
LEMMA CheckInv ==
  ASSUME InboxInv, NEW p \in Processes, Check(p)
  PROVE  InboxInv'
<1> DEFINE l == loop[p]
           e == Head(l.batch)
           m == IF Ready(e) THEN [l EXCEPT !.pc = "materialize", !.allowed = PythonAllows(e)]
                ELSE [l EXCEPT !.batch = Tail(l.batch)]
<1>1. l \in Loops /\ Fits(l, origin, central, intent) /\ l.pc = "check" /\ l.batch # <<>>
  BY LoopOf DEF Check
<1>2. loop' = [loop EXCEPT ![p] = m] /\ UNCHANGED <<family, durable, loopFaults>>
  BY DEF Check, Put
<1>3. l.batch \in Seq(Events)
  BY <1>1 DEF Loops
<1>4. Tail(l.batch) \in Seq(Events) /\ Range(Tail(l.batch)) \subseteq Range(l.batch)
  BY <1>1, <1>3, SeqParts
<1>5. PythonAllows(e) \in BOOLEAN
  BY DEF PythonAllows, Holds
<1>6. Holding(l) = Held(p)
  BY DEF Holding, Held
<1> HIDE DEF l
<1>7. /\ m \in Loops /\ m.outcome = l.outcome /\ m.scopes = l.scopes /\ m.audits = l.audits
      /\ m.pc \in {"check", "materialize"} /\ Range(m.batch) \subseteq Range(l.batch)
      /\ m.pc = "materialize" => m.batch = l.batch /\ Ready(e)
  <2>1. CASE Ready(e)
    BY <1>1, <1>5, <2>1 DEF Loops, Places
  <2>2. CASE ~Ready(e)
    BY <1>1, <1>4, <2>2 DEF Loops, Places
  <2> QED
    BY <2>1, <2>2
<1> HIDE DEF m
<1>8. Fits(m, origin, central, intent) /\ Holding(m) \subseteq Held(p)
  BY <1>1, <1>6, <1>7 DEF Fits, Holding, Ready
<1> QED
  BY <1>2, <1>8, FaultsCount, MemoryStep

\* A source moves from the batch to the outcomes, and stays locked.
LEMMA MaterializeInv ==
  ASSUME InboxInv, NEW p \in Processes, Materialize(p)
  PROVE  InboxInv'
<1> DEFINE l == loop[p]
           e == Head(l.batch)
           w == [x \in {e} \cup DOMAIN l.outcome |->
                   IF x = e THEN Outcome(e, l.allowed) ELSE l.outcome[x]]
           m == [l EXCEPT !.pc = "check", !.batch = Tail(l.batch), !.outcome = w]
<1>1. l \in Loops /\ Fits(l, origin, central, intent) /\ l.pc = "materialize"
  BY LoopOf DEF Materialize
<1>2. loop' = [loop EXCEPT ![p] = m] /\ UNCHANGED <<family, durable, loopFaults>>
  BY DEF Materialize, Put
<1>3. l.batch \in Seq(Events) /\ l.batch # <<>> /\ e \in origin
  BY <1>1 DEF Loops, Fits
<1>4. /\ Tail(l.batch) \in Seq(Events) /\ e \in Events
      /\ Range(l.batch) = {e} \cup Range(Tail(l.batch))
  BY <1>3, SeqParts
<1>5. w \in Outcomes /\ DOMAIN w = {e} \cup DOMAIN l.outcome
  <2>1. PICK D \in SUBSET Events : l.outcome \in [D -> {"pending", "delivered", "suppressed"}]
    BY <1>1 DEF Loops, Outcomes
  <2>2. Outcome(e, l.allowed) \in {"pending", "delivered", "suppressed"}
    BY DEF Outcome
  <2>3. DOMAIN l.outcome = D /\ {e} \cup D \in SUBSET Events
    BY <2>1, <1>4
  <2>4. w \in [{e} \cup D -> {"pending", "delivered", "suppressed"}]
    BY <2>1, <2>2, <2>3
  <2> QED
    BY <2>3, <2>4 DEF Outcomes
<1>6. Held(p) = Range(l.batch) \cup DOMAIN l.outcome
  BY DEF Held
<1>7. l.scopes # <<>> /\ DOMAIN l.outcome \subseteq origin /\ \A x \in Range(l.audits) : intent[x] # "absent"
  BY <1>1 DEF Fits
<1> HIDE DEF l, e, w
<1>8. /\ m \in Loops /\ m.pc = "check" /\ m.batch = Tail(l.batch) /\ m.outcome = w
      /\ m.scopes = l.scopes /\ m.audits = l.audits
  BY <1>1, <1>4, <1>5 DEF Loops, Places
<1> HIDE DEF m
<1>9. Fits(m, origin, central, intent) /\ Holding(m) \subseteq Held(p)
  BY <1>3, <1>4, <1>5, <1>6, <1>7, <1>8 DEF Fits, Holding
<1> QED
  BY <1>2, <1>9, FaultsCount, MemoryStep

\* The selected intents are pending.
LEMMA SelectAuditsInv ==
  ASSUME InboxInv, NEW p \in Processes, SelectAudits(p)
  PROVE  InboxInv'
<1> DEFINE l == loop[p]
           a == PendingAudits(Head(l.scopes))
           m == [l EXCEPT !.pc = "append", !.audits = a]
<1>1. l \in Loops /\ Fits(l, origin, central, intent) /\ l.pc = "select"
  BY LoopOf DEF SelectAudits
<1>2. loop' = [loop EXCEPT ![p] = m] /\ UNCHANGED <<family, durable, loopFaults>>
  BY DEF SelectAudits, Put
<1>3. a \in Seq(Events \X Actions) /\ \A x \in Range(a) : intent[x] # "absent"
  BY PageOfAudits
<1>4. l.batch = <<>> /\ DOMAIN l.outcome = {} /\ l.scopes # <<>>
  BY <1>1 DEF Fits
<1> HIDE DEF l, a
<1>5. /\ m \in Loops /\ m.pc = "append" /\ m.batch = l.batch /\ m.outcome = l.outcome
      /\ m.scopes = l.scopes /\ m.audits = a
  BY <1>1, <1>3 DEF Loops, Places
<1> HIDE DEF m
<1>6. Fits(m, origin, central, intent) /\ Holding(m) = {}
  BY <1>3, <1>4, <1>5, NothingHeld DEF Fits, Holding
<1> QED
  BY <1>2, <1>6, FaultsCount, MemoryStep

\* The next recipient: only the memory of the loop changes.
LEMMA NextScopeInv ==
  ASSUME InboxInv, NEW p \in Processes, NextScope(p)
  PROVE  InboxInv'
<1> DEFINE l == loop[p]
           d == [l EXCEPT !.cursor = Head(l.scopes), !.scopes = Tail(l.scopes), !.consumer = 1]
           m == [d EXCEPT !.pc = IF d.scopes = <<>> THEN "idle" ELSE "consume"]
<1>1. /\ l \in Loops /\ Fits(l, origin, central, intent) /\ l.pc = "append" /\ l.audits = <<>>
  BY LoopOf DEF NextScope
<1>2. loop' = [loop EXCEPT ![p] = m] /\ UNCHANGED <<family, durable, loopFaults>>
  BY DEF NextScope, Put
<1>3. l.batch = <<>> /\ DOMAIN l.outcome = {} /\ l.scopes # <<>> /\ l.scopes \in Seq(Recipients)
  BY <1>1 DEF Fits, Loops
<1>4. Head(l.scopes) \in Recipients /\ Tail(l.scopes) \in Seq(Recipients)
  BY <1>3, SeqParts
<1> HIDE DEF l
<1>5. /\ d \in Loops /\ d.batch = l.batch /\ d.outcome = l.outcome /\ d.audits = l.audits
  BY <1>1, <1>4 DEF Loops
<1> HIDE DEF d
<1>6. /\ m \in Loops /\ m.batch = l.batch /\ m.outcome = l.outcome /\ m.audits = l.audits
      /\ m.scopes = d.scopes /\ m.pc \in {"idle", "consume"} /\ (m.pc # "idle" => d.scopes # <<>>)
  BY <1>5 DEF Loops, Places
<1> HIDE DEF m
<1>7. Fits(m, origin, central, intent) /\ Holding(m) = {}
  BY <1>1, <1>3, <1>6, NothingHeld DEF Fits, Holding
<1> QED
  BY <1>2, <1>7, FaultsCount, MemoryStep

\* A failed batch gives its locks back and settles nothing.
LEMMA FailBatchInv ==
  ASSUME InboxInv, NEW p \in Processes, FailBatch(p)
  PROVE  InboxInv'
<1>1. Fits(NextConsumer(loop[p]), origin, central, intent) /\ Holding(NextConsumer(loop[p])) = {}
  BY LoopOf, ConsumerMoves DEF FailBatch
<1>2. /\ loop' = [loop EXCEPT ![p] = NextConsumer(loop[p])] /\ UNCHANGED <<family, durable>>
      /\ loopFaults < MaxLoopFaults /\ loopFaults' = loopFaults + 1
  BY DEF FailBatch, Put
<1>3. loopFaults' \in 0 .. MaxLoopFaults
  BY <1>2, FaultsCount
<1> QED
  BY <1>1, <1>2, <1>3, MemoryStep

\* The memory of a loop that has just started fits any tables.
LEMMA IdleFits ==
  ASSUME NEW o, NEW c, NEW n
  PROVE  Fits(IdleLoop, o, c, n) /\ Holding(IdleLoop) = {}
<1>1. /\ IdleLoop.pc = "idle" /\ IdleLoop.cursor = None /\ IdleLoop.scopes = <<>> /\ IdleLoop.consumer = 1
      /\ IdleLoop.batch = <<>> /\ IdleLoop.allowed = FALSE /\ IdleLoop.outcome = NoOutcome
      /\ IdleLoop.notices = [r \in Recipients |-> None] /\ IdleLoop.audits = <<>>
  BY DEF IdleLoop
<1>2. [r \in Recipients |-> None] \in [Recipients -> Nat]
  BY DEF None
<1>3. IdleLoop \in Loops
  BY <1>2, NothingHeld DEF IdleLoop, Loops, Places
<1> QED
  BY <1>1, <1>3, NothingHeld DEF Fits, Holding

\* A restart forgets the memory and the locks of a loop.
LEMMA RestartInv ==
  ASSUME InboxInv, NEW p \in Processes, Restart(p)
  PROVE  InboxInv'
<1>1. /\ loop' = [loop EXCEPT ![p] = IdleLoop] /\ UNCHANGED <<family, durable>>
      /\ loopFaults < MaxLoopFaults /\ loopFaults' = loopFaults + 1
  BY DEF Restart, Put
<1>2. loopFaults' \in 0 .. MaxLoopFaults
  BY <1>1, FaultsCount
<1> QED
  BY <1>1, <1>2, IdleFits, MemoryStep

-----------------------------------------------------------------------------
\* The tables after a step that records or acknowledges intents, or appends to the central
\* store, and leaves sources, notifications and receipts alone.
LEMMA IntentsStep ==
  ASSUME InboxInv, UNCHANGED <<family, happened, origin, denied, source, version, receipt,
     changes>>,
         loopFaults' \in 0 .. MaxLoopFaults,
         intent' \in [Events \X Actions -> {"absent", "pending", "delivered"}],
         central' \subseteq Events \X Actions,
         \A x \in Events \X Actions : intent[x] # "absent" => intent'[x] # "absent",
         \A x \in Events \X Actions : intent[x] = "absent" /\ intent'[x] # "absent" =>
            x[2] = "created" /\ x[1] \in Notices /\ x[1] \in happened,
         AuditTrail'
  PROVE  TablesTyped' /\ TablesFit'
<1>1. TablesTyped'
  BY DEF TablesTyped, InboxInv, InboxExact, InboxTypeOK
<1>2. ASSUME NEW e \in Events
      PROVE  /\ (intent'[<<e, "read">>] = "absent") <=> (intent[<<e, "read">>] = "absent")
             /\ intent[<<e, "created">>] # "absent" => intent'[<<e, "created">>] # "absent"
             /\ e \notin Notices => ((intent'[<<e, "created">>] = "absent") <=> (intent[<<e, "created">>] = "absent"))
             /\ e \notin happened => ((intent'[<<e, "created">>] = "absent") <=> (intent[<<e, "created">>] = "absent"))
  <2>1. <<e, "read">> \in Events \X Actions /\ <<e, "created">> \in Events \X Actions
    BY DEF Actions
  <2>2. <<e, "read">>[2] = "read" /\ <<e, "created">>[1] = e
    OBVIOUS
  <2> QED
    BY <2>1, <2>2
<1>3. Notices' = Notices
  BY DEF Notices
<1>4. Accounted'
  BY <1>2, <1>3 DEF Accounted, InboxInv, InboxExact
<1>5. ReadOnce'
  BY <1>2, ZenonT(60) DEF ReadOnce, InboxInv, InboxExact
<1>6. OriginFirst'
  BY DEF OriginFirst, InboxInv, AuditedInOrder
<1>7. Untouched'
  BY <1>2, <1>3 DEF Untouched, Actions, InboxInv
<1> QED
  BY <1>1, <1>4, <1>5, <1>6, <1>7 DEF TablesFit

\* An intent that exists reaches the central store.
LEMMA AppendAuditInv ==
  ASSUME InboxInv, NEW p \in Processes, AppendAudit(p)
  PROVE  InboxInv'
<1> DEFINE l == loop[p]
           m == [l EXCEPT !.pc = "ack"]
<1>1. /\ l \in Loops /\ Fits(l, origin, central, intent) /\ l.pc = "append" /\ l.audits # <<>>
      /\ l.audits \in Seq(Events \X Actions)
  BY LoopOf DEF AppendAudit, Loops
<1>2. /\ loop' = [loop EXCEPT ![p] = m] /\ central' = central \cup {Head(l.audits)}
      /\ UNCHANGED <<family, happened, origin, denied, source, version, intent, receipt, changes, loopFaults>>
  BY DEF AppendAudit, Put
<1>3. Head(l.audits) \in Events \X Actions /\ Head(l.audits) \in Range(l.audits)
  BY <1>1, SeqParts
<1>4. intent[Head(l.audits)] # "absent" /\ l.batch = <<>> /\ DOMAIN l.outcome = {} /\ l.scopes # <<>>
  BY <1>1, <1>3 DEF Fits
<1> HIDE DEF l
<1>5. /\ m \in Loops /\ m.pc = "ack" /\ m.batch = l.batch /\ m.outcome = l.outcome
      /\ m.scopes = l.scopes /\ m.audits = l.audits
  BY <1>1 DEF Loops, Places
<1> HIDE DEF m
<1>6. Fits(m, origin, central', intent) /\ Holding(m) = {}
  BY <1>1, <1>2, <1>4, <1>5, NothingHeld DEF Fits, Holding
<1>7. LoopsFit' /\ HeldAlone'
  BY <1>2, <1>6, LoopMoved
<1>8. AuditTrail'
  BY <1>2, <1>4 DEF AuditTrail, InboxInv, AuditedInOrder
<1>9. /\ central' \subseteq Events \X Actions /\ loopFaults' \in 0 .. MaxLoopFaults
      /\ intent' \in [Events \X Actions -> {"absent", "pending", "delivered"}]
  BY <1>2, <1>3, FaultsCount DEF InboxInv, InboxExact, InboxTypeOK
<1>10. TablesTyped' /\ TablesFit'
  BY <1>2, <1>8, <1>9, IntentsStep
<1> QED
  BY <1>7, <1>10, Together

\* Only what is in the central store is acknowledged.
LEMMA AckAuditInv ==
  ASSUME InboxInv, NEW p \in Processes, AckAudit(p)
  PROVE  InboxInv'
<1> DEFINE l == loop[p]
           h == Head(l.audits)
           m == [l EXCEPT !.pc = "append", !.audits = Tail(l.audits)]
<1>1. /\ l \in Loops /\ Fits(l, origin, central, intent) /\ l.pc = "ack"
      /\ l.audits \in Seq(Events \X Actions) /\ l.audits # <<>> /\ h \in central
      /\ l.batch = <<>> /\ DOMAIN l.outcome = {} /\ l.scopes # <<>>
      /\ \A x \in Range(l.audits) : intent[x] # "absent"
  BY LoopOf DEF AckAudit, Loops, Fits
<1>2. /\ loop' = [loop EXCEPT ![p] = m]
      /\ intent' = [intent EXCEPT ![h] = IF intent[h] = "pending" THEN "delivered" ELSE intent[h]]
      /\ UNCHANGED <<family, happened, origin, denied, source, version, central, receipt, changes, loopFaults>>
  BY DEF AckAudit, Put, Acked
<1>3. /\ h \in Events \X Actions /\ Tail(l.audits) \in Seq(Events \X Actions)
      /\ Range(Tail(l.audits)) \subseteq Range(l.audits)
  BY <1>1, SeqParts
<1>4. /\ intent \in [Events \X Actions -> {"absent", "pending", "delivered"}]
      /\ central \subseteq Events \X Actions
  BY DEF InboxInv, InboxExact, InboxTypeOK
<1> HIDE DEF l, h
<1>5. /\ m \in Loops /\ m.pc = "append" /\ m.batch = l.batch /\ m.outcome = l.outcome
      /\ m.scopes = l.scopes /\ m.audits = Tail(l.audits)
  BY <1>1, <1>3 DEF Loops, Places
<1> HIDE DEF m
<1>6. /\ intent' \in [Events \X Actions -> {"absent", "pending", "delivered"}]
      /\ \A x \in Events \X Actions : (intent'[x] = "absent") <=> (intent[x] = "absent")
      /\ \A x \in Events \X Actions : x # h => intent'[x] = intent[x]
  BY <1>2, <1>3, <1>4
<1>7. Fits(m, origin, central, intent') /\ Holding(m) = {}
  <2>1. Range(l.audits) \subseteq Events \X Actions
    BY <1>1, RangeIn
  <2>2. \A x \in Range(m.audits) : intent'[x] # "absent"
    BY <2>1, <1>1, <1>3, <1>5, <1>6
  <2> QED
    BY <1>1, <1>5, <2>2, NothingHeld DEF Fits, Holding
<1>8. LoopsFit' /\ HeldAlone'
  BY <1>2, <1>6, <1>7, LoopMoved
<1>9. AuditTrail'
  BY <1>1, <1>2, <1>6 DEF AuditTrail, InboxInv, AuditedInOrder
<1>10. TablesTyped' /\ TablesFit'
  BY <1>2, <1>4, <1>6, <1>9, FaultsCount, IntentsStep
<1> QED
  BY <1>8, <1>10, Together

\* A failed delivery acknowledges nothing, whether the store got it or not.
LEMMA FailAuditInv ==
  ASSUME InboxInv, NEW p \in Processes, FailAudit(p)
  PROVE  InboxInv'
<1> DEFINE l == loop[p]
           h == Head(l.audits)
           m == [l EXCEPT !.pc = "append", !.audits = Tail(l.audits)]
<1>1. /\ l \in Loops /\ Fits(l, origin, central, intent) /\ l.pc \in {"append", "ack"}
      /\ l.audits \in Seq(Events \X Actions) /\ l.audits # <<>>
      /\ l.batch = <<>> /\ DOMAIN l.outcome = {} /\ l.scopes # <<>>
      /\ \A x \in Range(l.audits) : intent[x] # "absent"
  BY LoopOf DEF FailAudit, Loops, Fits
<1>2. /\ loop' = [loop EXCEPT ![p] = m] /\ central' \in {central, central \cup {h}}
      /\ UNCHANGED <<family, happened, origin, denied, source, version, intent, receipt, changes>>
      /\ loopFaults < MaxLoopFaults /\ loopFaults' = loopFaults + 1
  BY DEF FailAudit, Put
<1>3. /\ h \in Events \X Actions /\ Tail(l.audits) \in Seq(Events \X Actions)
      /\ Range(Tail(l.audits)) \subseteq Range(l.audits) /\ h \in Range(l.audits)
  BY <1>1, SeqParts
<1>4. /\ intent \in [Events \X Actions -> {"absent", "pending", "delivered"}]
      /\ central \subseteq Events \X Actions
  BY DEF InboxInv, InboxExact, InboxTypeOK
<1> HIDE DEF l, h
<1>5. /\ m \in Loops /\ m.pc = "append" /\ m.batch = l.batch /\ m.outcome = l.outcome
      /\ m.scopes = l.scopes /\ m.audits = Tail(l.audits)
  BY <1>1, <1>3 DEF Loops, Places
<1> HIDE DEF m
<1>6. Fits(m, origin, central', intent) /\ Holding(m) = {}
  BY <1>1, <1>3, <1>5, NothingHeld DEF Fits, Holding
<1>7. LoopsFit' /\ HeldAlone'
  BY <1>2, <1>6, LoopMoved
<1>8. AuditTrail'
  BY <1>1, <1>2, <1>3 DEF AuditTrail, InboxInv, AuditedInOrder
<1>9. central' \subseteq Events \X Actions /\ loopFaults' \in 0 .. MaxLoopFaults
  BY <1>2, <1>3, <1>4, FaultsCount
<1>10. TablesTyped' /\ TablesFit'
  BY <1>2, <1>4, <1>8, <1>9, IntentsStep
<1> QED
  BY <1>7, <1>10, Together

\* A set that is not empty has a page that is not empty.
LEMMA PageNotEmpty ==
  ASSUME NEW S, S \subseteq Events, S # {}
  PROVE  FirstOf(S) # <<>>
<1> DEFINE n == IF Cardinality(S) < Limit THEN Cardinality(S) ELSE Limit
<1>1. IsFiniteSet(S)
  BY NotificationAssumption, FS_Subset
<1>2. Cardinality(S) \in Nat /\ Cardinality(S) # 0
  BY <1>1, FS_CardinalityType, FS_EmptySet
<1>3. Limit \in Nat \ {0}
  BY NotificationAssumption
<1>4. 1 \in 1 .. n
  BY <1>2, <1>3
<1>5. DOMAIN FirstOf(S) = 1 .. n
  BY DEF FirstOf, InOrder
<1>6. DOMAIN <<>> = {}
  OBVIOUS
<1> HIDE DEF n
<1> QED
  BY <1>4, <1>5, <1>6

\* A notice that exists gets its intent once.
LEMMA PrepareProjectionsInv ==
  ASSUME InboxInv, NEW p \in Processes, PrepareProjections(p)
  PROVE  InboxInv'
<1> DEFINE l == loop[p]
           r == Head(l.scopes)
           S == {e \in Notices : version[e] > 0 /\ RecipientOf[e] = r /\ e > l.notices[r]}
           page == FirstOf(S)
           v == IF S \ Range(page) = {} THEN None ELSE Last(page)
           ready == {e \in Range(page) : PythonAllows(e) /\ SqlAllows(e)}
           m == [l EXCEPT !.pc = "select", !.notices[r] = v]
<1>1. /\ l \in Loops /\ Fits(l, origin, central, intent) /\ l.pc = "consume"
      /\ l.scopes # <<>> /\ l.scopes \in Seq(Recipients) /\ l.notices \in [Recipients -> Nat]
      /\ l.batch = <<>> /\ DOMAIN l.outcome = {}
      /\ \A x \in Range(l.audits) : intent[x] # "absent"
      /\ l.audits \in Seq(Events \X Actions)
  BY LoopOf DEF PrepareProjections, Loops, Fits
<1>2. /\ loop' = [loop EXCEPT ![p] = m]
      /\ intent' = [x \in Events \X Actions |->
                      IF x[2] = "created" /\ x[1] \in ready /\ intent[x] = "absent" THEN "pending" ELSE intent[x]]
      /\ UNCHANGED <<family, happened, origin, denied, source, version, central, receipt, changes, loopFaults>>
  BY DEF PrepareProjections, Put, NoticePage
<1>3. S \subseteq Events /\ S \subseteq Notices
  BY DEF Notices
<1>4. page \in Seq(Events) /\ Range(page) \subseteq S
  BY <1>3, PageOfEvents
<1>5. r \in Recipients
  BY <1>1, SeqParts
<1>6. v \in Nat
  <2>1. CASE S \ Range(page) = {}
    BY <2>1 DEF None
  <2>2. CASE S \ Range(page) # {}
    <3>1. page # <<>>
      BY <1>3, <2>2, PageNotEmpty
    <3> HIDE DEF page
    <3>2. Len(page) \in 1 .. Len(page)
      BY <1>4, <3>1, EmptySeq, SeqEqual, LenProperties
    <3>3. page[Len(page)] \in Events
      BY <1>4, <3>2, ElementOfSeq
    <3> QED
      BY <2>2, <3>3, NotificationAssumption DEF Last
  <2> QED
    BY <2>1, <2>2
<1>7. ready \subseteq Notices /\ ready \subseteq happened
  <2>1. \A e \in S : e \in happened
    BY <1>3 DEF InboxInv, Untouched
  <2> QED
    BY <1>3, <1>4, <2>1
<1> HIDE DEF l, r, S, page, v, ready
<1>8. /\ m \in Loops /\ m.pc = "select" /\ m.batch = l.batch /\ m.outcome = l.outcome
      /\ m.scopes = l.scopes /\ m.audits = l.audits
  <2> DEFINE w == [l.notices EXCEPT ![r] = v]
  <2>1. w \in [Recipients -> Nat]
    BY <1>1, <1>5, <1>6
  <2>2. m = [l EXCEPT !.pc = "select", !.notices = w]
    BY <1>1 DEF Loops
  <2> HIDE DEF w, m
  <2> QED
    BY <1>1, <2>1, <2>2 DEF Loops, Places
<1> HIDE DEF m
<1>9. /\ intent \in [Events \X Actions -> {"absent", "pending", "delivered"}]
      /\ central \subseteq Events \X Actions
  BY DEF InboxInv, InboxExact, InboxTypeOK
<1>10. /\ intent' \in [Events \X Actions -> {"absent", "pending", "delivered"}]
       /\ \A x \in Events \X Actions : intent[x] # "absent" => intent'[x] = intent[x]
       /\ \A x \in Events \X Actions : intent[x] = "absent" /\ intent'[x] # "absent" =>
            x[2] = "created" /\ x[1] \in ready /\ intent'[x] = "pending"
  BY <1>2, <1>9
<1>11. Fits(m, origin, central, intent') /\ Holding(m) = {}
  <2>1. Range(l.audits) \subseteq Events \X Actions
    BY <1>1, RangeIn
  <2>2. \A x \in Range(m.audits) : intent'[x] # "absent"
    BY <2>1, <1>1, <1>8, <1>10, SMTT(30)
  <2> QED
    BY <1>1, <1>8, <2>2, NothingHeld DEF Fits, Holding
<1>12. LoopsFit' /\ HeldAlone'
  BY <1>2, <1>10, <1>11, LoopMoved
<1>13. AuditTrail'
  <2>1. ASSUME NEW x \in Events \X Actions
        PROVE  (x \in central => intent'[x] # "absent") /\ (intent'[x] = "delivered" => x \in central)
    BY <2>1, <1>10 DEF AuditTrail, InboxInv, AuditedInOrder
  <2> QED
    BY <2>1, <1>2 DEF AuditTrail
<1>14. \A x \in Events \X Actions : intent[x] = "absent" /\ intent'[x] # "absent" =>
         x[2] = "created" /\ x[1] \in Notices /\ x[1] \in happened
  BY <1>7, <1>10
<1>15. TablesTyped' /\ TablesFit'
  BY <1>2, <1>9, <1>10, <1>13, <1>14, FaultsCount, IntentsStep
<1> QED
  BY <1>12, <1>15, Together

\* A pending source has no notification yet.
LEMMA PendingIs ==
  ASSUME InboxInv, NEW e \in Events, source[e] = "pending"
  PROVE  /\ e \notin Notices /\ version[e] = 0
         /\ intent[<<e, "created">>] = "absent" /\ intent[<<e, "read">>] = "absent"
<1>1. e \notin Notices
  BY DEF InboxInv, Untouched
<1>2. version[e] \in 0 .. 2
  BY DEF InboxInv, InboxExact, InboxTypeOK
<1>3. ~(version[e] > 0) /\ intent[<<e, "created">>] = "absent"
  BY <1>1 DEF InboxInv, InboxExact, Accounted
<1>4. version[e] = 0
  BY <1>2, <1>3
<1>5. intent[<<e, "read">>] = "absent"
  <2>1. (version[e] = 2) <=> (intent[<<e, "read">>] # "absent")
    BY DEF InboxInv, InboxExact, ReadOnce
  <2> QED
    BY <1>4, <2>1
<1> QED
  BY <1>1, <1>3, <1>4, <1>5

\* A batch settles what it locked, notification and intent together.
LEMMA CommitBatchInv ==
  ASSUME InboxInv, NEW p \in Processes, CommitBatch(p)
  PROVE  InboxInv'
<1> DEFINE l == loop[p]
           o == l.outcome
           m == NextConsumer(l)
<1>1. /\ l \in Loops /\ Fits(l, origin, central, intent) /\ l.pc = "check" /\ l.batch = <<>>
      /\ DOMAIN o \subseteq origin /\ l.audits \in Seq(Events \X Actions)
  BY LoopOf DEF CommitBatch, Fits, Loops
<1>2. /\ source' = [e \in Events |-> IF e \in Settled(p) THEN o[e] ELSE source[e]]
      /\ version' = [e \in Events |-> IF e \in Delivered(p) THEN 1 ELSE version[e]]
      /\ intent' = [x \in Events \X Actions |-> IF x \in Recorded(p) THEN "pending" ELSE intent[x]]
      /\ loop' = [loop EXCEPT ![p] = m]
      /\ UNCHANGED <<family, happened, origin, denied, central, receipt, changes, loopFaults>>
  BY DEF CommitBatch, Put
<1>3. /\ source \in [Events -> {"absent", "pending", "delivered", "suppressed"}]
      /\ version \in [Events -> 0..2]
      /\ intent \in [Events \X Actions -> {"absent", "pending", "delivered"}]
      /\ origin \subseteq happened /\ happened \subseteq Events
  BY DEF InboxInv, InboxExact, InboxTypeOK
<1>4. PICK D \in SUBSET Events : o \in [D -> {"pending", "delivered", "suppressed"}]
  BY <1>1 DEF Loops, Outcomes
<1>5. /\ DOMAIN o = D /\ Delivered(p) \subseteq Settled(p) /\ Settled(p) \subseteq D
      /\ \A e \in Settled(p) : o[e] \in {"delivered", "suppressed"}
      /\ \A e \in Settled(p) : o[e] = "delivered" <=> e \in Delivered(p)
  BY <1>4 DEF Delivered, Settled
<1>6. Held(p) = D
  BY <1>1, <1>5, NothingHeld DEF Held
<1>7. \A e \in D : source[e] = "pending" /\ \A q \in Processes \ {p} : e \notin Held(q)
  BY <1>6 DEF InboxInv, InboxExact, HeldAlone
<1>8. ASSUME NEW e \in D
      PROVE  /\ e \in Events /\ e \notin Notices /\ e \in origin /\ e \in happened /\ version[e] = 0
             /\ intent[<<e, "created">>] = "absent" /\ intent[<<e, "read">>] = "absent"
  <2>1. e \in Events /\ e \in origin /\ e \in happened
    BY <1>1, <1>3, <1>5
  <2> QED
    BY <2>1, <1>7, PendingIs
<1>9. /\ \A e \in Events : <<e, "created">> \in Events \X Actions /\ <<e, "read">> \in Events \X Actions
      /\ \A e \in Events : <<e, "created">> \in Recorded(p) <=> e \in Delivered(p)
      /\ \A e \in Events : <<e, "read">> \notin Recorded(p)
      /\ \A x \in Recorded(p) : \E e \in Delivered(p) : x = <<e, "created">>
  BY DEF Recorded, Actions
<1> HIDE DEF l, o, m
<1>10. /\ \A e \in Events : intent'[<<e, "read">>] = intent[<<e, "read">>]
       /\ \A e \in Delivered(p) : intent'[<<e, "created">>] = "pending" /\ version'[e] = 1
       /\ \A e \in Events \ Delivered(p) : intent'[<<e, "created">>] = intent[<<e, "created">>] /\ version'[e] = version[e]
       /\ \A e \in Settled(p) : source'[e] = o[e]
       /\ \A e \in Events \ Settled(p) : source'[e] = source[e]
       /\ \A x \in Events \X Actions : x \notin Recorded(p) => intent'[x] = intent[x]
       /\ \A x \in Recorded(p) : intent[x] = "absent" /\ intent'[x] = "pending"
  <2>1. \A e \in Events : intent'[<<e, "read">>] = intent[<<e, "read">>]
    BY <1>2, <1>9
  <2>2. \A e \in Delivered(p) : e \in Events
    BY <1>5
  <2>3. \A e \in Delivered(p) : intent'[<<e, "created">>] = "pending" /\ version'[e] = 1
    BY <1>2, <1>9, <2>2
  <2>4. \A e \in Events \ Delivered(p) : intent'[<<e, "created">>] = intent[<<e, "created">>] /\ version'[e] = version[e]
    BY <1>2, <1>9
  <2>5. /\ \A e \in Settled(p) : source'[e] = o[e]
        /\ \A e \in Events \ Settled(p) : source'[e] = source[e]
    BY <1>2, <1>5
  <2>6. \A x \in Events \X Actions : x \notin Recorded(p) => intent'[x] = intent[x]
    BY <1>2
  <2>7. ASSUME NEW x \in Recorded(p)
        PROVE  intent[x] = "absent" /\ intent'[x] = "pending"
    <3>1. PICK e \in Delivered(p) : x = <<e, "created">>
      BY <1>9
    <3> QED
      BY <3>1, <2>3, <1>5, <1>8
  <2> QED
    BY <2>1, <2>3, <2>4, <2>5, <2>6, <2>7
<1>11. TablesTyped'
  <2>1. /\ source' \in [Events -> {"absent", "pending", "delivered", "suppressed"}]
        /\ version' \in [Events -> 0..2]
        /\ intent' \in [Events \X Actions -> {"absent", "pending", "delivered"}]
    BY <1>2, <1>3, <1>5
  <2> QED
    BY <2>1, <1>2 DEF TablesTyped, InboxInv, InboxExact, InboxTypeOK
<1>12. Notices' = Notices
  BY <1>2 DEF Notices
<1>13. Accounted'
  <2>1. ASSUME NEW e \in Events \ Notices
        PROVE  /\ source'[e] = "delivered" <=> version'[e] > 0
               /\ version'[e] > 0 <=> intent'[<<e, "created">>] # "absent"
    <3>1. CASE e \in Delivered(p)
      BY <3>1, <1>5, <1>10
    <3>2. CASE e \notin Delivered(p) /\ e \in Settled(p)
      <4>1. o[e] # "delivered" /\ e \in D
        BY <3>2, <1>5
      <4>2. source'[e] = o[e] /\ version'[e] = 0 /\ intent'[<<e, "created">>] = "absent"
        BY <3>2, <4>1, <2>1, <1>8, <1>10
      <4> QED
        BY <4>1, <4>2
    <3>3. CASE e \notin Settled(p)
      BY <3>3, <2>1, <1>5, <1>10 DEF InboxInv, InboxExact, Accounted
    <3> QED
      BY <3>1, <3>2, <3>3
  <2> QED
    BY <2>1, <1>12 DEF Accounted
<1>14. ReadOnce'
  <2>1. ASSUME NEW e \in Events
        PROVE  /\ (version'[e] = 2) <=> (version[e] = 2)
               /\ intent[<<e, "created">>] # "absent" => intent'[<<e, "created">>] # "absent"
    <3>1. CASE e \in Delivered(p)
      <4>1. e \in D
        BY <3>1, <1>5
      <4>2. version[e] = 0 /\ version'[e] = 1 /\ intent'[<<e, "created">>] = "pending"
        BY <3>1, <4>1, <1>8, <1>10
      <4> QED
        BY <4>2
    <3>2. CASE e \notin Delivered(p)
      BY <3>2, <1>10
    <3> QED
      BY <3>1, <3>2
  <2>2. receipt' = receipt /\ \A e \in Events : intent'[<<e, "read">>] = intent[<<e, "read">>]
    BY <1>2, <1>10
  <2> QED
    BY <2>1, <2>2 DEF ReadOnce, InboxInv, InboxExact
<1>15. AuditTrail'
  <2>1. ASSUME NEW x \in Events \X Actions
        PROVE  (x \in central => intent'[x] # "absent") /\ (intent'[x] = "delivered" => x \in central)
    BY <2>1, <1>10 DEF AuditTrail, InboxInv, AuditedInOrder
  <2> QED
    BY <2>1, <1>2 DEF AuditTrail
<1>16. OriginFirst'
  <2>1. \A e \in Settled(p) : e \in origin
    BY <1>5, <1>8
  <2> QED
    BY <2>1, <1>2, <1>10 DEF OriginFirst, InboxInv, AuditedInOrder
<1>17. Untouched'
  <2>1. ASSUME NEW e \in Events, e \notin happened \/ e \in Notices
        PROVE  e \notin Settled(p) /\ e \notin Delivered(p)
    BY <2>1, <1>5, <1>8
  <2> QED
    <3>1. \A e \in Events \ happened : /\ source'[e] = source[e] /\ version'[e] = version[e]
                                       /\ \A a \in Actions : intent'[<<e, a>>] = intent[<<e, a>>]
      BY <2>1, <1>10, ZenonT(60) DEF Actions
    <3>2. \A e \in Notices : source'[e] = source[e]
      BY <2>1, <1>10 DEF Notices
    <3>3. happened' = happened
      BY <1>2
    <3> QED
      BY <3>1, <3>2, <3>3, <1>12 DEF Untouched, InboxInv
<1>18. LoopsFit' /\ HeldAlone'
  <2>1. Fits(l, origin, central, intent')
    <3>1. Range(l.audits) \subseteq Events \X Actions
      BY <1>1, RangeIn
    <3>2. \A x \in Events \X Actions : intent[x] # "absent" => intent'[x] # "absent"
      BY <1>10
    <3> QED
      BY <3>1, <3>2, <1>1 DEF Fits
  <2>2. Fits(m, origin, central, intent') /\ Holding(m) = {}
    BY <2>1, <1>1, ConsumerMoves DEF l, m
  <2>3. \A q \in Processes \ {p} : \A e \in Held(q) : e \in Events
    <3>1. ASSUME NEW q \in Processes
          PROVE  Range(loop[q].batch) \subseteq Events /\ DOMAIN loop[q].outcome \subseteq Events
      <4>1. loop[q].batch \in Seq(Events) /\ loop[q].outcome \in Outcomes
        BY LoopOf DEF Loops
      <4> QED
        BY <4>1, RangeIn DEF Outcomes
    <3> QED
      BY <3>1 DEF Held
  <2>4. \A q \in Processes \ {p} : \A e \in Held(q) : source'[e] = source[e]
    BY <2>3, <1>5, <1>7, <1>10
  <2>5. \A x \in Events \X Actions : intent[x] # "absent" => intent'[x] # "absent"
    BY <1>10
  <2> QED
    BY <2>2, <2>4, <2>5, <1>2, LoopMoved
<1> QED
  BY <1>11, <1>13, <1>14, <1>15, <1>16, <1>17, <1>18, Together DEF TablesFit

-----------------------------------------------------------------------------
\* An event that has not happened left nothing.
LEMMA NotYet ==
  ASSUME InboxInv, NEW e \in Events, e \notin happened
  PROVE  /\ source[e] = "absent" /\ version[e] = 0
         /\ intent[<<e, "created">>] = "absent" /\ intent[<<e, "read">>] = "absent"
BY DEF InboxInv, Untouched, Actions

\* A business transaction leaves a source, or a notice with its intent.
LEMMA HappenInv ==
  ASSUME InboxInv, NEW e \in Events, Happen(e)
  PROVE  InboxInv'
<1>1. /\ e \notin happened /\ happened' = happened \cup {e} /\ origin' \in {origin, origin \cup {e}}
      /\ UNCHANGED <<family, denied, central, receipt, loop, changes, loopFaults>>
  BY DEF Happen
<1>2. /\ source[e] = "absent" /\ version[e] = 0
      /\ intent[<<e, "created">>] = "absent" /\ intent[<<e, "read">>] = "absent"
  BY <1>1, NotYet
<1>3. InboxTypeOK
  BY DEF InboxInv, InboxExact
<1>4. <<e, "created">> \in Events \X Actions /\ <<e, "read">> \in Events \X Actions
  BY DEF Actions
<1>5. \/ /\ e \in Notices /\ source' = source /\ version' = [version EXCEPT ![e] = 1]
         /\ \/ intent' = [intent EXCEPT ![<<e, "created">>] = "pending"]
            \/ intent' = [intent EXCEPT ![<<e, "created">>] = "absent"]
      \/ /\ e \notin Notices /\ version' = version /\ intent' = intent
         /\ \/ source' = [source EXCEPT ![e] = "pending"]
            \/ source' = [source EXCEPT ![e] = "absent"]
  <2>1. CASE e \in Notices
    <3>1. \E enabled \in BOOLEAN :
            intent' = [intent EXCEPT ![<<e, "created">>] = IF enabled /\ SqlAllows(e) THEN "pending" ELSE "absent"]
      BY <2>1 DEF Happen
    <3>2. \/ intent' = [intent EXCEPT ![<<e, "created">>] = "pending"]
          \/ intent' = [intent EXCEPT ![<<e, "created">>] = "absent"]
      BY <3>1
    <3>3. source' = source /\ version' = [version EXCEPT ![e] = 1]
      BY <2>1 DEF Happen
    <3> QED
      BY <2>1, <3>2, <3>3
  <2>2. CASE e \notin Notices
    BY <2>2 DEF Happen, Enqueue
  <2> QED
    BY <2>1, <2>2
<1>6. /\ source' \in [Events -> {"absent", "pending", "delivered", "suppressed"}]
      /\ version' \in [Events -> 0..2]
      /\ intent' \in [Events \X Actions -> {"absent", "pending", "delivered"}]
      /\ \A d \in Events : d # e => source'[d] = source[d] /\ version'[d] = version[d]
      /\ \A x \in Events \X Actions : x # <<e, "created">> => intent'[x] = intent[x]
      /\ source'[e] \in {"absent", "pending"} /\ version'[e] \in {0, 1}
      /\ intent'[<<e, "created">>] \in {"absent", "pending"}
      /\ e \in Notices => source'[e] = "absent"
      /\ e \notin Notices => version'[e] = 0 /\ intent'[<<e, "created">>] = "absent"
  <2>1. CASE e \in Notices
    BY <1>2, <1>3, <1>4, <1>5, <2>1 DEF InboxTypeOK
  <2>2. CASE e \notin Notices
    BY <1>2, <1>3, <1>4, <1>5, <2>2 DEF InboxTypeOK
  <2> QED
    BY <2>1, <2>2
<1>7. /\ \A d \in Events : intent'[<<d, "read">>] = intent[<<d, "read">>]
      /\ \A d \in Events : d # e => intent'[<<d, "created">>] = intent[<<d, "created">>]
  BY <1>6 DEF Actions
<1>8. Notices' = Notices
  BY <1>1 DEF Notices
<1>9. TablesTyped'
  <2>1. happened' \subseteq Events /\ origin' \subseteq happened'
    BY <1>1, <1>3 DEF InboxTypeOK
  <2> QED
    BY <2>1, <1>1, <1>3, <1>6 DEF TablesTyped, InboxTypeOK
<1>10. Accounted'
  <2>1. ASSUME NEW d \in Events \ Notices
        PROVE  /\ source'[d] = "delivered" <=> version'[d] > 0
               /\ version'[d] > 0 <=> intent'[<<d, "created">>] # "absent"
    <3>1. CASE d = e
      BY <2>1, <3>1, <1>6
    <3>2. CASE d # e
      BY <2>1, <3>2, <1>6, <1>7 DEF InboxInv, InboxExact, Accounted
    <3> QED
      BY <3>1, <3>2
  <2> QED
    BY <2>1, <1>8 DEF Accounted
<1>11. ReadOnce'
  <2>1. ASSUME NEW d \in Events
        PROVE  /\ (version'[d] = 2) <=> (version[d] = 2)
               /\ intent[<<d, "created">>] # "absent" => intent'[<<d, "created">>] # "absent"
    <3>1. CASE d = e
      BY <3>1, <1>2, <1>6
    <3>2. CASE d # e
      BY <3>2, <1>6, <1>7
    <3> QED
      BY <3>1, <3>2
  <2>2. receipt' = receipt /\ \A d \in Events : intent'[<<d, "read">>] = intent[<<d, "read">>]
    BY <1>1, <1>7
  <2> QED
    BY <2>1, <2>2 DEF ReadOnce, InboxInv, InboxExact
<1>12. AuditTrail'
  <2>1. ASSUME NEW x \in Events \X Actions
        PROVE  (x \in central => intent'[x] # "absent") /\ (intent'[x] = "delivered" => x \in central)
    <3>1. (x \in central => intent[x] # "absent") /\ (intent[x] = "delivered" => x \in central)
      BY <2>1 DEF AuditTrail, InboxInv, AuditedInOrder
    <3>2. CASE x = <<e, "created">>
      BY <3>1, <3>2, <1>2, <1>6
    <3>3. CASE x # <<e, "created">>
      BY <3>1, <3>3, <1>6
    <3> QED
      BY <3>2, <3>3
  <2> QED
    BY <2>1, <1>1 DEF AuditTrail
<1>13. OriginFirst'
  <2>1. ASSUME NEW d \in Events, source'[d] \in {"delivered", "suppressed"}
        PROVE  d \in origin'
    <3>1. d # e /\ source'[d] = source[d]
      BY <2>1, <1>6
    <3>2. d \in origin
      BY <3>1, <2>1 DEF OriginFirst, InboxInv, AuditedInOrder
    <3> QED
      BY <3>2, <1>1
  <2> QED
    BY <2>1 DEF OriginFirst
<1>14. Untouched'
  <2>1. ASSUME NEW d \in Events, d \notin happened'
        PROVE  source'[d] = "absent" /\ version'[d] = 0 /\ \A a \in Actions : intent'[<<d, a>>] = "absent"
    <3>1. d # e /\ d \notin happened
      BY <2>1, <1>1
    <3>2. /\ source[d] = "absent" /\ version[d] = 0
          /\ intent[<<d, "created">>] = "absent" /\ intent[<<d, "read">>] = "absent"
      BY <3>1, NotYet
    <3> QED
      BY <3>1, <3>2, <1>6, <1>7 DEF Actions
  <2>2. ASSUME NEW d \in Notices
        PROVE  source'[d] = "absent"
    <3>1. source[d] = "absent" /\ d \in Events
      BY <2>2 DEF InboxInv, Untouched, Notices
    <3> QED
      BY <2>2, <3>1, <1>6
  <2> QED
    BY <2>1, <2>2, <1>8 DEF Untouched
<1>15. LoopsFit' /\ HeldAlone'
  <2>1. \A x \in Events \X Actions : intent[x] # "absent" => intent'[x] # "absent"
    BY <1>2, <1>6
  <2>2. \A d \in Events : source[d] = "pending" => source'[d] = "pending"
    BY <1>2, <1>6
  <2>3. loop' = loop /\ origin \subseteq origin' /\ central \subseteq central'
    BY <1>1
  <2> QED
    BY <2>1, <2>2, <2>3, LoopsKept
<1> QED
  BY <1>9, <1>10, <1>11, <1>12, <1>13, <1>14, <1>15, Together DEF TablesFit

\* The audit of a role change reaches the store.
LEMMA DeliverOriginInv ==
  ASSUME InboxInv, NEW e \in Events, DeliverOrigin(e)
  PROVE  InboxInv'
<1>1. /\ e \in happened /\ origin' = origin \cup {e}
      /\ UNCHANGED <<family, happened, denied, source, version, intent, central, receipt, loop, changes, loopFaults>>
  BY DEF DeliverOrigin
<1>2. LoopsFit' /\ HeldAlone'
  BY <1>1, LoopsKept
<1>3. TablesTyped'
  BY <1>1 DEF TablesTyped, InboxInv, InboxExact, InboxTypeOK
<1>4. Accounted' /\ OriginFirst' /\ Untouched'
  BY <1>1 DEF Accounted, OriginFirst, Untouched, Notices, InboxInv, InboxExact, AuditedInOrder
<1>5. ReadOnce' /\ AuditTrail'
  BY <1>1 DEF ReadOnce, AuditTrail, InboxInv, InboxExact, AuditedInOrder
<1> QED
  BY <1>2, <1>3, <1>4, <1>5, Together DEF TablesFit

\* A right comes or goes: no table changes.
LEMMA ChangeRightInv ==
  ASSUME InboxInv, NEW e \in Events, NEW f \in Revocable, ChangeRight(e, f)
  PROVE  InboxInv'
<1>1. /\ changes < MaxChanges /\ changes' = changes + 1
      /\ \/ denied' = denied \ (Concerned(e, f) \X {f})
         \/ denied' = denied \cup (Concerned(e, f) \X {f})
      /\ UNCHANGED <<family, happened, origin, source, version, intent, central, receipt, loop, loopFaults>>
  BY DEF ChangeRight
<1>2. f \in Facts /\ MaxChanges \in Nat /\ Concerned(e, f) \subseteq Events
  BY NotificationAssumption DEF Concerned
<1>3. changes' \in 0 .. MaxChanges
  BY <1>1, <1>2 DEF InboxInv, InboxExact, InboxTypeOK
<1>4. denied' \subseteq Events \X Facts
  BY <1>1, <1>2 DEF InboxInv, InboxExact, InboxTypeOK
<1>5. LoopsFit' /\ HeldAlone'
  BY <1>1, LoopsKept
<1>6. TablesTyped'
  BY <1>1, <1>3, <1>4 DEF TablesTyped, InboxInv, InboxExact, InboxTypeOK
<1>7. Accounted' /\ OriginFirst' /\ Untouched'
  BY <1>1 DEF Accounted, OriginFirst, Untouched, Notices, InboxInv, InboxExact, AuditedInOrder
<1>8. ReadOnce' /\ AuditTrail'
  BY <1>1 DEF ReadOnce, AuditTrail, InboxInv, InboxExact, AuditedInOrder
<1> QED
  BY <1>5, <1>6, <1>7, <1>8, Together DEF TablesFit

\* A notification is read under a new key: by its own route or, a notice, by the inbox's.
LEMMA ReadStep ==
  ASSUME InboxInv, NEW e \in Events, NEW k \in ReadKeys,
         receipt[k] = NoReceipt, version[e] = 1,
         version' = [version EXCEPT ![e] = 2],
         receipt' = [receipt EXCEPT ![k] = <<e, 1>>],
         intent' \in [Events \X Actions -> {"absent", "pending", "delivered"}],
         intent'[<<e, "read">>] = "pending", intent'[<<e, "created">>] # "absent",
         intent[<<e, "created">>] # "absent" => intent'[<<e, "created">>] = intent[<<e, "created">>],
         intent[<<e, "created">>] = "absent" => intent'[<<e, "created">>] = "pending",
         \A x \in Events \X Actions : x # <<e, "read">> /\ x # <<e, "created">> => intent'[x] = intent[x],
         UNCHANGED <<family, happened, origin, denied, source, central, loop, changes, loopFaults>>
  PROVE  InboxInv'
<1>1. InboxTypeOK
  BY DEF InboxInv, InboxExact
<1>2. /\ version'[e] = 2 /\ \A d \in Events : d # e => version'[d] = version[d]
      /\ version' \in [Events -> 0..2]
  BY <1>1 DEF InboxTypeOK
<1>3. /\ receipt'[k] = <<e, 1>> /\ \A j \in ReadKeys : j # k => receipt'[j] = receipt[j]
      /\ receipt' \in [ReadKeys -> {NoReceipt} \cup (Events \X (1..2))]
  BY <1>1 DEF InboxTypeOK
<1>4. \A d \in Events : <<d, "created">> \in Events \X Actions /\ <<d, "read">> \in Events \X Actions
  BY DEF Actions
<1>5. \A d \in Events : d # e => /\ intent'[<<d, "created">>] = intent[<<d, "created">>]
                                 /\ intent'[<<d, "read">>] = intent[<<d, "read">>]
  BY <1>4
<1>6. intent[<<e, "read">>] = "absent"
  <2>1. (version[e] = 2) <=> (intent[<<e, "read">>] # "absent")
    BY DEF InboxInv, InboxExact, ReadOnce
  <2> QED
    BY <2>1
<1>7. e \in happened
  <2>1. e \notin happened => version[e] = 0
    BY NotYet
  <2> QED
    BY <2>1
<1>8. Notices' = Notices
  BY DEF Notices
<1>9. TablesTyped'
  BY <1>1, <1>2, <1>3 DEF TablesTyped, InboxTypeOK
<1>10. Accounted'
  <2>1. ASSUME NEW d \in Events \ Notices
        PROVE  /\ source'[d] = "delivered" <=> version'[d] > 0
               /\ version'[d] > 0 <=> intent'[<<d, "created">>] # "absent"
    <3>1. /\ source[d] = "delivered" <=> version[d] > 0
          /\ version[d] > 0 <=> intent[<<d, "created">>] # "absent"
      BY <2>1 DEF InboxInv, InboxExact, Accounted
    <3>2. CASE d = e
      BY <3>1, <3>2, <1>2
    <3>3. CASE d # e
      BY <3>1, <3>3, <1>2, <1>5
    <3> QED
      BY <3>2, <3>3
  <2> QED
    BY <2>1, <1>8 DEF Accounted
<1>11. ReadOnce'
  <2> DEFINE R(d) == {j \in ReadKeys : receipt[j][1] = d /\ receipt[j] # NoReceipt}
             Q(d) == {j \in ReadKeys : receipt'[j][1] = d /\ receipt'[j] # NoReceipt}
  <2>1. <<e, 1>> # NoReceipt /\ <<e, 1>>[1] = e
    BY DEF NoReceipt
  <2>2. \A d \in Events : d # e => Q(d) = R(d)
    BY <1>3, <2>1
  <2>3. Q(e) = R(e) \cup {k} /\ k \notin R(e)
    BY <1>3, <2>1
  <2>4. \A d \in Events : Cardinality(R(d)) = (IF version[d] = 2 THEN 1 ELSE 0)
    BY DEF InboxInv, InboxExact, ReadOnce
  <2>5. IsFiniteSet(R(e))
    BY NotificationAssumption, FS_Subset
  <2> HIDE DEF R, Q
  <2>6. Cardinality(R(e)) = 0
    <3>1. Cardinality(R(e)) = (IF version[e] = 2 THEN 1 ELSE 0)
      BY <2>4
    <3>2. version[e] # 2
      OBVIOUS
    <3> QED
      BY <3>1, <3>2
  <2>7. Cardinality(Q(e)) = 1
    <3>1. Cardinality(R(e) \cup {k}) = IF k \in R(e) THEN Cardinality(R(e)) ELSE Cardinality(R(e)) + 1
      BY <2>5, FS_AddElement
    <3> QED
      BY <3>1, <2>3, <2>6
  <2>8. ASSUME NEW d \in Events
        PROVE  /\ version'[d] = 2 <=> intent'[<<d, "read">>] # "absent"
               /\ Cardinality(Q(d)) = (IF version'[d] = 2 THEN 1 ELSE 0)
               /\ version'[d] = 2 => intent'[<<d, "created">>] # "absent"
    <3>1. CASE d = e
      BY <3>1, <1>2, <2>7
    <3>2. CASE d # e
      <4>1. /\ version[d] = 2 <=> intent[<<d, "read">>] # "absent"
            /\ version[d] = 2 => intent[<<d, "created">>] # "absent"
        BY DEF InboxInv, InboxExact, ReadOnce
      <4> QED
        BY <4>1, <3>2, <1>2, <1>5, <2>2, <2>4
    <3> QED
      BY <3>1, <3>2
  <2> QED
    BY <2>8 DEF ReadOnce, Q
<1>12. AuditTrail'
  <2>1. ASSUME NEW x \in Events \X Actions
        PROVE  (x \in central => intent'[x] # "absent") /\ (intent'[x] = "delivered" => x \in central)
    <3>1. (x \in central => intent[x] # "absent") /\ (intent[x] = "delivered" => x \in central)
      BY <2>1 DEF AuditTrail, InboxInv, AuditedInOrder
    <3>2. CASE x = <<e, "read">>
      BY <3>1, <3>2, <1>6
    <3>3. CASE x = <<e, "created">>
      BY <3>1, <3>3
    <3>4. CASE x # <<e, "read">> /\ x # <<e, "created">>
      BY <3>1, <3>4
    <3> QED
      BY <3>2, <3>3, <3>4
  <2> QED
    BY <2>1 DEF AuditTrail
<1>13. OriginFirst'
  BY DEF OriginFirst, InboxInv, AuditedInOrder
<1>14. Untouched'
  <2>1. ASSUME NEW d \in Events, d \notin happened
        PROVE  source[d] = "absent" /\ version'[d] = 0 /\ \A a \in Actions : intent'[<<d, a>>] = "absent"
    BY <2>1, <1>2, <1>5, <1>7, NotYet DEF Actions
  <2> QED
    BY <2>1, <1>8 DEF Untouched, InboxInv
<1>15. LoopsFit' /\ HeldAlone'
  <2>1. ASSUME NEW x \in Events \X Actions, intent[x] # "absent"
        PROVE  intent'[x] # "absent"
    <3>1. CASE x = <<e, "read">> \/ x = <<e, "created">>
      BY <3>1
    <3>2. CASE x # <<e, "read">> /\ x # <<e, "created">>
      BY <2>1, <3>2
    <3> QED
      BY <3>1, <3>2
  <2> QED
    BY <2>1, LoopsKept
<1> QED
  BY <1>9, <1>10, <1>11, <1>12, <1>13, <1>14, <1>15, Together DEF TablesFit

\* Reading, by either route.
LEMMA ReadInv ==
  ASSUME InboxInv, NEW e \in Events, NEW k \in ReadKeys, NEW v \in 1 .. 2,
         Read(e, k, v) \/ ReadNotice(e, k, v)
  PROVE  InboxInv'
<1>1. /\ receipt[k] = NoReceipt /\ version[e] = 1 /\ v = 1
      /\ version' = [version EXCEPT ![e] = 2] /\ receipt' = [receipt EXCEPT ![k] = <<e, 1>>]
      /\ UNCHANGED <<family, happened, origin, denied, source, central, loop, changes, loopFaults>>
  BY DEF Read, ReadNotice, FirstRead
<1>2. <<e, "created">> \in Events \X Actions /\ <<e, "read">> \in Events \X Actions /\ <<e, "created">> # <<e, "read">>
  BY DEF Actions
<1>3. intent \in [Events \X Actions -> {"absent", "pending", "delivered"}]
  BY DEF InboxInv, InboxExact, InboxTypeOK
<1>4. CASE Read(e, k, v)
  <2>1. intent[<<e, "created">>] # "absent"
    <3>1. e \in Notices => intent[<<e, "created">>] # "absent"
      BY <1>4 DEF Read, Shown
    <3>2. e \notin Notices => intent[<<e, "created">>] # "absent"
      BY <1>1 DEF InboxInv, InboxExact, Accounted
    <3> QED
      BY <3>1, <3>2
  <2>2. intent' = [intent EXCEPT ![<<e, "read">>] = "pending"]
    BY <1>4 DEF Read
  <2>3. /\ intent' \in [Events \X Actions -> {"absent", "pending", "delivered"}]
        /\ intent'[<<e, "read">>] = "pending" /\ intent'[<<e, "created">>] = intent[<<e, "created">>]
        /\ \A x \in Events \X Actions : x # <<e, "read">> => intent'[x] = intent[x]
    BY <1>2, <1>3, <2>2
  <2> QED
    BY <1>1, <2>1, <2>3, ReadStep
<1>5. CASE ReadNotice(e, k, v)
  <2> DEFINE w == IF intent[<<e, "created">>] = "absent" THEN "pending" ELSE intent[<<e, "created">>]
             j == [intent EXCEPT ![<<e, "read">>] = "pending"]
  <2>1. j[<<e, "created">>] = intent[<<e, "created">>] /\ j \in [Events \X Actions -> {"absent", "pending", "delivered"}]
    BY <1>2, <1>3
  <2>2. intent' = [j EXCEPT ![<<e, "created">>] = IF j[<<e, "created">>] = "absent" THEN "pending" ELSE j[<<e, "created">>]]
    BY <1>5 DEF ReadNotice, ReadIntents
  <2>3. intent' = [j EXCEPT ![<<e, "created">>] = w]
    BY <2>1, <2>2
  <2>4. w \in {"pending", "delivered"}
    BY <1>2, <1>3
  <2>5. j[<<e, "read">>] = "pending" /\ \A x \in Events \X Actions : x # <<e, "read">> => j[x] = intent[x]
    BY <1>2, <1>3
  <2> HIDE DEF j
  <2>6. /\ intent' \in [Events \X Actions -> {"absent", "pending", "delivered"}]
        /\ intent'[<<e, "read">>] = "pending" /\ intent'[<<e, "created">>] = w
        /\ \A x \in Events \X Actions : x # <<e, "read">> /\ x # <<e, "created">> => intent'[x] = intent[x]
    BY <1>2, <2>1, <2>3, <2>4, <2>5
  <2>7. /\ intent'[<<e, "created">>] # "absent"
        /\ intent[<<e, "created">>] # "absent" => intent'[<<e, "created">>] = intent[<<e, "created">>]
        /\ intent[<<e, "created">>] = "absent" => intent'[<<e, "created">>] = "pending"
    BY <2>4, <2>6
  <2> QED
    BY <1>1, <2>6, <2>7, ReadStep
<1> QED
  BY <1>4, <1>5

-----------------------------------------------------------------------------
\* The invariant holds before anything has happened.
LEMMA InboxStart == InboxInit => InboxInv
<1> SUFFICES ASSUME InboxInit PROVE InboxInv
  OBVIOUS
<1>1. /\ \A e \in Events : source[e] = "absent" /\ version[e] = 0
      /\ \A x \in Events \X Actions : intent[x] = "absent"
      /\ \A e \in Events : intent[<<e, "created">>] = "absent" /\ intent[<<e, "read">>] = "absent"
      /\ \A k \in ReadKeys : receipt[k] = NoReceipt
      /\ \A p \in Processes : loop[p] = IdleLoop
  BY DEF InboxInit, Actions
<1>2. TablesTyped
  <2>1. MaxChanges \in Nat /\ MaxLoopFaults \in Nat
    BY NotificationAssumption
  <2> QED
    BY <2>1 DEF TablesTyped, InboxInit
<1>3. LoopsFit
  <2>1. IdleLoop \in Loops
    BY IdleFits DEF Fits
  <2>2. loop = [p \in Processes |-> IdleLoop]
    BY DEF InboxInit
  <2> QED
    BY <2>1, <2>2, <1>1, IdleFits DEF LoopsFit
<1>4. InboxTypeOK
  BY <1>2, <1>3, LoopsTyped
<1>5. HeldAlone
  <2>1. \A p \in Processes : Held(p) = {}
    BY <1>1, IdleFits DEF Held, Holding
  <2> QED
    BY <2>1 DEF HeldAlone
<1>6. Accounted /\ AuditTrail /\ OriginFirst /\ Untouched
  BY <1>1 DEF InboxInit, Accounted, AuditTrail, OriginFirst, Untouched, Actions, Notices
<1>7. ReadOnce
  <2>1. \A e \in Events : {k \in ReadKeys : receipt[k][1] = e /\ receipt[k] # NoReceipt} = {}
    BY <1>1
  <2>2. Cardinality({}) = 0
    BY FS_EmptySet
  <2> DEFINE R(e) == {k \in ReadKeys : receipt[k][1] = e /\ receipt[k] # NoReceipt}
  <2>3. ASSUME NEW e \in Events
        PROVE  /\ version[e] = 2 <=> intent[<<e, "read">>] # "absent"
               /\ Cardinality(R(e)) = (IF version[e] = 2 THEN 1 ELSE 0)
               /\ version[e] = 2 => intent[<<e, "created">>] # "absent"
    <3>0. version[e] = 0 /\ intent[<<e, "read">>] = "absent"
      BY <1>1
    <3>1. version[e] # 2 /\ intent[<<e, "read">>] = "absent"
      BY <3>0
    <3>2. R(e) = {}
      BY <2>1
    <3> HIDE DEF R
    <3>3. Cardinality(R(e)) = 0
      BY <3>2, <2>2
    <3> QED
      BY <3>1, <3>3
  <2> QED
    BY <2>3 DEF ReadOnce
<1> QED
  BY <1>3, <1>4, <1>5, <1>6, <1>7 DEF InboxInv, InboxExact, AuditedInOrder

\* Every step of the loops, the business, the readers and the faults keeps it.
LEMMA InboxStep == InboxInv /\ [InboxNext]_inboxVars => InboxInv'
<1> SUFFICES ASSUME InboxInv, [InboxNext]_inboxVars PROVE InboxInv'
  OBVIOUS
<1>1. CASE UNCHANGED inboxVars
  <2>1. UNCHANGED <<family, durable>> /\ loop' = loop /\ loopFaults' = loopFaults
    BY <1>1 DEF inboxVars, durable
  <2>2. TablesTyped' /\ TablesFit'
    BY <2>1, FaultsCount, TablesSame
  <2>3. LoopsFit' /\ HeldAlone'
    BY <2>1, LoopsKept DEF durable
  <2> QED
    BY <2>2, <2>3, Together
<1>2. ASSUME NEW e \in Events, Happen(e) \/ DeliverOrigin(e)
      PROVE  InboxInv'
  BY <1>2, HappenInv, DeliverOriginInv
<1>3. ASSUME NEW e \in Events, NEW f \in Revocable, ChangeRight(e, f)
      PROVE  InboxInv'
  BY <1>3, ChangeRightInv
<1>4. ASSUME NEW e \in Events, NEW k \in ReadKeys, NEW v \in 1 .. 2, Read(e, k, v) \/
   ReadNotice(e, k, v)
      PROVE  InboxInv'
  BY <1>4, ReadInv
<1>5. ASSUME NEW p \in Processes, Step(p) \/ FailBatch(p) \/ FailAudit(p) \/ Restart(p)
      PROVE  InboxInv'
  BY <1>5, DiscoverInv, LockBatchInv, CheckInv, MaterializeInv, CommitBatchInv,
     PrepareProjectionsInv,
     SelectAuditsInv, AppendAuditInv, AckAuditInv, NextScopeInv, FailBatchInv, FailAuditInv, RestartInv DEF Step
<1> QED
  BY <1>1, <1>2, <1>3, <1>4, <1>5 DEF InboxNext

\* The invariant holds throughout.
LEMMA InboxInvariant == InboxSpec => []InboxInv
<1> QED
  BY InboxStart, InboxStep, PTL DEF InboxSpec

\* A source is delivered exactly when its notification and the intent that
\* tells of it exist, no two loops work on one source, and a notification is
\* read by one request only.
THEOREM InboxExactCorrect == InboxSpec => []InboxExact
<1>1. InboxInv => InboxExact
  BY DEF InboxInv
<1> QED
  BY <1>1, InboxInvariant, PTL

\* Nothing is in the central audit store that is not an intent, nothing is
\* acknowledged that is not in the store, and an event is told or withheld only
\* after its own audit.
THEOREM AuditedInOrderCorrect == InboxSpec => []AuditedInOrder
<1>1. InboxInv => AuditedInOrder
  BY DEF InboxInv
<1> QED
  BY <1>1, InboxInvariant, PTL

-----------------------------------------------------------------------------
\* What a step may do to the tables and not take back: the body of Final.
Forward ==
    /\ \A e \in Events : source[e] \in {"delivered", "suppressed"} => source'[e] = source[e]
    /\ \A e \in Events : version'[e] >= version[e]
    /\ \A x \in Events \X Actions : intent[x] = "delivered" => intent'[x] = "delivered"

\* A step that leaves the three tables alone takes nothing back.
LEMMA StillForward ==
  ASSUME InboxInv, source' = source, version' = version, intent' = intent
  PROVE  Forward
<1>1. \A e \in Events : version[e] \in 0 .. 2
  BY DEF InboxInv, InboxExact, InboxTypeOK
<1> QED
  BY <1>1 DEF Forward

\* What happens had left no row.
LEMMA HappenForward ==
  ASSUME InboxInv, NEW e \in Events, Happen(e)
  PROVE  Forward
<1>1. /\ source[e] = "absent" /\ version[e] = 0
      /\ intent[<<e, "created">>] = "absent" /\ intent[<<e, "read">>] = "absent"
  BY NotYet DEF Happen
<1>2. /\ source \in [Events -> {"absent", "pending", "delivered", "suppressed"}]
      /\ version \in [Events -> 0..2]
      /\ intent \in [Events \X Actions -> {"absent", "pending", "delivered"}]
  BY DEF InboxInv, InboxExact, InboxTypeOK
<1>3. /\ \A d \in Events : d # e => source'[d] = source[d] /\ version'[d] = version[d]
      /\ version'[e] \in {0, 1}
      /\ \A x \in Events \X Actions : x # <<e, "created">> => intent'[x] = intent[x]
  BY <1>1, <1>2 DEF Happen
<1>4. ASSUME NEW d \in Events PROVE version'[d] >= version[d]
  <2>1. CASE d = e
    BY <2>1, <1>1, <1>3
  <2>2. CASE d # e
    BY <2>2, <1>2, <1>3
  <2> QED
    BY <2>1, <2>2
<1>5. ASSUME NEW x \in Events \X Actions, intent[x] = "delivered"
      PROVE  intent'[x] = "delivered"
  BY <1>1, <1>3, <1>5
<1> QED
  BY <1>1, <1>3, <1>4, <1>5 DEF Forward

\* Reading moves an unread notification on, and records an intent there was none of.
LEMMA ReadForward ==
  ASSUME InboxInv, NEW e \in Events, NEW k \in ReadKeys, NEW v \in 1 .. 2,
         Read(e, k, v) \/ ReadNotice(e, k, v)
  PROVE  Forward
<1>1. /\ version[e] = 1 /\ v = 1 /\ source' = source
      /\ version' = [version EXCEPT ![e] = v + 1]
  BY DEF Read, ReadNotice, FirstRead
<1>2. /\ version \in [Events -> 0..2]
      /\ intent \in [Events \X Actions -> {"absent", "pending", "delivered"}]
  BY DEF InboxInv, InboxExact, InboxTypeOK
<1>3. intent[<<e, "read">>] = "absent"
  <2>1. (version[e] = 2) <=> (intent[<<e, "read">>] # "absent")
    BY DEF InboxInv, InboxExact, ReadOnce
  <2> QED
    BY <1>1, <2>1
<1>4. ASSUME NEW d \in Events PROVE version'[d] >= version[d]
  <2>1. CASE d = e
    BY <2>1, <1>1, <1>2
  <2>2. CASE d # e
    BY <2>2, <1>1, <1>2
  <2> QED
    BY <2>1, <2>2
<1>5. ASSUME NEW x \in Events \X Actions, intent[x] = "delivered"
      PROVE  intent'[x] = "delivered"
  <2>1. x # <<e, "read">>
    BY <1>3, <1>5
  <2>2. CASE Read(e, k, v)
    BY <2>1, <2>2, <1>2, <1>5 DEF Read
  <2>3. CASE ReadNotice(e, k, v)
    BY <2>1, <2>3, <1>2, <1>5 DEF ReadNotice, ReadIntents
  <2> QED
    BY <2>2, <2>3
<1> QED
  BY <1>1, <1>4, <1>5 DEF Forward

\* A batch settles only the sources it locked, which were pending: their
\* notification and its intent did not exist.
LEMMA CommitForward ==
  ASSUME InboxInv, NEW p \in Processes, CommitBatch(p)
  PROVE  Forward
<1> DEFINE o == loop[p].outcome
           D == DOMAIN o
<1>1. /\ source' = [e \in Events |-> IF e \in Settled(p) THEN o[e] ELSE source[e]]
      /\ version' = [e \in Events |-> IF e \in Delivered(p) THEN 1 ELSE version[e]]
      /\ intent' = [x \in Events \X Actions |-> IF x \in Recorded(p) THEN "pending" ELSE intent[x]]
  BY DEF CommitBatch
<1>2. Settled(p) \subseteq D /\ Delivered(p) \subseteq D
  BY DEF Settled, Delivered
<1>3. D \subseteq Held(p)
  BY DEF Held
<1>4. ASSUME NEW e \in Events, e \in D
      PROVE  /\ source[e] = "pending" /\ version[e] = 0
             /\ intent[<<e, "created">>] = "absent"
  <2>1. source[e] = "pending"
    BY <1>3, <1>4 DEF InboxInv, InboxExact, HeldAlone
  <2> QED
    BY <2>1, PendingIs
<1> HIDE DEF o, D
<1>5. \A e \in Events : version[e] \in 0 .. 2
  BY DEF InboxInv, InboxExact, InboxTypeOK
<1>6. ASSUME NEW e \in Events, source[e] \in {"delivered", "suppressed"}
      PROVE  source'[e] = source[e]
  BY <1>1, <1>2, <1>4, <1>6
<1>7. ASSUME NEW e \in Events PROVE version'[e] >= version[e]
  <2>1. CASE e \in Delivered(p)
    <3>1. version[e] = 0 /\ version'[e] = 1
      BY <2>1, <1>1, <1>2, <1>4
    <3> QED
      BY <3>1
  <2>2. CASE e \notin Delivered(p)
    <3>1. version'[e] = version[e] /\ version[e] \in 0 .. 2
      BY <2>2, <1>1, <1>5
    <3> QED
      BY <3>1
  <2> QED
    BY <2>1, <2>2
<1>8. ASSUME NEW x \in Events \X Actions, intent[x] = "delivered"
      PROVE  intent'[x] = "delivered"
  <2>1. ASSUME x \in Recorded(p) PROVE FALSE
    <3>1. PICK e \in Delivered(p) : x = <<e, "created">>
      BY <2>1 DEF Recorded
    <3>2. e \in Events
      BY <3>1
    <3> QED
      BY <3>1, <3>2, <1>2, <1>4, <1>8
  <2> QED
    BY <2>1, <1>1, <1>8
<1> QED
  BY <1>6, <1>7, <1>8 DEF Forward

\* Projecting a notice records an intent there was none of.
LEMMA ProjectForward ==
  ASSUME InboxInv, NEW p \in Processes, PrepareProjections(p)
  PROVE  Forward
<1>1. /\ source' = source /\ version' = version
      /\ \A x \in Events \X Actions : intent[x] # "absent" => intent'[x] = intent[x]
  BY DEF PrepareProjections
<1>2. \A e \in Events : version[e] \in 0 .. 2
  BY DEF InboxInv, InboxExact, InboxTypeOK
<1> QED
  BY <1>1, <1>2 DEF Forward

\* An acknowledgement moves a pending intent on.
LEMMA AckForward ==
  ASSUME InboxInv, NEW p \in Processes, AckAudit(p)
  PROVE  Forward
<1>1. intent \in [Events \X Actions -> {"absent", "pending", "delivered"}]
  BY DEF InboxInv, InboxExact, InboxTypeOK
<1>2. /\ source' = source /\ version' = version /\ intent' = Acked(Head(loop[p].audits))
  BY DEF AckAudit
<1>3. \A x \in Events \X Actions : intent[x] = "delivered" => intent'[x] = "delivered"
  BY <1>1, <1>2 DEF Acked
<1>4. \A e \in Events : version[e] \in 0 .. 2
  BY DEF InboxInv, InboxExact, InboxTypeOK
<1> QED
  BY <1>2, <1>3, <1>4 DEF Forward

\* The other steps of a loop, and the changes around it, leave the three tables alone.
LEMMA LoopForward ==
  ASSUME InboxInv, NEW p \in Processes, Step(p) \/ FailBatch(p) \/ FailAudit(p) \/ Restart(p)
  PROVE  Forward
<1>1. CASE CommitBatch(p)
  BY <1>1, CommitForward
<1>2. CASE PrepareProjections(p)
  BY <1>2, ProjectForward
<1>3. CASE AckAudit(p)
  BY <1>3, AckForward
<1>4. CASE Discover(p) \/ LockBatch(p) \/ Check(p) \/ Materialize(p) \/ SelectAudits(p)
           \/ AppendAudit(p) \/ NextScope(p) \/ FailBatch(p) \/ FailAudit(p) \/ Restart(p)
  <2>1. source' = source /\ version' = version /\ intent' = intent
    BY <1>4 DEF Discover, LockBatch, Check, Materialize, SelectAudits, AppendAudit, NextScope,
       FailBatch, FailAudit, Restart, durable
  <2> QED
    BY <2>1, StillForward
<1> QED
  BY <1>1, <1>2, <1>3, <1>4 DEF Step

\* What has been settled stays settled, whatever the loops, the readers and
\* the faults do: the safety half of DrainsForGood.
THEOREM FinalCorrect == InboxSpec => Final
<1>1. ASSUME InboxInv, [InboxNext]_inboxVars PROVE [Forward]_inboxVars
  <2>1. CASE UNCHANGED inboxVars
    BY <2>1 DEF inboxVars
  <2>2. ASSUME NEW e \in Events, Happen(e) \/ DeliverOrigin(e) PROVE Forward
    <3>1. CASE Happen(e)
      BY <1>1, <3>1, HappenForward
    <3>2. CASE DeliverOrigin(e)
      BY <1>1, <3>2, StillForward DEF DeliverOrigin
    <3> QED
      BY <2>2, <3>1, <3>2
  <2>3. ASSUME NEW e \in Events, NEW f \in Revocable, ChangeRight(e, f) PROVE Forward
    BY <1>1, <2>3, StillForward DEF ChangeRight
  <2>4. ASSUME NEW e \in Events, NEW k \in ReadKeys, NEW v \in 1 .. 2,
               Read(e, k, v) \/ ReadNotice(e, k, v)
        PROVE  Forward
    BY <1>1, <2>4, ReadForward
  <2>5. ASSUME NEW p \in Processes, Step(p) \/ FailBatch(p) \/ FailAudit(p) \/ Restart(p)
        PROVE  Forward
    BY <1>1, <2>5, LoopForward
  <2> QED
    BY <1>1, <2>1, <2>2, <2>3, <2>4, <2>5 DEF InboxNext
<1>2. Final <=> [][Forward]_inboxVars
  BY DEF Final, Forward
<1> QED
  BY <1>1, <1>2, InboxInvariant, PTL DEF InboxSpec
==============================================================================
