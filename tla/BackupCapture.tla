---------------------------- MODULE BackupCapture ----------------------------
(* A backup of a selection: create_selected_backup (manifest version 2) and
   create_lineage_backup (version 3) of recovery_postgres.py with the capture
   stores of recovery_capture.py and recovery_lineage_capture.py.

   The capture directory is named after the idempotency key, the ledger row too.
   A request holds the advisory transaction lock of its key from its first look at
   the ledger until its transaction ends; what it discards after a refusal it
   discards under the same lock taken again.  A lineage capture also holds a lock
   file of the whole store, which outlives its process.  The selection (sources,
   their metadata, the caller's rights) is the number of its version. *)
EXTENDS Naturals

CONSTANTS
  Reqs,          \* requests; the owner id of a capture is fresh for each of them
  Keys,          \* idempotency keys
  Lineage,       \* those that ask for a lineage backup
  NoReq,
  MaxSelection,  \* bound: versions of the selection
  MaxFaults      \* bound: process deaths and errors of storage or database

ASSUME BackupAssumption ==
  /\ Lineage \subseteq Keys /\ NoReq \notin Reqs
  /\ MaxSelection \in Nat \ {0} /\ MaxFaults \in Nat

VARIABLES
  selection,  \* current version of what the caller may back up
  req,        \* requests: step, key, version they resolved, whether they made the capture
  dir,        \* capture directory of a key: its last file, its owner, its version
  keyLock,    \* holder of the advisory lock of a key
  fileLock,   \* owner written in lineage-v3.lock
  row,        \* version of the ready ledger row of a key, 0 for none
  events,     \* backup.ready notifications of a key
  faults      \* faults so far (bound)

vars == <<selection, req, dir, keyLock, fileLock, row, events, faults>>

ledger == <<row, events>>

Steps == {"idle", "resolved", "capture", "captured", "ledger", "discard", "answered", "refused", "dead"}
Ended == {"answered", "refused", "dead"}
Files == {"none", "made", "owner", "data", "receipt"}

TypeOK ==
  /\ selection \in 1..MaxSelection
  /\ req \in [Reqs -> [pc: Steps, key: Keys, seen: 1..MaxSelection, created: BOOLEAN]]
  /\ dir \in [Keys -> [file: Files, owner: Reqs \cup {NoReq}, of: 0..MaxSelection]]
  /\ keyLock \in [Keys -> Reqs \cup {NoReq}]
  /\ fileLock \in Reqs \cup {NoReq}
  /\ row \in [Keys -> 0..MaxSelection]
  /\ events \in [Keys -> Nat]
  /\ faults \in 0..MaxFaults

Init ==
  /\ selection = 1
  /\ req \in [Reqs -> {[pc |-> "idle", key |-> k, seen |-> 1, created |-> FALSE] : k \in Keys}]
  /\ dir = [k \in Keys |-> [file |-> "none", owner |-> NoReq, of |-> 0]]
  /\ keyLock = [k \in Keys |-> NoReq]
  /\ fileLock = NoReq
  /\ row = [k \in Keys |-> 0]
  /\ events = [k \in Keys |-> 0]
  /\ faults = 0

Key(r) == req[r].key
Goto(r, pc) == req' = [req EXCEPT ![r].pc = pc]
Release(r) == keyLock' = [keyLock EXCEPT ![Key(r)] = NoReq]
Faults(n) == faults + n <= MaxFaults /\ faults' = faults + n
Fault == Faults(1)

\* The stored copy is complete and decrypts under the scope of this request.
Verified(r) == dir[Key(r)].file = "receipt" /\ dir[Key(r)].of = req[r].seen

----------------------------------------------------------------------------
(* The request. *)

Resolve(r) ==
  /\ req[r].pc = "idle"
  /\ req' = [req EXCEPT ![r].pc = "resolved", ![r].seen = selection]
  /\ UNCHANGED <<selection, dir, keyLock, fileLock, ledger, faults>>

\* recheck: the selection is still the one resolved.
Current(r) == req[r].seen = selection

Replay(r) ==
  /\ row[Key(r)] # 0
  /\ Goto(r, IF Current(r) /\ row[Key(r)] = req[r].seen /\ Verified(r) THEN "answered" ELSE "refused")
  /\ UNCHANGED <<keyLock, fileLock>>

ReuseReferenced(r) ==
  /\ dir[Key(r)].file # "none"
  /\ IF Current(r) /\ Verified(r)
       THEN Goto(r, "captured") /\ keyLock' = [keyLock EXCEPT ![Key(r)] = r]
       ELSE Goto(r, "refused") /\ UNCHANGED keyLock
  /\ UNCHANGED fileLock

\* A directory of this key is never written again: it is used as it is or refused.
Reuse(r) ==
  /\ row[Key(r)] = 0 /\ dir[Key(r)].file # "none"
  /\ IF Current(r) /\ Verified(r)
       THEN Goto(r, "captured") /\ keyLock' = [keyLock EXCEPT ![Key(r)] = r]
       ELSE Goto(r, "refused") /\ UNCHANGED keyLock
  /\ UNCHANGED fileLock

Create(r) ==
  /\ row[Key(r)] = 0 /\ dir[Key(r)].file = "none"
  /\ IF Current(r) /\ (Key(r) \in Lineage => fileLock = NoReq)
       THEN /\ req' = [req EXCEPT ![r].pc = "capture", ![r].created = TRUE]
            /\ keyLock' = [keyLock EXCEPT ![Key(r)] = r]
            /\ fileLock' = IF Key(r) \in Lineage THEN r ELSE fileLock
       ELSE Goto(r, "refused") /\ UNCHANGED <<keyLock, fileLock>>

Begin(r) ==
  /\ req[r].pc = "resolved" /\ keyLock[Key(r)] = NoReq
  /\ Replay(r) \/ Reuse(r) \/ Create(r)
  /\ UNCHANGED <<selection, dir, ledger, faults>>

\* lineage-v3.lock was made but not written to its end: the error handler does not
\* know that it holds it, and nobody removes it.
LockWriteFails(r) ==
  /\ req[r].pc = "resolved" /\ keyLock[Key(r)] = NoReq
  /\ row[Key(r)] = 0 /\ dir[Key(r)].file = "none" /\ Current(r)
  /\ Key(r) \in Lineage /\ fileLock = NoReq
  /\ fileLock' = r /\ Goto(r, "refused") /\ Fault
  /\ UNCHANGED <<selection, dir, keyLock, ledger>>

\* The files of a capture in the order they become visible; the receipt is renamed
\* into place last, and a lineage capture looks at the selection again before it.
CaptureFile(r) ==
  /\ req[r].pc = "capture"
  /\ LET d == dir[Key(r)] IN
     \/ d.file = "none" /\ dir' = [dir EXCEPT ![Key(r)] = [d EXCEPT !.file = "made"]]
     \/ d.file = "made" /\ dir' = [dir EXCEPT ![Key(r)] = [d EXCEPT !.file = "owner", !.owner = r]]
     \/ d.file = "owner" /\ dir' = [dir EXCEPT ![Key(r)] = [d EXCEPT !.file = "data", !.of = req[r].seen]]
     \/ /\ d.file = "data" /\ (Key(r) \in Lineage => Current(r))
        /\ dir' = [dir EXCEPT ![Key(r)] = [d EXCEPT !.file = "receipt"]]
  /\ UNCHANGED <<selection, req, keyLock, fileLock, ledger, faults>>

Unlock(r) == fileLock' = IF Key(r) \in Lineage THEN NoReq ELSE fileLock
KeepLock(r) == UNCHANGED fileLock

CaptureReceipt(r) ==
  /\ req[r].pc = "capture" /\ dir[Key(r)].file = "receipt"
  /\ Unlock(r) /\ Goto(r, "captured")
  /\ UNCHANGED <<selection, dir, keyLock, ledger, faults>>

\* Faults an error inside capture costs: none for a selection that is not the one
\* resolved any more, when its objects are opened or looked at again.
Raises(r) == IF ~Current(r) /\ dir[Key(r)].file \in {"owner", "data"} THEN {0, 1} ELSE {1}

\* What a removal that fails midway leaves: data.bin goes first, and without it a
\* receipt is no copy.
Remains(file) ==
  CASE file = "receipt" -> {"receipt", "data", "owner"}
    [] file = "data" -> {"data", "owner"}
    [] file = "none" -> {"none", "made"}     \* mkdir raised after it had made the directory
    [] OTHER -> {file}

\* A lineage store that knows its directory removes everything but the marker, then its
\* lock file.  The other store leaves the files to the caller.
Cleanup(r) ==
  /\ Key(r) \in Lineage => dir[Key(r)].file # "made"
  /\ \E f \in IF Key(r) \in Lineage /\ dir[Key(r)].file \in {"data", "receipt"} THEN {"owner"}
              ELSE IF dir[Key(r)].file = "none" THEN Remains("none") ELSE {dir[Key(r)].file} :
       dir' = [dir EXCEPT ![Key(r)].file = f]
  /\ Unlock(r)

\* A refusal (status 4xx) is followed by the discard, an unavailable service (503) is not.
CaptureRefused(r) ==
  /\ req[r].pc = "capture"
  /\ \E n \in Raises(r) : Faults(n)
  /\ Cleanup(r) /\ Release(r) /\ Goto(r, "discard")
  /\ UNCHANGED <<selection, ledger>>

CaptureUnavailable(r) ==
  /\ req[r].pc = "capture" /\ Fault
  /\ Cleanup(r) /\ Release(r) /\ Goto(r, "refused")
  /\ UNCHANGED <<selection, ledger>>

\* BACKUP_CAPTURE_CLEANUP_UNCERTAIN, a 503: the lock file of a lineage capture stays,
\* because the directory has no marker yet, because the cleanup or the removal of the
\* lock failed after an error, or because the latter failed beside a complete copy.
CleanupUncertain(r) ==
  /\ req[r].pc = "capture" /\ Key(r) \in Lineage
  /\ LET file == dir[Key(r)].file IN
     \/ file \in {"made", "receipt"} /\ Fault /\ UNCHANGED dir
     \/ /\ file # "made"
        /\ \E n \in Raises(r) : Faults(n + 1)
        /\ \E f \in Remains(file) : dir' = [dir EXCEPT ![Key(r)].file = f]
  /\ KeepLock(r) /\ Release(r) /\ Goto(r, "refused")
  /\ UNCHANGED <<selection, ledger>>

\* Last look at the copy and at the selection; also a session that has ended refuses.
FinalCheck(r) ==
  /\ req[r].pc = "captured"
  /\ \/ Current(r) /\ Verified(r) /\ Goto(r, "ledger") /\ UNCHANGED <<keyLock, faults>>
     \/ /\ (~(Current(r) /\ Verified(r)) /\ UNCHANGED faults) \/ Fault
        /\ Goto(r, IF req[r].created THEN "discard" ELSE "refused") /\ Release(r)
  /\ UNCHANGED <<selection, dir, fileLock, ledger>>

\* The row, its audit events and its notification in one transaction.
Commit(r) ==
  /\ req[r].pc = "ledger"
  /\ row' = [row EXCEPT ![Key(r)] = req[r].seen]
  /\ events' = [events EXCEPT ![Key(r)] = @ + 1]
  /\ Release(r)
  /\ \/ Goto(r, "answered") /\ UNCHANGED faults
     \/ Goto(r, "refused") /\ Fault          \* committed, but the answer was lost
  /\ UNCHANGED <<selection, dir, fileLock>>

RollbackHeld(r) ==
  /\ req[r].pc = "ledger" /\ Fault /\ Goto(r, "refused")
  /\ UNCHANGED <<selection, dir, keyLock, fileLock, ledger>>

Rollback(r) ==
  /\ req[r].pc = "ledger" /\ Fault
  /\ Release(r) /\ Goto(r, "refused")
  /\ UNCHANGED <<selection, dir, fileLock, ledger>>

DiscardUnlocked(r) ==
  /\ req[r].pc = "discard"
  /\ IF dir[Key(r)].owner = r /\ (Key(r) \in Lineage => fileLock = NoReq)
       THEN dir' = [dir EXCEPT ![Key(r)].file = "owner"]
       ELSE UNCHANGED dir
  /\ Goto(r, "refused")
  /\ UNCHANGED <<selection, keyLock, fileLock, ledger, faults>>

\* Only the request's own files, only while no row refers to them; the marker stays.
Discardable(r) ==
  row[Key(r)] = 0 /\ dir[Key(r)].owner = r /\ (Key(r) \in Lineage => fileLock = NoReq)

DiscardUnreferenced(r) ==
  /\ req[r].pc = "discard" /\ keyLock[Key(r)] = NoReq
  /\ IF Discardable(r)
       THEN dir' = [dir EXCEPT ![Key(r)].file = "owner"]
       ELSE UNCHANGED dir
  /\ Goto(r, "refused")
  /\ UNCHANGED <<selection, keyLock, fileLock, ledger, faults>>

DiscardFails(r) ==
  /\ req[r].pc = "discard" /\ keyLock[Key(r)] = NoReq /\ Discardable(r) /\ Fault
  /\ \E f \in Remains(dir[Key(r)].file) : dir' = [dir EXCEPT ![Key(r)].file = f]
  /\ Goto(r, "refused")
  /\ UNCHANGED <<selection, keyLock, fileLock, ledger>>

----------------------------------------------------------------------------
(* The world around it. *)

ChangeSelection ==
  /\ selection < MaxSelection /\ selection' = selection + 1
  /\ UNCHANGED <<req, dir, keyLock, fileLock, ledger, faults>>

\* The process dies: transactions end with it, files and the lock file stay.
Crash ==
  /\ Fault
  /\ \E r \in Reqs : req[r].pc \notin Ended \cup {"idle"}
  /\ req' = [r \in Reqs |-> IF req[r].pc \in Ended \cup {"idle"} THEN req[r]
                            ELSE [req[r] EXCEPT !.pc = "dead"]]
  /\ keyLock' = [k \in Keys |-> NoReq]
  /\ UNCHANGED <<selection, dir, fileLock, ledger>>

Request(r) ==
  \/ Resolve(r) \/ Begin(r) \/ LockWriteFails(r) \/ CaptureFile(r) \/ CaptureReceipt(r)
  \/ CaptureRefused(r) \/ CaptureUnavailable(r) \/ CleanupUncertain(r) \/ FinalCheck(r)
  \/ Commit(r) \/ Rollback(r) \/ DiscardUnreferenced(r) \/ DiscardFails(r)

Next == ChangeSelection \/ Crash \/ \E r \in Reqs : Request(r)

\* A request runs to its end while the process lives; a waiter on a lock gets it.
Progress(r) ==
  \/ Begin(r) \/ CaptureFile(r) \/ CaptureReceipt(r) \/ CaptureRefused(r)
  \/ FinalCheck(r) \/ Commit(r) \/ DiscardUnreferenced(r)

Spec == Init /\ [][Next]_vars

FairSpec == Spec /\ \A r \in Reqs : SF_vars(Progress(r))

----------------------------------------------------------------------------
(* Properties. *)

(* A ready backup can be read: its row in backup_records points to a complete copy
   of the selection the row names, whatever other requests with the same key were
   refused, timed out or discarded their work. *)
BackupReadable ==
  \A k \in Keys : row[k] # 0 => dir[k].file = "receipt" /\ dir[k].of = row[k]

(* A directory has one owner for ever and discard_unreferenced leaves its marker: a
   key whose capture was discarded never gets a copy of another selection. *)
MarkerStays ==
  [][\A k \in Keys : dir[k].owner # NoReq =>
        /\ dir'[k].owner = dir[k].owner /\ dir'[k].of \in {dir[k].of, req[dir[k].owner].seen}
        /\ dir'[k].file \in {"owner", "data", "receipt"}]_vars

(* lineage-v3.lock keeps lineage captures apart, and its owner is running its capture,
   or died or was refused in it after a fault: a request that went on to the ledger, was
   answered or is about to discard its files has given the lock back. *)
LockFileExplained ==
  /\ \A r \in Reqs : req[r].pc = "capture" /\ Key(r) \in Lineage => fileLock = r
  /\ fileLock # NoReq =>
       req[fileLock].pc = "capture" \/ (req[fileLock].pc \in {"dead", "refused"} /\ faults > 0)

(* The backup.ready event is sent once for a row and never without one, also when the
   caller lost the answer and asked again. *)
ReadyOnce == \A k \in Keys : events[k] = IF row[k] = 0 THEN 0 ELSE 1

(* A caller that got an answer has a backup of the selection it resolved. *)
AnswerKept ==
  \A r \in Reqs : req[r].pc = "answered" => row[Key(r)] = req[r].seen

(* Every request ends: nobody waits for a lock whose holder is gone. *)
RequestsEnd == \A r \in Reqs : req[r].pc = "resolved" ~> req[r].pc \in Ended

\* A backup in the ledger can be read, and a lock file left behind has an explanation.
BackupsKept == TypeOK /\ BackupReadable /\ LockFileExplained

\* One request, one backup, and every answer stays true.
OneBackup == ReadyOnce /\ AnswerKept

\* Requests end, and the markers they leave stay.
EndsMarked == MarkerStays /\ RequestsEnd
=============================================================================
