---------------------------- MODULE OfflineStudio ----------------------------
(***************************************************************************)
(* The local service of the desktop application: the encrypted store       *)
(* (local_storage.py), the import of knowledge copies and raw sources, the *)
(* offline Studio (offline_studio.py) and the recovery jobs (recovery.py). *)
(*                                                                         *)
(* One process serves one request at a time: a route runs its handler to   *)
(* the end before the next one starts.  A handler is a sequence of store   *)
(* operations, each committed on its own, so a process death or an error   *)
(* of the storage may come between any two of them.  "job" is the handler  *)
(* that runs and the operation it is about to do; one action is one        *)
(* operation.  A request that only reads, or that is answered from what is *)
(* stored, changes nothing and is a stuttering step.                       *)
(***************************************************************************)
EXTENDS Naturals, Sequences, FiniteSets

CONSTANTS Copies,       \* knowledge copies (copy_id)
          Sources,      \* raw sources (source_id)
          Objects,      \* identifiers put_file may draw
          Contexts,     \* idempotency keys of prepare_context
          Requests,     \* idempotency keys of confirm_settings
          Keys,         \* idempotency keys of generate_draft
          Previews,     \* idempotency keys of queue_sync_preview
          Edits,        \* edits of a draft that clients make
          Jobs,         \* recovery jobs
          MaxModel,     \* bound: imports of provider settings
          MaxStates,    \* bound: versions of a knowledge copy
          MaxVersions,  \* bound: versions of a draft
          MaxFails,     \* bound: failures of the provider, per request
          MaxFaults     \* bound: process deaths and storage errors

Items == Copies \cup Sources
None == "none"

ASSUME ConstantsOK ==
    /\ IsFiniteSet(Objects) /\ IsFiniteSet(Requests) /\ IsFiniteSet(Keys)
    /\ IsFiniteSet(Jobs)
    /\ None \notin Items \cup Objects \cup Contexts \cup Requests \cup Keys \cup Jobs
    /\ MaxModel \in Nat \ {0} /\ MaxStates \in Nat /\ MaxVersions \in Nat \ {0}
    /\ MaxFails \in Nat /\ MaxFaults \in Nat

VARIABLES
    up,       \* the process runs and the store is open
    job,      \* [at, on, obj, key]: the handler that runs, "idle" when none does
    tmp,      \* objects whose temporary file is on disk
    blob,     \* objects whose .bin file is on disk
    rows,     \* objects with a row of local_objects
    owner,    \* [Items -> Objects \cup {None}]: object_id in the item's envelope
    copy,     \* [Copies -> Seq of states]: versions of the copy's envelope
    context,  \* [Contexts -> SUBSET Items]: ScopeSnapshot; {} when there is none
    request,  \* [Requests -> [at, context, model]]: GenerationRequest and settings
    runs,     \* Run envelopes, <<request, key>>
    snaps,    \* RunSnapshot envelopes, <<request, key>>
    outputs,  \* requests whose StudioOutput envelope exists
    version,  \* [Requests -> Nat]: last OutputVersion of the request's draft
    queued,   \* [Previews -> <<request, version>> or <<>>]: sync_queue_states
    recovery, \* [Jobs -> Seq of states]: recovery_job_states
    model,    \* the selection the model catalogue answers now
    calls,    \* [Requests -> Nat]: calls of the provider, for the properties
    fails,    \* [Requests -> Nat]: calls that failed, for the properties
    lapsed,   \* copies whose expires_at has passed
    edit,     \* [Edits -> <<request, version>> or <<>>]: the version its author saw
    written,  \* [Edits -> SUBSET Nat]: versions the edit became, for the properties
    faults    \* process deaths and storage errors so far

offlineVars == <<up, job, tmp, blob, rows, owner, copy, context, request, runs, snaps,
          outputs, version, queued, recovery, model, calls, fails, lapsed, edit,
          written, faults>>
files   == <<tmp, blob, rows>>
items   == <<owner, copy>>
drafts  == <<runs, snaps, outputs, version>>
counts  == <<calls, fails>>
outside == <<lapsed, edit, written>>     \* the clock and the clients
world   == <<up, faults, outside>>

Idle == [at |-> "idle", on |-> None, obj |-> None, key |-> None]
NoRequest == [at |-> None, context |-> None, model |-> 0]

OfflineInit ==
    /\ up = TRUE /\ job = Idle
    /\ tmp = {} /\ blob = {} /\ rows = {}
    /\ owner = [i \in Items |-> None]
    /\ copy = [c \in Copies |-> <<>>]
    /\ context = [x \in Contexts |-> {}]
    /\ request = [r \in Requests |-> NoRequest]
    /\ runs = {} /\ snaps = {} /\ outputs = {}
    /\ version = [r \in Requests |-> 0]
    /\ queued = [p \in Previews |-> <<>>]
    /\ recovery = [j \in Jobs |-> <<>>]
    /\ model = 1
    /\ calls = [r \in Requests |-> 0]
    /\ fails = [r \in Requests |-> 0]
    /\ lapsed = {}
    /\ edit = [e \in Edits |-> <<>>]
    /\ written = [e \in Edits |-> {}]
    /\ faults = 0

Ready == up /\ job = Idle
At(place) == up /\ job.at = place
Step(place) == job' = [job EXCEPT !.at = place]
Done == job' = Idle

(***************************************************************************)
(* The import of an item: temporary file, file, row, envelopes.            *)
(***************************************************************************)

\* The object of a new item goes to put_file.  A key seen before is answered
\* from the envelope and an item that exists is immutable, so only a new item
\* goes on.
PutFile(i) ==
    /\ Ready
    /\ owner[i] = None
    /\ \E o \in Objects \ (tmp \cup blob \cup rows) :
         job' = [at |-> "temp", on |-> i, obj |-> o, key |-> None]
    /\ UNCHANGED <<files, items, context, request, drafts, queued, recovery,
                   model, counts, world>>

ImportKnowledgeCopy(c) == c \in Copies /\ PutFile(c)
ImportSource(s) == s \in Sources /\ PutFile(s)

\* atomic_write, first half: the temporary file is written and flushed.
WriteTemp ==
    /\ At("temp")
    /\ tmp' = tmp \cup {job.obj}
    /\ Step("rename")
    /\ UNCHANGED <<blob, rows, items, context, request, drafts, queued, recovery,
                   model, counts, world>>

\* atomic_write, second half: the temporary file takes the final name.
Rename ==
    /\ At("rename")
    /\ tmp' = tmp \ {job.obj}
    /\ blob' = blob \cup {job.obj}
    /\ Step("row")
    /\ UNCHANGED <<rows, items, context, request, drafts, queued, recovery,
                   model, counts, world>>

\* The row of local_objects is inserted and committed.
InsertRow ==
    /\ At("row")
    /\ rows' = rows \cup {job.obj}
    /\ Step("envelope")
    /\ UNCHANGED <<tmp, blob, items, context, request, drafts, queued, recovery,
                   model, counts, world>>

\* An error inside _put_file: rollback, then both files are deleted; an error
\* of a deletion is ignored and leaves that file.
PutFileFails ==
    /\ up /\ job.at \in {"temp", "rename", "row"}
    /\ faults < MaxFaults
    /\ faults' = faults + 1
    /\ tmp' \in {tmp, tmp \ {job.obj}}
    /\ blob' \in {blob, blob \ {job.obj}}
    /\ Done
    /\ UNCHANGED <<up, rows, items, context, request, drafts, queued, recovery,
                   model, counts, outside>>

\* Version 1 of the copy, in one transaction.
PutCanonicalEnvelope ==
    /\ At("envelope") /\ job.on \in Copies
    /\ owner' = [owner EXCEPT ![job.on] = job.obj]
    /\ copy' = [copy EXCEPT ![job.on] = <<"approved">>]
    /\ Done
    /\ UNCHANGED <<files, context, request, drafts, queued, recovery, model,
                   counts, world>>

\* SourceVersion, IndexVersion and EvidenceSpans of the raw source, in one transaction.
PutRawSourceBundle ==
    /\ At("envelope") /\ job.on \in Sources
    /\ owner' = [owner EXCEPT ![job.on] = job.obj]
    /\ Done
    /\ UNCHANGED <<files, copy, context, request, drafts, queued, recovery, model,
                   counts, world>>

\* Mutant: the refused import leaves its object where it is.
RefusedKeepsRow ==
    /\ At("envelope")
    /\ Done
    /\ UNCHANGED <<files, items, context, request, drafts, queued, recovery,
                   model, counts, world>>

\* The envelopes are refused and rolled back.  For a raw source any error of
\* the database comes here; for a copy only one that put_canonical_envelope
\* turns into a LocalStorageError.
EnvelopesRefused ==
    /\ At("envelope")
    /\ Step("unrow")
    /\ UNCHANGED <<files, items, context, request, drafts, queued, recovery,
                   model, counts, world>>

\* The row of the failed import is deleted and committed...
RemoveRow ==
    /\ At("unrow")
    /\ rows' = rows \ {job.obj}
    /\ Step("unblob")
    /\ UNCHANGED <<tmp, blob, items, context, request, drafts, queued, recovery,
                   model, counts, world>>

\* ...and then its file; an error of the deletion is ignored.
RemoveBlob ==
    /\ At("unblob")
    /\ blob' \in {blob, blob \ {job.obj}}
    /\ Done
    /\ UNCHANGED <<tmp, rows, items, context, request, drafts, queued, recovery,
                   model, counts, world>>

Latest(c) == copy[c][Len(copy[c])]

\* refresh_knowledge_copy: a state that differs is appended as a new version.
RefreshCopy(c, state) ==
    /\ Ready
    /\ owner[c] # None
    /\ Len(copy[c]) < MaxStates
    /\ Latest(c) # state
    /\ copy' = [copy EXCEPT ![c] = Append(@, state)]
    /\ UNCHANGED <<job, files, owner, context, request, drafts, queued, recovery,
                   model, counts, world>>

\* The time of a copy runs out; nothing is recorded of it.
Lapses(c) ==
    /\ c \notin lapsed
    /\ lapsed' = lapsed \cup {c}
    /\ UNCHANGED <<job, files, items, context, request, drafts, queued, recovery,
                   model, counts, up, faults, edit, written>>

(***************************************************************************)
(* Contexts, settings and drafts.                                          *)
(***************************************************************************)

\* The projection and the resolver read a copy by its last version.  The
\* resolver looks at the recorded state alone, the projection also at the time.
Approved(i) == owner[i] # None /\ (i \in Copies => Latest(i) = "approved")

\* get_file: the object has its row and its file, which decrypts.
GetFile(i) == owner[i] \in rows /\ owner[i] \in blob

\* select: the catalogue still answers the selection a request was confirmed with.
Select(r) == request[r].model = model

\* import_provider_settings: the catalogue answers another selection.
ImportProviderSettings ==
    /\ Ready
    /\ model < MaxModel
    /\ model' = model + 1
    /\ UNCHANGED <<job, files, items, context, request, drafts, queued, recovery,
                   counts, world>>

\* prepare_context: the items are projected and the snapshot is stored.  A key
\* with a snapshot is answered from it.
PrepareContext(x, chosen) ==
    /\ Ready
    /\ context[x] = {}
    /\ chosen # {}
    /\ \A i \in chosen : Approved(i) /\ i \notin lapsed
    /\ context' = [context EXCEPT ![x] = chosen]
    /\ UNCHANGED <<job, files, items, request, drafts, queued, recovery, model,
                   counts, world>>

\* confirm_settings for a new key: the model is selected now and carried by
\* the handler.  A key with an envelope answers from its last version, or
\* fails when that version names no settings.
ConfirmSettings(r, x) ==
    /\ Ready
    /\ context[x] # {}
    /\ request[r] = NoRequest
    /\ job' = [Idle EXCEPT !.at = "configuring", !.on = r, !.key = x]
    /\ UNCHANGED <<files, items, context, request, drafts, queued, recovery,
                   model, counts, world>>

\* GenerationRequest version 1, GenerationSettingsSnapshot, GenerationRequest
\* version 2: three appends.
AppendRequest ==
    /\ up /\ job.at \in {"configuring", "settings", "submitted"}
    /\ request' = [request EXCEPT ![job.on] =
                     [at |-> job.at, context |-> job.key, model |-> model]]
    /\ job' = CASE job.at = "configuring" -> [job EXCEPT !.at = "settings"]
                [] job.at = "settings"    -> [job EXCEPT !.at = "submitted"]
                [] job.at = "submitted"   -> Idle
    /\ UNCHANGED <<files, items, context, drafts, queued, recovery, model,
                   counts, world>>

\* Mutant: the resolver does not look at the state of a copy.
EvidenceAnyState(x) ==
    \A i \in context[x] : GetFile(i)

\* EncryptedEvidenceResolver: every item of the context is read again.
Evidence(x) ==
    \A i \in context[x] : Approved(i) /\ GetFile(i)

\* generate_draft up to the call of the provider: the request is confirmed, its
\* selection is still what the catalogue answers, no version exists and the
\* evidence resolves.  Calls are bounded by the failures and faults that make
\* another one necessary.
GenerateDraft(r, k) ==
    /\ Ready
    /\ request[r].at = "submitted"
    /\ Select(r)
    /\ version[r] = 0
    /\ Evidence(request[r].context)
    /\ calls[r] - fails[r] < MaxFaults + 1
    /\ calls' = [calls EXCEPT ![r] = @ + 1]
    /\ job' = [Idle EXCEPT !.at = "provider", !.on = r, !.key = k]
    /\ UNCHANGED <<files, items, context, request, drafts, queued, recovery,
                   model, fails, world>>

\* The provider answers and validate_draft_output accepts.
ProviderAnswers ==
    /\ At("provider")
    /\ Step("run")
    /\ UNCHANGED <<files, items, context, request, drafts, queued, recovery,
                   model, counts, world>>

\* The provider fails, or its answer is refused.
ProviderFails ==
    /\ At("provider")
    /\ fails[job.on] < MaxFails
    /\ fails' = [fails EXCEPT ![job.on] = @ + 1]
    /\ Done
    /\ UNCHANGED <<files, items, context, request, drafts, queued, recovery,
                   model, calls, world>>

Attempt == <<job.on, job.key>>

\* The Run envelope, already "completed".  Its id comes from request and key:
\* a second one is refused as immutable and the handler ends.
AppendRun ==
    /\ At("run")
    /\ runs' = runs \cup {Attempt}
    /\ IF Attempt \in runs THEN Done ELSE Step("snapshot")
    /\ UNCHANGED <<files, items, context, request, snaps, outputs, version,
                   queued, recovery, model, counts, world>>

AppendSnapshot ==
    /\ At("snapshot")
    /\ snaps' = snaps \cup {Attempt}
    /\ Step("output")
    /\ UNCHANGED <<files, items, context, request, runs, outputs, version,
                   queued, recovery, model, counts, world>>

\* The StudioOutput envelope; its id comes from the request alone.
AppendOutput ==
    /\ At("output")
    /\ outputs' = outputs \cup {job.on}
    /\ IF job.on \in outputs THEN Done ELSE Step("version")
    /\ UNCHANGED <<files, items, context, request, runs, snaps, version,
                   queued, recovery, model, counts, world>>

AppendVersion ==
    /\ At("version")
    /\ version' = [version EXCEPT ![job.on] = 1]
    /\ Done
    /\ UNCHANGED <<files, items, context, request, runs, snaps, outputs,
                   queued, recovery, model, counts, world>>

\* get_draft: a client reads the last version and makes its edit of it.
GetDraft(e, r) ==
    /\ Ready
    /\ edit[e] = <<>> /\ version[r] > 0
    /\ edit' = [edit EXCEPT ![e] = <<r, version[r]>>]
    /\ UNCHANGED <<job, files, items, context, request, drafts, queued, recovery,
                   model, counts, up, faults, lapsed, written>>

\* The edit becomes the next version.
Applies(e, r) ==
    /\ version[r] < MaxVersions
    /\ version' = [version EXCEPT ![r] = @ + 1]
    /\ written' = [written EXCEPT ![e] = @ \cup {version[r] + 1}]
    /\ UNCHANGED <<job, files, items, context, request, runs, snaps, outputs,
                   queued, recovery, model, counts, up, faults, lapsed, edit>>

\* Mutant: the version the edit was made of is not compared with the last one.
AppendStaleEdit(e) ==
    /\ Ready /\ edit[e] # <<>>
    /\ Applies(e, edit[e][1])

\* append_edit: refused unless its author saw the last version.  A client that
\* lost the answer sends the edit again; the idempotency key is not looked at.
AppendEdit(e) ==
    /\ Ready /\ edit[e] # <<>>
    /\ version[edit[e][1]] = edit[e][2]
    /\ Applies(e, edit[e][1])

\* queue_sync_preview: the version named must be the last one.  A key with a
\* queue row answers if the manifest is the same and is refused otherwise.
QueueSyncPreview(p, r, v) ==
    /\ Ready
    /\ queued[p] = <<>>
    /\ version[r] > 0 /\ v = version[r]
    /\ queued' = [queued EXCEPT ![p] = <<r, v>>]
    /\ UNCHANGED <<job, files, items, context, request, drafts, recovery, model,
                   counts, world>>

(***************************************************************************)
(* Recovery jobs.                                                          *)
(***************************************************************************)
ScanStates == <<"detected", "quarantined", "scanning">>
Settled == {"repairable", "manual_recovery_required", "verified"}
LastOf(j) == recovery[j][Len(recovery[j])]

\* scan draws a new job and appends four states, repair appends two more.
Scan(j) ==
    /\ Ready
    /\ recovery[j] = <<>>
    /\ job' = [Idle EXCEPT !.at = "scan", !.on = j]
    /\ UNCHANGED <<files, items, context, request, drafts, queued, recovery,
                   model, counts, world>>

ScanAppend ==
    /\ At("scan")
    /\ LET n == Len(recovery[job.on])
       IN \E next \in IF n < 3 THEN {ScanStates[n + 1]}
                      ELSE {"repairable", "manual_recovery_required"} :
            /\ recovery' = [recovery EXCEPT ![job.on] = Append(@, next)]
            /\ IF n < 3 THEN UNCHANGED job ELSE Done
    /\ UNCHANGED <<files, items, context, request, drafts, queued, model, counts,
                   world>>

\* repair, first append.  A job a scan called repairable has its journal, so
\* the other branch of repair is not reached.
Repair(j) ==
    /\ Ready
    /\ recovery[j] # <<>>
    /\ LastOf(j) = "repairable"
    /\ recovery' = [recovery EXCEPT ![j] = Append(@, "repairing")]
    /\ job' = [Idle EXCEPT !.at = "repairing", !.on = j]
    /\ UNCHANGED <<files, items, context, request, drafts, queued, model, counts,
                   world>>

RepairVerified ==
    /\ At("repairing")
    /\ recovery' = [recovery EXCEPT ![job.on] = Append(@, "verified")]
    /\ Done
    /\ UNCHANGED <<files, items, context, request, drafts, queued, model, counts,
                   world>>

(***************************************************************************)
(* Failures.                                                               *)
(***************************************************************************)

\* An error of the database at an append that no handler turns into a clean-up:
\* the insert is not there and the handler ends.
AppendFails ==
    /\ up /\ job.at \in {"configuring", "settings", "submitted", "run",
                         "snapshot", "output", "version", "scan", "repairing"}
               \cup (IF job.on \in Copies THEN {"envelope"} ELSE {})
    /\ faults < MaxFaults
    /\ faults' = faults + 1
    /\ Done
    /\ UNCHANGED <<up, files, items, context, request, drafts, queued, recovery,
                   model, counts, outside>>

\* The process dies: the parent went away, or it was killed.
Die ==
    /\ up
    /\ faults < MaxFaults
    /\ faults' = faults + 1
    /\ up' = FALSE
    /\ Done
    /\ UNCHANGED <<files, items, context, request, drafts, queued, recovery,
                   model, counts, outside>>

\* open and _recover_orphans: temporary files and files without a row go.
Open ==
    /\ ~up
    /\ up' = TRUE
    /\ tmp' = {}
    /\ blob' = blob \cap rows
    /\ UNCHANGED <<job, rows, items, context, request, drafts, queued, recovery,
                   model, counts, faults, outside>>

OfflineNext ==
    \/ \E c \in Copies : ImportKnowledgeCopy(c)
    \/ \E s \in Sources : ImportSource(s)
    \/ WriteTemp \/ Rename \/ InsertRow \/ PutFileFails
    \/ PutCanonicalEnvelope \/ PutRawSourceBundle
    \/ EnvelopesRefused \/ RemoveRow \/ RemoveBlob
    \/ \E c \in Copies, s \in {"approved", "revoked", "expired"} : RefreshCopy(c, s)
    \/ \E c \in Copies : Lapses(c)
    \/ ImportProviderSettings
    \/ \E x \in Contexts, chosen \in SUBSET Items : PrepareContext(x, chosen)
    \/ \E r \in Requests, x \in Contexts : ConfirmSettings(r, x)
    \/ AppendRequest
    \/ \E r \in Requests, k \in Keys : GenerateDraft(r, k)
    \/ ProviderAnswers \/ ProviderFails
    \/ AppendRun \/ AppendSnapshot \/ AppendOutput \/ AppendVersion
    \/ \E e \in Edits, r \in Requests : GetDraft(e, r)
    \/ \E e \in Edits : AppendEdit(e)
    \/ \E p \in Previews, r \in Requests, v \in 1 .. MaxVersions :
         QueueSyncPreview(p, r, v)
    \/ \E j \in Jobs : Scan(j) \/ Repair(j)
    \/ ScanAppend \/ RepairVerified
    \/ AppendFails \/ Die \/ Open

OfflineSpec == OfflineInit /\ [][OfflineNext]_offlineVars

(***************************************************************************)
(* Properties.                                                             *)
(***************************************************************************)
Places == {"idle", "temp", "rename", "row", "envelope", "unrow", "unblob",
           "configuring", "settings", "submitted", "provider", "run", "snapshot",
           "output", "version", "scan", "repairing"}
RecoveryStates == {"detected", "quarantined", "scanning", "repairing"} \cup Settled
Handlers == [at : Places, on : Items \cup Requests \cup Jobs \cup {None},
             obj : Objects \cup {None}, key : Contexts \cup Keys \cup {None}]
Confirmed == [at : {None, "configuring", "settings", "submitted"},
              context : Contexts \cup {None}, model : Nat]

\* The type of every variable (local_storage.py, the tables of _migrate).
OfflineTypeOK ==
    /\ up \in BOOLEAN
    /\ job \in Handlers
    /\ tmp \subseteq Objects /\ blob \subseteq Objects /\ rows \subseteq Objects
    /\ owner \in [Items -> Objects \cup {None}]
    /\ copy \in [Copies -> Seq({"approved", "revoked", "expired"})]
    /\ context \in [Contexts -> SUBSET Items]
    /\ request \in [Requests -> Confirmed]
    /\ runs \subseteq Requests \X Keys /\ snaps \subseteq Requests \X Keys
    /\ outputs \subseteq Requests
    /\ version \in [Requests -> 0 .. MaxVersions]
    /\ queued \in [Previews -> (Requests \X Nat) \cup {<<>>}]
    /\ recovery \in [Jobs -> Seq(RecoveryStates)]
    /\ model \in 1 .. MaxModel
    /\ calls \in [Requests -> Nat] /\ fails \in [Requests -> Nat]
    /\ lapsed \subseteq Copies
    /\ edit \in [Edits -> (Requests \X (Nat \ {0})) \cup {<<>>}]
    /\ written \in [Edits -> SUBSET Nat]
    /\ faults \in 0 .. MaxFaults

\* Whatever dies and whenever, an object with a row has its file, and the object
\* an envelope names has its row: a copy or a source that is listed can be read
\* (_put_file writes the file first, a failed import removes the row first and
\* _recover_orphans keeps what a row names).
StoredReadable ==
    /\ rows \subseteq blob
    /\ \A i \in Items : owner[i] # None => owner[i] \in rows

\* A draft has its whole lineage: output, a run of the request with its
\* snapshot, the submitted request, its context, and every item of the context
\* still stored (generate_draft appends them in this order).
DraftLineage ==
    \A r \in Requests : version[r] > 0 =>
      /\ r \in outputs
      /\ \E k \in Keys : <<r, k>> \in runs \cap snaps
      /\ request[r].at = "submitted"
      /\ context[request[r].context] # {}
      /\ \A i \in context[request[r].context] : owner[i] \in rows

\* What a handler left half done: an object no envelope names, a request
\* without its second version, a run without snapshot or draft, an unfinished
\* recovery job.
Unowned == rows \ {owner[i] : i \in Items}
HalfRequests == {r \in Requests : request[r].at \in {"configuring", "settings"}}
HalfRuns == {a \in runs : a \notin snaps \/ version[a[1]] = 0}
HalfJobs == {j \in Jobs : recovery[j] # <<>> /\ LastOf(j) \notin Settled}
Half == Cardinality(Unowned) + Cardinality(HalfRequests) + Cardinality(HalfJobs)
        + Cardinality({a[1] : a \in HalfRuns})

\* Only a death or a storage error leaves something half done, and each leaves
\* at most one thing (the handlers run one at a time, and every other way out
\* of an import removes the object again).
HalfExplained == Ready => Half <= faults

\* A request pays for one answer of the provider, unless a death or a storage
\* error lost one: after a draft exists it is answered from the store, whatever
\* key the client comes with (generate_draft's look-up by request).
PaidOnce ==
    \A r \in Requests : faults = 0 => calls[r] <= fails[r] + 1

\* While the provider works on a draft, every knowledge copy whose text it was
\* sent is recorded as approved and the model is the one the user confirmed,
\* although the context was prepared and the request confirmed before a
\* revocation or another model (EncryptedEvidenceResolver, MODEL_SELECTION_STALE;
\* handlers run one at a time).  A copy whose time ran out after its context was
\* prepared is still sent until its expiry is recorded.
SentCurrent ==
    job.at = "provider" =>
      /\ Select(job.on)
      /\ \A c \in context[request[job.on].context] \cap Copies : Latest(c) = "approved"

\* Version v of a draft is one edit of version v - 1, and no other edit of that was applied.
OneEdit(r, v) ==
    \E e \in Edits :
      /\ edit[e] = <<r, v - 1>> /\ written[e] = {v}
      /\ \A f \in Edits \ {e} : edit[f] = <<r, v - 1>> => written[f] = {}

\* Every version of a draft after the first is one edit, made by a client that
\* saw the version before it: an edit that is sent again after a lost answer, or
\* one that another client made of the same version, is never applied
\* (append_edit's previous_version_id).
EditedOnce == \A r \in Requests : \A v \in 2 .. version[r] : OneEdit(r, v)

\* What a client asks for again is done once: its draft is paid for once, its edit applied once.
DoneOnce == PaidOnce /\ EditedOnce

\* A recovery job is verified only after a scan found it repairable, and a job
\* for manual recovery stays one (repair's check of the state).
VerifiedWasRepairable ==
    \A j \in Jobs : \A n \in 1 .. Len(recovery[j]) :
      recovery[j][n] \in {"repairing", "verified"} =>
        recovery[j] = SubSeq(ScanStates \o <<"repairable", "repairing", "verified">>,
                             1, Len(recovery[j]))

\* Whatever a death interrupts, files, rows and envelopes explain each other.
StoreExplained ==
  OfflineTypeOK /\ StoredReadable /\ DraftLineage /\ HalfExplained /\ VerifiedWasRepairable
=============================================================================
