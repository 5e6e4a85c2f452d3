--------------------------- MODULE SourceDeletion ---------------------------
(***************************************************************************)
(* How sources leave the system, and the uploads and holds they race with. *)
(* There are two ways out.                                                 *)
(*                                                                         *)
(* Deleting a notebook (notebook_deletion.py, migration 0023): the route   *)
(* commits a request and starts a task of its own process, which checks    *)
(* and removes the notebook's rows in one transaction, deletes the blobs   *)
(* whose keys it remembers, and marks the request.  The transaction runs   *)
(* under READ COMMITTED, so its checks and its removal are two actions.    *)
(*                                                                         *)
(* Deleting a source (source_deletion_cleanup.py, migration 0063): staging *)
(* removes the rows and writes down the keys in one transaction; each blob *)
(* is deleted inside a transaction that records it; any later call with    *)
(* the same key goes on where the last one stopped.                        *)
(*                                                                         *)
(* A source has one version and one object, named after it, as the upload  *)
(* path creates them; its blobs are the staged and the final copy.         *)
(***************************************************************************)
EXTENDS Naturals

CONSTANTS
  Notebooks,
  Sources,      \* what one upload key creates: source, version and object
  Clients,      \* uploading or binding calls under way
  MaxRequests,  \* bound on deletion requests of one notebook
  MaxFaults,    \* bound on process deaths and on marks that cannot be written
  None

ASSUME DeletionAssumption ==
  /\ MaxRequests \in Nat
  /\ MaxFaults \in Nat
  /\ None \notin Notebooks \cup Sources

VARIABLES
  notebooks,  \* notebooks
  sources,    \* sources with their source_versions
  objects,    \* object_records
  blobs,      \* what object storage keeps for a source
  bound,      \* notebook_bindings of kind source
  unbound,    \* notebook_source_unbindings
  located,    \* source_retention_locator
  held,       \* sources with an active legal_holds row
  deletion,   \* newest notebook_deletion_requests.state of a notebook
  requests,   \* deletion requests made for a notebook
  worker,     \* the task that processes that request
  keys,       \* object keys the task remembers after its transaction
  cleanup,    \* deletion_requests and source_cleanup_* of a source
  client,     \* uploading and binding calls
  faults

catalog == <<notebooks, sources, objects, bound, unbound, located>>
tasks == <<deletion, requests, worker, keys>>
vars == <<notebooks, sources, objects, blobs, bound, unbound, located, held,
          deletion, requests, worker, keys, cleanup, client, faults>>

Kinds == {"staging", "final"}
InProgress == {"accepted", "deleting"}
DeletionState == {"none", "completed", "failed"} \cup InProgress
WorkerStep == {"none", "scheduled", "checked", "objects", "failing"}
CleanupState == {"none", "cleanup_pending", "failed", "blocked_by_hold", "purged"}
CleanupRow == [state: CleanupState, notebook: Notebooks \cup {None}, done: SUBSET Kinds]
NoCleanup == [state |-> "none", notebook |-> None, done |-> {}]

ClientRow == [phase: {"idle", "found", "staged", "stored", "binding"},
              source: Sources \cup {None}, notebook: Notebooks \cup {None}]
Quiet == [phase |-> "idle", source |-> None, notebook |-> None]

TypeOK ==
  /\ notebooks \subseteq Notebooks
  /\ sources \subseteq Sources
  /\ objects \subseteq Sources
  /\ blobs \in [Sources -> SUBSET Kinds]
  /\ bound \subseteq Notebooks \X Sources
  /\ unbound \subseteq Notebooks \X Sources
  /\ located \subseteq Sources
  /\ held \subseteq Sources
  /\ deletion \in [Notebooks -> DeletionState]
  /\ requests \in [Notebooks -> 0..MaxRequests]
  /\ worker \in [Notebooks -> WorkerStep]
  /\ keys \in [Notebooks -> SUBSET Sources]
  /\ cleanup \in [Sources -> CleanupRow]
  /\ client \in [Clients -> ClientRow]
  /\ \A c \in Clients : client[c].phase # "idle" =>
       client[c].source \in Sources /\ client[c].notebook \in Notebooks
  /\ faults \in 0..MaxFaults

Init ==
  /\ notebooks = Notebooks
  /\ sources = {} /\ objects = {} /\ bound = {} /\ unbound = {} /\ located = {}
  /\ blobs = [s \in Sources |-> {}]
  /\ held = {}
  /\ deletion = [n \in Notebooks |-> "none"]
  /\ requests = [n \in Notebooks |-> 0]
  /\ worker = [n \in Notebooks |-> "none"]
  /\ keys = [n \in Notebooks |-> {}]
  /\ cleanup = [s \in Sources |-> NoCleanup]
  /\ client = [c \in Clients |-> Quiet]
  /\ faults = 0

\* deletion_requests.source_active is false from the staging on.
Staged(s) == cleanup[s].state # "none"
Incomplete(s) == cleanup[s].state \notin {"none", "purged"}
Live == bound \ unbound

(* The triggers of migration 0063 in front of every new use of a source    *)
(* and of an object.                                                       *)
SourceFenced(s) == Staged(s)
ObjectFenced(s) == Staged(s) /\ cleanup[s].done # Kinds

-----------------------------------------------------------------------------
(* Uploads and bindings.                                                   *)

\* find_source_by_digest; when it finds nothing, the content is staged.
Upload(c, n, s) ==
  /\ client[c].phase = "idle"
  /\ n \in notebooks
  /\ IF s \in sources
     THEN /\ client' = [client EXCEPT ![c] = [phase |-> "found", source |-> s, notebook |-> n]]
          /\ UNCHANGED blobs
     ELSE /\ client' = [client EXCEPT ![c] = [phase |-> "staged", source |-> s, notebook |-> n]]
          /\ blobs' = [blobs EXCEPT ![s] = @ \cup {"staging"}]
  /\ UNCHANGED <<catalog, held, tasks, cleanup, faults>>

\* register_object_job and the promotion ObjectQueue models.  A known object is answered.
Store(c) ==
  LET s == client[c].source IN
  /\ client[c].phase = "staged"
  /\ IF s \notin objects /\ ObjectFenced(s)
     THEN client' = [client EXCEPT ![c] = Quiet] /\ UNCHANGED <<objects, blobs>>
     ELSE /\ client' = [client EXCEPT ![c].phase = "stored"]
          /\ objects' = objects \cup {s}
          /\ blobs' = IF s \in objects THEN blobs ELSE [blobs EXCEPT ![s] = @ \cup {"final"}]
  /\ UNCHANGED <<notebooks, sources, bound, unbound, located, held, tasks, cleanup, faults>>

\* register_uploaded_source and bind_verified up to their read of the source.  A source that
\* is not there is inserted, unless the fence or the foreign key to its object refuses.
Register(c) ==
  LET s == client[c].source
      n == client[c].notebook IN
  /\ client[c].phase \in {"found", "stored"}
  /\ IF n \in notebooks /\ s \in sources
     THEN /\ client' = [client EXCEPT ![c].phase = "binding"]
          /\ UNCHANGED <<sources, located, bound>>
     ELSE /\ client' = [client EXCEPT ![c] = Quiet]
          /\ IF n \in notebooks /\ s \in objects /\ ~SourceFenced(s) /\ ~ObjectFenced(s)
             THEN /\ sources' = sources \cup {s}
                  /\ located' = located \cup {s}
                  /\ bound' = bound \cup {<<n, s>>}
             ELSE UNCHANGED <<sources, located, bound>>
  /\ UNCHANGED <<notebooks, objects, blobs, unbound, held, tasks, cleanup, faults>>

\* The INSERT of the binding: fence, foreign key to the notebook, ON CONFLICT DO NOTHING.
Bind(c) ==
  LET s == client[c].source
      n == client[c].notebook IN
  /\ client[c].phase = "binding"
  /\ client' = [client EXCEPT ![c] = Quiet]
  /\ bound' = IF n \in notebooks /\ ~SourceFenced(s) THEN bound \cup {<<n, s>>} ELSE bound
  /\ UNCHANGED <<notebooks, sources, objects, blobs, unbound, located, held, tasks, cleanup,
                 faults>>

Unbind(n, s) ==
  /\ n \in notebooks
  /\ <<n, s>> \in Live
  /\ unbound' = unbound \cup {<<n, s>>}
  /\ UNCHANGED <<notebooks, sources, objects, blobs, bound, located, held, tasks, cleanup,
                 client, faults>>

-----------------------------------------------------------------------------
(* Legal holds.                                                            *)

\* apply_legal_hold
Hold(s) ==
  /\ s \in located
  /\ cleanup[s].state # "purged"
  /\ held' = held \cup {s}
  /\ cleanup' = IF Incomplete(s) THEN [cleanup EXCEPT ![s].state = "blocked_by_hold"]
                ELSE cleanup
  /\ UNCHANGED <<catalog, blobs, tasks, client, faults>>

\* release_legal_hold
Release(s) ==
  /\ s \in held
  /\ held' = held \ {s}
  /\ cleanup' = IF cleanup[s].state = "blocked_by_hold"
                THEN [cleanup EXCEPT ![s].state = "cleanup_pending"] ELSE cleanup
  /\ UNCHANGED <<catalog, blobs, tasks, client, faults>>

-----------------------------------------------------------------------------
(* Deleting a notebook.                                                    *)

\* guard_notebook_source_cleanup
CleanupOpen(n) == \E s \in Sources : Incomplete(s) /\ cleanup[s].notebook = n

\* request_deletion, and the task the route starts for it
RequestDeletion(n) ==
  /\ n \in notebooks
  /\ requests[n] < MaxRequests
  /\ deletion[n] \notin InProgress
  /\ ~CleanupOpen(n)
  /\ deletion' = [deletion EXCEPT ![n] = "accepted"]
  /\ requests' = [requests EXCEPT ![n] = @ + 1]
  /\ worker' = [worker EXCEPT ![n] = "scheduled"]
  /\ UNCHANGED <<catalog, blobs, held, keys, cleanup, client, faults>>

\* delete_notebook_scope looks at every binding, also one that was unbound since.
InScope(n) == {s \in Sources : <<n, s>> \in bound}
Shared(n) == \E s \in InScope(n), other \in Notebooks \ {n} : <<other, s>> \in bound
Deletable(n) == ~CleanupOpen(n) /\ n \in notebooks /\ ~Shared(n) /\ InScope(n) \cap held = {}

\* delete_scoped: the checks.  A refusal rolls back and reaches mark_failed.
\* Mutant: a refusal returns instead of raising.
CheckScopeReturns(n) ==
  /\ worker[n] = "scheduled"
  /\ worker' = [worker EXCEPT ![n] = IF Deletable(n) THEN "checked" ELSE "objects"]
  /\ UNCHANGED <<catalog, blobs, held, deletion, requests, keys, cleanup, client, faults>>

CheckScope(n) ==
  /\ worker[n] = "scheduled"
  /\ worker' = [worker EXCEPT ![n] = IF Deletable(n) THEN "checked" ELSE "failing"]
  /\ UNCHANGED <<catalog, blobs, held, deletion, requests, keys, cleanup, client, faults>>

\* delete_scoped: the removal and the commit.
RemoveScope(n) ==
  /\ worker[n] = "checked"
  /\ worker' = [worker EXCEPT ![n] = "objects"]
  /\ keys' = [keys EXCEPT ![n] = InScope(n) \cap sources]
  /\ deletion' = [deletion EXCEPT ![n] = "deleting"]
  /\ notebooks' = notebooks \ {n}
  /\ sources' = sources \ InScope(n)
  /\ objects' = objects \ (InScope(n) \cap sources)
  /\ bound' = {b \in bound : b[1] # n}
  /\ unbound' = {b \in unbound : b[1] # n}
  /\ UNCHANGED <<located, blobs, held, requests, cleanup, client, faults>>

\* A foreign key, a lock timeout or a lost connection rolls the removal back.
RemovalFails(n) ==
  /\ worker[n] = "checked"
  /\ worker' = [worker EXCEPT ![n] = "failing"]
  /\ UNCHANGED <<catalog, blobs, held, deletion, requests, keys, cleanup, client, faults>>

\* delete_scoped: object_storage.delete of one remembered key
DeleteBlob(n, s) ==
  /\ worker[n] = "objects"
  /\ s \in keys[n]
  /\ blobs' = [blobs EXCEPT ![s] = @ \ {"final"}]
  /\ keys' = [keys EXCEPT ![n] = @ \ {s}]
  /\ UNCHANGED <<catalog, held, deletion, requests, worker, cleanup, client, faults>>

\* ObjectStorageError: the other keys are forgotten.
StorageFails(n) ==
  /\ worker[n] = "objects"
  /\ keys[n] # {}
  /\ worker' = [worker EXCEPT ![n] = "failing"]
  /\ keys' = [keys EXCEPT ![n] = {}]
  /\ UNCHANGED <<catalog, blobs, held, deletion, requests, cleanup, client, faults>>

\* mark_completed: written and answered, written and the answer lost, or not written.
MarkCompleted(n) ==
  /\ worker[n] = "objects"
  /\ keys[n] = {}
  /\ \E written, answered \in BOOLEAN :
       /\ answered => written
       /\ deletion' = IF written THEN [deletion EXCEPT ![n] = "completed"] ELSE deletion
       /\ worker' = [worker EXCEPT ![n] = IF answered THEN "none" ELSE "failing"]
  /\ UNCHANGED <<catalog, blobs, held, requests, keys, cleanup, client, faults>>

\* mark_failed overwrites whatever state the request has.
\* Mutant: only a request that is still accepted is marked.
MarkFailedAccepted(n) ==
  /\ worker[n] = "failing"
  /\ worker' = [worker EXCEPT ![n] = "none"]
  /\ deletion' = [deletion EXCEPT ![n] = IF @ = "accepted" THEN "failed" ELSE @]
  /\ UNCHANGED <<catalog, blobs, held, requests, keys, cleanup, client, faults>>

MarkFailed(n) ==
  /\ worker[n] = "failing"
  /\ worker' = [worker EXCEPT ![n] = "none"]
  /\ deletion' = [deletion EXCEPT ![n] = "failed"]
  /\ UNCHANGED <<catalog, blobs, held, requests, keys, cleanup, client, faults>>

\* mark_failed raises, and the task ends with the request as it is.
MarkFailedRaises(n) ==
  /\ faults < MaxFaults
  /\ faults' = faults + 1
  /\ worker[n] = "failing"
  /\ worker' = [worker EXCEPT ![n] = "none"]
  /\ UNCHANGED <<catalog, blobs, held, deletion, requests, keys, cleanup, client>>

\* The API process dies with its tasks and calls.  At the next start resume_startup returns 0:
\* the worker is built without a startup_context_factory.
ProcessDies ==
  /\ faults < MaxFaults
  /\ faults' = faults + 1
  /\ worker' = [n \in Notebooks |-> "none"]
  /\ keys' = [n \in Notebooks |-> {}]
  /\ client' = [c \in Clients |-> Quiet]
  /\ UNCHANGED <<catalog, blobs, held, deletion, requests, cleanup>>

-----------------------------------------------------------------------------
(* Deleting a source.                                                      *)

\* assert_source_cleanup_authorization
Authorized(n) == n \in notebooks /\ deletion[n] \notin InProgress \cup {"completed"}

\* Mutant: legal holds are forgotten.
StageableHeld(n, s) ==
  /\ s \in sources
  /\ <<n, s>> \in Live
  /\ \A other \in Notebooks \ {n} : <<other, s>> \notin Live
Stageable(n, s) ==
  /\ s \in sources
  /\ <<n, s>> \in Live
  /\ \A other \in Notebooks \ {n} : <<other, s>> \notin Live
  /\ s \notin held

\* stage_source_cleanup.  Rows that process or cite the source may refuse it at any time.
Stage(n, s) ==
  /\ Authorized(n)
  /\ ~Staged(s)
  /\ Stageable(n, s)
  /\ cleanup' = [cleanup EXCEPT ![s] =
                   [state |-> "cleanup_pending", notebook |-> n, done |-> {}]]
  /\ sources' = sources \ {s}
  /\ objects' = objects \ {s}
  /\ located' = located \ {s}
  /\ bound' = bound \ {<<n, s>>}
  /\ UNCHANGED <<notebooks, unbound, blobs, held, tasks, client, faults>>

\* What lock_source_cleanup_request asks of the notebook and of the source before delete_one
\* touches storage.  What it asks of the caller (to be who staged the cleanup, a role, a
\* step-up, access to the source) only refuses an attempt: the attempt is then not taken.
CanGoOn(s) == Incomplete(s) /\ Authorized(cleanup[s].notebook) /\ s \notin held

\* progress_source_cleanup after a successful delete
Acknowledged(s, k) ==
  LET done == cleanup[s].done \cup {k} IN
  [cleanup[s] EXCEPT !.done = done,
                     !.state = IF done = Kinds THEN "purged" ELSE "cleanup_pending"]

\* delete_one: deleted and recorded
DeleteOne(s, k) ==
  /\ CanGoOn(s)
  /\ k \notin cleanup[s].done
  /\ blobs' = [blobs EXCEPT ![s] = @ \ {k}]
  /\ cleanup' = [cleanup EXCEPT ![s] = Acknowledged(s, k)]
  /\ UNCHANGED <<catalog, held, tasks, client, faults>>

\* delete_one: the blob is deleted, but the transaction that records it is rolled back.
DeleteUnrecorded(s, k) ==
  /\ CanGoOn(s)
  /\ k \notin cleanup[s].done
  /\ blobs' = [blobs EXCEPT ![s] = @ \ {k}]
  /\ UNCHANGED <<catalog, held, tasks, cleanup, client, faults>>

\* progress_source_cleanup after an ObjectStorageError
\* Mutant: the key is ticked off all the same.
RefusedTicked(s, k) == [cleanup[s] EXCEPT !.state = "failed", !.done = @ \cup {k}]
Refused(s, k) == [cleanup[s] EXCEPT !.state = "failed"]

\* delete_one: storage refuses, the error is recorded, execute stops.
DeleteRefused(s, k) ==
  /\ CanGoOn(s)
  /\ k \notin cleanup[s].done
  /\ cleanup' = [cleanup EXCEPT ![s] = Refused(s, k)]
  /\ UNCHANGED <<catalog, blobs, held, tasks, client, faults>>

-----------------------------------------------------------------------------

Use ==
  \/ \E c \in Clients, n \in Notebooks, s \in Sources : Upload(c, n, s)
  \/ \E c \in Clients : Store(c) \/ Register(c) \/ Bind(c)
  \/ \E n \in Notebooks, s \in Sources : Unbind(n, s)
  \/ \E s \in Sources : Hold(s) \/ Release(s)

Process(n) ==
  \/ CheckScope(n)
  \/ RemoveScope(n)
  \/ RemovalFails(n)
  \/ \E s \in Sources : DeleteBlob(n, s)
  \/ StorageFails(n)
  \/ MarkCompleted(n)
  \/ MarkFailed(n)

Execute ==
  \/ \E n \in Notebooks, s \in Sources : Stage(n, s)
  \/ \E s \in Sources, k \in Kinds : DeleteOne(s, k) \/ DeleteUnrecorded(s, k)
                                       \/ DeleteRefused(s, k)

Next ==
  \/ Use
  \/ \E n \in Notebooks : RequestDeletion(n) \/ Process(n) \/ MarkFailedRaises(n)
  \/ ProcessDies
  \/ Execute

Spec == Init /\ [][Next]_vars
FairSpec == Spec /\ \A n \in Notebooks : WF_vars(Process(n))

-----------------------------------------------------------------------------
(* Properties.                                                             *)

(* A cleanup that has begun can always be resumed: until it is purged its  *)
(* notebook exists and is not being deleted and no hold stands in its way, *)
(* so lock_source_cleanup_request refuses a retry only for what its caller *)
(* lacks.                                                                  *)
CleanupResumable == \A s \in Sources : Incomplete(s) => CanGoOn(s)

(* What the staging of a cleanup removed stays removed and unused: no      *)
(* upload, replay or binding that was under way brings the source back or  *)
(* binds it, in this notebook or in another.                               *)
CleanupFinal ==
  \A s \in Sources : Staged(s) =>
    /\ s \notin sources \cup located
    /\ \A n \in Notebooks : <<n, s>> \notin Live

(* Content is never lost from the books: the final blob of a source that   *)
(* is being or was deleted is either still listed for deletion or belongs  *)
(* to an object that was stored again afterwards.                          *)
ContentAccounted ==
  \A s \in Sources : Staged(s) /\ "final" \in blobs[s] =>
    "final" \notin cleanup[s].done \/ s \in objects

(* A request says completed only when its notebook, its bindings and its   *)
(* unbindings are gone, and nothing is ever bound to a notebook that is.   *)
NotebookGone ==
  /\ \A n \in Notebooks : deletion[n] = "completed" => n \notin notebooks
  /\ \A b \in bound \cup unbound : b[1] \in notebooks

Readable == \A s \in sources : s \in objects /\ "final" \in blobs[s]
Backed == \A b \in Live : b[2] \in sources

(* No deletion of a notebook has been asked for yet.                       *)
Undisturbed == \A n \in Notebooks : requests[n] = 0

(* Source cleanup alone leaves every registered source readable: its       *)
(* object row and final blob exist.                                        *)
SourceReadable == Undisturbed => Readable

(* A source that a notebook uses exists: cleanup fences shared sources.    *)
BoundExists == Undisturbed => Backed

(* No step of a cleanup removes a source, or its content, while a legal    *)
(* hold is active on it (RETENTION_HOLD, LEGAL_HOLD_ACTIVE).               *)
HeldKept ==
  [][Undisturbed' =>
       \A s \in sources \cap held :
         s \in sources' /\ ("final" \in blobs[s] => "final" \in blobs'[s])]_vars

(* A task decides its request, whatever is refused or fails on the way,    *)
(* unless the process dies or the failure itself cannot be written.        *)
DeletionDecided ==
  \A n \in Notebooks, f \in 0..MaxFaults :
    (worker[n] # "none" /\ deletion[n] \in InProgress /\ faults = f)
      ~> (deletion[n] \notin InProgress \/ faults > f)

(* A staged cleanup can always be finished, brings nothing back, and its    *)
(* request accounts for every blob that is left.                            *)
CleanupSafe == TypeOK /\ CleanupResumable /\ CleanupFinal /\ ContentAccounted

(* Cleanups never take a source from a notebook, a reader or a hold.        *)
SourcesKept == []SourceReadable /\ []BoundExists /\ HeldKept
=============================================================================
