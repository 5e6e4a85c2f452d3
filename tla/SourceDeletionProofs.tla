------------------------ MODULE SourceDeletionProofs ------------------------
(***************************************************************************)
(* Theorems about SourceDeletion, for any sets of notebooks, sources and   *)
(* clients and any number of requests and faults.                          *)
(***************************************************************************)
EXTENDS SourceDeletion, TLAPS

USE DeletionAssumption

---------------------------------------------------------------------------
(* Type correctness.                                                       *)

LEMMA Consts ==
  /\ "staging" \in Kinds /\ "final" \in Kinds
  /\ {"accepted", "deleting", "completed", "failed", "none"} \subseteq DeletionState
  /\ {"none", "scheduled", "checked", "objects", "failing"} \subseteq WorkerStep
BY DEF Kinds, DeletionState, InProgress, WorkerStep

LEMMA RowTyped ==
  ASSUME cleanup \in [Sources -> CleanupRow], NEW s \in Sources
  PROVE  /\ cleanup[s].state \in CleanupState
         /\ cleanup[s].notebook \in Notebooks \cup {None}
         /\ cleanup[s].done \subseteq Kinds
         /\ \A x \in CleanupState : [cleanup[s] EXCEPT !.state = x] \in CleanupRow
         /\ \A x \in CleanupState, d \in SUBSET Kinds :
              [cleanup[s] EXCEPT !.done = d, !.state = x] \in CleanupRow
<1>1. cleanup[s] \in CleanupRow
  OBVIOUS
<1> QED
  BY <1>1 DEF CleanupRow

LEMMA AcknowledgedTyped ==
  ASSUME cleanup \in [Sources -> CleanupRow], NEW s \in Sources, NEW k \in Kinds
  PROVE  /\ Acknowledged(s, k) \in CleanupRow
         /\ Acknowledged(s, k).done = cleanup[s].done \cup {k}
         /\ Acknowledged(s, k).notebook = cleanup[s].notebook
         /\ Acknowledged(s, k).state \in {"purged", "cleanup_pending"}
<1> DEFINE done == cleanup[s].done \cup {k}
           x == IF done = Kinds THEN "purged" ELSE "cleanup_pending"
<1>1. cleanup[s] \in CleanupRow
  OBVIOUS
<1>2. done \in SUBSET Kinds
  BY RowTyped
<1>3. x \in {"purged", "cleanup_pending"} /\ x \in CleanupState
  BY DEF CleanupState
<1>4. Acknowledged(s, k) = [cleanup[s] EXCEPT !.done = done, !.state = x]
  BY DEF Acknowledged
<1> QED
  BY <1>1, <1>2, <1>3, <1>4 DEF CleanupRow

LEMMA RefusedTyped ==
  ASSUME cleanup \in [Sources -> CleanupRow], NEW s \in Sources, NEW k \in Kinds
  PROVE  /\ Refused(s, k) \in CleanupRow
         /\ Refused(s, k).done = cleanup[s].done
         /\ Refused(s, k).notebook = cleanup[s].notebook
         /\ Refused(s, k).state = "failed"
<1>1. cleanup[s] \in CleanupRow /\ "failed" \in CleanupState
  BY DEF CleanupState
<1> QED
  BY <1>1 DEF CleanupRow, Refused

ClientsTyped ==
  /\ client \in [Clients -> ClientRow]
  /\ \A c \in Clients : client[c].phase # "idle" =>
       client[c].source \in Sources /\ client[c].notebook \in Notebooks

LEMMA ClientRows ==
  ASSUME ClientsTyped, NEW c \in Clients
  PROVE  /\ client' = [client EXCEPT ![c] = Quiet] => ClientsTyped'
         /\ \A p \in {"found", "staged", "stored", "binding"}, n \in Notebooks, s \in Sources :
              client' = [client EXCEPT ![c] = [phase |-> p, source |-> s, notebook |-> n]]
                => ClientsTyped'
         /\ \A p \in {"stored", "binding"} :
              client[c].phase # "idle" /\ client' = [client EXCEPT ![c].phase = p]
                => ClientsTyped'
<1>1. client[c] \in ClientRow /\ Quiet \in ClientRow /\ Quiet.phase = "idle"
  BY DEF ClientsTyped, ClientRow, Quiet
<1>2. \A p \in {"found", "staged", "stored", "binding"}, n \in Notebooks, s \in Sources :
        /\ [phase |-> p, source |-> s, notebook |-> n] \in ClientRow
        /\ [phase |-> p, source |-> s, notebook |-> n].source = s
        /\ [phase |-> p, source |-> s, notebook |-> n].notebook = n
  BY DEF ClientRow
<1>3. \A p \in {"stored", "binding"} :
        /\ [client[c] EXCEPT !.phase = p] \in ClientRow
        /\ [client[c] EXCEPT !.phase = p].source = client[c].source
        /\ [client[c] EXCEPT !.phase = p].notebook = client[c].notebook
  BY <1>1 DEF ClientRow
<1>4. client' = [client EXCEPT ![c] = Quiet] => ClientsTyped'
  BY <1>1 DEF ClientsTyped
<1>5. ASSUME NEW p \in {"found", "staged", "stored", "binding"}, NEW n \in Notebooks,
             NEW s \in Sources,
             client' = [client EXCEPT ![c] = [phase |-> p, source |-> s, notebook |-> n]]
      PROVE  ClientsTyped'
  BY <1>2, <1>5 DEF ClientsTyped
<1>6. ASSUME NEW p \in {"stored", "binding"}, client[c].phase # "idle",
             client' = [client EXCEPT ![c].phase = p]
      PROVE  ClientsTyped'
  BY <1>3, <1>6 DEF ClientsTyped
<1> QED
  BY <1>4, <1>5, <1>6

LEMMA TypeStep == TypeOK /\ [Next]_vars => TypeOK'
<1> SUFFICES ASSUME TypeOK, [Next]_vars PROVE TypeOK'
  OBVIOUS
<1> USE Consts
<1>0. ClientsTyped
  BY DEF TypeOK, ClientsTyped
<1>1. ASSUME NEW c \in Clients, NEW n \in Notebooks, NEW s \in Sources, Upload(c, n, s)
      PROVE  TypeOK'
  <2>1. ClientsTyped'
    BY <1>0, <1>1, ClientRows DEF Upload
  <2>2. blobs' \in [Sources -> SUBSET Kinds]
    BY <1>1 DEF TypeOK, Upload
  <2> QED
    BY <1>1, <2>1, <2>2 DEF TypeOK, Upload, ClientsTyped, catalog, tasks
<1>2. ASSUME NEW c \in Clients, Store(c) PROVE TypeOK'
  <2>1. ClientsTyped'
    BY <1>0, <1>2, ClientRows DEF Store
  <2>2. client[c].source \in Sources
    BY <1>2 DEF TypeOK, Store
  <2>3. blobs' \in [Sources -> SUBSET Kinds] /\ objects' \subseteq Sources
    BY <1>2, <2>2 DEF TypeOK, Store
  <2> QED
    BY <1>2, <2>1, <2>3 DEF TypeOK, Store, ClientsTyped, tasks
<1>3. ASSUME NEW c \in Clients, Register(c) PROVE TypeOK'
  <2>1. ClientsTyped'
    BY <1>0, <1>3, ClientRows DEF Register
  <2>2. client[c].source \in Sources /\ client[c].notebook \in Notebooks
    BY <1>3 DEF TypeOK, Register
  <2>3. sources' \subseteq Sources /\ located' \subseteq Sources
        /\ bound' \subseteq Notebooks \X Sources
    BY <1>3, <2>2 DEF TypeOK, Register
  <2> QED
    BY <1>3, <2>1, <2>3 DEF TypeOK, Register, ClientsTyped, tasks
<1>4. ASSUME NEW c \in Clients, Bind(c) PROVE TypeOK'
  <2>1. ClientsTyped'
    BY <1>0, <1>4, ClientRows DEF Bind
  <2>2. client[c].source \in Sources /\ client[c].notebook \in Notebooks
    BY <1>4 DEF TypeOK, Bind
  <2>3. bound' \subseteq Notebooks \X Sources
    BY <1>4, <2>2 DEF TypeOK, Bind
  <2> QED
    BY <1>4, <2>1, <2>3 DEF TypeOK, Bind, ClientsTyped, tasks
<1>5. ASSUME NEW n \in Notebooks, NEW s \in Sources, Unbind(n, s) PROVE TypeOK'
  BY <1>5 DEF TypeOK, Unbind, tasks
<1>6. ASSUME NEW s \in Sources, Hold(s) \/ Release(s) PROVE TypeOK'
  <2>1. \A x \in {"blocked_by_hold", "cleanup_pending"} :
          [cleanup[s] EXCEPT !.state = x] \in CleanupRow
    BY RowTyped DEF TypeOK, CleanupState
  <2>2. cleanup' \in [Sources -> CleanupRow]
    BY <1>6, <2>1 DEF TypeOK, Hold, Release
  <2> QED
    BY <1>6, <2>2 DEF TypeOK, Hold, Release, catalog, tasks
<1>7. ASSUME NEW n \in Notebooks, RequestDeletion(n) PROVE TypeOK'
  <2>1. requests' \in [Notebooks -> 0..MaxRequests]
    BY <1>7 DEF TypeOK, RequestDeletion
  <2> QED
    BY <1>7, <2>1 DEF TypeOK, RequestDeletion, catalog
<1>8. ASSUME NEW n \in Notebooks, Process(n) \/ MarkFailedRaises(n) PROVE TypeOK'
  <2>1. CASE CheckScope(n) \/ RemovalFails(n)
    BY <2>1 DEF TypeOK, CheckScope, RemovalFails, catalog
  <2>2. CASE RemoveScope(n)
    BY <2>2 DEF TypeOK, RemoveScope, InScope
  <2>3. CASE \E s \in Sources : DeleteBlob(n, s)
    BY <2>3 DEF TypeOK, DeleteBlob, catalog
  <2>4. CASE StorageFails(n)
    BY <2>4 DEF TypeOK, StorageFails, catalog
  <2>5. CASE MarkCompleted(n)
    BY <2>5 DEF TypeOK, MarkCompleted, catalog
  <2>6. CASE MarkFailed(n)
    BY <2>6 DEF TypeOK, MarkFailed, catalog
  <2>7. CASE MarkFailedRaises(n)
    BY <2>7 DEF TypeOK, MarkFailedRaises, catalog
  <2> QED
    BY <1>8, <2>1, <2>2, <2>3, <2>4, <2>5, <2>6, <2>7 DEF Process
<1>9. ASSUME ProcessDies PROVE TypeOK'
  <2>1. ClientsTyped'
    BY <1>9 DEF ProcessDies, ClientsTyped, ClientRow, Quiet
  <2> QED
    BY <1>9, <2>1 DEF TypeOK, ProcessDies, ClientsTyped, catalog
<1>10. ASSUME NEW n \in Notebooks, NEW s \in Sources, Stage(n, s) PROVE TypeOK'
  <2>1. [state |-> "cleanup_pending", notebook |-> n, done |-> {}] \in CleanupRow
    BY DEF CleanupRow, CleanupState
  <2> QED
    BY <1>10, <2>1 DEF TypeOK, Stage, tasks
<1>11. ASSUME NEW s \in Sources, NEW k \in Kinds,
              DeleteOne(s, k) \/ DeleteUnrecorded(s, k) \/ DeleteRefused(s, k)
       PROVE  TypeOK'
  <2>1. Acknowledged(s, k) \in CleanupRow /\ Refused(s, k) \in CleanupRow
    BY AcknowledgedTyped, RefusedTyped DEF TypeOK
  <2> QED
    BY <1>11, <2>1 DEF TypeOK, DeleteOne, DeleteUnrecorded, DeleteRefused, catalog, tasks
<1>12. CASE UNCHANGED vars
  BY <1>12 DEF TypeOK, vars
<1> QED
  BY <1>1, <1>2, <1>3, <1>4, <1>5, <1>6, <1>7, <1>8, <1>9, <1>10, <1>11, <1>12
  DEF Next, Use, Execute

LEMMA InitTyped == Init => TypeOK
BY Consts DEF Init, TypeOK, NoCleanup, CleanupRow, CleanupState, ClientRow, Quiet

(* Every reachable state of the deletion of notebooks and sources is typed.*)
THEOREM TypeCorrect == Spec => []TypeOK
BY InitTyped, TypeStep, PTL DEF Spec

---------------------------------------------------------------------------
(* The inductive invariant.  A task runs only for a request that is still  *)
(* undecided or was completed without an answer, and deletes blobs only    *)
(* when its notebook is gone: that is why a cleanup, which starts only     *)
(* beside a failed request or none, never loses its notebook to a task.    *)

TaskHasRequest ==
  \A n \in Notebooks :
    /\ worker[n] # "none" => deletion[n] \in InProgress \cup {"completed"}
    /\ worker[n] = "objects" => n \notin notebooks

DeletionInv ==
  /\ TypeOK
  /\ TaskHasRequest
  /\ CleanupResumable
  /\ CleanupFinal
  /\ ContentAccounted
  /\ NotebookGone

LEMMA DeletionInvInit == Init => DeletionInv
<1> SUFFICES ASSUME Init PROVE DeletionInv
  OBVIOUS
<1>1. \A s \in Sources : cleanup[s].state = "none" /\ ~Staged(s) /\ ~Incomplete(s)
  BY DEF Init, NoCleanup, Staged, Incomplete
<1>2. CleanupResumable /\ CleanupFinal /\ ContentAccounted
  BY <1>1 DEF CleanupResumable, CleanupFinal, ContentAccounted
<1> QED
  BY <1>2, InitTyped DEF Init, DeletionInv, TaskHasRequest, NotebookGone

(* What decides whether a cleanup can go on, and what it has removed, is   *)
(* kept by a step that leaves the cleanups alone, neither deletes nor      *)
(* admits the deletion of its notebook, and neither holds nor uses it.     *)
LEMMA CleanupKept ==
  ASSUME CleanupResumable, CleanupFinal, ContentAccounted,
         UNCHANGED cleanup,
         \A s \in Sources : Incomplete(s) =>
           /\ cleanup[s].notebook \in notebooks'
           /\ deletion'[cleanup[s].notebook] \notin InProgress \cup {"completed"}
           /\ s \notin held',
         \A s \in Sources : Staged(s) =>
           /\ s \notin sources' \cup located'
           /\ \A n \in Notebooks : <<n, s>> \notin bound' \ unbound'
           /\ "final" \in blobs'[s] => "final" \notin cleanup[s].done \/ s \in objects'
  PROVE  CleanupResumable' /\ CleanupFinal' /\ ContentAccounted'
BY DEF CleanupResumable, CleanupFinal, ContentAccounted, CanGoOn, Authorized, Incomplete,
       Staged, Live

LEMMA UseKeeps ==
  ASSUME DeletionInv, Use
  PROVE  TaskHasRequest' /\ CleanupResumable' /\ CleanupFinal' /\ ContentAccounted'
           /\ NotebookGone'
<1> USE DEF DeletionInv
<1>0. /\ \A s \in Sources : Incomplete(s) => Staged(s) /\ CanGoOn(s)
      /\ \A s \in Sources : Staged(s) =>
           /\ s \notin sources /\ s \notin located
           /\ \A n \in Notebooks : <<n, s>> \notin bound \ unbound
           /\ "final" \in blobs[s] => "final" \notin cleanup[s].done \/ s \in objects
  BY DEF CleanupResumable, CleanupFinal, ContentAccounted, Incomplete, Staged, Live
<1>1. ASSUME NEW c \in Clients, NEW n \in Notebooks, NEW s \in Sources, Upload(c, n, s)
      PROVE  TaskHasRequest' /\ CleanupResumable' /\ CleanupFinal' /\ ContentAccounted'
               /\ NotebookGone'
  <2>1. \A x \in Sources : "final" \in blobs'[x] => "final" \in blobs[x]
    BY <1>1 DEF Upload, TypeOK
  <2> QED
    BY <1>0, <1>1, <2>1, CleanupKept
    DEF Upload, catalog, tasks, TaskHasRequest, NotebookGone, CanGoOn, Authorized
<1>2. ASSUME NEW c \in Clients, Store(c)
      PROVE  TaskHasRequest' /\ CleanupResumable' /\ CleanupFinal' /\ ContentAccounted'
               /\ NotebookGone'
  <2>1. \A x \in Sources : "final" \in blobs'[x] => "final" \in blobs[x] \/ x \in objects'
    BY <1>2 DEF Store, TypeOK
  <2>2. objects \subseteq objects'
    BY <1>2 DEF Store
  <2> QED
    BY <1>0, <1>2, <2>1, <2>2, CleanupKept
    DEF Store, tasks, TaskHasRequest, NotebookGone, CanGoOn, Authorized
<1>3. ASSUME NEW c \in Clients, Register(c)
      PROVE  TaskHasRequest' /\ CleanupResumable' /\ CleanupFinal' /\ ContentAccounted'
               /\ NotebookGone'
  <2> DEFINE s == client[c].source
             n == client[c].notebook
  <2>0. s \in Sources /\ n \in Notebooks
    BY <1>3 DEF TypeOK, Register
  <2>1. CASE UNCHANGED <<sources, located, bound>>
    BY <1>0, <1>3, <2>1, CleanupKept
    DEF Register, tasks, TaskHasRequest, NotebookGone, CanGoOn, Authorized
  <2>2. CASE /\ n \in notebooks /\ ~Staged(s)
             /\ sources' = sources \cup {s} /\ located' = located \cup {s}
             /\ bound' = bound \cup {<<n, s>>}
    <3>1. \A x \in Sources : Staged(x) => x \notin sources' \cup located'
      BY <1>0, <2>2
    <3>2. \A x \in Sources, m \in Notebooks : Staged(x) => <<m, x>> \notin bound' \ unbound'
      BY <1>0, <1>3, <2>2 DEF Register
    <3>3. NotebookGone'
      BY <1>3, <2>0, <2>2 DEF Register, NotebookGone, tasks
    <3> QED
      BY <1>0, <1>3, <3>1, <3>2, <3>3, CleanupKept
      DEF Register, tasks, TaskHasRequest, CanGoOn, Authorized
  <2> QED
    BY <1>3, <2>1, <2>2 DEF Register, SourceFenced
<1>4. ASSUME NEW c \in Clients, Bind(c)
      PROVE  TaskHasRequest' /\ CleanupResumable' /\ CleanupFinal' /\ ContentAccounted'
               /\ NotebookGone'
  <2> DEFINE s == client[c].source
             n == client[c].notebook
  <2>0. s \in Sources /\ n \in Notebooks
    BY <1>4 DEF TypeOK, Bind
  <2>1. bound' = bound \/ (n \in notebooks /\ ~Staged(s) /\ bound' = bound \cup {<<n, s>>})
    BY <1>4 DEF Bind, SourceFenced
  <2>2. \A x \in Sources, m \in Notebooks : Staged(x) => <<m, x>> \notin bound' \ unbound'
    BY <1>0, <1>4, <2>1 DEF Bind
  <2>3. NotebookGone'
    BY <1>4, <2>0, <2>1 DEF Bind, NotebookGone, tasks
  <2> QED
    BY <1>0, <1>4, <2>2, <2>3, CleanupKept
    DEF Bind, tasks, TaskHasRequest, CanGoOn, Authorized
<1>5. ASSUME NEW n \in Notebooks, NEW s \in Sources, Unbind(n, s)
      PROVE  TaskHasRequest' /\ CleanupResumable' /\ CleanupFinal' /\ ContentAccounted'
               /\ NotebookGone'
  <2>1. NotebookGone'
    BY <1>5 DEF Unbind, NotebookGone, tasks
  <2> QED
    BY <1>0, <1>5, <2>1, CleanupKept DEF Unbind, tasks, TaskHasRequest, CanGoOn, Authorized
<1>6. ASSUME NEW s \in Sources, Hold(s) \/ Release(s)
      PROVE  TaskHasRequest' /\ CleanupResumable' /\ CleanupFinal' /\ ContentAccounted'
               /\ NotebookGone'
  <2>1. Hold(s) => ~Incomplete(s)
    BY <1>0 DEF Hold
  <2>2. cleanup[s].state # "blocked_by_hold" \/ s \notin held
    BY <1>0 DEF Incomplete, CanGoOn
  <2>3. UNCHANGED cleanup
    BY <1>6, <2>1, <2>2 DEF Hold, Release
  <2>4. held' \subseteq held \cup {s} /\ (Incomplete(s) => s \notin held')
    BY <1>6, <1>0, <2>1 DEF Hold, Release, CanGoOn
  <2>5. \A x \in Sources : Incomplete(x) => x \notin held'
    BY <1>0, <2>4 DEF CanGoOn
  <2> QED
    BY <1>0, <1>6, <2>3, <2>5, CleanupKept
    DEF Hold, Release, catalog, tasks, TaskHasRequest, NotebookGone, CanGoOn, Authorized
<1> QED
  BY <1>1, <1>2, <1>3, <1>4, <1>5, <1>6 DEF Use

LEMMA NotebookStepKeeps ==
  ASSUME DeletionInv, NEW n \in Notebooks,
         RequestDeletion(n) \/ Process(n) \/ MarkFailedRaises(n)
  PROVE  TaskHasRequest' /\ CleanupResumable' /\ CleanupFinal' /\ ContentAccounted'
           /\ NotebookGone'
<1> USE DEF DeletionInv
<1>0. /\ \A s \in Sources : Incomplete(s) => Staged(s) /\ CanGoOn(s)
      /\ \A s \in Sources : Staged(s) =>
           /\ s \notin sources /\ s \notin located
           /\ \A m \in Notebooks : <<m, s>> \notin bound \ unbound
           /\ "final" \in blobs[s] => "final" \notin cleanup[s].done \/ s \in objects
  BY DEF CleanupResumable, CleanupFinal, ContentAccounted, Incomplete, Staged, Live
\* No cleanup is open in a notebook that a task works for.
<1>1. ASSUME NEW s \in Sources, Incomplete(s)
      PROVE  /\ worker[n] # "none" => cleanup[s].notebook # n
             /\ cleanup[s].notebook \in Notebooks
             /\ cleanup[s].notebook \in notebooks
             /\ deletion[cleanup[s].notebook] \notin InProgress \cup {"completed"}
             /\ s \notin held
  BY <1>0, <1>1 DEF TaskHasRequest, CanGoOn, Authorized, TypeOK
<1>2. CASE RequestDeletion(n)
  <2>1. \A s \in Sources : Incomplete(s) => cleanup[s].notebook # n
    BY <1>2 DEF RequestDeletion, CleanupOpen
  <2>2. \A s \in Sources : Incomplete(s) =>
          deletion'[cleanup[s].notebook] = deletion[cleanup[s].notebook]
    BY <1>1, <1>2, <2>1 DEF RequestDeletion, TypeOK
  <2>3. CleanupResumable' /\ CleanupFinal' /\ ContentAccounted'
    BY <1>0, <1>1, <1>2, <2>2, CleanupKept DEF RequestDeletion, catalog
  <2>4. TaskHasRequest'
    BY <1>2 DEF RequestDeletion, TaskHasRequest, TypeOK, InProgress, catalog
  <2>5. NotebookGone'
    BY <1>2 DEF RequestDeletion, NotebookGone, TypeOK, catalog
  <2> QED
    BY <2>3, <2>4, <2>5
<1>3. CASE CheckScope(n) \/ RemovalFails(n)
  <2>1. CleanupResumable' /\ CleanupFinal' /\ ContentAccounted'
    BY <1>0, <1>1, <1>3, CleanupKept DEF CheckScope, RemovalFails, catalog
  <2>2. TaskHasRequest' /\ NotebookGone'
    BY <1>3 DEF CheckScope, RemovalFails, TaskHasRequest, NotebookGone, TypeOK, catalog
  <2> QED
    BY <2>1, <2>2
<1>4. CASE RemoveScope(n)
  <2>1. \A s \in Sources : Incomplete(s) =>
          /\ cleanup[s].notebook \in notebooks'
          /\ deletion'[cleanup[s].notebook] \notin InProgress \cup {"completed"}
          /\ s \notin held'
    BY <1>1, <1>4 DEF RemoveScope, TypeOK
  <2>2. \A s \in Sources : Staged(s) =>
          /\ s \notin sources' \cup located'
          /\ \A m \in Notebooks : <<m, s>> \notin bound' \ unbound'
          /\ "final" \in blobs'[s] => "final" \notin cleanup[s].done \/ s \in objects'
    <3>1. bound' \ unbound' \subseteq bound \ unbound
      BY <1>4 DEF RemoveScope
    <3> QED
      BY <1>0, <1>4, <3>1 DEF RemoveScope
  <2>3. CleanupResumable' /\ CleanupFinal' /\ ContentAccounted'
    BY <1>4, <2>1, <2>2, CleanupKept DEF RemoveScope
  <2>4. TaskHasRequest'
    BY <1>4 DEF RemoveScope, TaskHasRequest, TypeOK, InProgress
  <2>5. NotebookGone'
    BY <1>4 DEF RemoveScope, NotebookGone, TypeOK
  <2> QED
    BY <2>3, <2>4, <2>5
<1>5. CASE (\E s \in Sources : DeleteBlob(n, s)) \/ StorageFails(n)
  <2>1. \A x \in Sources : "final" \in blobs'[x] => "final" \in blobs[x]
    BY <1>5 DEF DeleteBlob, StorageFails, TypeOK
  <2>2. CleanupResumable' /\ CleanupFinal' /\ ContentAccounted'
    BY <1>0, <1>1, <1>5, <2>1, CleanupKept DEF DeleteBlob, StorageFails, catalog
  <2>3. TaskHasRequest' /\ NotebookGone'
    BY <1>5 DEF DeleteBlob, StorageFails, TaskHasRequest, NotebookGone, TypeOK, catalog
  <2> QED
    BY <2>2, <2>3
<1>6. CASE MarkCompleted(n) \/ MarkFailed(n) \/ MarkFailedRaises(n)
  <2>1. worker[n] # "none" /\ UNCHANGED <<catalog, blobs, held, cleanup>>
    BY <1>6 DEF MarkCompleted, MarkFailed, MarkFailedRaises
  <2>2. \A m \in Notebooks \ {n} : deletion'[m] = deletion[m] /\ worker'[m] = worker[m]
    BY <1>6 DEF MarkCompleted, MarkFailed, MarkFailedRaises, TypeOK
  <2>3. CleanupResumable' /\ CleanupFinal' /\ ContentAccounted'
    BY <1>0, <1>1, <2>1, <2>2, CleanupKept DEF catalog
  <2>4. /\ worker'[n] # "none" => deletion'[n] \in InProgress \cup {"completed"}
        /\ worker'[n] # "objects"
    BY <1>6 DEF MarkCompleted, MarkFailed, MarkFailedRaises, TypeOK, TaskHasRequest
  <2>5. deletion'[n] = "completed" => n \notin notebooks
    BY <1>6 DEF MarkCompleted, MarkFailed, MarkFailedRaises, TypeOK, TaskHasRequest,
                NotebookGone
  <2>6. TaskHasRequest' /\ NotebookGone'
    BY <2>1, <2>2, <2>4, <2>5 DEF TaskHasRequest, NotebookGone, catalog
  <2> QED
    BY <2>3, <2>6
<1> QED
  BY <1>2, <1>3, <1>4, <1>5, <1>6 DEF Process

LEMMA DeathKeeps ==
  ASSUME DeletionInv, ProcessDies
  PROVE  TaskHasRequest' /\ CleanupResumable' /\ CleanupFinal' /\ ContentAccounted'
           /\ NotebookGone'
<1>1. CleanupResumable' /\ CleanupFinal' /\ ContentAccounted'
  BY DEF DeletionInv, ProcessDies, catalog, CleanupResumable, CleanupFinal, ContentAccounted,
         CanGoOn, Authorized, Incomplete, Staged, Live
<1> QED
  BY <1>1 DEF DeletionInv, ProcessDies, catalog, TaskHasRequest, NotebookGone

LEMMA ExecuteKeeps ==
  ASSUME DeletionInv, Execute
  PROVE  TaskHasRequest' /\ CleanupResumable' /\ CleanupFinal' /\ ContentAccounted'
           /\ NotebookGone'
<1> USE DEF DeletionInv
<1>1. ASSUME NEW n \in Notebooks, NEW s \in Sources, Stage(n, s)
      PROVE  TaskHasRequest' /\ CleanupResumable' /\ CleanupFinal' /\ ContentAccounted'
               /\ NotebookGone'
  <2>1. /\ cleanup'[s] = [state |-> "cleanup_pending", notebook |-> n, done |-> {}]
        /\ \A x \in Sources \ {s} : cleanup'[x] = cleanup[x]
    BY <1>1 DEF Stage, TypeOK
  <2>2. cleanup'[s].notebook = n /\ cleanup'[s].done = {}
    BY <2>1
  <2>3. CanGoOn(s)' /\ (\A x \in Sources \ {s} : Incomplete(x)' => CanGoOn(x)')
    BY <1>1, <2>1, <2>2
    DEF Stage, Stageable, tasks, CanGoOn, Authorized, Incomplete, CleanupResumable
  <2>4. CleanupFinal'
    <3>1. s \notin sources' \cup located' /\ \A m \in Notebooks : <<m, s>> \notin Live'
      BY <1>1 DEF Stage, Stageable, Live
    <3>2. \A x \in Sources \ {s} : Staged(x)' =>
            x \notin sources' \cup located' /\ \A m \in Notebooks : <<m, x>> \notin Live'
      BY <1>1, <2>1 DEF Stage, CleanupFinal, Live, Staged
    <3> QED
      BY <3>1, <3>2 DEF CleanupFinal
  <2>5. ContentAccounted'
    BY <1>1, <2>1, <2>2 DEF Stage, ContentAccounted, Staged
  <2>6. TaskHasRequest' /\ NotebookGone'
    BY <1>1 DEF Stage, tasks, TaskHasRequest, NotebookGone
  <2> QED
    BY <2>3, <2>4, <2>5, <2>6 DEF CleanupResumable
<1>2. ASSUME NEW s \in Sources, NEW k \in Kinds,
             DeleteOne(s, k) \/ DeleteUnrecorded(s, k) \/ DeleteRefused(s, k)
      PROVE  TaskHasRequest' /\ CleanupResumable' /\ CleanupFinal' /\ ContentAccounted'
               /\ NotebookGone'
  <2>1. CanGoOn(s) /\ UNCHANGED <<catalog, held, tasks>>
    BY <1>2 DEF DeleteOne, DeleteUnrecorded, DeleteRefused
  <2>2. /\ cleanup'[s].notebook = cleanup[s].notebook
        /\ cleanup'[s].state # "none"
        /\ \A x \in Sources \ {s} : cleanup'[x] = cleanup[x]
    BY <1>2, <2>1, AcknowledgedTyped, RefusedTyped
    DEF DeleteOne, DeleteUnrecorded, DeleteRefused, TypeOK, CanGoOn, Incomplete
  <2>3. /\ \A x \in Sources : "final" \in blobs'[x] => "final" \in blobs[x]
        /\ "final" \in blobs'[s] /\ "final" \in cleanup'[s].done => "final" \in cleanup[s].done
    <3>1. CASE DeleteOne(s, k)
      BY <3>1, AcknowledgedTyped DEF DeleteOne, TypeOK
    <3>2. CASE DeleteUnrecorded(s, k)
      BY <3>2 DEF DeleteUnrecorded, TypeOK
    <3>3. CASE DeleteRefused(s, k)
      BY <3>3, RefusedTyped DEF DeleteRefused, TypeOK
    <3> QED
      BY <1>2, <3>1, <3>2, <3>3
  <2>4. CleanupResumable'
    BY <2>1, <2>2 DEF CleanupResumable, CanGoOn, Authorized, Incomplete, catalog, tasks
  <2>5. CleanupFinal'
    BY <2>1, <2>2 DEF CleanupFinal, Staged, Live, catalog, CanGoOn, Incomplete
  <2>6. ContentAccounted'
    BY <2>1, <2>2, <2>3 DEF ContentAccounted, Staged, catalog, CanGoOn, Incomplete
  <2>7. TaskHasRequest' /\ NotebookGone'
    BY <2>1 DEF TaskHasRequest, NotebookGone, catalog, tasks
  <2> QED
    BY <2>4, <2>5, <2>6, <2>7
<1> QED
  BY <1>1, <1>2 DEF Execute

LEMMA DeletionInvStep == DeletionInv /\ [Next]_vars => DeletionInv'
<1> SUFFICES ASSUME DeletionInv, [Next]_vars PROVE DeletionInv'
  OBVIOUS
<1>1. TypeOK'
  BY TypeStep DEF DeletionInv
<1>2. CASE Next
  BY <1>1, <1>2, UseKeeps, NotebookStepKeeps, DeathKeeps, ExecuteKeeps DEF Next, DeletionInv
<1>3. CASE UNCHANGED vars
  BY <1>1, <1>3 DEF vars, DeletionInv, TaskHasRequest, CleanupResumable, CleanupFinal,
                    ContentAccounted, NotebookGone, CanGoOn, Authorized, Incomplete, Staged, Live
<1> QED
  BY <1>2, <1>3

\* The joint invariant of notebook deletion and source cleanup holds in every state.
THEOREM DeletionInvariant == Spec => []DeletionInv
BY DeletionInvInit, DeletionInvStep, PTL DEF Spec

(* A source cleanup that was staged can be resumed until it is purged: no  *)
(* deletion of its notebook, no hold and no fault ever blocks the retry.   *)
THEOREM CleanupResumableCorrect == Spec => []CleanupResumable
BY DeletionInvariant, PTL DEF DeletionInv

(* No interleaving of uploads, replays and bindings brings back or binds a *)
(* source whose cleanup was staged.                                        *)
THEOREM CleanupFinalCorrect == Spec => []CleanupFinal
BY DeletionInvariant, PTL DEF DeletionInv

(* The final blob of a deleted source is listed for deletion until it is   *)
(* gone, whatever fails between the delete and its acknowledgement.        *)
THEOREM ContentAccountedCorrect == Spec => []ContentAccounted
BY DeletionInvariant, PTL DEF DeletionInv

(* A completed request means that the notebook and its bindings are gone.  *)
THEOREM NotebookGoneCorrect == Spec => []NotebookGone
BY DeletionInvariant, PTL DEF DeletionInv

---------------------------------------------------------------------------
(* Where no notebook is deleted, source cleanup alone keeps what is in use.*)
(* The fence on objects keeps a new object away while a key is pending; a  *)
(* call that has read the source binds it only if it is still there.       *)

NoTask == \A n \in Notebooks : worker[n] = "none"
PendingHasNoObject ==
  \A s \in Sources : Incomplete(s) => cleanup[s].done # Kinds /\ s \notin objects
ObjectStored == \A s \in objects : "final" \in blobs[s]
ReaderSound ==
  \A c \in Clients : client[c].phase = "binding" =>
    client[c].source \in sources \/ Staged(client[c].source)
AloneInv ==
  /\ DeletionInv
  /\ NoTask
  /\ PendingHasNoObject
  /\ ObjectStored
  /\ sources \subseteq objects
  /\ ReaderSound
  /\ Backed

LEMMA ReaderMoves ==
  ASSUME TypeOK, ReaderSound, UNCHANGED cleanup, sources \subseteq sources',
         NEW c \in Clients, NEW r,
         client' = [client EXCEPT ![c] = r],
         r.phase = "binding" => r.source \in sources'
  PROVE  ReaderSound'
<1>1. \A x \in Clients : client'[x] = IF x = c THEN r ELSE client[x]
  BY DEF TypeOK
<1> QED
  BY <1>1 DEF ReaderSound, Staged

LEMMA PhaseMoves ==
  ASSUME TypeOK, NEW c \in Clients, NEW p \in {"stored", "binding"}
  PROVE  /\ [client EXCEPT ![c].phase = p] = [client EXCEPT ![c] = [@ EXCEPT !.phase = p]]
         /\ [client[c] EXCEPT !.phase = p].phase = p
         /\ [client[c] EXCEPT !.phase = p].source = client[c].source
<1>1. client[c] \in ClientRow
  BY DEF TypeOK
<1> QED
  BY <1>1 DEF ClientRow

LEMMA AloneInit == Init => AloneInv
<1> SUFFICES ASSUME Init PROVE AloneInv
  OBVIOUS
<1>1. \A s \in Sources : ~Incomplete(s)
  BY DEF Init, NoCleanup, Incomplete
<1>2. ReaderSound
  BY DEF Init, Quiet, ReaderSound
<1> QED
  BY <1>1, <1>2, DeletionInvInit
  DEF Init, AloneInv, NoTask, PendingHasNoObject, ObjectStored, Backed, Live

LEMMA AloneUse ==
  ASSUME AloneInv, Use
  PROVE  NoTask' /\ PendingHasNoObject' /\ ObjectStored' /\ sources' \subseteq objects'
           /\ ReaderSound' /\ Backed'
<1> USE DEF AloneInv, DeletionInv
<1>1. ASSUME NEW c \in Clients, NEW n \in Notebooks, NEW s \in Sources, Upload(c, n, s)
      PROVE  NoTask' /\ PendingHasNoObject' /\ ObjectStored' /\ sources' \subseteq objects'
               /\ ReaderSound' /\ Backed'
  <2>1. \A x \in Sources : "final" \in blobs[x] => "final" \in blobs'[x]
    BY <1>1 DEF Upload, TypeOK
  <2>2. ReaderSound'
    BY <1>1, ReaderMoves DEF Upload, catalog
  <2> QED
    BY <1>1, <2>1, <2>2 DEF Upload, catalog, tasks, NoTask, PendingHasNoObject, ObjectStored,
                            TypeOK, Backed, Live, Incomplete
<1>2. ASSUME NEW c \in Clients, Store(c)
      PROVE  NoTask' /\ PendingHasNoObject' /\ ObjectStored' /\ sources' \subseteq objects'
               /\ ReaderSound' /\ Backed'
  <2> DEFINE s == client[c].source
  <2>0. s \in Sources
    BY <1>2 DEF TypeOK, Store
  <2>1. ReaderSound'
    <3>1. CASE client' = [client EXCEPT ![c] = Quiet]
      BY <1>2, <3>1, ReaderMoves DEF Store, Quiet
    <3>2. CASE client' = [client EXCEPT ![c].phase = "stored"]
      BY <1>2, <3>2, ReaderMoves, PhaseMoves DEF Store
    <3> QED
      BY <1>2, <3>1, <3>2 DEF Store
  <2>2. \A x \in Sources : "final" \in blobs[x] => "final" \in blobs'[x]
    BY <1>2, <2>0 DEF Store, TypeOK
  <2>3. \A x \in objects' : x \in objects \/ (x = s /\ ~ObjectFenced(s) /\ "final" \in blobs'[s])
    BY <1>2, <2>0 DEF Store, TypeOK
  <2>4. Incomplete(s) /\ s \notin objects => ObjectFenced(s)
    BY <2>0 DEF PendingHasNoObject, ObjectFenced, Incomplete, Staged
  <2>5. PendingHasNoObject'
    BY <1>2, <2>3, <2>4 DEF Store, PendingHasNoObject, Incomplete
  <2>6. ObjectStored' /\ sources' \subseteq objects'
    BY <1>2, <2>2, <2>3 DEF Store, ObjectStored, TypeOK
  <2> QED
    BY <1>2, <2>1, <2>5, <2>6 DEF Store, tasks, NoTask, Backed, Live
<1>3. ASSUME NEW c \in Clients, Register(c)
      PROVE  NoTask' /\ PendingHasNoObject' /\ ObjectStored' /\ sources' \subseteq objects'
               /\ ReaderSound' /\ Backed'
  <2>1. ReaderSound'
    <3>1. CASE client' = [client EXCEPT ![c] = Quiet]
      BY <1>3, <3>1, ReaderMoves DEF Register, Quiet
    <3>2. CASE client[c].source \in sources
               /\ client' = [client EXCEPT ![c].phase = "binding"]
               /\ UNCHANGED sources
      BY <1>3, <3>2, ReaderMoves, PhaseMoves DEF Register
    <3> QED
      BY <1>3, <3>1, <3>2 DEF Register
  <2>2. sources' \subseteq objects' /\ sources \subseteq sources'
    BY <1>3 DEF Register
  <2>3. Backed'
    BY <1>3 DEF Register, Backed, Live
  <2> QED
    BY <1>3, <2>1, <2>2, <2>3 DEF Register, tasks, NoTask, PendingHasNoObject, ObjectStored,
                                  Incomplete
<1>4. ASSUME NEW c \in Clients, Bind(c)
      PROVE  NoTask' /\ PendingHasNoObject' /\ ObjectStored' /\ sources' \subseteq objects'
               /\ ReaderSound' /\ Backed'
  <2>1. ReaderSound'
    BY <1>4, ReaderMoves DEF Bind, Quiet
  <2>2. ~Staged(client[c].source) => client[c].source \in sources
    BY <1>4 DEF Bind, ReaderSound
  <2>3. Backed'
    BY <1>4, <2>2 DEF Bind, SourceFenced, Backed, Live
  <2> QED
    BY <1>4, <2>1, <2>3 DEF Bind, tasks, NoTask, PendingHasNoObject, ObjectStored, Incomplete
<1>5. ASSUME NEW n \in Notebooks, NEW s \in Sources, Unbind(n, s)
      PROVE  NoTask' /\ PendingHasNoObject' /\ ObjectStored' /\ sources' \subseteq objects'
               /\ ReaderSound' /\ Backed'
  BY <1>5 DEF Unbind, tasks, NoTask, PendingHasNoObject, ObjectStored, Incomplete, ReaderSound,
              Staged, Backed, Live
<1>6. ASSUME NEW s \in Sources, Hold(s) \/ Release(s)
      PROVE  NoTask' /\ PendingHasNoObject' /\ ObjectStored' /\ sources' \subseteq objects'
               /\ ReaderSound' /\ Backed'
  <2>1. UNCHANGED cleanup
    BY <1>6 DEF Hold, Release, CleanupFinal, CleanupResumable, CanGoOn, Incomplete, Staged
  <2> QED
    BY <1>6, <2>1 DEF Hold, Release, catalog, tasks, NoTask, PendingHasNoObject, ObjectStored,
                      Incomplete, ReaderSound, Staged, Backed, Live
<1> QED
  BY <1>1, <1>2, <1>3, <1>4, <1>5, <1>6 DEF Use

LEMMA AloneExecute ==
  ASSUME AloneInv, Execute
  PROVE  NoTask' /\ PendingHasNoObject' /\ ObjectStored' /\ sources' \subseteq objects'
           /\ ReaderSound' /\ Backed'
<1> USE DEF AloneInv, DeletionInv
<1>1. ASSUME NEW n \in Notebooks, NEW s \in Sources, Stage(n, s)
      PROVE  NoTask' /\ PendingHasNoObject' /\ ObjectStored' /\ sources' \subseteq objects'
               /\ ReaderSound' /\ Backed'
  <2>1. /\ cleanup'[s] = [state |-> "cleanup_pending", notebook |-> n, done |-> {}]
        /\ \A x \in Sources \ {s} : cleanup'[x] = cleanup[x]
    BY <1>1 DEF Stage, TypeOK
  <2>2. cleanup'[s].done = {} /\ cleanup'[s].state = "cleanup_pending" /\ {} # Kinds
    BY <2>1 DEF Kinds
  <2>3. PendingHasNoObject'
    BY <1>1, <2>1, <2>2 DEF Stage, PendingHasNoObject, Incomplete
  <2>4. ReaderSound'
    BY <1>1, <2>1, <2>2 DEF Stage, ReaderSound, Staged, TypeOK
  <2>5. Backed'
    BY <1>1 DEF Stage, Stageable, Backed, Live, TypeOK
  <2> QED
    BY <1>1, <2>3, <2>4, <2>5 DEF Stage, tasks, NoTask, ObjectStored
<1>2. ASSUME NEW s \in Sources, NEW k \in Kinds,
             DeleteOne(s, k) \/ DeleteUnrecorded(s, k) \/ DeleteRefused(s, k)
      PROVE  NoTask' /\ PendingHasNoObject' /\ ObjectStored' /\ sources' \subseteq objects'
               /\ ReaderSound' /\ Backed'
  <2>1. Incomplete(s) /\ s \notin objects /\ cleanup[s].done # Kinds
        /\ UNCHANGED <<catalog, tasks, client>>
    BY <1>2 DEF DeleteOne, DeleteUnrecorded, DeleteRefused, CanGoOn, PendingHasNoObject
  <2>2. \A x \in Sources \ {s} : blobs'[x] = blobs[x] /\ cleanup'[x] = cleanup[x]
    BY <1>2 DEF DeleteOne, DeleteUnrecorded, DeleteRefused, TypeOK
  <2>3. /\ cleanup'[s].state # "none"
        /\ cleanup'[s].done = Kinds => cleanup'[s].state = "purged"
    <3>1. CASE DeleteOne(s, k)
      <4>1. cleanup'[s] = Acknowledged(s, k)
        BY <3>1 DEF DeleteOne, TypeOK
      <4>2. Acknowledged(s, k).done = Kinds => Acknowledged(s, k).state = "purged"
        <5>1. cleanup[s] \in CleanupRow
          BY DEF TypeOK
        <5> QED
          BY <5>1 DEF Acknowledged, CleanupRow
      <4> QED
        BY <4>1, <4>2, AcknowledgedTyped DEF TypeOK
    <3>2. CASE DeleteUnrecorded(s, k)
      BY <2>1, <3>2 DEF DeleteUnrecorded, Incomplete
    <3>3. CASE DeleteRefused(s, k)
      BY <2>1, <3>3, RefusedTyped DEF DeleteRefused, TypeOK
    <3> QED
      BY <1>2, <3>1, <3>2, <3>3
  <2>4. PendingHasNoObject'
    BY <2>1, <2>2, <2>3 DEF PendingHasNoObject, Incomplete, catalog
  <2>5. ObjectStored' /\ sources' \subseteq objects'
    BY <2>1, <2>2 DEF ObjectStored, TypeOK, catalog
  <2>6. ReaderSound'
    BY <2>1, <2>2, <2>3 DEF ReaderSound, Staged, TypeOK, catalog
  <2> QED
    BY <2>1, <2>4, <2>5, <2>6 DEF NoTask, Backed, Live, catalog, tasks
<1> QED
  BY <1>1, <1>2 DEF Execute

(* Requests are never taken back.                                          *)
LEMMA UndisturbedBefore ==
  ASSUME TypeOK, [Next]_vars, Undisturbed'
  PROVE  Undisturbed /\ \A n \in Notebooks : ~RequestDeletion(n)
<1>1. ASSUME NEW n \in Notebooks, RequestDeletion(n) PROVE FALSE
  <2>1. requests'[n] = requests[n] + 1 /\ requests[n] \in Nat
    BY <1>1 DEF RequestDeletion, TypeOK
  <2> QED
    BY <2>1 DEF Undisturbed
<1>2. ASSUME Use PROVE UNCHANGED requests
  BY <1>2 DEF Use, Upload, Store, Register, Bind, Unbind, Hold, Release, tasks
<1>3. ASSUME Execute PROVE UNCHANGED requests
  BY <1>3 DEF Execute, Stage, DeleteOne, DeleteUnrecorded, DeleteRefused, tasks
<1>4. ASSUME NEW n \in Notebooks, Process(n) \/ MarkFailedRaises(n)
      PROVE  UNCHANGED requests
  BY <1>4 DEF Process, MarkFailedRaises, CheckScope, RemoveScope, RemovalFails, DeleteBlob,
              StorageFails, MarkCompleted, MarkFailed
<1>5. ASSUME ProcessDies \/ UNCHANGED vars PROVE UNCHANGED requests
  BY <1>5 DEF ProcessDies, vars
<1>6. UNCHANGED requests
  BY <1>1, <1>2, <1>3, <1>4, <1>5 DEF Next
<1> QED
  BY <1>1, <1>6 DEF Undisturbed

LEMMA AloneStep ==
  ASSUME AloneInv, [Next]_vars, Undisturbed'
  PROVE  AloneInv'
<1>1. DeletionInv'
  BY DeletionInvStep DEF AloneInv
<1>2. ASSUME NEW n \in Notebooks PROVE ~(RequestDeletion(n) \/ Process(n) \/ MarkFailedRaises(n))
  <2>1. ~RequestDeletion(n) /\ worker[n] = "none"
    BY UndisturbedBefore DEF AloneInv, DeletionInv, NoTask
  <2> QED
    BY <2>1 DEF Process, MarkFailedRaises, CheckScope, RemoveScope,
                RemovalFails, DeleteBlob, StorageFails, MarkCompleted, MarkFailed
<1>3. CASE Use \/ Execute
  BY <1>1, <1>3, AloneUse, AloneExecute DEF AloneInv
<1>4. CASE ProcessDies
  <2>1. NoTask' /\ ReaderSound'
    BY <1>4 DEF ProcessDies, NoTask, ReaderSound, Quiet
  <2> QED
    BY <1>1, <1>4, <2>1
    DEF ProcessDies, AloneInv, PendingHasNoObject, ObjectStored, Backed, Live, catalog,
        Incomplete
<1>5. CASE UNCHANGED vars
  BY <1>1, <1>5 DEF vars, AloneInv, NoTask, PendingHasNoObject, ObjectStored, ReaderSound,
                    Backed, Live, Incomplete, Staged
<1> QED
  BY <1>2, <1>3, <1>4, <1>5 DEF Next

UndisturbedInv == DeletionInv /\ (Undisturbed => AloneInv)

LEMMA UndisturbedInvCorrect == Spec => []UndisturbedInv
<1>1. Init => UndisturbedInv
  BY AloneInit, DeletionInvInit DEF UndisturbedInv
<1>2. UndisturbedInv /\ [Next]_vars => UndisturbedInv'
  <2> SUFFICES ASSUME UndisturbedInv, [Next]_vars PROVE UndisturbedInv'
    OBVIOUS
  <2>1. DeletionInv'
    BY DeletionInvStep DEF UndisturbedInv
  <2>2. ASSUME Undisturbed' PROVE AloneInv'
    BY <2>2, UndisturbedBefore, AloneStep DEF UndisturbedInv, DeletionInv
  <2> QED
    BY <2>1, <2>2 DEF UndisturbedInv
<1> QED
  BY <1>1, <1>2, PTL DEF Spec

(* Until a notebook deletion is asked for, every registered source keeps   *)
(* its object row and its content, whatever cleanups, uploads and faults   *)
(* interleave.                                                             *)
THEOREM SourceReadableAlone == Spec => []SourceReadable
<1>1. UndisturbedInv => SourceReadable
  BY DEF UndisturbedInv, AloneInv, DeletionInv, TypeOK, ObjectStored, SourceReadable, Readable
<1> QED
  BY <1>1, UndisturbedInvCorrect, PTL

(* Until a notebook deletion is asked for, a binding never loses its       *)
(* source.                                                                 *)
THEOREM BoundExistsAlone == Spec => []BoundExists
<1>1. UndisturbedInv => BoundExists
  BY DEF UndisturbedInv, AloneInv, BoundExists
<1> QED
  BY <1>1, UndisturbedInvCorrect, PTL

(* Until a notebook deletion is asked for, no step removes a held source   *)
(* or its content.                                                         *)
THEOREM HeldKeptAlone == Spec => HeldKept
<1> DEFINE Kept == \A s \in sources \cap held :
                     s \in sources' /\ ("final" \in blobs[s] => "final" \in blobs'[s])
<1>1. ASSUME UndisturbedInv, [Next]_vars, Undisturbed' PROVE [Kept]_vars
  <2>0. AloneInv /\ \A n \in Notebooks : ~RequestDeletion(n)
    BY <1>1, UndisturbedBefore DEF UndisturbedInv, DeletionInv
  <2> USE <1>1, <2>0 DEF AloneInv, DeletionInv
  <2>1. CASE Use
    <3>1. sources \subseteq sources'
      BY <2>1 DEF Use, Upload, Store, Register, Bind, Unbind, Hold, Release, catalog
    <3>2. \A s \in Sources : "final" \in blobs[s] => "final" \in blobs'[s]
      <4>1. ASSUME NEW c \in Clients, NEW n \in Notebooks, NEW x \in Sources, Upload(c, n, x)
            PROVE  \A s \in Sources : "final" \in blobs[s] => "final" \in blobs'[s]
        BY <4>1 DEF Upload, TypeOK
      <4>2. ASSUME NEW c \in Clients, Store(c)
            PROVE  \A s \in Sources : "final" \in blobs[s] => "final" \in blobs'[s]
        <5>1. blobs' = blobs \/ blobs' = [blobs EXCEPT ![client[c].source] = @ \cup {"final"}]
          BY <4>2 DEF Store
        <5> QED
          BY <5>1 DEF TypeOK
      <4>3. ASSUME NEW c \in Clients, Register(c) \/ Bind(c)
            PROVE  UNCHANGED blobs
        BY <4>3 DEF Register, Bind
      <4>4. ASSUME NEW s \in Sources,
                   Hold(s) \/ Release(s) \/ \E n \in Notebooks : Unbind(n, s)
            PROVE  UNCHANGED blobs
        BY <4>4 DEF Hold, Release, Unbind
      <4> QED
        BY <2>1, <4>1, <4>2, <4>3, <4>4 DEF Use
    <3> QED
      BY <3>1, <3>2 DEF TypeOK
  <2>2. CASE \E n \in Notebooks, s \in Sources : Stage(n, s)
    BY <2>2 DEF Stage, Stageable
  <2>3. ASSUME NEW s \in Sources, NEW k \in Kinds,
               DeleteOne(s, k) \/ DeleteUnrecorded(s, k) \/ DeleteRefused(s, k)
        PROVE  Kept
    <3>1. s \notin sources /\ UNCHANGED sources
      BY <2>3 DEF DeleteOne, DeleteUnrecorded, DeleteRefused, CanGoOn, Incomplete, Staged,
                  CleanupFinal, catalog
    <3>2. \A x \in Sources \ {s} : blobs'[x] = blobs[x]
      BY <2>3 DEF DeleteOne, DeleteUnrecorded, DeleteRefused, TypeOK
    <3> QED
      BY <3>1, <3>2 DEF TypeOK
  <2>4. CASE ProcessDies
    BY <2>4 DEF ProcessDies, catalog
  <2>5. ASSUME NEW n \in Notebooks
        PROVE  ~(RequestDeletion(n) \/ Process(n) \/ MarkFailedRaises(n))
    <3>1. worker[n] = "none"
      BY DEF NoTask
    <3> QED
      BY <3>1 DEF Process, MarkFailedRaises, CheckScope, RemoveScope,
                  RemovalFails, DeleteBlob, StorageFails, MarkCompleted, MarkFailed
  <2> QED
    BY <2>1, <2>2, <2>3, <2>4, <2>5 DEF Next, Execute
<1>2. UndisturbedInv /\ [Next]_vars => [Undisturbed' => Kept]_vars
  BY <1>1
<1> QED
  BY <1>2, UndisturbedInvCorrect, PTL DEF Spec, HeldKept

(* Cleanups are resumable, final and accounted for, whatever else runs:     *)
(* the property the run deletion_cleanup checks.                            *)
THEOREM CleanupSafeCorrect == Spec => []CleanupSafe
BY TypeCorrect, CleanupResumableCorrect, CleanupFinalCorrect, ContentAccountedCorrect, PTL
   DEF CleanupSafe

(* Until a notebook deletion is asked for, cleanups take no source from a   *)
(* notebook, a reader or a hold.                                            *)
THEOREM SourcesKeptCorrect == Spec => SourcesKept
BY SourceReadableAlone, BoundExistsAlone, HeldKeptAlone, PTL DEF SourcesKept
=============================================================================
