--------------------------- MODULE SourceLifecycle ---------------------------
(***************************************************************************)
(* What document processing promises about a Source, whatever its workers, *)
(* leases and models do: it is worked on in rounds, every round gives it   *)
(* at most one verdict, and only a verdict that asks for another round can *)
(* be followed by one.  The states and edges are those of the Source canon *)
(* (data_canon.py); security_check and indexing are passed through inside  *)
(* a transaction and never seen.                                           *)
(***************************************************************************)
EXTENDS Naturals

CONSTANTS Sources,
          Reviewable   \* sources whose needs_review can be sent round again

VARIABLES state,   \* sources.state
          round    \* number of processing runs begun

lifecycleVars == <<state, round>>

Verdict == {"ready", "needs_review", "failed", "waiting_model"}
SourceState == {"registered", "processing"} \cup Verdict

LifecycleInit ==
  /\ state = [s \in Sources |-> "registered"]
  /\ round = [s \in Sources |-> 0]

Begin(s) ==
  /\ state[s] = "registered"
  /\ state' = [state EXCEPT ![s] = "processing"]
  /\ round' = [round EXCEPT ![s] = 1]

Decide(s, verdict) ==
  /\ state[s] = "processing"
  /\ state' = [state EXCEPT ![s] = verdict]
  /\ UNCHANGED round

Repeat(s) ==
  /\ \/ state[s] \in {"failed", "waiting_model"}
     \/ state[s] = "needs_review" /\ s \in Reviewable
  /\ state' = [state EXCEPT ![s] = "processing"]
  /\ round' = [round EXCEPT ![s] = @ + 1]

LifecycleNext ==
  \E s \in Sources : Begin(s) \/ (\E v \in Verdict : Decide(s, v)) \/ Repeat(s)

LifecycleSpec == LifecycleInit /\ [][LifecycleNext]_lifecycleVars
=============================================================================
