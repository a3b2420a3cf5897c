--------------------------- MODULE CommandPromise ---------------------------
(***************************************************************************)
(* What users may rely on for an instance command, with the Agent, the      *)
(* Controller and the network between them left out: a command is issued,   *)
(* one verdict is reached where it runs, the issuer learns that verdict and *)
(* no other, and commands are forgotten only with a removal that succeeded. *)
(***************************************************************************)
CONSTANT CommandIds

VARIABLES
  phase,   \* what the issuer knows of a command: nothing, issued, its verdict, forgotten
  verdict  \* what became of it where it runs

vars == <<phase, verdict>>

Verdicts == {"completed", "failed"}

Init ==
  /\ phase = [c \in CommandIds |-> "unknown"]
  /\ verdict = [c \in CommandIds |-> "none"]

Issue(c) ==
  /\ phase[c] = "unknown"
  /\ phase' = [phase EXCEPT ![c] = "issued"]
  /\ UNCHANGED verdict

\* A command may still run when its issuer has forgotten it.
Decide(c, v) ==
  /\ phase[c] \in {"issued", "forgotten"} /\ verdict[c] = "none"
  /\ verdict' = [verdict EXCEPT ![c] = v]
  /\ UNCHANGED phase

Learn(c) ==
  /\ phase[c] = "issued" /\ verdict[c] # "none"
  /\ phase' = [phase EXCEPT ![c] = verdict[c]]
  /\ UNCHANGED verdict

Forget(gone) ==
  /\ \E removal \in gone : phase[removal] = "completed"
  /\ \A c \in gone : phase[c] \in {"issued"} \cup Verdicts
  /\ phase' = [c \in CommandIds |-> IF c \in gone THEN "forgotten" ELSE phase[c]]
  /\ UNCHANGED verdict

Next ==
  \/ \E c \in CommandIds : Issue(c) \/ Learn(c) \/ \E v \in Verdicts : Decide(c, v)
  \/ \E gone \in SUBSET CommandIds : Forget(gone)

Spec == Init /\ [][Next]_vars

=============================================================================
