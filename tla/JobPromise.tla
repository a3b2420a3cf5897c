----------------------------- MODULE JobPromise -----------------------------
(***************************************************************************)
(* What users may rely on for a job of hours, with heartbeats, files and   *)
(* processes left out: it is begun once or not at all, never after its     *)
(* issuer knows how it ended; the issuer learns an end that was written    *)
(* where it runs, and no other end later; only jobs of an instance are     *)
(* forgotten, all of them at once with the instance.                       *)
(***************************************************************************)
CONSTANTS
  Jobs,
  Provisions  \* the jobs of an instance

VARIABLES
  phase,  \* what the issuer knows of a job: nothing, queued, its end, forgotten
  begun,  \* the jobs that were begun where they run
  ends    \* the ends written there

vars == <<phase, begun, ends>>

Ends == {"completed", "failed"}

Init ==
  /\ phase = [j \in Jobs |-> "unknown"]
  /\ begun = {}
  /\ ends = [j \in Jobs |-> {}]

Queue(j) ==
  /\ phase[j] = "unknown"
  /\ phase' = [phase EXCEPT ![j] = "queued"]
  /\ UNCHANGED <<begun, ends>>

\* A job may still be begun when its issuer has forgotten it.
Awaits(j) == phase[j] \in {"queued", "forgotten"} /\ j \notin begun /\ ends[j] = {}

Begin(j) ==
  /\ Awaits(j)
  /\ begun' = begun \cup {j}
  /\ UNCHANGED <<phase, ends>>

Refuse(j) ==
  /\ Awaits(j)
  /\ ends' = [ends EXCEPT ![j] = {"failed"}]
  /\ UNCHANGED <<phase, begun>>

End(j, v) ==
  /\ j \in begun /\ ends[j] = {}
  /\ ends' = [ends EXCEPT ![j] = {v}]
  /\ UNCHANGED <<phase, begun>>

\* A provisioning may fail after it said that it had completed.
Overturn(j) ==
  /\ j \in begun /\ ends[j] = {"completed"} /\ j \in Provisions
  /\ ends' = [ends EXCEPT ![j] = Ends]
  /\ UNCHANGED <<phase, begun>>

Learn(j) ==
  /\ phase[j] = "queued"
  /\ \E v \in ends[j] : phase' = [phase EXCEPT ![j] = v]
  /\ UNCHANGED <<begun, ends>>

Forget(gone) ==
  /\ \A j \in gone : phase[j] \in {"queued"} \cup Ends
  /\ phase' = [j \in Jobs |-> IF j \in gone THEN "forgotten" ELSE phase[j]]
  /\ UNCHANGED <<begun, ends>>

Next ==
  \/ \E j \in Jobs : \/ Queue(j) \/ Begin(j) \/ Refuse(j) \/ Overturn(j) \/ Learn(j)
                     \/ \E v \in Ends : End(j, v)
  \/ \E gone \in SUBSET Provisions : Forget(gone)

Spec == Init /\ [][Next]_vars

=============================================================================
