--------------------------- MODULE ServerPackSwap ---------------------------
(***************************************************************************)
(* The directory swap of a Minecraft Server Pack migration and its durable *)
(* journal (agents/common/minecraft_serverpack_migration_swap.py), run by  *)
(* the privileged helper, a systemd unit of its own: one renames, writes   *)
(* and syncs at a time, so a crash leaves any prefix of a phase's steps    *)
(* (agents/linux/privileged/materialize_instance.py).  The unit is a       *)
(* oneshot: a client that starts it while it works waits for the work in   *)
(* progress and reads its result (privileged_materialization.py, _invoke). *)
(***************************************************************************)
EXTENDS Naturals, Sequences

VARIABLES
  dirs,        \* the tree in each directory of the instance
  journal,     \* the phase in the swap journal, "none" without a journal
  temp,        \* whether the journal's temporary file exists
  checkpoint,  \* the archive checkpoint: none, its temporary file, or saved
  filed,       \* whether the journal has been moved to the history
  helper,      \* the privileged helper: its phase, remaining steps and answer
  server       \* the game server's systemd unit

swapVars == <<dirs, journal, temp, checkpoint, filed, helper>>

Places == {"active", "stage", "rollback", "failed", "history"}

\* "clean": the content still has the checksum that prepare recorded.
None == [build |-> "none", clean |-> FALSE]
Tree(b) == [build |-> b, clean |-> TRUE]
Trees == [build : {"old", "new", "partial", "none"}, clean : BOOLEAN]

JournalPhases == {"none", "prepared", "swapping", "swapped", "checked", "committed", "recovering", "recovered"}

Phases == {"inputs", "build", "prepare", "switch", "commit", "recover", "archive"}
Answers == {"none", "done", "recovered", "no_swap", "failed"}

Steps == JournalPhases \cup {"temp", "drop_temp", "make_stage", "fill_stage", "set_aside",
                             "activate", "quarantine", "restore", "note", "saved", "retain", "file_journal"}

HelperIdle == helper.phase = "idle"

SwapTypeOK ==
  /\ dirs \in [Places -> Trees]
  /\ journal \in JournalPhases
  /\ temp \in BOOLEAN /\ checkpoint \in {"none", "temp", "saved"} /\ filed \in BOOLEAN
  /\ helper \in [phase : Phases \cup {"idle"}, todo : Seq(Steps), answer : Answers]
  /\ server \in {"inactive", "active", "failed"}

SwapInit ==
  /\ dirs = [d \in Places |-> IF d = "active" THEN Tree("old") ELSE None]
  /\ journal = "none" /\ temp = FALSE /\ checkpoint = "none" /\ filed = FALSE
  /\ helper = [phase |-> "idle", todo |-> <<>>, answer |-> "none"]
  /\ server \in {"inactive", "active"}

Empty(places) == \A d \in places : dirs[d] = None
Intact(d, b) == dirs[d] = Tree(b)
NoJournal == journal = "none" /\ ~temp

-----------------------------------------------------------------------------
(* What each phase requires and does *)

\* Mutant: a recovery does not care what runs.
StoppedUnlessRecovering(phase) == phase \in {"commit", "recover"} \/ server = "inactive"

\* Every phase but commit is refused while the unit is not inactive.
Stopped(phase) == phase = "commit" \/ server = "inactive"

\* An absent active directory is only accepted by recover.
ActivePresent(phase) == phase = "recover" \/ dirs["active"] # None

\* Mutant: a committed swap is recovered like any other.
CanRecoverCommitted ==
  LET original == IF dirs["rollback"] # None THEN "rollback" ELSE "active"
  IN  /\ Intact(IF journal = "recovered" THEN "active" ELSE original, "old")
      /\ original = "rollback" /\ dirs["active"] # None => dirs["failed"] = None

\* The original is where its checksum is found; a committed swap is not undone.
CanRecover ==
  LET original == IF dirs["rollback"] # None THEN "rollback" ELSE "active"
  IN  /\ journal # "committed"
      /\ Intact(IF journal = "recovered" THEN "active" ELSE original, "old")
      /\ original = "rollback" /\ dirs["active"] # None => dirs["failed"] = None

\* Archival resumes with the journal, the rollback tree or both already moved.
CanArchive ==
  /\ ~temp /\ checkpoint # "temp" /\ Empty({"failed", "stage"})
  /\ journal = "committed" \/ (journal = "none" /\ checkpoint = "saved" /\ filed)
  /\ dirs["active"].build = "new"
  /\ IF dirs["rollback"] # None THEN Intact("rollback", "old") /\ dirs["history"] = None
                                ELSE Intact("history", "old")

Accepts(phase) ==
  /\ Stopped(phase) /\ ActivePresent(phase)
  /\ CASE phase = "inputs"  -> NoJournal /\ Empty({"stage", "rollback", "failed"})
       [] phase = "build"   -> NoJournal /\ Empty({"stage"})
       [] phase = "prepare" -> NoJournal /\ Empty({"rollback", "failed"}) /\ dirs["stage"].build = "new"
       [] phase = "switch"  -> /\ journal = "prepared" /\ ~temp /\ Empty({"rollback", "failed"})
                               /\ Intact("active", "old") /\ Intact("stage", "new")
       [] phase = "commit"  -> /\ journal = "checked" /\ ~temp
                               /\ dirs["active"].build = "new" /\ Intact("rollback", "old")
       [] phase = "recover" -> journal = "none" \/ CanRecover
       [] OTHER             -> CanArchive

\* Mutant: the journal is not told that the original is back.
RecoveryUnrecorded ==
  (IF temp THEN <<"drop_temp">> ELSE <<>>) \o
  (IF journal = "recovered" \/ dirs["rollback"] = None THEN <<>>
   ELSE <<"temp", "recovering">> \o (IF dirs["active"] = None THEN <<>> ELSE <<"quarantine">>) \o <<"restore">>)

\* The candidate is kept for diagnosis, the original comes back.
RecoverySteps ==
  (IF temp THEN <<"drop_temp">> ELSE <<>>) \o
  (IF journal = "recovered" THEN <<>>
   ELSE (IF dirs["rollback"] = None THEN <<>>
         ELSE <<"temp", "recovering">> \o (IF dirs["active"] = None THEN <<>> ELSE <<"quarantine">>) \o <<"restore">>)
        \o <<"temp", "recovered">>)

\* The readiness checkpoint is a second write of the phase "swapped".
SwitchSteps == <<"temp", "swapping", "set_aside", "activate", "temp", "swapped", "temp", "checked">>

\* Mutant: the journal is filed before the tree it describes.
ArchiveJournalFirst ==
  (IF checkpoint = "saved" THEN <<>> ELSE <<"note", "saved">>)
  \o (IF journal = "none" THEN <<>> ELSE <<"file_journal">>)
  \o (IF dirs["rollback"] = None THEN <<>> ELSE <<"retain">>)

ArchiveSteps ==
  (IF checkpoint = "saved" THEN <<>> ELSE <<"note", "saved">>)
  \o (IF dirs["rollback"] = None THEN <<>> ELSE <<"retain">>)
  \o (IF journal = "none" THEN <<>> ELSE <<"file_journal">>)

\* A recovery without a journal file does nothing and says so.
Plan(phase) ==
  CASE phase = "inputs"  -> <<>>
    [] phase = "build"   -> <<"make_stage", "fill_stage">>
    [] phase = "prepare" -> <<"temp", "prepared">>
    [] phase = "switch"  -> SwitchSteps
    [] phase = "commit"  -> <<"temp", "committed">>
    [] phase = "recover" -> IF journal = "none" THEN <<>> ELSE RecoverySteps
    [] OTHER             -> ArchiveSteps

Answer(phase) == IF phase # "recover" THEN "done" ELSE IF journal = "none" THEN "no_swap" ELSE "recovered"

-----------------------------------------------------------------------------
(* The helper's steps *)

\* A client starts the unit, or joins the run in progress.
Invoke(phase) ==
  IF ~HelperIdle THEN UNCHANGED swapVars
  ELSE /\ helper' = IF Accepts(phase)
                    THEN [phase |-> phase, todo |-> Plan(phase), answer |-> Answer(phase)]
                    ELSE [helper EXCEPT !.answer = "failed"]
       /\ UNCHANGED <<dirs, journal, temp, checkpoint, filed>>

Move(from, to) == dirs' = [dirs EXCEPT ![to] = dirs[from], ![from] = None]

Perform(step) ==
  /\ CASE step = "make_stage" -> dirs' = [dirs EXCEPT !["stage"] = Tree("partial")]
       [] step = "fill_stage" -> dirs' = [dirs EXCEPT !["stage"] = Tree("new")]
       [] step = "prepared"   -> dirs' = [dirs EXCEPT !["active"].clean = TRUE]
       [] step = "set_aside"  -> Move("active", "rollback")
       [] step = "activate"   -> Move("stage", "active")
       [] step = "quarantine" -> Move("active", "failed")
       [] step = "restore"    -> Move("rollback", "active")
       [] step = "retain"     -> Move("rollback", "history")
       [] OTHER               -> UNCHANGED dirs
  /\ journal' = IF step = "file_journal" THEN "none" ELSE IF step \in JournalPhases THEN step ELSE journal
  /\ temp' = IF step = "temp" THEN TRUE ELSE IF step \in JournalPhases \cup {"drop_temp"} THEN FALSE ELSE temp
  /\ checkpoint' = CASE step = "note" -> "temp" [] step = "saved" -> "saved" [] OTHER -> checkpoint
  /\ filed' = (filed \/ step = "file_journal")

HelperStep ==
  /\ ~HelperIdle /\ helper.todo # <<>>
  /\ Perform(Head(helper.todo))
  /\ helper' = [helper EXCEPT !.todo = Tail(@)]

HelperAnswers ==
  /\ ~HelperIdle /\ helper.todo = <<>>
  /\ helper' = [helper EXCEPT !.phase = "idle"]
  /\ UNCHANGED <<dirs, journal, temp, checkpoint, filed>>

\* A full disk or a failed rename; a failed build removes its directory if it can.
HelperBreaks ==
  /\ ~HelperIdle /\ helper.todo # <<>>
  /\ helper' = [phase |-> "idle", todo |-> <<>>, answer |-> "failed"]
  /\ dirs' \in IF helper.phase = "build" THEN {dirs, [dirs EXCEPT !["stage"] = None]} ELSE {dirs}
  /\ UNCHANGED <<journal, temp, checkpoint, filed>>

\* The host goes down.
HelperDies ==
  /\ helper' = [phase |-> "idle", todo |-> <<>>, answer |-> "none"]
  /\ UNCHANGED <<dirs, journal, temp, checkpoint, filed>>
=============================================================================
