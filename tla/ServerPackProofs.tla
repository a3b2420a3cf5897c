--------------------------- MODULE ServerPackProofs ---------------------------
(***************************************************************************)
(* Proofs about ServerPackMigration, for any number of migrations, faults  *)
(* and clients that stop waiting: types, the commit that no recovery takes *)
(* back, the runtime directory that is never replaced under a running game *)
(* server, the original tree that is kept until it is filed, and outcomes  *)
(* and starts that are what the directories say.                           *)
(*                                                                         *)
(* The argument in short: a phase of the helper outlives the client that   *)
(* called it, so what is known about it must not rest on the client.  It   *)
(* rests on the journal, which tells what may be in flight, and on the     *)
(* operation journal, which bars everyone else as long as a phase that     *)
(* moves the directory may still be at work (IInv, the first part).  The   *)
(* second part, Kept, ties the steps a phase still has to do to the        *)
(* journal and the directories it finds, and what each client has          *)
(* concluded to what the helper told it.                                   *)
(***************************************************************************)
EXTENDS ServerPackMigration, SequenceTheorems, TLAPS

-----------------------------------------------------------------------------
(* The inductive invariant *)

Decided == journal = "committed" \/ filed

StepsOf(phase) ==
  CASE phase = "inputs"  -> {}
    [] phase = "build"   -> {"make_stage", "fill_stage"}
    [] phase = "prepare" -> {"temp", "prepared"}
    [] phase = "switch"  -> {"temp", "swapping", "set_aside", "activate", "swapped", "checked"}
    [] phase = "commit"  -> {"temp", "committed"}
    [] phase = "recover" -> {"drop_temp", "temp", "recovering", "quarantine", "restore", "recovered"}
    [] OTHER             -> {"note", "saved", "retain", "file_journal"}

\* The phases that replace the runtime directory.
Moving == helper.phase \in {"switch", "recover"} /\ helper.todo # <<>>

\* What the journal says of the phase at work.
HelperSound ==
  /\ HelperIdle => helper.todo = <<>>
  /\ ~HelperIdle => helper.todo \in Seq(StepsOf(helper.phase))
  /\ helper.todo # <<>> =>
       /\ helper.phase \in {"prepare", "switch", "recover"} => ~Decided
       /\ helper.phase \in {"switch", "recover"} => journal # "none"
       /\ helper.phase = "commit" =>
            journal \in {"checked", "committed"} /\ ~filed /\ dirs["active"].build = "new"
       /\ helper.phase = "archive" => Decided

DecisionStands == (Decided => dirs["active"].build = "new") /\ (filed => journal = "none")

\* An attempt that has not reached the swap.
Ahead == executor.pc \in {"lock", "check", "stop", "backup", "inputs", "build", "prepare"}
AheadSound ==
  Ahead => /\ ~Decided /\ journal \notin {"swapping", "swapped", "checked"}
           /\ helper.phase \in {"switch", "commit", "archive"} => helper.todo = <<>>

ExecutorHolds == executor.pc \notin {"idle", "preflight", "lock", "report"}
MutualExclusion ==
  /\ ExecutorHolds => lock = "executor" /\ outer.status = "running"
  /\ cli # "idle" => lock = "cli" /\ outer.status \in {"failed", "interrupted"}
  /\ worker # "idle" => lock = "worker" /\ outer.status = "pending"

\* Nobody starts the server while the directory may move.
MovesBehindBarrier == Moving => server = "inactive" /\ Barred
QuietAfterSwap ==
  /\ executor.pc \in {"candidate", "again", "revive", "restore"} => HelperIdle
  /\ executor.pc \in {"commit", "archive"} => IF executor.called THEN helper.phase \in {"idle", executor.pc}
                                                                  ELSE HelperIdle
  /\ outer.status = "pending" => helper.phase \in {"idle", "archive"}

IInv ==
  /\ TypeOK /\ HelperSound /\ DecisionStands /\ AheadSound
  /\ MutualExclusion /\ MovesBehindBarrier /\ QuietAfterSwap

-----------------------------------------------------------------------------
(* The helper's phases *)

SwapTyped ==
  /\ dirs \in [Places -> Trees]
  /\ journal \in JournalPhases
  /\ temp \in BOOLEAN /\ checkpoint \in {"none", "temp", "saved"} /\ filed \in BOOLEAN
  /\ helper \in [phase : Phases \cup {"idle"}, todo : Seq(Steps), answer : Answers]

LEMMA StepsTyped == \A phase \in Phases : StepsOf(phase) \subseteq Steps
  BY DEF Phases, StepsOf, Steps, JournalPhases

LEMMA PlanTyped ==
  ASSUME NEW phase \in Phases
  PROVE  /\ Plan(phase) \in Seq(StepsOf(phase))
         /\ Plan(phase) \in Seq(Steps)
  <1> SUFFICES Plan(phase) \in Seq(StepsOf(phase))
    <2>1. \A S, T : S \subseteq T => \A s \in Seq(S) : s \in Seq(T)
      OBVIOUS
    <2> QED BY <2>1, StepsTyped
  <1>1. CASE phase = "recover"
    <2> DEFINE S == StepsOf("recover")
    <2>1. S = {"drop_temp", "temp", "recovering", "quarantine", "restore", "recovered"}
      BY DEF StepsOf
    <2>2. /\ <<>> \in Seq(S) /\ <<"drop_temp">> \in Seq(S) /\ <<"temp", "recovering">> \in Seq(S)
          /\ <<"quarantine">> \in Seq(S) /\ <<"restore">> \in Seq(S) /\ <<"temp", "recovered">> \in Seq(S)
      BY <2>1
    <2> HIDE DEF S
    <2>3. \A s, t \in Seq(S) : s \o t \in Seq(S)
      OBVIOUS
    <2>4. RecoverySteps \in Seq(S)
      <3> DEFINE back == IF dirs["rollback"] = None THEN <<>>
                         ELSE <<"temp", "recovering">> \o (IF dirs["active"] = None THEN <<>> ELSE <<"quarantine">>)
                              \o <<"restore">>
      <3>1. back \in Seq(S)
        BY <2>2, <2>3
      <3>2. RecoverySteps = (IF temp THEN <<"drop_temp">> ELSE <<>>) \o
                            (IF journal = "recovered" THEN <<>> ELSE back \o <<"temp", "recovered">>)
        BY DEF RecoverySteps
      <3> HIDE DEF back
      <3> QED BY <2>2, <2>3, <3>1, <3>2
    <2>5. Plan(phase) \in {<<>>, RecoverySteps}
      BY <1>1 DEF Plan
    <2>6. Plan(phase) \in Seq(S)
      BY <2>2, <2>4, <2>5
    <2> QED BY <1>1, <2>6 DEF S
  <1>2. CASE phase = "archive"
    <2> DEFINE S == StepsOf("archive")
    <2>1. S = {"note", "saved", "retain", "file_journal"}
      BY DEF StepsOf
    <2>2. /\ <<>> \in Seq(S) /\ <<"note", "saved">> \in Seq(S) /\ <<"retain">> \in Seq(S)
          /\ <<"file_journal">> \in Seq(S)
      BY <2>1
    <2> HIDE DEF S
    <2>3. \A s, t \in Seq(S) : s \o t \in Seq(S)
      OBVIOUS
    <2>4. ArchiveSteps \in Seq(S)
      BY <2>2, <2>3 DEF ArchiveSteps
    <2>5. Plan(phase) = ArchiveSteps
      BY <1>2 DEF Plan
    <2> QED BY <1>2, <2>4, <2>5 DEF S
  <1>3. CASE phase = "switch"
    <2>1. Plan(phase) = SwitchSteps /\ SwitchSteps \in Seq(StepsOf("switch"))
      BY <1>3 DEF Plan, SwitchSteps, StepsOf
    <2> QED BY <1>3, <2>1
  <1>4. CASE phase = "inputs"
    <2>1. Plan(phase) = <<>> /\ <<>> \in Seq(StepsOf("inputs"))
      BY <1>4 DEF Plan, StepsOf
    <2> QED BY <1>4, <2>1
  <1>5. CASE phase = "build"
    <2>1. Plan(phase) = <<"make_stage", "fill_stage">> /\ <<"make_stage", "fill_stage">> \in Seq(StepsOf("build"))
      BY <1>5 DEF Plan, StepsOf
    <2> QED BY <1>5, <2>1
  <1>6. CASE phase = "prepare"
    <2>1. Plan(phase) = <<"temp", "prepared">> /\ <<"temp", "prepared">> \in Seq(StepsOf("prepare"))
      BY <1>6 DEF Plan, StepsOf
    <2> QED BY <1>6, <2>1
  <1>7. CASE phase = "commit"
    <2>1. Plan(phase) = <<"temp", "committed">> /\ <<"temp", "committed">> \in Seq(StepsOf("commit"))
      BY <1>7 DEF Plan, StepsOf
    <2> QED BY <1>7, <2>1
  <1> QED BY <1>1, <1>2, <1>3, <1>4, <1>5, <1>6, <1>7 DEF Phases

\* A phase starts only when the journal is where it belongs.
LEMMA InvokeSound ==
  ASSUME SwapTyped, HelperSound, DecisionStands, NEW phase \in Phases, Invoke(phase),
         phase = "prepare" => ~Decided
  PROVE  /\ SwapTyped' /\ HelperSound' /\ DecisionStands'
         /\ UNCHANGED <<dirs, journal, temp, checkpoint, filed>>
         /\ helper' = helper \/ (HelperIdle /\ helper'.phase \in {"idle", phase})
         /\ ~Moving /\ Moving' => phase \in {"switch", "recover"} /\ server = "inactive"
         /\ helper'.todo # <<>> /\ helper.todo = <<>> =>
              /\ helper'.phase = phase
              /\ phase = "archive" => Decided
              /\ phase = "commit" => journal = "checked"
              /\ phase = "switch" => journal = "prepared"
  <1>1. CASE ~HelperIdle
    <2>1. UNCHANGED swapVars
      BY <1>1 DEF Invoke
    <2> QED BY <2>1 DEF swapVars, SwapTyped, HelperSound, DecisionStands, Decided, HelperIdle, Moving
  <1>2. CASE HelperIdle /\ ~Accepts(phase)
    <2>1. helper' = [helper EXCEPT !.answer = "failed"] /\ UNCHANGED <<dirs, journal, temp, checkpoint, filed>>
      BY <1>2 DEF Invoke
    <2>2. /\ helper' \in [phase : Phases \cup {"idle"}, todo : Seq(Steps), answer : Answers]
          /\ helper'.phase = "idle" /\ helper'.todo = <<>> /\ helper.todo = <<>>
      BY <1>2, <2>1 DEF SwapTyped, Answers, HelperIdle, HelperSound
    <2> QED BY <1>2, <2>1, <2>2 DEF SwapTyped, HelperSound, DecisionStands, Decided, HelperIdle, Moving
  <1>3. CASE HelperIdle /\ Accepts(phase)
    <2>1. /\ helper' = [phase |-> phase, todo |-> Plan(phase), answer |-> Answer(phase)]
          /\ UNCHANGED <<dirs, journal, temp, checkpoint, filed>>
      BY <1>3 DEF Invoke
    <2>2. Answer(phase) \in Answers /\ phase # "idle"
      BY DEF Answer, Answers, Phases
    <2>3. SwapTyped' /\ helper'.phase = phase /\ helper'.todo = Plan(phase)
      BY <2>1, <2>2, PlanTyped DEF SwapTyped
    <2>4. /\ phase \in {"prepare", "switch"} => ~Decided
          /\ phase = "switch" => journal = "prepared"
          /\ phase = "recover" /\ Plan(phase) # <<>> => journal # "none" /\ ~Decided
          /\ phase = "commit" => journal = "checked" /\ ~filed /\ dirs["active"].build = "new"
          /\ phase = "archive" => Decided
          /\ phase # "commit" => server = "inactive"
      <3>1. phase # "commit" => server = "inactive"
        BY <1>3 DEF Accepts, Stopped
      <3>2. CASE phase = "prepare"
        BY <3>1, <3>2
      <3>3. CASE phase = "switch"
        BY <1>3, <3>1, <3>3 DEF Accepts, DecisionStands, Decided
      <3>4. CASE phase = "recover"
        BY <1>3, <3>1, <3>4 DEF Accepts, CanRecover, Plan, DecisionStands, Decided
      <3>5. CASE phase = "commit"
        BY <1>3, <3>5 DEF Accepts, DecisionStands
      <3>6. CASE phase = "archive"
        BY <1>3, <3>1, <3>6 DEF Accepts, CanArchive, Decided
      <3>7. CASE phase \in {"inputs", "build"}
        BY <3>1, <3>7
      <3> QED BY <3>2, <3>3, <3>4, <3>5, <3>6, <3>7 DEF Phases
    <2>5. HelperSound' /\ DecisionStands'
      BY <2>1, <2>2, <2>3, <2>4, PlanTyped DEF HelperSound, DecisionStands, Decided, HelperIdle
    <2> QED BY <1>3, <2>1, <2>3, <2>4, <2>5 DEF Moving
  <1> QED BY <1>1, <1>2, <1>3

\* Running the server touches the content of its directory, never which build it is.
LEMMA TouchedTyped ==
  ASSUME dirs \in [Places -> Trees], NEW c \in BOOLEAN, dirs' = [dirs EXCEPT !["active"].clean = c]
  PROVE  dirs' \in [Places -> Trees] /\ dirs'["active"].build = dirs["active"].build
  <1>1. "active" \in Places /\ dirs["active"] \in Trees
    BY DEF Places
  <1>2. [dirs["active"] EXCEPT !.clean = c] \in Trees
    BY <1>1 DEF Trees
  <1>3. dirs' = [dirs EXCEPT !["active"] = [dirs["active"] EXCEPT !.clean = c]]
    OBVIOUS
  <1>4. dirs'["active"] = [dirs["active"] EXCEPT !.clean = c]
    BY <1>1, <1>3
  <1>5. dirs'["active"].build = dirs["active"].build
    BY <1>1, <1>4 DEF Trees
  <1> QED BY <1>1, <1>2, <1>3, <1>5

\* What one rename, write or sync does to the types.
LEMMA PerformTyped ==
  ASSUME SwapTyped, NEW step \in Steps, Perform(step)
  PROVE  /\ dirs' \in [Places -> Trees] /\ journal' \in JournalPhases
         /\ temp' \in BOOLEAN /\ checkpoint' \in {"none", "temp", "saved"} /\ filed' \in BOOLEAN
         /\ step \notin {"prepared", "set_aside", "activate", "quarantine", "restore"} => dirs'["active"] = dirs["active"]
         /\ step = "prepared" => dirs'["active"].build = dirs["active"].build
  <1>1. journal' \in JournalPhases /\ temp' \in BOOLEAN /\ checkpoint' \in {"none", "temp", "saved"} /\ filed' \in BOOLEAN
    BY DEF Perform, SwapTyped, JournalPhases
  <1>2. \A b \in {"old", "new", "partial"} : Tree(b) \in Trees
    BY DEF Tree, Trees
  <1>3. None \in Trees /\ dirs \in [Places -> Trees]
    BY DEF None, Trees, SwapTyped
  <1>4. CASE step = "make_stage"
    <2>1. dirs' = [dirs EXCEPT !["stage"] = Tree("partial")]
      BY <1>4 DEF Perform
    <2> QED BY <1>1, <1>2, <1>3, <1>4, <2>1 DEF Places
  <1>5. CASE step = "fill_stage"
    <2>1. dirs' = [dirs EXCEPT !["stage"] = Tree("new")]
      BY <1>5 DEF Perform
    <2> QED BY <1>1, <1>2, <1>3, <1>5, <2>1 DEF Places
  <1>6. CASE step = "prepared"
    <2>1. dirs' = [dirs EXCEPT !["active"].clean = TRUE]
      BY <1>6 DEF Perform
    <2> QED BY <1>1, <1>3, <1>6, <2>1, TouchedTyped
  <1>7. CASE step \in {"set_aside", "activate", "quarantine", "restore", "retain"}
    <2>1. \A from, to \in Places : Move(from, to) => dirs' \in [Places -> Trees]
      BY <1>3 DEF Move
    <2>2. CASE step = "retain"
      <3>1. Move("rollback", "history")
        BY <2>2 DEF Perform
      <3>2. dirs'["active"] = dirs["active"]
        BY <1>3, <3>1 DEF Move, Places
      <3> QED BY <1>1, <2>1, <2>2, <3>1, <3>2 DEF Places
    <2>3. CASE step # "retain"
      <3>1. \E from, to \in Places : Move(from, to)
        BY <1>7, <2>3 DEF Perform, Places
      <3> QED BY <1>1, <1>7, <2>1, <2>3, <3>1
    <2> QED BY <2>2, <2>3
  <1>8. CASE step \notin {"make_stage", "fill_stage", "prepared", "set_aside", "activate", "quarantine", "restore", "retain"}
    <2>1. UNCHANGED dirs
      BY <1>8 DEF Perform
    <2> QED BY <1>1, <1>3, <1>8, <2>1
  <1> QED BY <1>4, <1>5, <1>6, <1>7, <1>8

\* One step of a phase keeps what the journal says of it.
LEMMA HelperStepSound ==
  ASSUME SwapTyped, HelperSound, DecisionStands, HelperStep
  PROVE  /\ SwapTyped' /\ HelperSound' /\ DecisionStands'
         /\ helper'.phase = helper.phase /\ (Moving' => Moving)
         /\ ~Moving => dirs'["active"].build = dirs["active"].build
         /\ Decided => (Decided' /\ (journal' = "committed" \/ (filed' /\ journal' = "none")))
         /\ helper'.phase \notin {"commit", "archive"} => (Decided' => Decided)
         /\ helper'.phase \notin {"switch", "commit", "archive"} =>
              (journal' \in {"swapping", "swapped", "checked"} => journal' = journal)
  <1> DEFINE step == Head(helper.todo)
  <1>1. /\ ~HelperIdle /\ helper.todo # <<>> /\ Perform(step)
        /\ helper' = [helper EXCEPT !.todo = Tail(helper.todo)]
    BY DEF HelperStep
  <1>2. /\ helper.todo \in Seq(StepsOf(helper.phase)) /\ helper.todo \in Seq(Steps)
        /\ helper \in [phase : Phases \cup {"idle"}, todo : Seq(Steps), answer : Answers]
    BY <1>1 DEF HelperSound, SwapTyped
  <1>3. /\ step \in StepsOf(helper.phase) /\ step \in Steps
        /\ Tail(helper.todo) \in Seq(StepsOf(helper.phase)) /\ Tail(helper.todo) \in Seq(Steps)
    BY <1>1, <1>2
  <1>4. /\ helper' \in [phase : Phases \cup {"idle"}, todo : Seq(Steps), answer : Answers]
        /\ helper'.phase = helper.phase /\ helper'.todo = Tail(helper.todo)
        /\ helper'.todo \in Seq(StepsOf(helper'.phase)) /\ helper.phase \in Phases
    BY <1>1, <1>2, <1>3 DEF HelperIdle
  <1>5. SwapTyped'
    BY <1>1, <1>3, <1>4, PerformTyped DEF SwapTyped
  <1>6. Moving' => Moving
    BY <1>1, <1>4 DEF Moving
  <1> HIDE DEF step
  <1>7. /\ journal' = IF step = "file_journal" THEN "none" ELSE IF step \in JournalPhases THEN step ELSE journal
        /\ filed' = (filed \/ step = "file_journal")
        /\ step \notin {"prepared", "set_aside", "activate", "quarantine", "restore"} => dirs'["active"] = dirs["active"]
        /\ step = "prepared" => dirs'["active"].build = dirs["active"].build
    BY <1>1, <1>3, PerformTyped DEF Perform, step
  <1>8. ~HelperIdle' /\ ~HelperIdle
    BY <1>1, <1>4 DEF HelperIdle
  <1> USE DEF HelperSound, DecisionStands, Decided, StepsOf, JournalPhases
  <1>9. CASE helper.phase \in {"inputs", "build"}
    BY <1>1, <1>3, <1>4, <1>5, <1>6, <1>7, <1>8, <1>9
  <1>10. CASE helper.phase = "prepare"
    BY <1>1, <1>3, <1>4, <1>5, <1>6, <1>7, <1>8, <1>10
  <1>11. CASE helper.phase = "switch"
    BY <1>1, <1>3, <1>4, <1>5, <1>6, <1>7, <1>8, <1>11 DEF Moving
  <1>12. CASE helper.phase = "commit"
    BY <1>1, <1>3, <1>4, <1>5, <1>6, <1>7, <1>8, <1>12
  <1>13. CASE helper.phase = "recover"
    BY <1>1, <1>3, <1>4, <1>5, <1>6, <1>7, <1>8, <1>13 DEF Moving
  <1>14. CASE helper.phase = "archive"
    BY <1>1, <1>3, <1>4, <1>5, <1>6, <1>7, <1>8, <1>14
  <1> QED BY <1>4, <1>9, <1>10, <1>11, <1>12, <1>13, <1>14 DEF Phases

\* A phase that answers, breaks or dies leaves nothing to do.
LEMMA HelperEndsSound ==
  ASSUME SwapTyped, HelperSound, DecisionStands, HelperAnswers \/ HelperBreaks \/ HelperDies
  PROVE  /\ SwapTyped' /\ HelperSound' /\ DecisionStands'
         /\ UNCHANGED <<journal, filed>> /\ dirs'["active"] = dirs["active"]
         /\ helper'.phase = "idle" /\ helper'.todo = <<>>
  <1>1. /\ helper' \in [phase : Phases \cup {"idle"}, todo : Seq(Steps), answer : Answers]
        /\ helper'.phase = "idle" /\ helper'.todo = <<>> /\ UNCHANGED <<journal, temp, checkpoint, filed>>
    <2>1. helper \in [phase : Phases \cup {"idle"}, todo : Seq(Steps), answer : Answers] /\ <<>> \in Seq(Steps)
      BY DEF SwapTyped
    <2>2. CASE HelperAnswers
      BY <2>1, <2>2 DEF HelperAnswers
    <2>3. CASE HelperBreaks \/ HelperDies
      <3>1. /\ UNCHANGED <<journal, temp, checkpoint, filed>>
            /\ \E a \in {"failed", "none"} : helper' = [phase |-> "idle", todo |-> <<>>, answer |-> a]
        BY <2>3 DEF HelperBreaks, HelperDies
      <3>2. \A a \in {"failed", "none"} : a \in Answers
        BY DEF Answers
      <3> QED BY <2>1, <3>1, <3>2
    <2> QED BY <2>2, <2>3
  <1>2. dirs' \in [Places -> Trees] /\ dirs'["active"] = dirs["active"]
    <2>1. None \in Trees /\ dirs \in [Places -> Trees]
      BY DEF None, Trees, SwapTyped
    <2>2. dirs' \in {dirs, [dirs EXCEPT !["stage"] = None]}
      BY DEF HelperAnswers, HelperBreaks, HelperDies
    <2> QED BY <2>1, <2>2 DEF Places
  <1> QED BY <1>1, <1>2 DEF SwapTyped, HelperSound, DecisionStands, Decided, HelperIdle

-----------------------------------------------------------------------------
(* The clients: what a step that leaves the journal alone preserves *)

\* The helper's part of the invariant speaks of the journal, the helper and the build.
LEMMA SwapFrame ==
  ASSUME HelperSound, DecisionStands, UNCHANGED <<journal, filed, helper>>,
         dirs'["active"].build = dirs["active"].build
  PROVE  HelperSound' /\ DecisionStands' /\ (Moving' <=> Moving) /\ (Decided' <=> Decided)
  BY DEF HelperSound, DecisionStands, Decided, Moving, HelperIdle

LEMMA InitSound == Init => IInv
  <1> SUFFICES ASSUME Init PROVE IInv
    OBVIOUS
  <1> USE DEF Init, SwapInit
  <1>1. TypeOK
    <2>1. None \in Trees /\ Tree("old") \in Trees
      BY DEF None, Tree, Trees
    <2>2. helper \in [phase : Phases \cup {"idle"}, todo : Seq(Steps), answer : Answers]
      <3>1. <<>> \in Seq(Steps) /\ "none" \in Answers
        BY DEF Answers
      <3> QED BY <3>1
    <2>3. SwapTypeOK
      BY <2>1, <2>2 DEF SwapTypeOK, JournalPhases
    <2> QED BY <2>3, MigrationAssumption DEF TypeOK, OuterStates, Errors, ExecutorPC, ResultStates, Resting
  <1>2. HelperSound /\ DecisionStands /\ AheadSound /\ MutualExclusion /\ MovesBehindBarrier /\ QuietAfterSwap
    BY DEF HelperSound, HelperIdle, DecisionStands, Decided, AheadSound, Ahead, MutualExclusion, ExecutorHolds,
           MovesBehindBarrier, Moving, QuietAfterSwap, Resting
  <1> QED BY <1>1, <1>2 DEF IInv

\* What the executor's ways on do to its record and to the operation journal.
ExecutorType == [pc : ExecutorPC, called : BOOLEAN, error : Errors, final : ResultStates]
OuterType == [status : OuterStates, attempt : 0 .. MaxAttempts, error : Errors]

LEMMA Restarted ==
  Resting \in ExecutorType /\ Resting.pc = "idle" /\ [Resting EXCEPT !.pc = "preflight"] \in ExecutorType
  BY DEF Resting, ExecutorType, ExecutorPC, Errors, ResultStates

LEMMA GoMoves ==
  ASSUME executor \in ExecutorType, NEW pc \in ExecutorPC, Go(pc)
  PROVE  executor' \in ExecutorType /\ executor'.pc = pc /\ ~executor'.called
  BY DEF Go, ExecutorType

LEMMA FailMoves ==
  ASSUME executor \in ExecutorType, NEW error \in Errors, Fail(error)
  PROVE  executor' \in ExecutorType /\ executor'.pc = "undo" /\ ~executor'.called
  BY DEF Fail, ExecutorType, ExecutorPC

LEMMA ExitMoves ==
  ASSUME executor \in ExecutorType, outer \in OuterType,
         NEW status \in OuterStates, NEW error \in Errors, NEW final \in ResultStates, Exit(status, error, final)
  PROVE  /\ executor' \in ExecutorType /\ executor'.pc = "report"
         /\ outer' \in OuterType /\ outer'.status = status /\ lock' = "none"
  BY DEF Exit, ExecutorType, OuterType, ExecutorPC

LEMMA CallMoves ==
  ASSUME executor \in ExecutorType, executor' = [executor EXCEPT !.called = TRUE]
  PROVE  executor' \in ExecutorType /\ executor'.pc = executor.pc /\ executor'.called
  BY DEF ExecutorType

LEMMA ReportMoves ==
  ASSUME executor \in ExecutorType, executor' = [executor EXCEPT !.pc = "report", !.final = "failed"]
  PROVE  executor' \in ExecutorType /\ executor'.pc = "report"
  BY DEF ExecutorType, ExecutorPC, ResultStates

OtherTypes ==
  /\ evidence \in 0 .. MaxAttempts
  /\ lock \in {"none", "executor", "cli", "worker"}
  /\ original \in {"inactive", "active", "failed"}
  /\ result \in ResultStates
  /\ attempts \in 0 .. MaxAttempts
  /\ cli \in {"idle", "prove", "wait"}
  /\ worker \in {"idle", "resume", "wait", "restart", "publish", "release"}
  /\ faults \in 0 .. MaxFaults /\ timeouts \in 0 .. MaxTimeouts

TypedApart == SwapTypeOK /\ executor \in ExecutorType /\ outer \in OuterType /\ OtherTypes

LEMMA TypeParts == (TypeOK <=> TypedApart) /\ (TypeOK' <=> TypedApart')
  BY DEF TypeOK, TypedApart, ExecutorType, OuterType, OtherTypes

LEMMA SwapParts ==
  /\ SwapTypeOK <=> SwapTyped /\ server \in {"inactive", "active", "failed"}
  /\ SwapTypeOK' <=> SwapTyped' /\ server' \in {"inactive", "active", "failed"}
  BY DEF SwapTypeOK, SwapTyped

\* How the executor's step ends, as far as the other parts of the invariant look at it.
LEMMA ExecutorEnds ==
  ASSUME IInv, ExecutorHolds, HelperSound', DecisionStands', Decided' <=> Decided, journal' = journal, helper' = helper,
         Moving' => server' = "inactive", UNCHANGED <<cli, worker>>,
         \/ /\ executor'.pc \in ExecutorPC \ {"idle", "preflight", "lock", "report"} /\ UNCHANGED <<outer, lock>>
            /\ executor'.pc \in {"candidate", "again", "revive", "restore", "commit", "archive"} => HelperIdle
            /\ Ahead' => Ahead
         \/ /\ executor'.pc = "report" /\ lock' = "none"
            /\ \/ outer'.status = "failed"
               \/ outer'.status = "pending" /\ helper.phase \in {"idle", "archive"}
               \/ outer'.status = "completed" /\ HelperIdle
  PROVE  AheadSound' /\ MutualExclusion' /\ MovesBehindBarrier' /\ QuietAfterSwap'
  <1>1. cli = "idle" /\ worker = "idle" /\ outer.status = "running" /\ lock = "executor"
    BY DEF IInv, MutualExclusion
  <1>2. HelperIdle' <=> HelperIdle
    BY DEF HelperIdle
  <1>3. HelperIdle => ~Moving /\ ~Moving'
    BY <1>2 DEF IInv, HelperSound, Moving
  <1>4. CASE /\ executor'.pc \in ExecutorPC \ {"idle", "preflight", "lock", "report"} /\ UNCHANGED <<outer, lock>>
             /\ executor'.pc \in {"candidate", "again", "revive", "restore", "commit", "archive"} => HelperIdle
             /\ Ahead' => Ahead
    <2>1. ExecutorHolds'
      BY <1>4 DEF ExecutorHolds
    <2>2. AheadSound'
      BY <1>4 DEF IInv, AheadSound
    <2>3. MutualExclusion' /\ MovesBehindBarrier'
      BY <1>1, <1>4, <2>1 DEF MutualExclusion, MovesBehindBarrier, Barred
    <2>4. QuietAfterSwap'
      BY <1>1, <1>2, <1>4 DEF QuietAfterSwap, HelperIdle
    <2> QED BY <2>2, <2>3, <2>4
  <1>5. CASE /\ executor'.pc = "report" /\ lock' = "none"
             /\ \/ outer'.status = "failed"
                \/ outer'.status = "pending" /\ helper.phase \in {"idle", "archive"}
                \/ outer'.status = "completed" /\ HelperIdle
    BY <1>1, <1>2, <1>3, <1>5 DEF AheadSound, Ahead, MutualExclusion, ExecutorHolds, MovesBehindBarrier, Barred, QuietAfterSwap
  <1> QED BY <1>4, <1>5

\* Before the lock and after it: the executor's own record, and the lock.
LEMMA ExecutorOutside ==
  ASSUME IInv, Request \/ Preflight \/ Lock \/ ReportResult
  PROVE  IInv'
  <1> USE DEF IInv
  <1>1. UNCHANGED <<swapVars, server, cli, worker, original, faults, timeouts>>
    BY DEF Request, Preflight, Lock, ReportResult, boundVars
  <1>2. /\ SwapTypeOK' /\ HelperSound' /\ DecisionStands' /\ (Moving' <=> Moving) /\ (Decided' <=> Decided)
        /\ (HelperIdle' <=> HelperIdle)
    BY <1>1, SwapFrame DEF swapVars, TypeOK, SwapTypeOK, HelperIdle
  <1>3. executor \in ExecutorType /\ outer \in OuterType /\ OtherTypes
    BY TypeParts DEF TypedApart
  <1>4. UNCHANGED <<journal, helper>>
    BY <1>1 DEF swapVars
  <1>5. CASE Request
    <2>1. executor' \in ExecutorType /\ executor'.pc = "preflight" /\ UNCHANGED <<outer, lock, evidence>>
      BY <1>5, Restarted DEF Request, Resting
    <2>2. OtherTypes'
      BY <1>1, <1>3, <1>5, MigrationAssumption DEF OtherTypes, Request, ResultStates
    <2>3. executor.pc = "idle"
      BY <1>5 DEF Request
    <2>4. AheadSound' /\ MutualExclusion' /\ MovesBehindBarrier' /\ QuietAfterSwap'
      BY <1>1, <1>2, <1>4, <2>1, <2>3 DEF AheadSound, Ahead, MutualExclusion, ExecutorHolds, MovesBehindBarrier, Barred, QuietAfterSwap
    <2> QED BY <1>2, <1>3, <2>1, <2>2, <2>4, TypeParts DEF TypedApart
  <1>6. CASE Preflight
    <2>1. UNCHANGED <<outer, lock, evidence, result, attempts>>
      BY <1>6 DEF Preflight, boundVars
    <2>2. /\ executor' \in ExecutorType /\ executor'.pc \in {"lock", "report"}
          /\ executor'.pc = "lock" => SlotEmpty /\ dirs["active"].build = "old"
      BY <1>3, <1>6, ReportMoves DEF Preflight, ExecutorType, ExecutorPC
    <2>3. OtherTypes'
      BY <1>1, <1>3, <2>1 DEF OtherTypes
    <2>4. executor.pc = "preflight"
      BY <1>6 DEF Preflight
    <2>5. AheadSound'
      BY <1>2, <1>4, <2>2 DEF AheadSound, Ahead, SlotEmpty, NoJournal, HelperSound, DecisionStands, Decided
    <2>6. MutualExclusion' /\ MovesBehindBarrier' /\ QuietAfterSwap'
      BY <1>1, <1>2, <1>4, <2>1, <2>2, <2>4 DEF MutualExclusion, ExecutorHolds, MovesBehindBarrier, Barred, QuietAfterSwap
    <2> QED BY <1>2, <1>3, <2>1, <2>2, <2>3, <2>5, <2>6, TypeParts DEF TypedApart
  <1>7. CASE Lock
    <2>1. executor.pc = "lock" /\ UNCHANGED <<result, attempts>>
      BY <1>7 DEF Lock, boundVars
    <2>2. CASE lock = "none" /\ ~Barred /\ Preservable
      <3>1. /\ lock' = "executor" /\ Go("check") /\ Preserve
            /\ outer' = [status |-> "running", attempt |-> attempts, error |-> "none"]
        BY <1>7, <2>2 DEF Lock
      <3>2. executor' \in ExecutorType /\ executor'.pc = "check"
        BY <1>3, <3>1, GoMoves DEF ExecutorPC
      <3>3. outer' \in OuterType /\ outer'.status = "running"
        BY <1>3, <3>1 DEF OuterType, OtherTypes, OuterStates, Errors
      <3>4. OtherTypes'
        BY <1>1, <1>3, <2>1, <3>1 DEF OtherTypes, OuterType, Preserve
      <3>5. AheadSound'
        BY <1>2, <1>4, <2>1, <3>2 DEF AheadSound, Ahead
      <3>6. cli = "idle" /\ worker = "idle"
        BY <2>2 DEF MutualExclusion
      <3>7. ~Moving
        BY <2>2 DEF MovesBehindBarrier
      <3>8. MutualExclusion' /\ MovesBehindBarrier' /\ QuietAfterSwap'
        BY <1>1, <1>2, <3>1, <3>2, <3>3, <3>6, <3>7 DEF MutualExclusion, ExecutorHolds, MovesBehindBarrier, QuietAfterSwap
      <3> QED BY <1>2, <3>2, <3>3, <3>4, <3>5, <3>8, TypeParts DEF TypedApart
    <2>3. CASE ~(lock = "none" /\ ~Barred /\ Preservable)
      <3>1. executor' = [executor EXCEPT !.pc = "report", !.final = "failed"] /\ UNCHANGED <<outer, evidence, lock>>
        BY <1>7, <2>3 DEF Lock
      <3>2. executor' \in ExecutorType /\ executor'.pc = "report"
        BY <1>3, <3>1, ReportMoves
      <3>3. OtherTypes'
        BY <1>1, <1>3, <2>1, <3>1 DEF OtherTypes
      <3>4. AheadSound' /\ MutualExclusion' /\ MovesBehindBarrier' /\ QuietAfterSwap'
        BY <1>1, <1>2, <1>4, <2>1, <3>1, <3>2 DEF AheadSound, Ahead, MutualExclusion, ExecutorHolds, MovesBehindBarrier, Barred, QuietAfterSwap
      <3> QED BY <1>2, <1>3, <3>1, <3>2, <3>3, <3>4, TypeParts DEF TypedApart
    <2> QED BY <2>2, <2>3
  <1>8. CASE ReportResult
    <2>1. /\ executor' = Resting /\ result' = executor.final /\ executor.pc = "report"
          /\ UNCHANGED <<outer, lock, evidence, attempts>>
      BY <1>8 DEF ReportResult, boundVars
    <2>2. OtherTypes'
      BY <1>1, <1>3, <2>1 DEF OtherTypes, ExecutorType
    <2>3. executor' \in ExecutorType /\ executor'.pc = "idle"
      BY <2>1, Restarted
    <2>4. AheadSound' /\ MutualExclusion' /\ MovesBehindBarrier' /\ QuietAfterSwap'
      BY <1>1, <1>2, <1>4, <2>1, <2>3 DEF AheadSound, Ahead, MutualExclusion, ExecutorHolds, MovesBehindBarrier, Barred, QuietAfterSwap
    <2> QED BY <1>2, <1>3, <2>1, <2>2, <2>3, <2>4, TypeParts DEF TypedApart
  <1> QED BY <1>5, <1>6, <1>7, <1>8

\* Inside the lock: the executor's record, the operation journal and the lock's release.
LEMMA ExecutorInside ==
  ASSUME IInv, Check \/ Backup \/ Return \/ InputsMissing \/ GiveUp
  PROVE  IInv'
  <1> USE DEF IInv
  <1>1. UNCHANGED <<swapVars, server, cli, worker, original, evidence, result, attempts, faults>> /\ timeouts' \in 0 .. MaxTimeouts
    BY MigrationAssumption DEF Check, Backup, Return, InputsMissing, GiveUp, boundVars, TypeOK
  <1>2. /\ SwapTypeOK' /\ HelperSound' /\ DecisionStands' /\ (Moving' <=> Moving) /\ (Decided' <=> Decided)
        /\ (HelperIdle' <=> HelperIdle)
    BY <1>1, SwapFrame DEF swapVars, TypeOK, SwapTypeOK, HelperIdle
  <1>3. executor \in ExecutorType /\ outer \in OuterType /\ OtherTypes
    BY TypeParts DEF TypedApart
  <1>4. UNCHANGED <<journal, helper>> /\ (Moving' => server' = "inactive")
    BY <1>1, <1>2 DEF swapVars, MovesBehindBarrier
  <1>5. ExecutorHolds
    BY DEF ExecutorHolds, Check, Backup, Return, InputsMissing, GiveUp, Phases
  <1>6. /\ executor' \in ExecutorType /\ outer' \in OuterType /\ lock' \in {"none", "executor", "cli", "worker"}
        /\ \/ /\ executor'.pc \in ExecutorPC \ {"idle", "preflight", "lock", "report"} /\ UNCHANGED <<outer, lock>>
              /\ executor'.pc \in {"candidate", "again", "revive", "restore", "commit", "archive"} => HelperIdle
              /\ Ahead' => Ahead
           \/ /\ executor'.pc = "report" /\ lock' = "none"
              /\ \/ outer'.status = "failed"
                 \/ outer'.status = "pending" /\ helper.phase \in {"idle", "archive"}
                 \/ outer'.status = "completed" /\ HelperIdle
    <2> USE <1>3 DEF OtherTypes
    <2>0. /\ {"failed", "pending"} \subseteq OuterStates /\ {"none", "safe", "other", "unrestored"} \subseteq Errors
          /\ {"failed", "pending"} \subseteq ResultStates
          /\ {"stop", "inputs", "build", "prepare", "switch", "candidate", "archive", "restore", "revive", "undo"} \subseteq ExecutorPC
      BY DEF OuterStates, Errors, ResultStates, ExecutorPC
    <2>1. CASE Check
      <3>1. CASE Go("stop") /\ UNCHANGED <<outer, lock>>
        BY <2>0, <2>1, <3>1, GoMoves DEF Ahead, Check
      <3>2. CASE Exit("failed", "other", "failed")
        BY <2>0, <3>2, ExitMoves
      <3> QED BY <2>1, <3>1, <3>2 DEF Check
    <2>2. CASE Backup
      <3>1. UNCHANGED <<outer, lock>> /\ executor.pc = "backup"
        BY <2>2 DEF Backup
      <3>2. CASE Go("inputs")
        BY <2>0, <3>1, <3>2, GoMoves DEF Ahead
      <3>3. CASE Fail("other")
        BY <2>0, <3>1, <3>3, FailMoves DEF Ahead
      <3> QED BY <2>2, <3>2, <3>3 DEF Backup
    <2>3. CASE InputsMissing
      <3>1. UNCHANGED <<outer, lock>> /\ Fail("safe")
        BY <2>3 DEF InputsMissing
      <3> QED BY <2>0, <3>1, FailMoves DEF Ahead
    <2>4. CASE Return
      <3>1. executor.pc \in Phases /\ HelperIdle
        BY <2>4 DEF Return
      <3>2. CASE Go(AfterPhase(executor.pc)) /\ UNCHANGED <<outer, lock>>
        <4>1. AfterPhase(executor.pc) \in {"build", "prepare", "switch", "candidate", "archive", "restore", "revive"}
          BY DEF AfterPhase
        <4>2. AfterPhase(executor.pc) \in {"build", "prepare"} => Ahead
          BY <3>1 DEF AfterPhase, Ahead, Phases
        <4>3. executor' \in ExecutorType /\ executor'.pc = AfterPhase(executor.pc) /\ ~executor'.called
          BY <2>0, <3>2, <4>1, GoMoves
        <4> QED BY <2>0, <3>1, <3>2, <4>1, <4>2, <4>3 DEF Ahead
      <3>3. CASE Exit("failed", "unrestored", "failed")
        BY <2>0, <3>3, ExitMoves
      <3>4. CASE Exit("pending", "none", "pending")
        BY <2>0, <3>1, <3>4, ExitMoves DEF HelperIdle
      <3>5. CASE \E e \in {"safe", "other"} : Fail(e) /\ UNCHANGED <<outer, lock>>
        BY <2>0, <3>5, FailMoves DEF Ahead
      <3> QED BY <2>4, <3>2, <3>3, <3>4, <3>5 DEF Return
    <2>5. CASE GiveUp
      <3>1. CASE executor.pc = "recover" /\ Exit("failed", "unrestored", "failed")
        BY <2>0, <3>1, ExitMoves
      <3>2. CASE executor.pc = "archive" /\ Exit("pending", "none", "pending")
        <4>1. executor.called
          BY <2>5 DEF GiveUp
        <4>2. helper.phase \in {"idle", "archive"}
          BY <3>2, <4>1 DEF QuietAfterSwap
        <4> QED BY <2>0, <3>2, <4>2, ExitMoves
      <3>3. CASE Fail("other") /\ UNCHANGED <<outer, lock>>
        BY <2>0, <3>3, FailMoves DEF Ahead
      <3> QED BY <2>5, <3>1, <3>2, <3>3 DEF GiveUp
    <2> QED BY <2>1, <2>2, <2>3, <2>4, <2>5
  <1>7. AheadSound' /\ MutualExclusion' /\ MovesBehindBarrier' /\ QuietAfterSwap'
    BY <1>1, <1>2, <1>4, <1>5, <1>6, ExecutorEnds
  <1>8. OtherTypes'
    BY <1>1, <1>3, <1>6 DEF OtherTypes
  <1> QED BY <1>2, <1>6, <1>7, <1>8, TypeParts DEF TypedApart

\* The executor's steps that start or stop the server: nothing moves when they start it.
LEMMA ExecutorServes ==
  ASSUME IInv, Stop \/ Launch \/ Probe \/ Undo \/ Revive \/ Restore
  PROVE  IInv'
  <1> USE DEF IInv
  <1>1. UNCHANGED <<journal, temp, checkpoint, filed, helper, cli, worker, evidence, result, attempts, timeouts>>
    BY DEF Stop, Launch, Probe, Undo, Revive, Restore, swapVars, boundVars
  <1>2. executor \in ExecutorType /\ outer \in OuterType /\ OtherTypes /\ SwapTyped /\ server \in {"inactive", "active", "failed"}
    BY TypeParts, SwapParts DEF TypedApart
  <1>3. dirs' \in [Places -> Trees] /\ dirs'["active"].build = dirs["active"].build
    <2>1. dirs \in [Places -> Trees]
      BY <1>2 DEF SwapTyped
    <2>2. dirs' = dirs \/ \E c \in BOOLEAN : dirs' = [dirs EXCEPT !["active"].clean = c]
      <3>1. CASE Stop \/ Probe \/ Undo
        BY <3>1 DEF Stop, Probe, Undo, swapVars
      <3>2. CASE Launch \/ Revive \/ Restore
        <4>1. dirs["active"].clean \in BOOLEAN
          BY <2>1 DEF Places, Trees
        <4>2. \A state : Runs(state) => \E c \in BOOLEAN : dirs' = [dirs EXCEPT !["active"].clean = c]
          BY <4>1 DEF Runs
        <4> QED BY <3>2, <4>2 DEF Launch, Revive, Restore, Restart
      <3> QED BY <3>1, <3>2
    <2> QED BY <2>1, <2>2, TouchedTyped
  <1>4. /\ server' \in {"inactive", "active", "failed"} /\ original' \in {"inactive", "active", "failed"}
        /\ faults' \in 0 .. MaxFaults
    <2>1. CASE Stop \/ Probe \/ Undo
      BY <1>2, <2>1, MigrationAssumption DEF Stop, Probe, Undo, Fault, OtherTypes
    <2>2. CASE Launch \/ Revive \/ Restore
      BY <1>2, <2>2 DEF Launch, Revive, Restore, Restart, Runs, OtherTypes, boundVars
    <2> QED BY <2>1, <2>2
  <1>5. HelperSound' /\ DecisionStands' /\ (Moving' <=> Moving) /\ (Decided' <=> Decided)
    BY <1>1, <1>3, SwapFrame
  <1>6. ExecutorHolds
    BY DEF ExecutorHolds, Stop, Launch, Probe, Undo, Revive, Restore
  <1>7. Moving' => server' = "inactive"
    <2>1. CASE Stop \/ Undo
      BY <1>5, <2>1 DEF Stop, Undo, MovesBehindBarrier
    <2>2. CASE Launch \/ Probe \/ Revive \/ Restore
      <3>1. HelperIdle
        BY <2>2 DEF Launch, Probe, Revive, Restore, QuietAfterSwap
      <3> QED BY <1>5, <3>1 DEF HelperSound, Moving
    <2> QED BY <2>1, <2>2
  <1>8. /\ executor' \in ExecutorType /\ outer' \in OuterType /\ lock' \in {"none", "executor", "cli", "worker"}
        /\ \/ /\ executor'.pc \in ExecutorPC \ {"idle", "preflight", "lock", "report"} /\ UNCHANGED <<outer, lock>>
              /\ executor'.pc \in {"candidate", "again", "revive", "restore", "commit", "archive"} => HelperIdle
              /\ Ahead' => Ahead
           \/ /\ executor'.pc = "report" /\ lock' = "none"
              /\ \/ outer'.status = "failed"
                 \/ outer'.status = "pending" /\ helper.phase \in {"idle", "archive"}
                 \/ outer'.status = "completed" /\ HelperIdle
    <2> USE <1>2 DEF OtherTypes
    <2>0. /\ {"failed", "pending", "completed"} \subseteq OuterStates
          /\ {"none", "safe", "other", "unrestored"} \subseteq Errors
          /\ {"failed", "pending", "completed"} \subseteq ResultStates
          /\ {"backup", "candidate", "again", "commit", "undo", "recover"} \subseteq ExecutorPC
      BY DEF OuterStates, Errors, ResultStates, ExecutorPC
    <2>1. CASE Stop
      <3>1. executor.pc = "stop" /\ UNCHANGED <<outer, lock>> /\ (Go("backup") \/ Fail("other"))
        BY <2>1 DEF Stop
      <3>2. executor' \in ExecutorType /\ executor'.pc \in {"backup", "undo"}
        BY <2>0, <3>1, GoMoves, FailMoves
      <3> QED BY <2>0, <3>1, <3>2 DEF Ahead
    <2>2. CASE Probe
      <3>1. /\ executor.pc \in {"candidate", "again"} /\ UNCHANGED <<outer, lock>>
            /\ Go("again") \/ Go("commit") \/ Fail("other")
        BY <2>2 DEF Probe
      <3>2. executor' \in ExecutorType /\ executor'.pc \in {"again", "commit", "undo"} /\ ~executor'.called
        BY <2>0, <3>1, GoMoves, FailMoves
      <3> QED BY <2>0, <3>1, <3>2 DEF Ahead, QuietAfterSwap
    <2>3. CASE Undo
      <3>1. CASE Go("recover") /\ UNCHANGED <<outer, lock>>
        BY <2>0, <3>1, GoMoves DEF Ahead
      <3>2. CASE Exit("failed", "unrestored", "failed")
        BY <2>0, <3>2, ExitMoves
      <3> QED BY <2>3, <3>1, <3>2 DEF Undo
    <2>4. CASE Revive
      <3>1. executor.error \in Errors
        BY DEF ExecutorType
      <3>2. Exit("failed", executor.error, "failed") \/ Exit("failed", "unrestored", "failed")
        BY <2>4 DEF Revive, Restart
      <3> QED BY <2>0, <3>1, <3>2, ExitMoves
    <2>5. CASE Restore
      <3>1. Exit("completed", "none", "completed") \/ Exit("pending", "none", "pending")
        BY <2>5 DEF Restore, Restart
      <3>2. HelperIdle
        BY <2>5 DEF Restore, QuietAfterSwap
      <3>3. /\ executor' \in ExecutorType /\ executor'.pc = "report" /\ outer' \in OuterType /\ lock' = "none"
            /\ outer'.status \in {"completed", "pending"}
        BY <2>0, <3>1, ExitMoves
      <3> QED BY <3>2, <3>3 DEF HelperIdle
    <2>6. CASE Launch
      <3>1. /\ executor.pc \in {"candidate", "again"} /\ UNCHANGED <<outer, lock>>
            /\ executor' = [executor EXCEPT !.called = TRUE]
        BY <2>6 DEF Launch
      <3>2. executor' \in ExecutorType /\ executor'.pc = executor.pc /\ executor'.called
        BY <3>1, CallMoves
      <3> QED BY <2>0, <3>1, <3>2 DEF Ahead, QuietAfterSwap
    <2> QED BY <2>1, <2>2, <2>3, <2>4, <2>5, <2>6
  <1>9. AheadSound' /\ MutualExclusion' /\ MovesBehindBarrier' /\ QuietAfterSwap'
    BY <1>1, <1>5, <1>6, <1>7, <1>8, ExecutorEnds
  <1>10. SwapTypeOK' /\ OtherTypes'
    BY <1>1, <1>2, <1>3, <1>4, <1>8, SwapParts DEF SwapTyped, OtherTypes
  <1> QED BY <1>5, <1>8, <1>9, <1>10, TypeParts DEF TypedApart

\* The executor's hook calls the helper: only its own phases are asked for.
LEMMA ExecutorCalls ==
  ASSUME IInv, Call
  PROVE  IInv'
  <1> USE DEF IInv
  <1> DEFINE phase == executor.pc
  <1>1. /\ phase \in Phases /\ ~executor.called /\ Invoke(phase) /\ executor' = [executor EXCEPT !.called = TRUE]
        /\ UNCHANGED <<server, outer, evidence, lock, original, result, cli, worker, attempts, faults, timeouts>>
    BY DEF Call, boundVars
  <1>2. executor \in ExecutorType /\ outer \in OuterType /\ OtherTypes /\ SwapTyped /\ server \in {"inactive", "active", "failed"}
    BY TypeParts, SwapParts DEF TypedApart
  <1>3. executor' \in ExecutorType /\ executor'.pc = phase /\ executor'.called
    BY <1>1, <1>2, CallMoves
  <1>4. ExecutorHolds /\ outer.status = "running" /\ cli = "idle" /\ worker = "idle" /\ lock = "executor"
    BY <1>1 DEF ExecutorHolds, MutualExclusion, Phases
  <1>5. phase = "prepare" => ~Decided
    BY DEF AheadSound, Ahead
  <1> HIDE DEF phase
  <1>6. /\ SwapTyped' /\ HelperSound' /\ DecisionStands'
        /\ UNCHANGED <<dirs, journal, temp, checkpoint, filed>>
        /\ helper' = helper \/ (HelperIdle /\ helper'.phase \in {"idle", phase})
        /\ ~Moving /\ Moving' => phase \in {"switch", "recover"} /\ server = "inactive"
        /\ helper'.todo # <<>> /\ helper.todo = <<>> =>
              /\ helper'.phase = phase
              /\ phase = "archive" => Decided
              /\ phase = "commit" => journal = "checked"
              /\ phase = "switch" => journal = "prepared"
    BY <1>1, <1>2, <1>5, InvokeSound
  <1>7. AheadSound'
    <2>1. SUFFICES ASSUME Ahead' PROVE AheadSound'
      BY DEF AheadSound
    <2>2. Ahead /\ phase \in {"inputs", "build", "prepare"}
      BY <1>1, <1>3, <2>1 DEF Ahead, Phases, phase
    <2>3. ~Decided' /\ journal' \notin {"swapping", "swapped", "checked"}
      BY <1>6, <2>2 DEF AheadSound, Decided
    <2>4. helper'.phase \in {"switch", "commit", "archive"} => helper'.todo = <<>>
      BY <1>6, <2>2 DEF AheadSound
    <2> QED BY <2>3, <2>4 DEF AheadSound
  <1>8. MutualExclusion'
    BY <1>1, <1>3, <1>4 DEF MutualExclusion, ExecutorHolds, phase
  <1>9. MovesBehindBarrier'
    BY <1>1, <1>4, <1>6 DEF MovesBehindBarrier, Barred
  <1>10. QuietAfterSwap'
    <2>1. executor'.pc \notin {"candidate", "again", "revive", "restore"} /\ outer'.status # "pending"
      BY <1>1, <1>3, <1>4 DEF Phases
    <2>2. executor'.pc \in {"commit", "archive"} => helper'.phase \in {"idle", executor'.pc}
      <3>1. SUFFICES ASSUME phase \in {"commit", "archive"} PROVE helper'.phase \in {"idle", phase}
        BY <1>3
      <3>2. HelperIdle
        BY <1>1, <3>1 DEF QuietAfterSwap, phase
      <3> QED BY <1>6, <3>2 DEF HelperIdle
    <2> QED BY <1>3, <2>1, <2>2 DEF QuietAfterSwap
  <1>11. SwapTypeOK' /\ OtherTypes'
    BY <1>1, <1>2, <1>6, SwapParts DEF OtherTypes
  <1> QED BY <1>1, <1>2, <1>3, <1>6, <1>7, <1>8, <1>9, <1>10, <1>11, TypeParts DEF TypedApart

\* A step of somebody who lets the executor's record and the bounds alone, holds the lock
\* or takes it free, and calls the helper for nothing but recovery or archival.
LEMMA OthersKeep ==
  ASSUME IInv, UNCHANGED <<executor, outer, attempts, evidence, original, timeouts>>,
         SwapTyped', HelperSound', DecisionStands', UNCHANGED <<journal, filed>>,
         lock' \in {"none", "executor", "cli", "worker"}, cli' \in {"idle", "prove", "wait"},
         worker' \in {"idle", "resume", "wait", "restart", "publish", "release"},
         server' \in {"inactive", "active", "failed"}, result' \in ResultStates, faults' \in 0 .. MaxFaults,
         MutualExclusion', Moving' => server' = "inactive" /\ Barred,
         \/ helper' = helper
         \/ /\ HelperIdle /\ ~ExecutorHolds
            /\ outer.status = "pending" => helper'.phase \in {"idle", "archive"}
            /\ helper'.todo # <<>> => helper'.phase = "recover" \/ (helper'.phase = "archive" /\ Decided)
  PROVE  IInv'
  <1> USE DEF IInv
  <1>1. TypeOK'
    <2>1. SwapTypeOK'
      BY SwapParts
    <2>2. OtherTypes /\ outer \in OuterType /\ executor \in ExecutorType
      BY TypeParts DEF TypedApart
    <2> QED BY <2>1, <2>2, TypeParts DEF TypedApart, OtherTypes
  <1>2. AheadSound'
    <2>1. Decided' <=> Decided
      BY DEF Decided
    <2> QED BY <2>1 DEF AheadSound, Ahead
  <1>3. MovesBehindBarrier'
    BY DEF MovesBehindBarrier, Barred
  <1>4. QuietAfterSwap'
    <2>1. CASE helper' = helper
      BY <2>1 DEF QuietAfterSwap, HelperIdle
    <2>2. CASE ~ExecutorHolds /\ (outer.status = "pending" => helper'.phase \in {"idle", "archive"})
      BY <2>2 DEF QuietAfterSwap, ExecutorHolds
    <2> QED BY <2>1, <2>2
  <1> QED BY <1>1, <1>2, <1>3, <1>4

\* The barrier is lifted or the operation journal rewritten while nothing moves.
LEMMA BarrierTurns ==
  ASSUME IInv, UNCHANGED <<swapVars, server, executor, evidence, original, attempts, faults, timeouts>>,
         cli' \in {"idle", "prove", "wait"}, worker' \in {"idle", "resume", "wait", "restart", "publish", "release"},
         lock' \in {"none", "executor", "cli", "worker"}, result' \in ResultStates,
         NEW status \in OuterStates \ {"pending"}, NEW error \in Errors,
         outer' = [outer EXCEPT !.status = status, !.error = error],
         ~Moving, MutualExclusion'
  PROVE  IInv'
  <1> USE DEF IInv
  <1>1. outer' \in OuterType /\ outer'.status = status
    BY TypeParts DEF TypedApart, OuterType
  <1>2. SwapTypeOK' /\ HelperSound' /\ DecisionStands' /\ ~Moving' /\ (Decided' <=> Decided) /\ UNCHANGED <<journal, helper>>
    BY SwapFrame, TypeParts DEF TypedApart, swapVars, SwapTypeOK
  <1>3. TypeOK'
    BY <1>1, <1>2, TypeParts DEF TypedApart, OtherTypes
  <1>4. AheadSound' /\ MovesBehindBarrier' /\ QuietAfterSwap'
    BY <1>1, <1>2 DEF AheadSound, Ahead, MovesBehindBarrier, QuietAfterSwap, HelperIdle
  <1> QED BY <1>2, <1>3, <1>4

\* The recovery that root runs.
LEMMA CliKeeps ==
  ASSUME IInv, CliStep
  PROVE  IInv'
  <1> USE DEF IInv
  <1>1. executor \in ExecutorType /\ outer \in OuterType /\ OtherTypes /\ SwapTyped /\ server \in {"inactive", "active", "failed"}
    BY TypeParts, SwapParts DEF TypedApart
  <1>2. CASE CliLock
    <2>1. /\ UNCHANGED <<dirs, journal, temp, checkpoint, filed, helper, server, outer, evidence, executor, original, result, worker, attempts, faults, timeouts>>
          /\ lock' = "cli" /\ cli' = "prove" /\ lock = "none" /\ outer.status \in {"failed", "interrupted"}
      BY <1>2 DEF CliLock, swapVars, boundVars
    <2>2. SwapTyped' /\ HelperSound' /\ DecisionStands' /\ (Moving' <=> Moving)
      BY <1>1, <2>1, SwapFrame DEF SwapTyped
    <2>3. MutualExclusion'
      BY <2>1 DEF MutualExclusion, ExecutorHolds
    <2> QED BY <1>1, <2>1, <2>2, <2>3, OthersKeep DEF OtherTypes, MovesBehindBarrier
  <1>3. CASE CliProve \/ CliFinish
    <2>1. /\ UNCHANGED <<server, evidence, executor, original, result, worker, attempts, faults, timeouts>>
          /\ cli # "idle"
      BY <1>3 DEF CliProve, CliFinish, boundVars
    <2>2. lock = "cli" /\ outer.status \in {"failed", "interrupted"} /\ ~ExecutorHolds /\ worker = "idle"
      BY <2>1 DEF MutualExclusion
    <2>3. CASE UNCHANGED swapVars /\ ~Moving /\ Recovered
      <3>1. outer' = [outer EXCEPT !.status = "recovered", !.error = "none"] /\ lock' = "none" /\ cli' = "idle"
        BY <2>3 DEF Recovered
      <3>2. MutualExclusion'
        BY <2>1, <2>2, <3>1 DEF MutualExclusion, ExecutorHolds
      <3>3. "recovered" \in OuterStates \ {"pending"} /\ "none" \in Errors
        BY DEF OuterStates, Errors
      <3> QED BY <1>1, <2>1, <2>3, <3>1, <3>2, <3>3, BarrierTurns DEF OtherTypes
    <2>4. CASE UNCHANGED swapVars /\ CliRefuses
      <3>1. UNCHANGED outer /\ lock' = "none" /\ cli' = "idle" /\ UNCHANGED <<dirs, journal, temp, checkpoint, filed, helper>>
        BY <2>4 DEF CliRefuses, swapVars
      <3>2. MutualExclusion'
        BY <2>1, <2>2, <3>1 DEF MutualExclusion, ExecutorHolds
      <3>3. SwapTyped' /\ HelperSound' /\ DecisionStands' /\ (Moving' <=> Moving)
        BY <1>1, <3>1, SwapFrame DEF SwapTyped
      <3> QED BY <1>1, <2>1, <3>1, <3>2, <3>3, OthersKeep DEF OtherTypes, MovesBehindBarrier
    <2>5. CASE cli' = "wait" /\ Invoke("recover") /\ UNCHANGED <<outer, lock>>
      <3>1. "recover" \in Phases
        BY DEF Phases
      <3>2. /\ SwapTyped' /\ HelperSound' /\ DecisionStands'
            /\ UNCHANGED <<dirs, journal, temp, checkpoint, filed>>
            /\ helper' = helper \/ (HelperIdle /\ helper'.phase \in {"idle", "recover"})
            /\ ~Moving /\ Moving' => server = "inactive"
            /\ helper'.todo # <<>> /\ helper.todo = <<>> => helper'.phase = "recover"
        BY <1>1, <2>5, <3>1, InvokeSound
      <3>3. MutualExclusion'
        BY <2>1, <2>2, <2>5 DEF MutualExclusion, ExecutorHolds
      <3>4. HelperIdle => helper.todo = <<>>
        BY DEF HelperSound
      <3>5. Moving' => server' = "inactive" /\ Barred
        BY <2>1, <2>2, <3>2 DEF MovesBehindBarrier, Barred
      <3> QED BY <1>1, <2>1, <2>2, <2>5, <3>2, <3>3, <3>4, <3>5, OthersKeep DEF OtherTypes
    <2>6. CASE CliProve
      <3>1. NoJournal => ~Moving
        BY DEF NoJournal, HelperSound, Moving
      <3> QED BY <2>3, <2>4, <2>5, <2>6, <3>1 DEF CliProve
    <2>7. CASE CliFinish
      <3>1. ~Moving
        BY <2>7 DEF CliFinish, HelperSound, Moving
      <3> QED BY <2>3, <2>4, <2>7, <3>1 DEF CliFinish
    <2> QED BY <1>3, <2>6, <2>7
  <1> QED BY <1>2, <1>3 DEF CliStep

\* The finalization worker.
LEMMA WorkerKeeps ==
  ASSUME IInv, WorkerStep
  PROVE  IInv'
  <1> USE DEF IInv
  <1>1. executor \in ExecutorType /\ outer \in OuterType /\ OtherTypes /\ SwapTyped /\ server \in {"inactive", "active", "failed"}
    BY TypeParts, SwapParts DEF TypedApart
  <1>2. UNCHANGED <<evidence, executor, original, attempts, timeouts, cli>>
    BY DEF WorkerStep, WorkerLock, WorkerResume, WorkerArchived, WorkerRestart, WorkerPublish, WorkerRelease, boundVars
  <1>3. outer.status = "pending" /\ ~ExecutorHolds /\ cli = "idle"
    <2>1. CASE WorkerLock
      BY <2>1 DEF WorkerLock, MutualExclusion
    <2>2. CASE ~WorkerLock
      <3>1. worker # "idle"
        BY <2>2 DEF WorkerStep, WorkerResume, WorkerArchived, WorkerRestart, WorkerPublish, WorkerRelease
      <3> QED BY <3>1 DEF MutualExclusion
    <2> QED BY <2>1, <2>2
  <1>4. ~Moving
    BY <1>3 DEF QuietAfterSwap, Moving
  <1>5. WorkerQuits => lock' = "none" /\ worker' = "idle"
    BY DEF WorkerQuits
  <1>6. CASE WorkerRelease
    <2>1. /\ outer' = [outer EXCEPT !.status = "completed"] /\ lock' = "none" /\ worker' = "idle"
          /\ UNCHANGED <<swapVars, server, result, faults>>
      BY <1>5, <1>6 DEF WorkerRelease, boundVars
    <2>2. outer' = [outer EXCEPT !.status = "completed", !.error = outer.error] /\ outer.error \in Errors
      BY <1>1, <2>1 DEF OuterType
    <2>3. "completed" \in OuterStates \ {"pending"}
      BY DEF OuterStates
    <2>4. MutualExclusion'
      BY <1>2, <1>3, <2>1 DEF MutualExclusion, ExecutorHolds
    <2> QED BY <1>1, <1>2, <1>4, <2>1, <2>2, <2>3, <2>4, BarrierTurns DEF OtherTypes
  <1>7. CASE WorkerLock \/ WorkerResume \/ WorkerArchived \/ WorkerRestart \/ WorkerPublish
    <2>1. /\ UNCHANGED outer
          /\ \/ lock' = "worker" /\ worker' \in {"resume", "wait", "restart", "publish", "release"}
             \/ lock' = "none" /\ worker' = "idle"
      <3>1. worker # "idle" => lock = "worker"
        BY DEF MutualExclusion
      <3> QED BY <1>5, <1>7, <3>1 DEF WorkerLock, WorkerResume, WorkerArchived, WorkerRestart, WorkerPublish
    <2>2. MutualExclusion'
      BY <1>2, <1>3, <2>1 DEF MutualExclusion, ExecutorHolds
    <2>3. CASE WorkerResume /\ Invoke("archive") /\ UNCHANGED <<server, result, faults>>
      <3>1. "archive" \in Phases
        BY DEF Phases
      <3>2. /\ SwapTyped' /\ HelperSound' /\ DecisionStands'
            /\ UNCHANGED <<dirs, journal, temp, checkpoint, filed>>
            /\ helper' = helper \/ (HelperIdle /\ helper'.phase \in {"idle", "archive"})
            /\ ~Moving'
            /\ helper'.todo # <<>> /\ helper.todo = <<>> => helper'.phase = "archive" /\ Decided
        BY <1>1, <1>4, <2>3, <3>1, InvokeSound
      <3>3. HelperIdle => helper.todo = <<>>
        BY DEF HelperSound
      <3> QED BY <1>1, <1>2, <1>3, <2>1, <2>2, <2>3, <3>2, <3>3, OthersKeep DEF OtherTypes
    <2>4. CASE ~(WorkerResume /\ Invoke("archive") /\ UNCHANGED <<server, result, faults>>)
      <3>1. UNCHANGED <<journal, temp, checkpoint, filed, helper>> /\ result' \in ResultStates
        BY <1>1, <1>7, <2>4
        DEF WorkerLock, WorkerResume, WorkerArchived, WorkerRestart, WorkerPublish, swapVars, boundVars, OtherTypes, ResultStates
      <3>2. server' \in {"inactive", "active", "failed"} /\ faults' \in 0 .. MaxFaults
        BY <1>1, <1>7, MigrationAssumption
        DEF WorkerLock, WorkerResume, WorkerArchived, WorkerRestart, WorkerPublish, boundVars, OtherTypes, Fault, Runs
      <3>3. dirs' = dirs \/ \E c \in BOOLEAN : dirs' = [dirs EXCEPT !["active"].clean = c]
        <4>1. dirs["active"].clean \in BOOLEAN
          BY <1>1 DEF SwapTyped, Places, Trees
        <4>2. \A state : Runs(state) => \E c \in BOOLEAN : dirs' = [dirs EXCEPT !["active"].clean = c]
          BY <4>1 DEF Runs
        <4> QED BY <1>7, <2>4, <4>2 DEF WorkerLock, WorkerResume, WorkerArchived, WorkerRestart, WorkerPublish, swapVars, boundVars
      <3>4. dirs' \in [Places -> Trees] /\ dirs'["active"].build = dirs["active"].build
        BY <1>1, <3>3, TouchedTyped DEF SwapTyped
      <3>5. SwapTyped' /\ HelperSound' /\ DecisionStands' /\ ~Moving'
        BY <1>1, <1>4, <3>1, <3>4, SwapFrame DEF SwapTyped
      <3> QED BY <1>1, <1>2, <2>1, <2>2, <3>1, <3>2, <3>5, OthersKeep DEF OtherTypes
    <2> QED BY <2>3, <2>4
  <1> QED BY <1>6, <1>7 DEF WorkerStep

\* The daemon, operators, the game server and the helper itself.
LEMMA OutsideKeeps ==
  ASSUME IInv, ClearResult \/ ServerExits \/ Operate
  PROVE  IInv'
  <1> USE DEF IInv
  <1>1. executor \in ExecutorType /\ outer \in OuterType /\ OtherTypes /\ SwapTyped /\ server \in {"inactive", "active", "failed"}
    BY TypeParts, SwapParts DEF TypedApart
  <1>2. CASE ClearResult \/ ServerExits
    <2>1. /\ UNCHANGED <<dirs, journal, temp, checkpoint, filed, helper, executor, outer, evidence, lock, original, cli, worker, attempts, faults, timeouts>>
          /\ result' \in ResultStates /\ server' \in {"inactive", "active", "failed"}
          /\ server' = server \/ server = "active"
      BY <1>1, <1>2 DEF ClearResult, ServerExits, swapVars, clientVars, boundVars, OtherTypes, ResultStates
    <2>2. SwapTyped' /\ HelperSound' /\ DecisionStands' /\ (Moving' <=> Moving)
      BY <1>1, <2>1, SwapFrame DEF SwapTyped
    <2>3. MutualExclusion'
      BY <2>1 DEF MutualExclusion, ExecutorHolds
    <2>4. Moving' => server' = "inactive" /\ Barred
      BY <2>1, <2>2 DEF MovesBehindBarrier
    <2> QED BY <1>1, <2>1, <2>2, <2>3, <2>4, OthersKeep DEF OtherTypes
  <1>3. CASE Operate
    <2>1. /\ UNCHANGED <<journal, temp, checkpoint, filed, helper, executor, lock, original, cli, worker, result, attempts, faults, timeouts>>
          /\ outer' = [outer EXCEPT !.status = "none", !.error = "none"] /\ Preserve
          /\ lock = "none" /\ ~Barred
      BY <1>3 DEF Operate, clientVars, boundVars
    <2>2. dirs' \in [Places -> Trees] /\ dirs'["active"].build = dirs["active"].build
      <3>1. dirs' = dirs \/ \E c \in BOOLEAN : dirs' = [dirs EXCEPT !["active"].clean = c]
        <4>1. dirs["active"].clean \in BOOLEAN
          BY <1>1 DEF SwapTyped, Places, Trees
        <4>2. \A state : Runs(state) => \E c \in BOOLEAN : dirs' = [dirs EXCEPT !["active"].clean = c]
          BY <4>1 DEF Runs
        <4> QED BY <1>3, <4>2 DEF Operate
      <3> QED BY <1>1, <3>1, TouchedTyped DEF SwapTyped
    <2>3. outer' \in OuterType /\ outer'.status = "none"
      BY <1>1, <2>1 DEF OuterType, OuterStates, Errors
    <2>4. server' \in {"inactive", "active", "failed"}
      BY <1>3 DEF Operate, Runs
    <2>5. evidence' \in 0 .. MaxAttempts
      BY <1>1, <2>1 DEF Preserve, OtherTypes, OuterType
    <2>6. HelperSound' /\ DecisionStands' /\ (Moving' <=> Moving) /\ (Decided' <=> Decided) /\ ~Moving
      BY <2>1, <2>2, SwapFrame DEF MovesBehindBarrier
    <2>7. SwapTypeOK' /\ OtherTypes'
      BY <1>1, <2>1, <2>2, <2>4, <2>5, SwapParts DEF SwapTyped, OtherTypes
    <2>8. ~ExecutorHolds /\ cli = "idle" /\ worker = "idle"
      BY <2>1 DEF MutualExclusion
    <2>9. AheadSound' /\ MutualExclusion' /\ MovesBehindBarrier' /\ QuietAfterSwap'
      BY <2>1, <2>3, <2>6, <2>8 DEF AheadSound, Ahead, MutualExclusion, ExecutorHolds, MovesBehindBarrier, QuietAfterSwap
    <2> QED BY <1>1, <2>1, <2>3, <2>6, <2>7, <2>9, TypeParts DEF TypedApart
  <1> QED BY <1>2, <1>3

LEMMA HelperKeeps ==
  ASSUME IInv, Helper \/ Break
  PROVE  IInv'
  <1> USE DEF IInv
  <1>1. executor \in ExecutorType /\ outer \in OuterType /\ OtherTypes /\ SwapTyped /\ server \in {"inactive", "active", "failed"}
    BY TypeParts, SwapParts DEF TypedApart
  <1>2. /\ UNCHANGED <<server, executor, outer, evidence, lock, original, cli, worker, result, attempts, timeouts>>
        /\ faults' \in 0 .. MaxFaults
    BY <1>1, MigrationAssumption DEF Helper, Break, Fault, clientVars, boundVars, OtherTypes
  <1>3. OtherTypes'
    BY <1>1, <1>2 DEF OtherTypes
  <1>4. MutualExclusion'
    BY <1>2 DEF MutualExclusion, ExecutorHolds
  <1>5. CASE HelperStep
    <2>1. /\ SwapTyped' /\ HelperSound' /\ DecisionStands'
          /\ helper'.phase = helper.phase /\ (Moving' => Moving)
          /\ helper'.phase \notin {"commit", "archive"} => (Decided' => Decided)
          /\ helper'.phase \notin {"switch", "commit", "archive"} =>
               (journal' \in {"swapping", "swapped", "checked"} => journal' = journal)
      BY <1>1, <1>5, HelperStepSound
    <2>2. helper.todo # <<>>
      BY <1>5 DEF HelperStep
    <2>3. AheadSound'
      BY <1>2, <2>1, <2>2 DEF AheadSound, Ahead
    <2>4. MovesBehindBarrier' /\ QuietAfterSwap'
      BY <1>2, <2>1 DEF MovesBehindBarrier, Barred, QuietAfterSwap, HelperIdle
    <2> QED BY <1>1, <1>2, <1>3, <1>4, <2>1, <2>3, <2>4, TypeParts, SwapParts DEF TypedApart
  <1>6. CASE HelperAnswers \/ HelperBreaks
    <2>1. /\ SwapTyped' /\ HelperSound' /\ DecisionStands'
          /\ UNCHANGED <<journal, filed>> /\ helper'.phase = "idle" /\ helper'.todo = <<>>
      BY <1>1, <1>6, HelperEndsSound
    <2>2. AheadSound' /\ MovesBehindBarrier' /\ QuietAfterSwap'
      BY <1>2, <2>1 DEF AheadSound, Ahead, Decided, MovesBehindBarrier, Moving, QuietAfterSwap, HelperIdle
    <2> QED BY <1>1, <1>2, <1>3, <1>4, <2>1, <2>2, TypeParts, SwapParts DEF TypedApart
  <1> QED BY <1>5, <1>6 DEF Helper, Break

\* A restart of the Agent's service leaves the helper at work; a host that goes down does not.
LEMMA CrashKeeps ==
  ASSUME IInv, AgentCrash \/ HostCrash
  PROVE  IInv'
  <1> USE DEF IInv
  <1>1. executor \in ExecutorType /\ outer \in OuterType /\ OtherTypes /\ SwapTyped /\ server \in {"inactive", "active", "failed"}
    BY TypeParts, SwapParts DEF TypedApart
  <1>2. /\ executor' = Resting /\ worker' = "idle" /\ UNCHANGED <<evidence, original, result, attempts, timeouts>>
        /\ outer' = IF outer.status = "running" THEN [outer EXCEPT !.status = "interrupted"] ELSE outer
        /\ faults' \in 0 .. MaxFaults
    BY <1>1, MigrationAssumption DEF AgentCrash, HostCrash, AgentDies, Fault, OtherTypes
  <1>3. /\ outer' \in OuterType
        /\ outer'.status = IF outer.status = "running" THEN "interrupted" ELSE outer.status
    BY <1>1, <1>2 DEF OuterType, OuterStates
  <1>4. executor' \in ExecutorType /\ executor'.pc = "idle"
    BY <1>2, Restarted
  <1>5. /\ lock' \in {"none", "cli"} /\ cli' \in {"idle", "prove", "wait"}
        /\ cli' # "idle" => lock' = "cli" /\ cli = cli'
    <2>1. CASE AgentCrash
      <3>1. cli' = cli /\ lock' = IF lock = "cli" THEN "cli" ELSE "none"
        BY <2>1 DEF AgentCrash
      <3> QED BY <1>1, <3>1 DEF OtherTypes, MutualExclusion
    <2>2. CASE HostCrash
      BY <2>2 DEF HostCrash
    <2> QED BY <2>1, <2>2
  <1>6. OtherTypes'
    BY <1>1, <1>2, <1>5 DEF OtherTypes
  <1>7. MutualExclusion' /\ AheadSound'
    BY <1>2, <1>3, <1>4, <1>5 DEF MutualExclusion, ExecutorHolds, AheadSound, Ahead
  <1>8. /\ SwapTyped' /\ HelperSound' /\ DecisionStands' /\ (Moving' => Moving) /\ server' \in {"inactive", server}
        /\ helper'.phase \in {"idle", helper.phase}
    <2>1. CASE AgentCrash
      <3>1. UNCHANGED <<dirs, journal, temp, checkpoint, filed, helper, server>>
        BY <2>1 DEF AgentCrash, swapVars
      <3> QED BY <1>1, <3>1, SwapFrame DEF SwapTyped
    <2>2. CASE HostCrash
      <3>1. HelperDies /\ server' = "inactive"
        BY <2>2 DEF HostCrash
      <3> QED BY <1>1, <3>1, HelperEndsSound DEF Moving
    <2> QED BY <2>1, <2>2
  <1>9. MovesBehindBarrier' /\ QuietAfterSwap'
    BY <1>3, <1>4, <1>8 DEF MovesBehindBarrier, Barred, QuietAfterSwap
  <1> QED BY <1>1, <1>3, <1>4, <1>6, <1>7, <1>8, <1>9, TypeParts, SwapParts DEF TypedApart

LEMMA StepKeeps == IInv /\ [Next]_vars => IInv'
  <1> SUFFICES ASSUME IInv, [Next]_vars PROVE IInv'
    OBVIOUS
  <1>1. CASE Request \/ ExecutorStep
    BY <1>1, ExecutorOutside, ExecutorInside, ExecutorServes, ExecutorCalls DEF ExecutorStep
  <1>2. CASE CliStep \/ WorkerStep
    BY <1>2, CliKeeps, WorkerKeeps
  <1>3. CASE ClearResult \/ Operate \/ ServerExits
    BY <1>3, OutsideKeeps
  <1>4. CASE Helper \/ Break
    BY <1>4, HelperKeeps
  <1>5. CASE AgentCrash \/ HostCrash
    BY <1>5, CrashKeeps
  <1>6. CASE UNCHANGED vars
    BY <1>6 DEF vars, swapVars, clientVars, boundVars, IInv, TypeOK, SwapTypeOK, HelperSound, HelperIdle, DecisionStands, Decided,
       AheadSound, Ahead, MutualExclusion, ExecutorHolds, MovesBehindBarrier, Moving, Barred, QuietAfterSwap
  <1> QED BY <1>1, <1>2, <1>3, <1>4, <1>5, <1>6 DEF Next

-----------------------------------------------------------------------------
(* The theorems *)

\* The first part of the invariant holds in every behaviour.
THEOREM Inductive == Spec => []IInv
  BY InitSound, StepKeeps, PTL DEF Spec

\* The type invariant of the migration, for any bounds on attempts, faults and clients
\* that give up.
THEOREM MigrationTyped == Spec => []TypeOK
  <1>1. IInv => TypeOK
    BY DEF IInv
  <1> QED BY <1>1, Inductive, PTL

\* Which build is active changes only in a step of the helper that replaces the directory.
LEMMA OnlyMovesReplace ==
  ASSUME IInv, [Next]_vars, dirs'["active"].build # dirs["active"].build
  PROVE  Helper /\ HelperStep /\ Moving
  <1>1. SwapTyped /\ HelperSound /\ DecisionStands /\ dirs["active"].clean \in BOOLEAN /\ dirs \in [Places -> Trees]
    BY TypeParts, SwapParts DEF TypedApart, IInv, SwapTyped, Places, Trees
  <1>2. ~\E c \in BOOLEAN : dirs' = [dirs EXCEPT !["active"].clean = c]
    BY <1>1, TouchedTyped
  <1>3. \A state : Runs(state) => FALSE
    BY <1>1, <1>2 DEF Runs
  <1>4. dirs' # dirs
    OBVIOUS
  <1>5. \A phase : Invoke(phase) => FALSE
    BY <1>4 DEF Invoke, swapVars
  <1>6. ~(HelperAnswers \/ HelperBreaks \/ HelperDies)
    BY <1>1, HelperEndsSound
  <1>7. ~(Request \/ ExecutorStep)
    BY <1>2, <1>3, <1>4, <1>5
    DEF Request, ExecutorStep, Preflight, Lock, Check, Stop, Backup, Call, Return, InputsMissing, GiveUp, Launch, Probe, Undo,
        Revive, Restore, Restart, ReportResult, swapVars
  <1>8. ~(CliStep \/ WorkerStep)
    BY <1>2, <1>3, <1>4, <1>5
    DEF CliStep, CliLock, CliProve, CliFinish, WorkerStep, WorkerLock, WorkerResume, WorkerArchived, WorkerRestart, WorkerPublish,
        WorkerRelease, swapVars
  <1>9. ~(ClearResult \/ Operate \/ ServerExits \/ Break \/ AgentCrash \/ HostCrash \/ UNCHANGED vars)
    BY <1>3, <1>4, <1>6 DEF ClearResult, Operate, ServerExits, Break, AgentCrash, HostCrash, vars, swapVars
  <1>10. Helper /\ HelperStep
    BY <1>6, <1>7, <1>8, <1>9 DEF Next, Helper
  <1>11. Moving
    BY <1>1, <1>10, HelperStepSound
  <1> QED BY <1>10, <1>11

\* The runtime directory is never replaced under a running game server: what moves it moves
\* behind the barrier that outlives the client that asked for it
\* (materialize_instance.py:228-239).
THEOREM NothingMovesUnderServer == Spec => NeverMovesUnderServer
  <1>1. IInv /\ [Next]_vars => [dirs'["active"].build # dirs["active"].build => server = "inactive" /\ server' = "inactive"]_vars
    <2> SUFFICES ASSUME IInv, [Next]_vars, dirs'["active"].build # dirs["active"].build
                 PROVE  server = "inactive" /\ server' = "inactive"
      OBVIOUS
    <2>1. Helper /\ Moving
      BY OnlyMovesReplace
    <2> QED BY <2>1 DEF IInv, MovesBehindBarrier, Helper
  <1> QED BY <1>1, Inductive, PTL DEF Spec, NeverMovesUnderServer

\* A committed migration stays committed: no recovery, crash or finalization takes the new
\* build away again (minecraft_serverpack_migration_swap.py:205-208).
THEOREM CommitIsFinal == Spec => VerdictIsFinal
  <1>1. IInv /\ [Next]_vars => [journal = "committed" \/ filed =>
          dirs'["active"].build = "new" /\ (journal' = "committed" \/ (filed' /\ journal' = "none"))]_vars
    <2> SUFFICES ASSUME IInv, [Next]_vars, Decided
                 PROVE  dirs'["active"].build = "new" /\ (journal' = "committed" \/ (filed' /\ journal' = "none"))
      BY DEF Decided
    <2>1. CASE HelperStep
      <3>1. SwapTyped /\ HelperSound /\ DecisionStands
        BY TypeParts, SwapParts DEF TypedApart, IInv
      <3>2. Decided' /\ DecisionStands' /\ (journal' = "committed" \/ (filed' /\ journal' = "none"))
        BY <2>1, <3>1, HelperStepSound
      <3> QED BY <3>2 DEF DecisionStands
    <2>2. CASE ~HelperStep
      <3>1. dirs'["active"].build = dirs["active"].build
        BY <2>2, OnlyMovesReplace
      <3>2. UNCHANGED <<journal, filed>>
        <4>1. \A phase : Invoke(phase) => UNCHANGED <<journal, filed>>
          BY DEF Invoke, swapVars
        <4>2. CASE Request \/ ExecutorStep
          BY <4>1, <4>2
          DEF Request, ExecutorStep, Preflight, Lock, Check, Stop, Backup, Call, Return, InputsMissing, GiveUp, Launch, Probe, Undo,
              Revive, Restore, ReportResult, swapVars
        <4>3. CASE CliStep \/ WorkerStep
          BY <4>1, <4>3
          DEF CliStep, CliLock, CliProve, CliFinish, WorkerStep, WorkerLock, WorkerResume, WorkerArchived, WorkerRestart,
              WorkerPublish, WorkerRelease, swapVars
        <4>4. CASE ClearResult \/ Operate \/ ServerExits \/ Helper \/ Break \/ AgentCrash \/ HostCrash \/ UNCHANGED vars
          BY <2>2, <4>4 DEF ClearResult, Operate, ServerExits, Helper, Break, HelperAnswers, HelperBreaks, HelperDies, AgentCrash,
             HostCrash, vars, swapVars
        <4> QED BY <4>2, <4>3, <4>4 DEF Next
      <3> QED BY <3>1, <3>2 DEF IInv, DecisionStands, Decided
    <2> QED BY <2>1, <2>2
  <1> QED BY <1>1, Inductive, PTL DEF Spec, VerdictIsFinal

-----------------------------------------------------------------------------
(* What a migration leaves: the second part of the inductive invariant       *)

\* Where the trees are, by the journal's phase: the original is in one directory with its
\* checksum from the moment it is recorded until it is filed, and the build in place is the
\* old one as long as nothing was swapped.
TreesKept ==
  /\ journal \in {"prepared", "recovered"} \/ (journal = "none" /\ ~filed) =>
       dirs["active"].build = "old" /\ dirs["rollback"] = None
  /\ journal = "prepared" => Intact("active", "old") \/ timeouts > 0
  /\ journal \in {"swapping", "recovering"} =>
       \/ dirs["rollback"] = None /\ Intact("active", "old")
       \/ Intact("rollback", "old") /\ (dirs["active"] = None \/ dirs["active"].build = "new")
  /\ journal \in {"swapped", "checked"} => Intact("rollback", "old") /\ dirs["active"].build = "new"
  /\ journal = "committed" => \/ Intact("rollback", "old")
                              \/ dirs["rollback"] = None /\ Intact("history", "old") /\ checkpoint = "saved"
  /\ filed => dirs["rollback"] = None /\ Intact("history", "old") /\ checkpoint = "saved"

\* How far each phase of the helper is: what it still has to do tells the journal and the
\* directories it finds.
PrepareAt ==
  \/ helper.todo \in {<<"temp", "prepared">>, <<"prepared">>} /\ journal = "none" /\ dirs["stage"].build = "new"
  \/ helper.todo = <<>> /\ journal = "prepared"
SwitchAt ==
  \/ /\ helper.todo \in {SwitchSteps, <<"swapping", "set_aside", "activate", "temp", "swapped", "temp", "checked">>}
     /\ journal = "prepared" /\ Intact("active", "old") /\ Intact("stage", "new")
  \/ /\ helper.todo = <<"set_aside", "activate", "temp", "swapped", "temp", "checked">>
     /\ journal = "swapping" /\ Intact("active", "old") /\ Intact("stage", "new")
  \/ /\ helper.todo = <<"activate", "temp", "swapped", "temp", "checked">>
     /\ journal = "swapping" /\ dirs["active"] = None /\ Intact("rollback", "old") /\ Intact("stage", "new")
  \/ /\ helper.todo \in {<<"temp", "swapped", "temp", "checked">>, <<"swapped", "temp", "checked">>}
     /\ journal = "swapping" /\ dirs["active"].build = "new" /\ Intact("rollback", "old")
  \/ helper.todo \in {<<"temp", "checked">>, <<"checked">>} /\ journal = "swapped"
  \/ helper.todo = <<>> /\ journal = "checked"
CommitAt ==
  \/ helper.todo \in {<<"temp", "committed">>, <<"committed">>} /\ journal = "checked"
  \/ helper.todo = <<>> /\ journal = "committed"
ArchiveAt ==
  \/ /\ helper.todo \in {<<"note", "saved", "retain", "file_journal">>, <<"saved", "retain", "file_journal">>}
     /\ journal = "committed" /\ Intact("rollback", "old")
  \/ /\ helper.todo = <<"retain", "file_journal">>
     /\ journal = "committed" /\ Intact("rollback", "old") /\ checkpoint = "saved"
  \/ helper.todo = <<"file_journal">> /\ journal = "committed" /\ dirs["rollback"] = None
  \/ helper.todo = <<>> /\ Archived

\* A recovery, but for the temporary file it may have to remove first.
RecoverAt(todo) ==
  \/ /\ todo \in {<<"temp", "recovering", "quarantine", "restore", "temp", "recovered">>,
                  <<"recovering", "quarantine", "restore", "temp", "recovered">>}
     /\ Intact("rollback", "old") /\ dirs["active"].build = "new"
     /\ journal \in {"swapping", "swapped", "checked", "recovering"}
  \/ /\ todo \in {<<"temp", "recovering", "restore", "temp", "recovered">>,
                  <<"recovering", "restore", "temp", "recovered">>}
     /\ Intact("rollback", "old") /\ dirs["active"] = None /\ journal \in {"swapping", "recovering"}
  \/ /\ todo = <<"quarantine", "restore", "temp", "recovered">>
     /\ journal = "recovering" /\ Intact("rollback", "old") /\ dirs["active"].build = "new"
  \/ /\ todo = <<"restore", "temp", "recovered">>
     /\ journal = "recovering" /\ Intact("rollback", "old") /\ dirs["active"] = None
  \/ /\ todo \in {<<"temp", "recovered">>, <<"recovered">>}
     /\ dirs["rollback"] = None /\ dirs["active"].build = "old"
     /\ journal \in {"prepared", "swapping", "recovering"}
  \/ todo = <<>> /\ journal = "recovered"
Recovering ==
  \/ journal = "none" /\ helper.todo = <<>>
  \/ RecoverAt(helper.todo) /\ (helper.todo = <<>> => ~temp)
  \/ helper.todo # <<>> /\ Head(helper.todo) = "drop_temp" /\ RecoverAt(Tail(helper.todo))

\* What the helper's answer says when it is there.
AnswerTrue ==
  /\ ~HelperIdle => helper.answer = IF helper.phase # "recover" THEN "done" ELSE IF journal = "none" THEN "no_swap" ELSE "recovered"
  /\ HelperIdle => /\ helper.answer = "recovered" => journal = "recovered" /\ ~temp
                   /\ helper.answer = "no_swap" => journal = "none"
                   /\ helper.answer = "done" => journal \in {"none", "prepared", "checked", "committed"}

WorkKnown ==
  /\ helper.phase \in {"inputs", "build"} => journal = "none"
  /\ helper.phase = "prepare" => PrepareAt
  /\ helper.phase = "switch" => SwitchAt
  /\ helper.phase = "commit" => CommitAt
  /\ helper.phase = "archive" => ArchiveAt
  /\ helper.phase = "recover" => Recovering
  /\ AnswerTrue

\* An attempt before its journal; a hook that waits for the helper.
Early == executor.pc \in {"lock", "check", "stop", "backup", "inputs", "build"}
Called == executor.pc \in Phases /\ executor.called
Undoing == executor.pc \in {"undo", "recover", "revive"}

\* A rollback that no forgotten helper can disturb: no client ever gave up, or the attempt
\* failed before it asked for a swap.
Clean == timeouts = 0 \/ executor.error = "safe"

\* What a phase that answered "done" has done.
Finished(pc) ==
  /\ pc = "switch" => journal = "checked"
  /\ pc = "archive" => Archived

\* What the executor may conclude where it is.
EarlySound ==
  Early => /\ journal = "none" /\ ~temp /\ ~filed
           /\ helper.todo = <<>> \/ helper.phase \in {"inputs", "build"}
CallSound ==
  /\ ExecutorHolds /\ ~Called /\ executor.pc \notin {"undo", "recover"} => HelperIdle
  /\ Called /\ executor.pc # "recover" =>
       /\ helper.phase \in {"idle", executor.pc}
       /\ HelperIdle => helper.answer = "failed" \/ (helper.answer = "done" /\ Finished(executor.pc))
  /\ Called => helper.answer # "none"
PhaseSound ==
  /\ executor.pc = "prepare" => journal \in {"none", "prepared"} /\ ~filed
  /\ executor.pc = "switch" => ~Decided
  /\ executor.pc \in {"candidate", "again"} => journal = "checked"
  /\ executor.pc = "commit" => /\ journal \in {"checked", "committed"}
                               /\ HelperIdle /\ journal = "committed" => executor.called /\ helper.answer = "done"
  /\ executor.pc = "restore" => Archived
UndoSound ==
  /\ executor.pc = "revive" =>
       journal \in {"none", "recovered", "checked", "committed"} \/ (journal = "prepared" /\ timeouts > 0)
  /\ Undoing /\ Clean =>
       /\ ~Decided
       /\ ~Called => HelperIdle
       /\ Called => helper.phase \in {"idle", "recover"} /\ helper.answer # "done"
       /\ executor.pc = "revive" => journal \in {"none", "recovered"}

\* What the operation journal, the worker and the result tell of the directories.
BarrierSound ==
  /\ ~Barred => journal \in {"none", "recovered"} /\ (filed \/ HelperIdle)
  /\ outer.status = "completed" => Archived
  /\ outer.status = "recovered" => ~filed /\ ~temp
FailureSound ==
  outer.status = "failed" /\ (outer.error = "safe" \/ (timeouts = 0 /\ outer.error # "unrestored")) =>
    /\ journal \in {"none", "recovered"} /\ ~filed
    /\ helper.phase \in {"idle", "recover"} /\ (cli # "wait" => HelperIdle)
SuccessSound ==
  /\ worker \in {"restart", "publish", "release"} => Archived
  /\ result = "completed" \/ executor.final = "completed" =>
        Archived /\ outer.status \in {"none", "pending", "completed"}
  /\ executor.final = "completed" => executor.pc = "report"

ClientsKnow == EarlySound /\ CallSound /\ PhaseSound /\ UndoSound /\ BarrierSound /\ FailureSound /\ SuccessSound
Kept == TreesKept /\ WorkKnown /\ ClientsKnow

-----------------------------------------------------------------------------
(* Sequences written out and trees moved about *)

\* Two sequences joined are a third one that agrees with each of them place by place.
LEMMA Joined ==
  ASSUME NEW S, NEW s \in Seq(S), NEW t \in Seq(S), NEW u \in Seq(S), Len(u) = Len(s) + Len(t),
         \A i \in 1 .. Len(s) : u[i] = s[i], \A i \in 1 .. Len(t) : u[Len(s) + i] = t[i]
  PROVE  s \o t = u
  <1>1. s \o t \in Seq(S) /\ Len(s \o t) = Len(u)
    OBVIOUS
  <1>2. ASSUME NEW i \in 1 .. Len(u) PROVE (s \o t)[i] = u[i]
    <2>1. CASE i <= Len(s)
      BY <2>1
    <2>2. CASE i > Len(s)
      <3>1. i - Len(s) \in 1 .. Len(t) /\ Len(s) + (i - Len(s)) = i
        BY <2>2
      <3> QED BY <2>2, <3>1
    <2> QED BY <2>1, <2>2
  <1> QED BY <1>1, <1>2

\* One more step in front of a sequence, and the empty sequence on either side.
LEMMA Single ==
  ASSUME NEW S, NEW a \in S, NEW t \in Seq(S)
  PROVE  /\ <<a>> \o t \in Seq(S) /\ <<a>> \o t # <<>>
         /\ Head(<<a>> \o t) = a /\ Tail(<<a>> \o t) = t
         /\ <<>> \o t = t /\ t \o <<>> = t
  <1>1. <<a>> \o t \in Seq(S) /\ Len(<<a>> \o t) = 1 + Len(t) /\ (<<a>> \o t)[1] = a
    OBVIOUS
  <1>2. Tail(<<a>> \o t) = t
    BY <1>1
  <1>3. <<>> \o t = t /\ t \o <<>> = t
    <2>1. <<>> \in Seq(S) /\ Len(<<>>) = 0
      OBVIOUS
    <2> QED BY <2>1, Joined
  <1> QED BY <1>1, <1>2, <1>3

\* A sequence of at most four steps and one of at most two.
LEMMA Flat ==
  ASSUME NEW S, NEW s \in Seq(S), NEW t \in Seq(S), NEW u \in Seq(S), NEW m \in 1 .. 4, NEW n \in 1 .. 2,
         Len(s) = m, Len(t) = n, Len(u) = m + n,
         s[1] = u[1], m > 1 => s[2] = u[2], m > 2 => s[3] = u[3], m > 3 => s[4] = u[4],
         t[1] = u[m + 1], n > 1 => t[2] = u[m + 2]
  PROVE  s \o t = u
  <1>1. \A i \in 1 .. m : i = 1 \/ (i = 2 /\ m > 1) \/ (i = 3 /\ m > 2) \/ (i = 4 /\ m > 3)
    OBVIOUS
  <1>2. \A i \in 1 .. n : i = 1 \/ (i = 2 /\ n > 1)
    OBVIOUS
  <1>3. \A i \in 1 .. m : u[i] = s[i]
    BY <1>1
  <1>4. \A i \in 1 .. n : u[m + i] = t[i]
    BY <1>2
  <1> QED BY <1>3, <1>4, Joined

\* The steps of a recovery as RecoverySteps writes them, and as one sequence.
LEMMA Written ==
  /\ \A a, b : <<a>> \o <<b>> = <<a, b>>
  /\ \A a, b, c : <<a, b>> \o <<c>> = <<a, b, c>>
  /\ \A a, b, c, d : <<a, b, c>> \o <<d>> = <<a, b, c, d>>
  /\ \A a, b, c, d, e : <<a, b, c>> \o <<d, e>> = <<a, b, c, d, e>>
  /\ \A a, b, c, d, e, f : <<a, b, c, d>> \o <<e, f>> = <<a, b, c, d, e, f>>
  <1>1. ASSUME NEW a, NEW b PROVE <<a>> \o <<b>> = <<a, b>>
    <2> DEFINE S == {a, b}
    <2> DEFINE s == <<a>>
    <2> DEFINE t == <<b>>
    <2> DEFINE u == <<a, b>>
    <2>1. s \in Seq(S) /\ t \in Seq(S) /\ u \in Seq(S) /\ Len(s) = 1 /\ Len(t) = 1 /\ Len(u) = 1 + 1
      OBVIOUS
    <2>2. s[1] = u[1] /\ t[1] = u[1 + 1]
      OBVIOUS
    <2>3. 1 \in 1 .. 4 /\ 1 \in 1 .. 2 /\ ~(1 > 1) /\ ~(1 > 2) /\ ~(1 > 3) /\ ~(1 > 1)
      OBVIOUS
    <2> HIDE DEF S, s, t, u
    <2>4. s \o t = u
      BY <2>1, <2>2, <2>3, Flat, SMTT(60)
    <2> QED BY <2>4 DEF s, t, u
  <1>2. ASSUME NEW a, NEW b, NEW c PROVE <<a, b>> \o <<c>> = <<a, b, c>>
    <2> DEFINE S == {a, b, c}
    <2> DEFINE s == <<a, b>>
    <2> DEFINE t == <<c>>
    <2> DEFINE u == <<a, b, c>>
    <2>1. s \in Seq(S) /\ t \in Seq(S) /\ u \in Seq(S) /\ Len(s) = 2 /\ Len(t) = 1 /\ Len(u) = 2 + 1
      OBVIOUS
    <2>2. s[1] = u[1] /\ s[2] = u[2] /\ t[1] = u[2 + 1]
      OBVIOUS
    <2>3. 2 \in 1 .. 4 /\ 1 \in 1 .. 2 /\ ~(2 > 2) /\ ~(2 > 3) /\ ~(1 > 1)
      OBVIOUS
    <2> HIDE DEF S, s, t, u
    <2>4. s \o t = u
      BY <2>1, <2>2, <2>3, Flat, SMTT(60)
    <2> QED BY <2>4 DEF s, t, u
  <1>3. ASSUME NEW a, NEW b, NEW c, NEW d PROVE <<a, b, c>> \o <<d>> = <<a, b, c, d>>
    <2> DEFINE S == {a, b, c, d}
    <2> DEFINE s == <<a, b, c>>
    <2> DEFINE t == <<d>>
    <2> DEFINE u == <<a, b, c, d>>
    <2>1. s \in Seq(S) /\ t \in Seq(S) /\ u \in Seq(S) /\ Len(s) = 3 /\ Len(t) = 1 /\ Len(u) = 3 + 1
      OBVIOUS
    <2>2. s[1] = u[1] /\ s[2] = u[2] /\ s[3] = u[3] /\ t[1] = u[3 + 1]
      OBVIOUS
    <2>3. 3 \in 1 .. 4 /\ 1 \in 1 .. 2 /\ ~(3 > 3) /\ ~(1 > 1)
      OBVIOUS
    <2> HIDE DEF S, s, t, u
    <2>4. s \o t = u
      BY <2>1, <2>2, <2>3, Flat, SMTT(60)
    <2> QED BY <2>4 DEF s, t, u
  <1>4. ASSUME NEW a, NEW b, NEW c, NEW d, NEW e PROVE <<a, b, c>> \o <<d, e>> = <<a, b, c, d, e>>
    <2> DEFINE S == {a, b, c, d, e}
    <2> DEFINE s == <<a, b, c>>
    <2> DEFINE t == <<d, e>>
    <2> DEFINE u == <<a, b, c, d, e>>
    <2>1. s \in Seq(S) /\ t \in Seq(S) /\ u \in Seq(S) /\ Len(s) = 3 /\ Len(t) = 2 /\ Len(u) = 3 + 2
      OBVIOUS
    <2>2. s[1] = u[1] /\ s[2] = u[2] /\ s[3] = u[3] /\ t[1] = u[3 + 1] /\ t[2] = u[3 + 2]
      OBVIOUS
    <2>3. 3 \in 1 .. 4 /\ 2 \in 1 .. 2 /\ ~(3 > 3)
      OBVIOUS
    <2> HIDE DEF S, s, t, u
    <2>4. s \o t = u
      BY <2>1, <2>2, <2>3, Flat, SMTT(60)
    <2> QED BY <2>4 DEF s, t, u
  <1>5. ASSUME NEW a, NEW b, NEW c, NEW d, NEW e, NEW f PROVE <<a, b, c, d>> \o <<e, f>> = <<a, b, c, d, e, f>>
    <2> DEFINE S == {a, b, c, d, e, f}
    <2> DEFINE s == <<a, b, c, d>>
    <2> DEFINE t == <<e, f>>
    <2> DEFINE u == <<a, b, c, d, e, f>>
    <2>1. s \in Seq(S) /\ t \in Seq(S) /\ u \in Seq(S) /\ Len(s) = 4 /\ Len(t) = 2 /\ Len(u) = 4 + 2
      OBVIOUS
    <2>2. s[1] = u[1] /\ s[2] = u[2] /\ s[3] = u[3] /\ s[4] = u[4] /\ t[1] = u[4 + 1] /\ t[2] = u[4 + 2]
      OBVIOUS
    <2>3. 4 \in 1 .. 4 /\ 2 \in 1 .. 2
      OBVIOUS
    <2> HIDE DEF S, s, t, u
    <2>4. s \o t = u
      BY <2>1, <2>2, <2>3, Flat, SMTT(60)
    <2> QED BY <2>4 DEF s, t, u
  <1> QED BY <1>1, <1>2, <1>3, <1>4, <1>5

LEMMA TreeFacts ==
  /\ None \in Trees /\ None.build = "none"
  /\ \A b \in {"old", "new", "partial"} : Tree(b) \in Trees /\ Tree(b).build = b /\ Tree(b) # None
  BY DEF None, Tree, Trees

LEMMA Checksummed ==
  ASSUME NEW tree \in Trees
  PROVE  tree.build = "old" => [tree EXCEPT !.clean = TRUE] = Tree("old")
  <1> DEFINE r == [tree EXCEPT !.clean = TRUE]
  <1>1. r \in Trees /\ r.build = tree.build /\ r.clean = TRUE
    BY DEF Trees
  <1> HIDE DEF r
  <1>2. r = [build |-> r.build, clean |-> r.clean]
    BY <1>1 DEF Trees
  <1> QED BY <1>1, <1>2 DEF r, Tree

\* What one step leaves in the directories, place by place.
LEMMA StepPlaces ==
  ASSUME dirs \in [Places -> Trees], NEW step \in Steps, Perform(step)
  PROVE  /\ step \notin {"make_stage", "fill_stage", "prepared", "set_aside", "activate", "quarantine", "restore", "retain"} =>
              dirs' = dirs
         /\ step \in {"make_stage", "fill_stage"} => \A d \in Places \ {"stage"} : dirs'[d] = dirs[d]
         /\ step = "fill_stage" => dirs'["stage"] = Tree("new")
         /\ step = "prepared" => /\ \A d \in Places \ {"active"} : dirs'[d] = dirs[d]
                                 /\ dirs["active"].build = "old" => dirs'["active"] = Tree("old")
         /\ step = "set_aside" => /\ dirs'["rollback"] = dirs["active"] /\ dirs'["active"] = None
                                  /\ \A d \in Places \ {"active", "rollback"} : dirs'[d] = dirs[d]
         /\ step = "activate" => /\ dirs'["active"] = dirs["stage"] /\ dirs'["stage"] = None
                                 /\ \A d \in Places \ {"active", "stage"} : dirs'[d] = dirs[d]
         /\ step = "quarantine" => /\ dirs'["failed"] = dirs["active"] /\ dirs'["active"] = None
                                   /\ \A d \in Places \ {"active", "failed"} : dirs'[d] = dirs[d]
         /\ step = "restore" => /\ dirs'["active"] = dirs["rollback"] /\ dirs'["rollback"] = None
                                /\ \A d \in Places \ {"active", "rollback"} : dirs'[d] = dirs[d]
         /\ step = "retain" => /\ dirs'["history"] = dirs["rollback"] /\ dirs'["rollback"] = None
                               /\ \A d \in Places \ {"history", "rollback"} : dirs'[d] = dirs[d]
  <1>1. step \notin {"make_stage", "fill_stage", "prepared", "set_aside", "activate", "quarantine", "restore", "retain"} => dirs' = dirs
    BY DEF Perform
  <1>2. /\ step \in {"make_stage", "fill_stage"} => \A d \in Places \ {"stage"} : dirs'[d] = dirs[d]
        /\ step = "fill_stage" => dirs'["stage"] = Tree("new")
    BY DEF Perform, Places
  <1>3. ASSUME step = "prepared"
        PROVE  /\ \A d \in Places \ {"active"} : dirs'[d] = dirs[d]
               /\ dirs["active"].build = "old" => dirs'["active"] = Tree("old")
    <2>1. dirs' = [dirs EXCEPT !["active"] = [dirs["active"] EXCEPT !.clean = TRUE]]
      BY <1>3 DEF Perform
    <2>2. "active" \in Places /\ dirs["active"] \in Trees
      BY DEF Places
    <2> QED BY <2>1, <2>2, Checksummed
  <1>4. ASSUME NEW from \in Places, NEW to \in Places, from # to, Move(from, to)
        PROVE  /\ dirs'[to] = dirs[from] /\ dirs'[from] = None
               /\ \A d \in Places \ {from, to} : dirs'[d] = dirs[d]
    BY <1>4 DEF Move
  <1>5. step = "set_aside" => Move("active", "rollback")
    BY DEF Perform
  <1>6. step = "activate" => Move("stage", "active")
    BY DEF Perform
  <1>7. step = "quarantine" => Move("active", "failed")
    BY DEF Perform
  <1>8. step = "restore" => Move("rollback", "active")
    BY DEF Perform
  <1>9. step = "retain" => Move("rollback", "history")
    BY DEF Perform
  <1>10. {"active", "stage", "rollback", "failed", "history"} = Places
    BY DEF Places
  <1> HIDE DEF Perform, Move
  <1>11. step = "set_aside" => /\ dirs'["rollback"] = dirs["active"] /\ dirs'["active"] = None
                               /\ \A d \in Places \ {"active", "rollback"} : dirs'[d] = dirs[d]
    BY <1>4, <1>5, <1>10
  <1>12. step = "activate" => /\ dirs'["active"] = dirs["stage"] /\ dirs'["stage"] = None
                              /\ \A d \in Places \ {"active", "stage"} : dirs'[d] = dirs[d]
    BY <1>4, <1>6, <1>10
  <1>13. step = "quarantine" => /\ dirs'["failed"] = dirs["active"] /\ dirs'["active"] = None
                                /\ \A d \in Places \ {"active", "failed"} : dirs'[d] = dirs[d]
    BY <1>4, <1>7, <1>10
  <1>14. step = "restore" => /\ dirs'["active"] = dirs["rollback"] /\ dirs'["rollback"] = None
                             /\ \A d \in Places \ {"active", "rollback"} : dirs'[d] = dirs[d]
    BY <1>4, <1>8, <1>10
  <1>15. step = "retain" => /\ dirs'["history"] = dirs["rollback"] /\ dirs'["rollback"] = None
                            /\ \A d \in Places \ {"history", "rollback"} : dirs'[d] = dirs[d]
    BY <1>4, <1>9, <1>10
  <1> QED BY <1>1, <1>2, <1>3, <1>11, <1>12, <1>13, <1>14, <1>15

-----------------------------------------------------------------------------
(* The helper keeps the trees and the plan it is on *)

\* What every step of a phase shares.
LEMMA StepTaken ==
  ASSUME SwapTyped, HelperSound, HelperStep
  PROVE  LET step == Head(helper.todo)
         IN  /\ step \in StepsOf(helper.phase) /\ step \in Steps /\ Perform(step)
             /\ helper.todo # <<>> /\ helper'.todo = Tail(helper.todo)
             /\ helper'.phase = helper.phase /\ helper'.answer = helper.answer /\ helper.phase \in Phases
             /\ journal' = IF step = "file_journal" THEN "none" ELSE IF step \in JournalPhases THEN step ELSE journal
             /\ temp' = IF step = "temp" THEN TRUE ELSE IF step \in JournalPhases \cup {"drop_temp"} THEN FALSE ELSE temp
             /\ checkpoint' = IF step = "note" THEN "temp" ELSE IF step = "saved" THEN "saved" ELSE checkpoint
             /\ filed' = (filed \/ step = "file_journal")
  <1> DEFINE step == Head(helper.todo)
  <1>1. /\ ~HelperIdle /\ helper.todo # <<>> /\ Perform(step)
        /\ helper' = [helper EXCEPT !.todo = Tail(helper.todo)]
    BY DEF HelperStep
  <1>2. /\ helper.todo \in Seq(StepsOf(helper.phase)) /\ helper.todo \in Seq(Steps)
        /\ helper \in [phase : Phases \cup {"idle"}, todo : Seq(Steps), answer : Answers]
    BY <1>1 DEF HelperSound, SwapTyped
  <1>3. step \in StepsOf(helper.phase) /\ step \in Steps
    BY <1>1, <1>2
  <1>4. /\ helper'.todo = Tail(helper.todo)
        /\ helper'.phase = helper.phase /\ helper'.answer = helper.answer /\ helper.phase \in Phases
    BY <1>1, <1>2 DEF HelperIdle
  <1> HIDE DEF step
  <1>5. /\ journal' = IF step = "file_journal" THEN "none" ELSE IF step \in JournalPhases THEN step ELSE journal
        /\ temp' = IF step = "temp" THEN TRUE ELSE IF step \in JournalPhases \cup {"drop_temp"} THEN FALSE ELSE temp
        /\ checkpoint' = IF step = "note" THEN "temp" ELSE IF step = "saved" THEN "saved" ELSE checkpoint
        /\ filed' = (filed \/ step = "file_journal")
    BY <1>1 DEF Perform
  <1> QED BY <1>1, <1>3, <1>4, <1>5 DEF step

LEMMA BuildTaken ==
  ASSUME SwapTyped, HelperSound, TreesKept, WorkKnown, HelperStep, helper.phase \in {"inputs", "build"}, timeouts' = timeouts
  PROVE  TreesKept' /\ WorkKnown' /\ (Archived => Archived') /\ UNCHANGED <<journal, temp, filed>>
  <1> DEFINE step == Head(helper.todo)
  <1>1. step \in {"make_stage", "fill_stage"} /\ step \in Steps /\ Perform(step)
    BY StepTaken DEF StepsOf
  <1>2. /\ UNCHANGED <<journal, temp, checkpoint, filed>> /\ helper'.phase = helper.phase /\ helper'.answer = helper.answer
    BY <1>1, StepTaken DEF SwapTyped, JournalPhases
  <1>3. \A d \in Places \ {"stage"} : dirs'[d] = dirs[d]
    BY <1>1, StepPlaces DEF SwapTyped
  <1>4. TreesKept' /\ (Archived => Archived')
    BY <1>2, <1>3 DEF TreesKept, Intact, Archived, Places
  <1>5. WorkKnown'
    BY <1>2 DEF WorkKnown, AnswerTrue, HelperIdle
  <1> QED BY <1>2, <1>4, <1>5

LEMMA PrepareTaken ==
  ASSUME SwapTyped, HelperSound, TreesKept, WorkKnown, HelperStep, helper.phase = "prepare", timeouts' = timeouts
  PROVE  TreesKept' /\ WorkKnown' /\ journal' \in {"none", "prepared"} /\ ~filed' /\ ~Archived
  <1> DEFINE step == Head(helper.todo)
  <1>1. /\ step \in Steps /\ Perform(step) /\ helper.todo # <<>> /\ helper'.todo = Tail(helper.todo)
        /\ helper'.phase = "prepare" /\ helper'.answer = helper.answer /\ ~filed
    BY StepTaken DEF HelperSound, Decided
  <1>2. journal = "none" /\ dirs["stage"].build = "new" /\ dirs["active"].build = "old" /\ dirs["rollback"] = None
    BY <1>1 DEF WorkKnown, PrepareAt, TreesKept
  <1>3. helper.answer = "done"
    BY StepTaken DEF WorkKnown, AnswerTrue, HelperIdle, Phases
  <1>4. CASE helper.todo = <<"temp", "prepared">>
    <2>1. step = "temp" /\ helper'.todo = <<"prepared">>
      BY <1>1, <1>4
    <2>2. UNCHANGED <<dirs, journal, filed, checkpoint>>
      BY <1>1, <2>1, StepPlaces, StepTaken DEF SwapTyped, JournalPhases
    <2> QED BY <1>1, <1>2, <1>3, <2>1, <2>2 DEF TreesKept, Intact, WorkKnown, PrepareAt, AnswerTrue, HelperIdle, Archived
  <1>5. CASE helper.todo = <<"prepared">>
    <2>1. step = "prepared" /\ helper'.todo = <<>>
      BY <1>1, <1>5
    <2>2. journal' = "prepared" /\ UNCHANGED <<filed, checkpoint>>
      BY <2>1, StepTaken DEF SwapTyped, JournalPhases
    <2>3. dirs'["active"] = Tree("old") /\ dirs'["rollback"] = None
      BY <1>1, <1>2, <2>1, StepPlaces DEF SwapTyped, Places
    <2> QED BY <1>1, <1>2, <1>3, <2>1, <2>2, <2>3, TreeFacts
            DEF TreesKept, Intact, WorkKnown, PrepareAt, AnswerTrue, HelperIdle, Archived
  <1> QED BY <1>1, <1>4, <1>5 DEF WorkKnown, PrepareAt

LEMMA CommitTaken ==
  ASSUME SwapTyped, HelperSound, TreesKept, WorkKnown, HelperStep, helper.phase = "commit", timeouts' = timeouts
  PROVE  TreesKept' /\ WorkKnown' /\ journal = "checked" /\ ~filed /\ journal' \in {"checked", "committed"} /\ ~filed'
  <1> DEFINE step == Head(helper.todo)
  <1>1. /\ step \in Steps /\ Perform(step) /\ helper.todo # <<>> /\ helper'.todo = Tail(helper.todo)
        /\ helper'.phase = "commit" /\ helper'.answer = helper.answer /\ ~filed
    BY StepTaken DEF HelperSound
  <1>2. journal = "checked" /\ Intact("rollback", "old") /\ helper.answer = "done"
    BY <1>1, StepTaken DEF WorkKnown, CommitAt, TreesKept, AnswerTrue, HelperIdle, Phases
  <1>3. CASE helper.todo = <<"temp", "committed">>
    <2>1. step = "temp" /\ helper'.todo = <<"committed">>
      BY <1>1, <1>3
    <2>2. UNCHANGED <<dirs, journal, filed, checkpoint>>
      BY <1>1, <2>1, StepPlaces, StepTaken DEF SwapTyped, JournalPhases
    <2> QED BY <1>1, <1>2, <2>1, <2>2 DEF TreesKept, Intact, WorkKnown, CommitAt, AnswerTrue, HelperIdle
  <1>4. CASE helper.todo = <<"committed">>
    <2>1. step = "committed" /\ helper'.todo = <<>>
      BY <1>1, <1>4
    <2>2. journal' = "committed" /\ UNCHANGED <<filed, checkpoint, dirs>>
      BY <1>1, <2>1, StepPlaces, StepTaken DEF SwapTyped, JournalPhases
    <2> QED BY <1>1, <1>2, <2>1, <2>2 DEF TreesKept, Intact, WorkKnown, CommitAt, AnswerTrue, HelperIdle
  <1> QED BY <1>1, <1>3, <1>4 DEF WorkKnown, CommitAt

LEMMA ArchiveTaken ==
  ASSUME SwapTyped, HelperSound, DecisionStands, TreesKept, WorkKnown, HelperStep, helper.phase = "archive", timeouts' = timeouts
  PROVE  TreesKept' /\ WorkKnown' /\ journal = "committed" /\ ~filed
  <1> DEFINE step == Head(helper.todo)
  <1>1. /\ step \in Steps /\ Perform(step) /\ helper.todo # <<>> /\ helper'.todo = Tail(helper.todo)
        /\ helper'.phase = "archive" /\ helper'.answer = helper.answer
    BY StepTaken
  <1>2. journal = "committed" /\ ~filed /\ helper.answer = "done"
    BY <1>1, StepTaken DEF WorkKnown, ArchiveAt, AnswerTrue, HelperIdle, Phases, DecisionStands
  <1>3. CASE helper.todo = <<"note", "saved", "retain", "file_journal">>
    <2>1. step = "note" /\ helper'.todo = <<"saved", "retain", "file_journal">> /\ Intact("rollback", "old")
      BY <1>1, <1>3 DEF WorkKnown, ArchiveAt
    <2>2. UNCHANGED <<dirs, journal, filed>>
      BY <1>1, <2>1, StepPlaces, StepTaken DEF SwapTyped, JournalPhases
    <2> QED BY <1>1, <1>2, <2>1, <2>2 DEF TreesKept, Intact, WorkKnown, ArchiveAt, AnswerTrue, HelperIdle
  <1>4. CASE helper.todo = <<"saved", "retain", "file_journal">>
    <2>1. step = "saved" /\ helper'.todo = <<"retain", "file_journal">> /\ Intact("rollback", "old")
      BY <1>1, <1>4 DEF WorkKnown, ArchiveAt
    <2>2. UNCHANGED <<dirs, journal, filed>> /\ checkpoint' = "saved"
      BY <1>1, <2>1, StepPlaces, StepTaken DEF SwapTyped, JournalPhases
    <2> QED BY <1>1, <1>2, <2>1, <2>2 DEF TreesKept, Intact, WorkKnown, ArchiveAt, AnswerTrue, HelperIdle
  <1>5. CASE helper.todo = <<"retain", "file_journal">>
    <2>1. step = "retain" /\ helper'.todo = <<"file_journal">> /\ Intact("rollback", "old") /\ checkpoint = "saved"
      BY <1>1, <1>5 DEF WorkKnown, ArchiveAt
    <2>2. UNCHANGED <<journal, filed, checkpoint>>
      BY <2>1, StepTaken DEF SwapTyped, JournalPhases
    <2>3. dirs'["history"] = dirs["rollback"] /\ dirs'["rollback"] = None
      BY <1>1, <2>1, StepPlaces DEF SwapTyped
    <2> QED BY <1>1, <1>2, <2>1, <2>2, <2>3 DEF TreesKept, Intact, WorkKnown, ArchiveAt, AnswerTrue, HelperIdle
  <1>6. CASE helper.todo = <<"file_journal">>
    <2>1. step = "file_journal" /\ helper'.todo = <<>> /\ dirs["rollback"] = None
      BY <1>1, <1>6 DEF WorkKnown, ArchiveAt
    <2>2. Intact("history", "old") /\ checkpoint = "saved" /\ dirs["history"] # None
      BY <1>2, <2>1, TreeFacts DEF TreesKept, Intact
    <2>3. journal' = "none" /\ filed' /\ UNCHANGED <<dirs, checkpoint>>
      BY <1>1, <2>1, StepPlaces, StepTaken DEF SwapTyped, JournalPhases
    <2> QED BY <1>1, <1>2, <2>1, <2>2, <2>3 DEF TreesKept, Intact, WorkKnown, ArchiveAt, Archived, AnswerTrue, HelperIdle
  <1> QED BY <1>1, <1>3, <1>4, <1>5, <1>6 DEF WorkKnown, ArchiveAt

LEMMA SwitchTaken ==
  ASSUME SwapTyped, HelperSound, TreesKept, WorkKnown, HelperStep, helper.phase = "switch", timeouts' = timeouts
  PROVE  TreesKept' /\ WorkKnown' /\ ~Decided
  <1> DEFINE step == Head(helper.todo)
  <1>1. /\ step \in Steps /\ Perform(step) /\ helper.todo # <<>> /\ helper'.todo = Tail(helper.todo)
        /\ helper'.phase = "switch" /\ helper'.answer = helper.answer /\ ~filed /\ ~Decided
    BY StepTaken DEF HelperSound, Decided
  <1>2. SwitchAt /\ helper.answer = "done" /\ "old" \in {"old", "new", "partial"} /\ "new" \in {"old", "new", "partial"}
    BY StepTaken DEF WorkKnown, AnswerTrue, HelperIdle, Phases
  <1>3. SUFFICES ASSUME TreesKept' /\ SwitchAt' PROVE WorkKnown'
    <2>1. TreesKept' /\ SwitchAt'
      <3>1. CASE helper.todo = SwitchSteps
        <4>1. /\ step = "temp"
              /\ helper'.todo = <<"swapping", "set_aside", "activate", "temp", "swapped", "temp", "checked">>
              /\ journal = "prepared" /\ Intact("active", "old") /\ Intact("stage", "new")
          BY <1>1, <1>2, <3>1 DEF SwitchAt, SwitchSteps
        <4>2. UNCHANGED <<dirs, journal, filed, checkpoint>>
          BY <1>1, <4>1, StepPlaces, StepTaken DEF SwapTyped, JournalPhases
        <4> QED BY <4>1, <4>2 DEF TreesKept, Intact, SwitchAt
      <3>2. CASE helper.todo = <<"swapping", "set_aside", "activate", "temp", "swapped", "temp", "checked">>
        <4>1. /\ step = "swapping"
              /\ helper'.todo = <<"set_aside", "activate", "temp", "swapped", "temp", "checked">>
              /\ journal = "prepared" /\ Intact("active", "old") /\ Intact("stage", "new")
          BY <1>1, <1>2, <3>2 DEF SwitchAt, SwitchSteps
        <4>2. journal' = "swapping" /\ UNCHANGED <<dirs, filed, checkpoint>>
          BY <1>1, <4>1, StepPlaces, StepTaken DEF SwapTyped, JournalPhases
        <4> QED BY <1>1, <4>1, <4>2 DEF TreesKept, Intact, SwitchAt
      <3>3. CASE helper.todo = <<"set_aside", "activate", "temp", "swapped", "temp", "checked">>
        <4>1. /\ step = "set_aside"
              /\ helper'.todo = <<"activate", "temp", "swapped", "temp", "checked">>
              /\ journal = "swapping" /\ Intact("active", "old") /\ Intact("stage", "new")
          BY <1>1, <1>2, <3>3 DEF SwitchAt, SwitchSteps
        <4>2. UNCHANGED <<journal, filed, checkpoint>>
          BY <1>1, <4>1, StepTaken DEF SwapTyped, JournalPhases
        <4>3. dirs'["active"] = None /\ dirs'["rollback"] = Tree("old") /\ dirs'["stage"] = Tree("new")
          BY <1>1, <4>1, StepPlaces DEF SwapTyped, Intact, Places
        <4> QED BY <1>1, <4>1, <4>2, <4>3, TreeFacts DEF TreesKept, Intact, SwitchAt
      <3>4. CASE helper.todo = <<"activate", "temp", "swapped", "temp", "checked">>
        <4>1. /\ step = "activate"
              /\ helper'.todo = <<"temp", "swapped", "temp", "checked">>
              /\ journal = "swapping" /\ Intact("rollback", "old") /\ Intact("stage", "new")
          BY <1>1, <1>2, <3>4 DEF SwitchAt, SwitchSteps
        <4>2. UNCHANGED <<journal, filed, checkpoint>>
          BY <1>1, <4>1, StepTaken DEF SwapTyped, JournalPhases
        <4>3. dirs'["active"] = Tree("new") /\ dirs'["rollback"] = Tree("old")
          BY <1>1, <4>1, StepPlaces DEF SwapTyped, Intact, Places
        <4>4. dirs'["active"].build = "new"
          BY <1>2, <4>3, TreeFacts
        <4> QED BY <1>1, <4>1, <4>2, <4>3, <4>4 DEF TreesKept, Intact, SwitchAt
      <3>5. CASE helper.todo = <<"temp", "swapped", "temp", "checked">>
        <4>1. /\ step = "temp"
              /\ helper'.todo = <<"swapped", "temp", "checked">>
              /\ journal = "swapping" /\ Intact("rollback", "old") /\ dirs["active"].build = "new"
          BY <1>1, <1>2, <3>5 DEF SwitchAt, SwitchSteps
        <4>2. UNCHANGED <<dirs, journal, filed, checkpoint>>
          BY <1>1, <4>1, StepPlaces, StepTaken DEF SwapTyped, JournalPhases
        <4> QED BY <4>1, <4>2 DEF TreesKept, Intact, SwitchAt
      <3>6. CASE helper.todo = <<"swapped", "temp", "checked">>
        <4>1. /\ step = "swapped"
              /\ helper'.todo = <<"temp", "checked">>
              /\ journal = "swapping" /\ Intact("rollback", "old") /\ dirs["active"].build = "new"
          BY <1>1, <1>2, <3>6 DEF SwitchAt, SwitchSteps
        <4>2. journal' = "swapped" /\ UNCHANGED <<dirs, filed, checkpoint>>
          BY <1>1, <4>1, StepPlaces, StepTaken DEF SwapTyped, JournalPhases
        <4> QED BY <1>1, <4>1, <4>2 DEF TreesKept, Intact, SwitchAt
      <3>7. CASE helper.todo = <<"temp", "checked">>
        <4>1. step = "temp" /\ helper'.todo = <<"checked">> /\ journal = "swapped"
          BY <1>1, <1>2, <3>7 DEF SwitchAt, SwitchSteps
        <4>2. UNCHANGED <<dirs, journal, filed, checkpoint>>
          BY <1>1, <4>1, StepPlaces, StepTaken DEF SwapTyped, JournalPhases
        <4> QED BY <4>1, <4>2 DEF TreesKept, Intact, SwitchAt
      <3>8. CASE helper.todo = <<"checked">>
        <4>1. step = "checked" /\ helper'.todo = <<>> /\ journal = "swapped"
          BY <1>1, <1>2, <3>8 DEF SwitchAt, SwitchSteps
        <4>2. journal' = "checked" /\ UNCHANGED <<dirs, filed, checkpoint>>
          BY <1>1, <4>1, StepPlaces, StepTaken DEF SwapTyped, JournalPhases
        <4> QED BY <1>1, <4>1, <4>2 DEF TreesKept, Intact, SwitchAt
      <3> QED BY <1>1, <1>2, <3>1, <3>2, <3>3, <3>4, <3>5, <3>6, <3>7, <3>8 DEF SwitchAt
    <2> QED BY <1>1, <2>1
  <1> QED BY <1>1, <1>2, <1>3 DEF WorkKnown, AnswerTrue, HelperIdle

\* A phase with steps written out has work left.
LEMMA Left ==
  /\ \A a : <<a>> # <<>>
  /\ \A a, b : <<a, b>> # <<>>
  /\ \A a, b, c : <<a, b, c>> # <<>>
  /\ \A a, b, c, d : <<a, b, c, d>> # <<>>
  /\ \A a, b, c, d, e : <<a, b, c, d, e>> # <<>>
  /\ \A a, b, c, d, e, f : <<a, b, c, d, e, f>> # <<>>
  /\ \A a, b, c, d, e, f, g : <<a, b, c, d, e, f, g>> # <<>>
  /\ \A a, b, c, d, e, f, g, h : <<a, b, c, d, e, f, g, h>> # <<>>
  OBVIOUS

\* The steps of a recovery proper.
LEMMA BackTaken ==
  ASSUME SwapTyped, HelperSound, TreesKept, HelperStep, helper.phase = "recover", timeouts' = timeouts, ~Decided,
         RecoverAt(helper.todo)
  PROVE  TreesKept' /\ RecoverAt(helper.todo)' /\ (helper'.todo = <<>> => ~temp')
         /\ journal \in {"prepared", "swapping", "swapped", "checked", "recovering"}
         /\ journal' \in {journal, "recovering", "recovered"} /\ ~filed'
  <1> DEFINE step == Head(helper.todo)
  <1>1. /\ step \in Steps /\ Perform(step) /\ helper.todo # <<>> /\ ~filed /\ helper'.todo = Tail(helper.todo)
    BY StepTaken DEF Decided
  <1>2. CASE helper.todo = <<"temp", "recovering", "quarantine", "restore", "temp", "recovered">>
    <2>1. /\ step = "temp" /\ helper'.todo = <<"recovering", "quarantine", "restore", "temp", "recovered">> /\ helper'.todo # <<>>
          /\ Intact("rollback", "old") /\ dirs["active"].build = "new"
          /\ journal \in {"swapping", "swapped", "checked", "recovering"}
      BY <1>1, <1>2, Left DEF RecoverAt
    <2>2. UNCHANGED <<dirs, journal, filed, checkpoint>>
      BY <1>1, <2>1, StepPlaces, StepTaken DEF SwapTyped, JournalPhases
    <2> QED BY <1>1, <2>1, <2>2 DEF TreesKept, Intact, RecoverAt
  <1>3. CASE helper.todo = <<"recovering", "quarantine", "restore", "temp", "recovered">>
    <2>1. /\ step = "recovering" /\ helper'.todo = <<"quarantine", "restore", "temp", "recovered">> /\ helper'.todo # <<>>
          /\ Intact("rollback", "old") /\ dirs["active"].build = "new"
          /\ journal \in {"swapping", "swapped", "checked", "recovering"}
      BY <1>1, <1>3, Left DEF RecoverAt
    <2>2. journal' = "recovering" /\ UNCHANGED <<dirs, filed, checkpoint>>
      BY <1>1, <2>1, StepPlaces, StepTaken DEF SwapTyped, JournalPhases
    <2> QED BY <1>1, <2>1, <2>2 DEF TreesKept, Intact, RecoverAt
  <1>4. CASE helper.todo = <<"temp", "recovering", "restore", "temp", "recovered">>
    <2>1. /\ step = "temp" /\ helper'.todo = <<"recovering", "restore", "temp", "recovered">> /\ helper'.todo # <<>>
          /\ Intact("rollback", "old") /\ dirs["active"] = None /\ journal \in {"swapping", "recovering"}
      BY <1>1, <1>4, Left DEF RecoverAt
    <2>2. UNCHANGED <<dirs, journal, filed, checkpoint>>
      BY <1>1, <2>1, StepPlaces, StepTaken DEF SwapTyped, JournalPhases
    <2> QED BY <1>1, <2>1, <2>2 DEF TreesKept, Intact, RecoverAt
  <1>5. CASE helper.todo = <<"recovering", "restore", "temp", "recovered">>
    <2>1. /\ step = "recovering" /\ helper'.todo = <<"restore", "temp", "recovered">> /\ helper'.todo # <<>>
          /\ Intact("rollback", "old") /\ dirs["active"] = None /\ journal \in {"swapping", "recovering"}
      BY <1>1, <1>5, Left DEF RecoverAt
    <2>2. journal' = "recovering" /\ UNCHANGED <<dirs, filed, checkpoint>>
      BY <1>1, <2>1, StepPlaces, StepTaken DEF SwapTyped, JournalPhases
    <2> QED BY <1>1, <2>1, <2>2 DEF TreesKept, Intact, RecoverAt
  <1>6. CASE helper.todo = <<"quarantine", "restore", "temp", "recovered">>
    <2>1. /\ step = "quarantine" /\ helper'.todo = <<"restore", "temp", "recovered">> /\ helper'.todo # <<>>
          /\ Intact("rollback", "old") /\ journal = "recovering"
      BY <1>1, <1>6, Left DEF RecoverAt
    <2>2. UNCHANGED <<journal, filed, checkpoint>>
      BY <1>1, <2>1, StepTaken DEF SwapTyped, JournalPhases
    <2>3. dirs'["active"] = None /\ dirs'["rollback"] = dirs["rollback"]
      BY <1>1, <2>1, StepPlaces DEF SwapTyped, Places
    <2> QED BY <1>1, <2>1, <2>2, <2>3 DEF TreesKept, Intact, RecoverAt
  <1>7. CASE helper.todo = <<"restore", "temp", "recovered">>
    <2>1. /\ step = "restore" /\ helper'.todo = <<"temp", "recovered">> /\ helper'.todo # <<>>
          /\ Intact("rollback", "old") /\ journal = "recovering"
      BY <1>1, <1>7, Left DEF RecoverAt
    <2>2. UNCHANGED <<journal, filed, checkpoint>>
      BY <1>1, <2>1, StepTaken DEF SwapTyped, JournalPhases
    <2>3. dirs'["active"] = Tree("old") /\ dirs'["rollback"] = None
      BY <1>1, <2>1, StepPlaces DEF SwapTyped, Intact
    <2>4. dirs'["active"].build = "old"
      BY <2>3, TreeFacts
    <2> QED BY <1>1, <2>1, <2>2, <2>3, <2>4 DEF TreesKept, Intact, RecoverAt
  <1>8. CASE helper.todo = <<"temp", "recovered">>
    <2>1. /\ step = "temp" /\ helper'.todo = <<"recovered">> /\ helper'.todo # <<>>
          /\ dirs["rollback"] = None /\ dirs["active"].build = "old" /\ journal \in {"prepared", "swapping", "recovering"}
      BY <1>1, <1>8, Left DEF RecoverAt
    <2>2. UNCHANGED <<dirs, journal, filed, checkpoint>>
      BY <1>1, <2>1, StepPlaces, StepTaken DEF SwapTyped, JournalPhases
    <2> QED BY <1>1, <2>1, <2>2 DEF TreesKept, Intact, RecoverAt
  <1>9. CASE helper.todo = <<"recovered">>
    <2>1. /\ step = "recovered" /\ helper'.todo = <<>>
          /\ dirs["rollback"] = None /\ dirs["active"].build = "old" /\ journal \in {"prepared", "swapping", "recovering"}
      BY <1>1, <1>9 DEF RecoverAt
    <2>2. journal' = "recovered" /\ ~temp' /\ UNCHANGED <<dirs, filed, checkpoint>>
      BY <1>1, <2>1, StepPlaces, StepTaken DEF SwapTyped, JournalPhases
    <2> QED BY <1>1, <2>1, <2>2 DEF TreesKept, Intact, RecoverAt
  <1> QED BY <1>1, <1>2, <1>3, <1>4, <1>5, <1>6, <1>7, <1>8, <1>9 DEF RecoverAt

LEMMA RecoveryTaken ==
  ASSUME SwapTyped, HelperSound, TreesKept, WorkKnown, HelperStep, helper.phase = "recover", timeouts' = timeouts
  PROVE  /\ TreesKept' /\ WorkKnown' /\ ~Decided /\ journal # "none" /\ ~filed'
         /\ journal = "recovered" => journal' = "recovered"
  <1> DEFINE step == Head(helper.todo)
  <1>1. /\ step \in Steps /\ Perform(step) /\ helper.todo # <<>> /\ helper'.todo = Tail(helper.todo)
        /\ helper'.phase = "recover" /\ helper'.answer = helper.answer /\ ~filed /\ ~Decided /\ journal # "none"
    BY StepTaken DEF HelperSound, Decided
  <1>2. helper.answer = "recovered"
    BY <1>1 DEF WorkKnown, AnswerTrue, HelperIdle
  <1>3. CASE RecoverAt(helper.todo)
    <2>1. /\ TreesKept' /\ RecoverAt(helper.todo)' /\ (helper'.todo = <<>> => ~temp')
          /\ journal \in {"prepared", "swapping", "swapped", "checked", "recovering"}
          /\ journal' \in {journal, "recovering", "recovered"} /\ ~filed'
      BY <1>1, <1>3, BackTaken
    <2>2. Recovering'
      BY <2>1 DEF Recovering
    <2> QED BY <1>1, <1>2, <2>1, <2>2 DEF WorkKnown, AnswerTrue, HelperIdle
  <1>4. CASE step = "drop_temp" /\ RecoverAt(Tail(helper.todo))
    <2>1. UNCHANGED <<dirs, journal, filed, checkpoint>> /\ ~temp'
      BY <1>1, <1>4, StepPlaces, StepTaken DEF SwapTyped, JournalPhases
    <2>2. RecoverAt(helper.todo)'
      BY <1>1, <1>4, <2>1 DEF RecoverAt, Intact
    <2>3. TreesKept' /\ Recovering'
      BY <2>1, <2>2 DEF TreesKept, Intact, Recovering
    <2> QED BY <1>1, <1>2, <2>1, <2>3 DEF WorkKnown, AnswerTrue, HelperIdle
  <1> QED BY <1>1, <1>3, <1>4 DEF WorkKnown, Recovering

\* A step of the helper, whatever its phase.
LEMMA HelperWorks ==
  ASSUME SwapTyped, HelperSound, DecisionStands, TreesKept, WorkKnown, HelperStep, timeouts' = timeouts
  PROVE  /\ TreesKept' /\ WorkKnown'
         /\ Archived => Archived' /\ helper.phase = "build"
         /\ helper.phase = "inputs" => FALSE
         /\ helper.phase = "build" => UNCHANGED <<journal, temp, filed>>
         /\ helper.phase = "prepare" => journal' \in {"none", "prepared"} /\ ~filed'
         /\ helper.phase = "commit" => ~filed /\ journal' \in {"checked", "committed"}
         /\ helper.phase = "archive" => journal = "committed"
         /\ helper.phase = "recover" => journal # "none" /\ ~filed' /\ (journal = "recovered" => journal' = "recovered")
  <1>1. helper.phase \in Phases /\ helper.phase # "inputs"
    BY StepTaken DEF StepsOf
  <1>2. CASE helper.phase = "build"
    BY <1>2, BuildTaken
  <1>3. CASE helper.phase = "prepare"
    BY <1>3, PrepareTaken
  <1>4. CASE helper.phase = "switch"
    BY <1>4, SwitchTaken DEF Decided, Archived
  <1>5. CASE helper.phase = "commit"
    BY <1>5, CommitTaken DEF Archived
  <1>6. CASE helper.phase = "archive"
    BY <1>6, ArchiveTaken DEF Archived
  <1>7. CASE helper.phase = "recover"
    BY <1>7, RecoveryTaken DEF Decided, Archived
  <1> QED BY <1>1, <1>2, <1>3, <1>4, <1>5, <1>6, <1>7 DEF Phases

\* A phase that answers, breaks or dies.
LEMMA HelperStops ==
  ASSUME SwapTyped, HelperSound, DecisionStands, TreesKept, WorkKnown, timeouts' = timeouts,
         HelperAnswers \/ HelperBreaks \/ HelperDies
  PROVE  /\ TreesKept' /\ WorkKnown' /\ (Archived => Archived') /\ UNCHANGED <<journal, temp, checkpoint, filed>>
         /\ HelperIdle' /\ helper'.todo = <<>>
         /\ HelperDies \/ helper'.answer \in {"failed", helper.answer}
         /\ helper.phase = "switch" /\ HelperAnswers => journal = "checked"
         /\ helper.phase = "archive" /\ HelperAnswers => Archived
         /\ helper.phase = "commit" /\ HelperBreaks => journal = "checked"
         /\ HelperAnswers => helper'.answer = helper.answer /\ ~HelperIdle
         /\ HelperBreaks => helper'.answer = "failed" /\ ~HelperIdle
  <1>1. /\ UNCHANGED <<journal, temp, checkpoint, filed>> /\ helper'.phase = "idle" /\ helper'.todo = <<>>
        /\ HelperAnswers => helper'.answer = helper.answer /\ ~HelperIdle /\ helper.todo = <<>>
        /\ HelperBreaks => helper'.answer = "failed" /\ ~HelperIdle /\ helper.todo # <<>>
        /\ HelperDies => helper'.answer = "none"
    <2>1. helper \in [phase : Phases \cup {"idle"}, todo : Seq(Steps), answer : Answers]
      BY DEF SwapTyped
    <2>2. CASE HelperAnswers
      <3>1. helper' = [helper EXCEPT !.phase = "idle"]
        BY <2>2 DEF HelperAnswers
      <3> QED BY <2>1, <2>2, <3>1 DEF HelperAnswers, HelperBreaks, HelperDies
    <2>3. CASE HelperBreaks \/ HelperDies
      BY <2>3 DEF HelperBreaks, HelperDies, HelperAnswers
    <2> QED BY <2>2, <2>3
  <1>2. \A d \in Places \ {"stage"} : dirs'[d] = dirs[d]
    <2>1. dirs \in [Places -> Trees]
      BY DEF SwapTyped
    <2>2. dirs' \in {dirs, [dirs EXCEPT !["stage"] = None]}
      BY DEF HelperAnswers, HelperBreaks, HelperDies
    <2> QED BY <2>1, <2>2
  <1>3. TreesKept' /\ (Archived => Archived')
    BY <1>1, <1>2 DEF TreesKept, Archived, Intact, Places
  <1>4. helper.phase = "switch" /\ HelperAnswers => journal = "checked"
    BY <1>1, Left DEF WorkKnown, SwitchAt, SwitchSteps
  <1>5. helper.phase = "archive" /\ HelperAnswers => Archived
    BY <1>1, Left DEF WorkKnown, ArchiveAt
  <1>6. helper.phase = "commit" /\ HelperBreaks => journal = "checked"
    BY <1>1 DEF WorkKnown, CommitAt
  <1>7. AnswerTrue'
    <2>1. CASE HelperBreaks \/ HelperDies
      BY <1>1, <2>1 DEF AnswerTrue, HelperIdle
    <2>2. CASE HelperAnswers
      <3>1. helper.phase \in Phases /\ HelperIdle'
        BY <1>1, <2>2 DEF SwapTyped, HelperIdle
      <3>2. helper.phase = "recover" /\ journal # "none" => journal = "recovered" /\ ~temp
        BY <1>1, <2>2, Left DEF WorkKnown, Recovering, RecoverAt
      <3>3. helper.phase = "prepare" => journal = "prepared"
        BY <1>1, <2>2, Left DEF WorkKnown, PrepareAt
      <3>4. helper.phase = "commit" => journal = "committed"
        BY <1>1, <2>2, Left DEF WorkKnown, CommitAt
      <3>5. helper.phase # "recover" => journal \in {"none", "prepared", "checked", "committed"}
        BY <1>4, <1>5, <2>2, <3>1, <3>3, <3>4 DEF WorkKnown, Phases, Archived
      <3>6. helper'.answer = IF helper.phase # "recover" THEN "done" ELSE IF journal = "none" THEN "no_swap" ELSE "recovered"
        BY <1>1, <2>2 DEF WorkKnown, AnswerTrue
      <3> QED BY <1>1, <3>1, <3>2, <3>5, <3>6 DEF AnswerTrue
    <2> QED BY <2>1, <2>2
  <1>8. WorkKnown'
    BY <1>1, <1>7 DEF WorkKnown
  <1> QED BY <1>1, <1>3, <1>4, <1>5, <1>6, <1>8 DEF HelperIdle

-----------------------------------------------------------------------------
(* A client starts a phase; a server starts or stops *)

\* A recovery that is accepted finds one of the states an interrupted swap leaves.
LEMMA RecoveryPlanned ==
  ASSUME TreesKept, Accepts("recover"), journal # "none", journal \in JournalPhases
  PROVE  LET left == IF temp THEN Tail(RecoverySteps) ELSE RecoverySteps
         IN  /\ RecoverAt(left)
             /\ temp => RecoverySteps # <<>> /\ Head(RecoverySteps) = "drop_temp"
  <1> DEFINE S == {"drop_temp", "temp", "recovering", "quarantine", "restore", "recovered"}
  <1> DEFINE back == IF journal = "recovered" THEN <<>>
                     ELSE (IF dirs["rollback"] = None THEN <<>>
                           ELSE <<"temp", "recovering">> \o (IF dirs["active"] = None THEN <<>> ELSE <<"quarantine">>) \o <<"restore">>)
                          \o <<"temp", "recovered">>
  <1>1. RecoverySteps = (IF temp THEN <<"drop_temp">> ELSE <<>>) \o back
    BY DEF RecoverySteps
  <1>2. CanRecover
    BY DEF Accepts
  <1>3. RecoverAt(back) /\ back \in Seq(S)
    <2>1. CASE journal = "recovered"
      <3>1. back = <<>>
        BY <2>1
      <3> QED BY <2>1, <3>1 DEF RecoverAt
    <2>2. CASE journal # "recovered" /\ dirs["rollback"] = None
      <3>1. <<"temp", "recovered">> \in Seq(S) /\ "temp" \in S
        OBVIOUS
      <3>2. back = <<"temp", "recovered">>
        BY <2>2, <3>1, Single
      <3>3. Intact("active", "old") /\ journal # "committed"
        BY <1>2, <2>2 DEF CanRecover
      <3>4. journal \in {"prepared", "swapping", "recovering"} /\ dirs["active"].build = "old"
        BY <2>2, <3>3, TreeFacts DEF TreesKept, Intact, JournalPhases
      <3> QED BY <2>2, <3>1, <3>2, <3>4 DEF RecoverAt
    <2>3. CASE journal # "recovered" /\ dirs["rollback"] # None
      <3>1. Intact("rollback", "old") /\ journal # "committed"
        BY <1>2, <2>3 DEF CanRecover
      <3>2. /\ journal \in {"swapping", "swapped", "checked", "recovering"}
            /\ dirs["active"] = None \/ dirs["active"].build = "new"
            /\ dirs["active"] = None => journal \in {"swapping", "recovering"}
        BY <2>3, <3>1, TreeFacts DEF TreesKept, Intact, JournalPhases
      <3>3. CASE dirs["active"] = None
        <4>1. <<"temp", "recovering">> \in Seq(S) /\ "temp" \in S
          OBVIOUS
        <4>2. <<"temp", "recovering">> \o <<>> = <<"temp", "recovering">>
          BY <4>1, Single
        <4>3. back = <<"temp", "recovering", "restore", "temp", "recovered">>
          <5>1. back = (<<"temp", "recovering">> \o <<>> \o <<"restore">>) \o <<"temp", "recovered">>
            BY <2>3, <3>3
          <5>2. <<"temp", "recovering">> \o <<"restore">> = <<"temp", "recovering", "restore">>
            BY Written
          <5>3. <<"temp", "recovering", "restore">> \o <<"temp", "recovered">> = <<"temp", "recovering", "restore", "temp", "recovered">>
            BY Written
          <5> HIDE DEF back
          <5> QED BY <4>2, <5>1, <5>2, <5>3
        <4>4. <<"temp", "recovering", "restore", "temp", "recovered">> \in Seq(S)
          OBVIOUS
        <4> HIDE DEF back, S
        <4> QED BY <3>1, <3>2, <3>3, <4>3, <4>4 DEF RecoverAt
      <3>4. CASE dirs["active"] # None
        <4>1. back = <<"temp", "recovering", "quarantine", "restore", "temp", "recovered">>
          <5>1. back = (<<"temp", "recovering">> \o <<"quarantine">> \o <<"restore">>) \o <<"temp", "recovered">>
            BY <2>3, <3>4
          <5>2. <<"temp", "recovering">> \o <<"quarantine">> = <<"temp", "recovering", "quarantine">>
            BY Written
          <5>3. <<"temp", "recovering", "quarantine">> \o <<"restore">> = <<"temp", "recovering", "quarantine", "restore">>
            BY Written
          <5>4. <<"temp", "recovering", "quarantine", "restore">> \o <<"temp", "recovered">> =
                <<"temp", "recovering", "quarantine", "restore", "temp", "recovered">>
            BY Written
          <5> HIDE DEF back
          <5> QED BY <5>1, <5>2, <5>3, <5>4
        <4>2. <<"temp", "recovering", "quarantine", "restore", "temp", "recovered">> \in Seq(S)
          OBVIOUS
        <4> HIDE DEF back, S
        <4> QED BY <3>1, <3>2, <3>4, <4>1, <4>2 DEF RecoverAt
      <3> QED BY <3>3, <3>4
    <2> QED BY <2>1, <2>2, <2>3
  <1>4. "drop_temp" \in S
    OBVIOUS
  <1> HIDE DEF back, S
  <1>5. CASE temp
    <2>1. RecoverySteps = <<"drop_temp">> \o back
      BY <1>1, <1>5
    <2>2. RecoverySteps # <<>> /\ Head(RecoverySteps) = "drop_temp" /\ Tail(RecoverySteps) = back
      BY <1>3, <1>4, <2>1, Single
    <2> QED BY <1>3, <1>5, <2>2
  <1>6. CASE ~temp
    <2>1. RecoverySteps = <<>> \o back
      BY <1>1, <1>6
    <2>2. RecoverySteps = back
      BY <1>3, <1>4, <2>1, Single
    <2> QED BY <1>3, <1>6, <2>2
  <1> QED BY <1>5, <1>6

\* An archival that is accepted finds a committed journal, or its own work done.
LEMMA ArchivePlanned ==
  ASSUME SwapTyped, TreesKept, DecisionStands, Accepts("archive"), helper'.todo = ArchiveSteps,
         UNCHANGED <<dirs, journal, temp, checkpoint, filed>>
  PROVE  ArchiveAt'
  <1> DEFINE S == {"note", "saved", "retain", "file_journal"}
  <1>1. CanArchive
    BY DEF Accepts
  <1>2. /\ <<"retain">> \in Seq(S) /\ <<"file_journal">> \in Seq(S) /\ <<>> \in Seq(S) /\ "note" \in S
    OBVIOUS
  <1>3. ArchiveSteps = (IF checkpoint = "saved" THEN <<>> ELSE <<"note", "saved">>)
                       \o (IF dirs["rollback"] = None THEN <<>> ELSE <<"retain">>)
                       \o (IF journal = "none" THEN <<>> ELSE <<"file_journal">>)
    BY DEF ArchiveSteps
  <1>4. <<>> \o <<>> = <<>> /\ <<>> \o <<"retain">> = <<"retain">> /\ <<>> \o <<"file_journal">> = <<"file_journal">>
    BY <1>2, Single
  <1> HIDE DEF S
  <1>5. CASE journal = "none"
    <2>1. Archived
      BY <1>1, <1>5, TreeFacts DEF CanArchive, TreesKept, Intact, Archived
    <2>2. ArchiveSteps = <<>> \o <<>> \o <<>>
      BY <1>3, <1>5, <2>1 DEF Archived
    <2>3. helper'.todo = <<>>
      BY <1>4, <2>2
    <2> QED BY <2>1, <2>3 DEF ArchiveAt, Archived
  <1>6. CASE journal = "committed" /\ dirs["rollback"] = None
    <2>1. checkpoint = "saved"
      BY <1>6, TreeFacts DEF TreesKept, Intact
    <2>2. ArchiveSteps = <<>> \o <<>> \o <<"file_journal">>
      BY <1>3, <1>6, <2>1
    <2>3. helper'.todo = <<"file_journal">>
      BY <1>4, <2>2
    <2> QED BY <1>6, <2>3 DEF ArchiveAt
  <1>7. CASE journal = "committed" /\ dirs["rollback"] # None
    <2>1. Intact("rollback", "old")
      BY <1>7 DEF TreesKept
    <2>2. CASE checkpoint = "saved"
      <3>1. ArchiveSteps = <<>> \o <<"retain">> \o <<"file_journal">>
        BY <1>3, <1>7, <2>2
      <3>2. <<"retain">> \o <<"file_journal">> = <<"retain", "file_journal">>
        BY Written
      <3>3. helper'.todo = <<"retain", "file_journal">>
        BY <1>4, <3>1, <3>2
      <3> QED BY <1>7, <2>1, <2>2, <3>3 DEF ArchiveAt, Intact
    <2>3. CASE checkpoint # "saved"
      <3>1. ArchiveSteps = <<"note", "saved">> \o <<"retain">> \o <<"file_journal">>
        BY <1>3, <1>7, <2>3
      <3>2. <<"note", "saved">> \o <<"retain">> = <<"note", "saved", "retain">>
        BY Written
      <3>3. <<"note", "saved", "retain">> \o <<"file_journal">> = <<"note", "saved", "retain", "file_journal">>
        BY Written
      <3>4. helper'.todo = <<"note", "saved", "retain", "file_journal">>
        BY <3>1, <3>2, <3>3
      <3> QED BY <1>7, <2>1, <3>4 DEF ArchiveAt, Intact
    <2> QED BY <2>2, <2>3
  <1> QED BY <1>1, <1>5, <1>6, <1>7 DEF CanArchive

\* A phase starts with its whole plan.
LEMMA InvokeKnown ==
  ASSUME SwapTyped, HelperSound, DecisionStands, TreesKept, WorkKnown, timeouts' = timeouts,
         NEW phase \in Phases, Invoke(phase)
  PROVE  /\ TreesKept' /\ WorkKnown' /\ UNCHANGED <<dirs, journal, temp, checkpoint, filed>>
         /\ ~HelperIdle => helper' = helper
         /\ HelperIdle => \/ HelperIdle' /\ helper'.todo = <<>> /\ helper'.answer = "failed"
                          \/ /\ helper'.phase = phase /\ ~HelperIdle' /\ helper'.answer = Answer(phase)
                             /\ phase = "recover" /\ journal = "none" => helper'.todo = <<>>
         /\ helper'.answer # "none"
  <1>1. CASE ~HelperIdle
    <2>1. UNCHANGED <<dirs, journal, temp, checkpoint, filed, helper>>
      BY <1>1 DEF Invoke, swapVars
    <2>2. TreesKept'
      BY <2>1 DEF TreesKept, Intact
    <2>3. WorkKnown'
      BY <2>1 DEF WorkKnown, PrepareAt, SwitchAt, CommitAt, ArchiveAt, Recovering, RecoverAt, Archived, AnswerTrue, HelperIdle, Intact
    <2>4. helper.answer # "none"
      BY <1>1 DEF WorkKnown, AnswerTrue
    <2> QED BY <1>1, <2>1, <2>2, <2>3, <2>4
  <1>2. CASE HelperIdle
    <2>1. /\ UNCHANGED <<dirs, journal, temp, checkpoint, filed>>
          /\ helper' = IF Accepts(phase) THEN [phase |-> phase, todo |-> Plan(phase), answer |-> Answer(phase)]
                                         ELSE [helper EXCEPT !.answer = "failed"]
      BY <1>2 DEF Invoke
    <2>2. TreesKept'
      BY <2>1 DEF TreesKept, Intact
    <2>3. CASE ~Accepts(phase)
      <3>1. helper'.phase = "idle" /\ helper'.answer = "failed" /\ helper'.todo = <<>>
        BY <1>2, <2>1, <2>3 DEF SwapTyped, HelperIdle, HelperSound
      <3>2. WorkKnown'
        BY <3>1 DEF WorkKnown, AnswerTrue, HelperIdle
      <3> QED BY <1>2, <2>1, <2>2, <3>1, <3>2 DEF HelperIdle
    <2>4. CASE Accepts(phase)
      <3>1. helper'.phase = phase /\ helper'.todo = Plan(phase) /\ helper'.answer = Answer(phase) /\ ~HelperIdle'
        BY <2>1, <2>4 DEF HelperIdle, Phases
      <3>2. AnswerTrue'
        BY <2>1, <3>1 DEF AnswerTrue, Answer
      <3>3. CASE phase \in {"inputs", "build"}
        <4>1. journal' = "none"
          BY <2>1, <2>4, <3>3 DEF Accepts, NoJournal
        <4> QED BY <1>2, <2>1, <2>2, <3>1, <3>2, <3>3, <4>1 DEF WorkKnown, Answer
      <3>4. CASE phase = "prepare"
        <4>1. PrepareAt'
          BY <2>1, <2>4, <3>1, <3>4 DEF Accepts, NoJournal, Plan, PrepareAt
        <4> QED BY <1>2, <2>1, <2>2, <3>1, <3>2, <3>4, <4>1 DEF WorkKnown, Answer
      <3>5. CASE phase = "switch"
        <4>1. SwitchAt'
          BY <2>1, <2>4, <3>1, <3>5 DEF Accepts, Plan, SwitchAt, Intact
        <4> QED BY <1>2, <2>1, <2>2, <3>1, <3>2, <3>5, <4>1 DEF WorkKnown, Answer
      <3>6. CASE phase = "commit"
        <4>1. CommitAt'
          BY <2>1, <2>4, <3>1, <3>6 DEF Accepts, Plan, CommitAt
        <4> QED BY <1>2, <2>1, <2>2, <3>1, <3>2, <3>6, <4>1 DEF WorkKnown, Answer
      <3>7. CASE phase = "archive"
        <4>1. ArchiveAt'
          BY <2>1, <2>4, <3>1, <3>7, ArchivePlanned DEF Plan
        <4> QED BY <1>2, <2>1, <2>2, <3>1, <3>2, <3>7, <4>1 DEF WorkKnown, Answer
      <3>8. CASE phase = "recover"
        <4>1. CASE journal = "none"
          <5>1. helper'.todo = <<>>
            BY <3>1, <3>8, <4>1 DEF Plan
          <5>2. Recovering'
            BY <2>1, <4>1, <5>1 DEF Recovering
          <5> QED BY <1>2, <2>1, <2>2, <3>1, <3>2, <3>8, <4>1, <5>1, <5>2 DEF WorkKnown, Answer
        <4>2. CASE journal # "none"
          <5>1. helper'.todo = RecoverySteps
            BY <3>1, <3>8, <4>2 DEF Plan
          <5>2. /\ temp => RecoverAt(Tail(RecoverySteps)) /\ RecoverySteps # <<>> /\ Head(RecoverySteps) = "drop_temp"
                /\ ~temp => RecoverAt(RecoverySteps)
            BY <2>4, <3>8, <4>2, RecoveryPlanned DEF SwapTyped
          <5>3. temp => RecoverAt(Tail(helper.todo))'
            BY <2>1, <5>1, <5>2 DEF RecoverAt, Intact
          <5>4. ~temp => RecoverAt(helper.todo)'
            BY <2>1, <5>1, <5>2 DEF RecoverAt, Intact
          <5>5. Recovering'
            BY <2>1, <5>1, <5>2, <5>3, <5>4 DEF Recovering
          <5> QED BY <1>2, <2>1, <2>2, <3>1, <3>2, <3>8, <4>2, <5>5 DEF WorkKnown, Answer
        <4> QED BY <4>1, <4>2
      <3> QED BY <3>3, <3>4, <3>5, <3>6, <3>7, <3>8 DEF Phases
    <2> QED BY <2>3, <2>4
  <1> QED BY <1>1, <1>2

\* A step that leaves the swap's variables alone; a client may give up in it.
LEMMA SwapKept ==
  ASSUME TreesKept, WorkKnown, UNCHANGED <<dirs, journal, temp, checkpoint, filed, helper>>,
         timeouts > 0 => timeouts' > 0
  PROVE  TreesKept' /\ WorkKnown' /\ (Archived' <=> Archived) /\ (HelperIdle' <=> HelperIdle)
  <1>1. TreesKept'
    BY DEF TreesKept, Intact
  <1>2. WorkKnown'
    BY DEF WorkKnown, PrepareAt, SwitchAt, CommitAt, ArchiveAt, Recovering, RecoverAt, Archived, AnswerTrue, HelperIdle, Intact
  <1> QED BY <1>1, <1>2 DEF Archived, HelperIdle

\* A server that starts touches its directory; nothing that is checked by its checksum rests on it.
LEMMA TouchKept ==
  ASSUME SwapTyped, TreesKept, WorkKnown, UNCHANGED <<journal, temp, checkpoint, filed, helper, timeouts>>, ~Moving,
         journal \notin {"swapping", "recovering"}, journal = "prepared" => timeouts > 0,
         NEW c \in BOOLEAN, dirs' = [dirs EXCEPT !["active"].clean = c]
  PROVE  TreesKept' /\ WorkKnown' /\ (Archived' <=> Archived) /\ (HelperIdle' <=> HelperIdle)
  <1>1. dirs'["active"].build = dirs["active"].build /\ \A d \in Places \ {"active"} : dirs'[d] = dirs[d]
    <2>1. dirs \in [Places -> Trees]
      BY DEF SwapTyped
    <2>2. \A d \in Places \ {"active"} : dirs'[d] = dirs[d]
      BY <2>1
    <2> QED BY <2>1, <2>2, TouchedTyped
  <1>2. TreesKept' /\ (Archived' <=> Archived) /\ (HelperIdle' <=> HelperIdle)
    BY <1>1 DEF TreesKept, Intact, Archived, HelperIdle, Places
  <1>3. helper.phase = "prepare" => PrepareAt'
    BY <1>1 DEF WorkKnown, PrepareAt, Places
  <1>4. helper.phase = "switch" => SwitchAt'
    <2>1. helper.phase = "switch" => helper.todo = <<>>
      BY DEF Moving
    <2>2. helper.phase = "switch" => journal = "checked"
      BY <2>1, Left DEF WorkKnown, SwitchAt, SwitchSteps
    <2> QED BY <2>1, <2>2 DEF SwitchAt
  <1>5. helper.phase = "commit" => CommitAt'
    BY DEF WorkKnown, CommitAt
  <1>6. helper.phase = "archive" => ArchiveAt'
    BY <1>1, <1>2 DEF WorkKnown, ArchiveAt, Intact, Places
  <1>7. helper.phase = "recover" => Recovering'
    <2>1. helper.phase = "recover" => helper.todo = <<>>
      BY DEF Moving
    <2>2. helper.phase = "recover" => journal = "none" \/ (journal = "recovered" /\ ~temp)
      BY <2>1, Left DEF WorkKnown, Recovering, RecoverAt
    <2> QED BY <2>1, <2>2 DEF Recovering, RecoverAt
  <1>8. AnswerTrue'
    BY DEF WorkKnown, AnswerTrue, HelperIdle
  <1> QED BY <1>2, <1>3, <1>4, <1>5, <1>6, <1>7, <1>8 DEF WorkKnown

-----------------------------------------------------------------------------
(* The executor knows where its attempt is *)

\* Where each turn of the executor leads.
LEMMA Turns ==
  ASSUME executor \in ExecutorType, outer \in OuterType
  PROVE  /\ \A pc \in ExecutorPC : Go(pc) =>
              executor'.pc = pc /\ ~executor'.called /\ executor'.error = executor.error /\ executor'.final = executor.final
         /\ \A error \in Errors : Fail(error) =>
              executor'.pc = "undo" /\ ~executor'.called /\ executor'.error = error /\ executor'.final = executor.final
         /\ \A status \in OuterStates, error \in Errors, final \in ResultStates : Exit(status, error, final) =>
              executor'.pc = "report" /\ executor'.final = final /\ outer'.status = status /\ outer'.error = error
         /\ executor' = [executor EXCEPT !.called = TRUE] =>
              executor'.pc = executor.pc /\ executor'.called /\ executor'.error = executor.error /\ executor'.final = executor.final
  <1>1. \A pc \in ExecutorPC : Go(pc) =>
          executor'.pc = pc /\ ~executor'.called /\ executor'.error = executor.error /\ executor'.final = executor.final
    BY DEF Go, ExecutorType
  <1>2. \A error \in Errors : Fail(error) =>
          executor'.pc = "undo" /\ ~executor'.called /\ executor'.error = error /\ executor'.final = executor.final
    BY DEF Fail, ExecutorType
  <1>3. \A status \in OuterStates, error \in Errors, final \in ResultStates : Exit(status, error, final) =>
          executor'.pc = "report" /\ executor'.final = final /\ outer'.status = status /\ outer'.error = error
    BY DEF Exit, ExecutorType, OuterType
  <1>4. executor' = [executor EXCEPT !.called = TRUE] =>
          executor'.pc = executor.pc /\ executor'.called /\ executor'.error = executor.error /\ executor'.final = executor.final
    BY DEF ExecutorType
  <1> QED BY <1>1, <1>2, <1>3, <1>4

\* What holds of everybody else while the executor has the lock.
LEMMA Holding ==
  ASSUME IInv, Kept, ExecutorHolds
  PROVE  /\ outer.status = "running" /\ lock = "executor" /\ cli = "idle" /\ worker = "idle"
         /\ result # "completed" /\ executor.final # "completed"
         /\ executor \in ExecutorType /\ outer \in OuterType
         /\ filed => journal = "none"
         /\ timeouts \in Nat
  <1>1. outer.status = "running" /\ lock = "executor" /\ cli = "idle" /\ worker = "idle"
    BY DEF IInv, MutualExclusion
  <1>2. result # "completed" /\ executor.final # "completed"
    BY <1>1 DEF Kept, ClientsKnow, SuccessSound
  <1>3. executor \in ExecutorType /\ outer \in OuterType /\ timeouts \in Nat
    BY TypeParts, MigrationAssumption DEF IInv, TypedApart, OtherTypes
  <1> QED BY <1>1, <1>2, <1>3 DEF IInv, DecisionStands

\* The executor goes on under the lock: the operation journal has nothing to tell yet.
LEMMA HeldOn ==
  ASSUME IInv, Kept, ExecutorHolds, UNCHANGED <<outer, cli, worker, result>>, executor'.final = executor.final
  PROVE  BarrierSound' /\ FailureSound' /\ SuccessSound'
  BY Holding DEF BarrierSound, FailureSound, SuccessSound, Barred

\* It has left the lock: its record has nothing to tell any more.
LEMMA LeftLock ==
  ASSUME executor'.pc \in {"idle", "preflight", "report"}
  PROVE  EarlySound' /\ CallSound' /\ PhaseSound' /\ UndoSound'
  BY DEF EarlySound, Early, CallSound, PhaseSound, UndoSound, Undoing, Called, ExecutorHolds, Phases

\* The operation journal says failed, or that the archival is pending.
LEMMA FailsSound ==
  ASSUME IInv, Kept, ExecutorHolds, UNCHANGED <<cli, worker, result, journal, filed, helper, timeouts>>,
         executor'.final # "completed",
         \/ outer'.status = "pending"
         \/ outer'.status = "failed" /\ outer'.error = "unrestored"
         \/ /\ outer'.status = "failed" /\ HelperIdle
            /\ outer'.error = "safe" \/ timeouts = 0 => journal \in {"none", "recovered"} /\ ~filed
  PROVE  BarrierSound' /\ FailureSound' /\ SuccessSound'
  <1>1. BarrierSound' /\ SuccessSound'
    BY Holding DEF BarrierSound, SuccessSound, Barred
  <1>2. FailureSound'
    BY Holding DEF FailureSound, HelperIdle
  <1> QED BY <1>1, <1>2

\* The steps before the swap.
LEMMA BeforeKnows ==
  ASSUME IInv, Kept, Check \/ Backup \/ InputsMissing \/ Stop
  PROVE  Kept'
  <1> USE DEF Kept
  <1>1. /\ UNCHANGED <<dirs, journal, temp, checkpoint, filed, helper, cli, worker, result, timeouts>>
        /\ executor.pc \in {"check", "stop", "backup", "inputs"} /\ ~Called
        /\ \/ UNCHANGED outer /\ \/ executor.pc = "check" /\ Go("stop")
                                 \/ executor.pc = "stop" /\ Go("backup")
                                 \/ executor.pc = "backup" /\ Go("inputs")
                                 \/ \E error \in {"safe", "other"} : Fail(error)
           \/ Exit("failed", "other", "failed")
    BY DEF Check, Backup, InputsMissing, Stop, swapVars, boundVars, Called, Phases
  <1>2. ExecutorHolds
    BY <1>1 DEF ExecutorHolds
  <1>3. journal = "none" /\ ~temp /\ ~filed /\ HelperIdle
    BY <1>1, <1>2 DEF ClientsKnow, EarlySound, Early, CallSound
  <1>4. helper.todo = <<>>
    BY <1>3 DEF IInv, HelperSound
  <1>5. TreesKept' /\ WorkKnown' /\ (HelperIdle' <=> HelperIdle)
    BY <1>1, SwapKept
  <1>6. {"stop", "backup", "inputs", "undo"} \subseteq ExecutorPC /\ {"safe", "other"} \subseteq Errors
        /\ "failed" \in OuterStates /\ "failed" \in ResultStates
    BY DEF ExecutorPC, Errors, OuterStates, ResultStates
  <1>7. CASE UNCHANGED outer /\ \E pc \in {"stop", "backup", "inputs"} : Go(pc)
    <2>1. executor'.pc \in {"stop", "backup", "inputs"} /\ ~executor'.called /\ executor'.final = executor.final
      BY <1>2, <1>6, <1>7, Turns, Holding
    <2>2. EarlySound' /\ CallSound' /\ PhaseSound' /\ UndoSound'
      BY <1>1, <1>3, <1>4, <1>5, <2>1 DEF EarlySound, CallSound, PhaseSound, UndoSound, Undoing, Called
    <2>3. BarrierSound' /\ FailureSound' /\ SuccessSound'
      BY <1>1, <1>2, <1>7, <2>1, HeldOn
    <2> QED BY <1>5, <2>2, <2>3 DEF ClientsKnow
  <1>8. CASE UNCHANGED outer /\ \E error \in {"safe", "other"} : Fail(error)
    <2>1. executor'.pc = "undo" /\ ~executor'.called /\ executor'.final = executor.final
      BY <1>2, <1>6, <1>8, Turns, Holding
    <2>2. EarlySound' /\ CallSound' /\ PhaseSound' /\ UndoSound'
      BY <1>1, <1>3, <1>4, <1>5, <2>1
      DEF EarlySound, Early, CallSound, PhaseSound, UndoSound, Undoing, Called, Phases, Decided
    <2>3. BarrierSound' /\ FailureSound' /\ SuccessSound'
      BY <1>1, <1>2, <1>8, <2>1, HeldOn
    <2> QED BY <1>5, <2>2, <2>3 DEF ClientsKnow
  <1>9. CASE Exit("failed", "other", "failed")
    <2>1. executor'.pc = "report" /\ executor'.final = "failed" /\ outer'.status = "failed" /\ outer'.error = "other"
      BY <1>2, <1>6, <1>9, Turns, Holding
    <2>2. BarrierSound' /\ FailureSound' /\ SuccessSound'
      BY <1>1, <1>2, <1>3, <2>1, FailsSound
    <2> QED BY <1>5, <2>1, <2>2, LeftLock DEF ClientsKnow
  <1> QED BY <1>1, <1>7, <1>8, <1>9

\* A phase of the helper is asked for, unless one is still at work.
LEMMA CallKnows ==
  ASSUME IInv, Kept, Call
  PROVE  Kept'
  <1> USE DEF Kept
  <1> DEFINE phase == executor.pc
  <1>1. /\ phase \in Phases /\ ~executor.called /\ Invoke(phase) /\ executor' = [executor EXCEPT !.called = TRUE]
        /\ UNCHANGED <<outer, cli, worker, result, timeouts>> /\ SwapTyped
    BY TypeParts, SwapParts DEF Call, boundVars, IInv, TypedApart
  <1>2. ExecutorHolds /\ ~Called
    BY <1>1 DEF ExecutorHolds, Phases, Called
  <1>3. executor'.pc = phase /\ executor'.called /\ executor'.error = executor.error /\ executor'.final = executor.final
    BY <1>1, <1>2, Turns, Holding
  <1>4. /\ TreesKept' /\ WorkKnown' /\ UNCHANGED <<dirs, journal, temp, checkpoint, filed>>
        /\ ~HelperIdle => helper' = helper
        /\ HelperIdle => \/ HelperIdle' /\ helper'.todo = <<>> /\ helper'.answer = "failed"
                         \/ /\ helper'.phase = phase /\ ~HelperIdle' /\ helper'.answer = Answer(phase)
                            /\ phase = "recover" /\ journal = "none" => helper'.todo = <<>>
        /\ helper'.answer # "none"
    BY <1>1, InvokeKnown DEF IInv
  <1>5. phase # "recover" => HelperIdle
    BY <1>1, <1>2 DEF ClientsKnow, CallSound, Phases
  <1>6. EarlySound'
    BY <1>1, <1>3, <1>4, <1>5 DEF ClientsKnow, EarlySound, Early, Phases
  <1>7. CallSound'
    BY <1>1, <1>3, <1>4, <1>5 DEF CallSound, Called, HelperIdle, Answer
  <1>8. PhaseSound'
    BY <1>1, <1>3, <1>4, <1>5, <1>2 DEF ClientsKnow, PhaseSound, Phases, Decided, HelperIdle, Answer
  <1>9. UndoSound'
    <2>1. phase = "recover" /\ Clean => ~Decided /\ HelperIdle
      BY <1>2 DEF ClientsKnow, UndoSound, Undoing
    <2>2. Answer("recover") # "done"
      BY DEF Answer
    <2> QED BY <1>1, <1>3, <1>4, <2>1, <2>2 DEF UndoSound, Undoing, Clean, Called, Decided, HelperIdle, Phases
  <1>10. BarrierSound' /\ FailureSound' /\ SuccessSound'
    BY <1>1, <1>2, <1>3, HeldOn
  <1> QED BY <1>4, <1>6, <1>7, <1>8, <1>9, <1>10 DEF ClientsKnow

\* The answer of a phase is read when the helper rests.
LEMMA ReturnKnows ==
  ASSUME IInv, Kept, Return
  PROVE  Kept'
  <1> USE DEF Kept
  <1> DEFINE phase == executor.pc
  <1>1. /\ phase \in Phases /\ executor.called /\ HelperIdle /\ Called
        /\ UNCHANGED <<dirs, journal, temp, checkpoint, filed, helper, cli, worker, result, timeouts>>
    BY DEF Return, swapVars, boundVars, Called
  <1>2. ExecutorHolds
    BY <1>1 DEF ExecutorHolds, Phases
  <1>3. TreesKept' /\ WorkKnown' /\ (Archived' <=> Archived) /\ HelperIdle'
    BY <1>1, SwapKept
  <1>4. helper.todo = <<>> /\ helper.answer # "none"
    BY <1>1 DEF IInv, HelperSound, ClientsKnow, CallSound
  <1>5. phase # "recover" => helper.answer = "failed" \/ (helper.answer = "done" /\ Finished(phase))
    BY <1>1 DEF ClientsKnow, CallSound
  <1>6. /\ {"build", "prepare", "switch", "candidate", "archive", "restore", "revive", "undo"} \subseteq ExecutorPC
        /\ {"safe", "other", "unrestored", "none"} \subseteq Errors
        /\ {"failed", "pending"} \subseteq OuterStates /\ {"failed", "pending"} \subseteq ResultStates
    BY DEF ExecutorPC, Errors, OuterStates, ResultStates
  <1>7. CASE helper.answer # "failed"
    <2>1. Go(AfterPhase(phase)) /\ UNCHANGED outer
      BY <1>7 DEF Return
    <2>2. AfterPhase(phase) \in {"build", "prepare", "switch", "candidate", "archive", "restore", "revive"}
      BY DEF AfterPhase
    <2>3. /\ executor'.pc = AfterPhase(phase) /\ ~executor'.called
          /\ executor'.error = executor.error /\ executor'.final = executor.final
      BY <1>2, <1>6, <2>1, <2>2, Turns, Holding
    <2>4. /\ executor'.pc = "build" => phase = "inputs"
          /\ executor'.pc = "prepare" => phase = "build"
          /\ executor'.pc = "switch" => phase = "prepare"
          /\ executor'.pc = "candidate" => phase = "switch"
          /\ executor'.pc = "archive" => phase = "commit"
          /\ executor'.pc = "restore" => phase = "archive"
          /\ executor'.pc = "revive" => phase = "recover"
      BY <1>1, <2>3 DEF AfterPhase, Phases
    <2>5. EarlySound'
      BY <1>1, <1>4, <2>2, <2>3, <2>4 DEF ClientsKnow, EarlySound, Early
    <2>6. CallSound'
      BY <1>3, <2>2, <2>3, <2>4 DEF CallSound, Called
    <2>7. PhaseSound'
      <3>1. executor'.pc = "prepare" => journal = "none" /\ ~filed
        BY <2>4 DEF ClientsKnow, EarlySound, Early
      <3>2. executor'.pc = "switch" => journal \in {"none", "prepared"} /\ ~filed
        BY <2>4 DEF ClientsKnow, PhaseSound
      <3>3. executor'.pc = "candidate" => journal = "checked"
        BY <1>5, <1>7, <2>4 DEF Finished
      <3>4. executor'.pc = "restore" => Archived
        BY <1>5, <1>7, <2>4 DEF Finished
      <3> QED BY <1>1, <1>3, <2>2, <2>3, <3>1, <3>2, <3>3, <3>4 DEF PhaseSound, Decided
    <2>8. UndoSound'
      <3>1. SUFFICES ASSUME executor'.pc = "revive" PROVE UndoSound'
        BY <2>2, <2>3 DEF UndoSound, Undoing
      <3>2. phase = "recover" /\ helper.answer \in {"done", "recovered", "no_swap"}
        <4>1. helper.answer \in Answers
          BY TypeParts, SwapParts DEF IInv, TypedApart, SwapTyped
        <4> QED BY <1>4, <1>7, <2>4, <3>1, <4>1 DEF Answers
      <3>3. /\ helper.answer = "recovered" => journal = "recovered"
            /\ helper.answer = "no_swap" => journal = "none"
            /\ helper.answer = "done" => journal \in {"none", "prepared", "checked", "committed"}
        BY <1>1 DEF WorkKnown, AnswerTrue
      <3>4. Clean => ~Decided /\ helper.answer # "done"
        BY <1>1, <3>2 DEF ClientsKnow, UndoSound, Undoing
      <3>5. Clean \/ timeouts > 0
        BY <1>2, Holding DEF Clean
      <3> QED BY <1>1, <1>3, <2>3, <3>1, <3>2, <3>3, <3>4, <3>5 DEF UndoSound, Undoing, Clean, Called, Phases, Decided
    <2>9. BarrierSound' /\ FailureSound' /\ SuccessSound'
      BY <1>1, <1>2, <2>1, <2>3, HeldOn
    <2> QED BY <1>3, <2>5, <2>6, <2>7, <2>8, <2>9 DEF ClientsKnow
  <1>8. CASE helper.answer = "failed" /\ phase \in {"recover", "archive"}
    <2>1. Exit("failed", "unrestored", "failed") \/ Exit("pending", "none", "pending")
      BY <1>8 DEF Return
    <2>2. /\ executor'.pc = "report" /\ executor'.final # "completed"
          /\ outer'.status = "pending" \/ (outer'.status = "failed" /\ outer'.error = "unrestored")
      BY <1>2, <1>6, <2>1, Turns, Holding
    <2>3. BarrierSound' /\ FailureSound' /\ SuccessSound'
      BY <1>1, <1>2, <2>2, FailsSound
    <2> QED BY <1>3, <2>2, <2>3, LeftLock DEF ClientsKnow
  <1>9. CASE helper.answer = "failed" /\ phase \notin {"recover", "archive"}
    <2>1. UNCHANGED outer /\ \E error \in {"safe", "other"} : Fail(error)
      BY <1>9 DEF Return
    <2>2. executor'.pc = "undo" /\ ~executor'.called /\ executor'.final = executor.final
      BY <1>2, <1>6, <2>1, Turns, Holding
    <2>3. ~Decided
      <3>1. phase \in {"inputs", "build"} => ~Decided
        BY DEF ClientsKnow, EarlySound, Early, Decided
      <3>2. phase = "prepare" => ~Decided
        BY DEF ClientsKnow, PhaseSound, Decided
      <3>3. phase = "switch" => ~Decided
        BY DEF ClientsKnow, PhaseSound, Decided
      <3>4. phase = "commit" => ~Decided
        BY <1>1, <1>2, <1>9, Holding DEF ClientsKnow, PhaseSound, Decided
      <3> QED BY <1>1, <1>9, <3>1, <3>2, <3>3, <3>4 DEF Phases
    <2>4. EarlySound' /\ CallSound' /\ PhaseSound' /\ UndoSound'
      BY <1>1, <1>3, <2>2, <2>3 DEF EarlySound, Early, CallSound, PhaseSound, UndoSound, Undoing, Called, Phases, Decided
    <2>5. BarrierSound' /\ FailureSound' /\ SuccessSound'
      BY <1>1, <1>2, <2>1, <2>2, HeldOn
    <2> QED BY <1>3, <2>4, <2>5 DEF ClientsKnow
  <1> QED BY <1>7, <1>8, <1>9

\* A client that stops waiting leaves the helper at work: what it did is unknown from now on.
LEMMA GiveUpKnows ==
  ASSUME IInv, Kept, GiveUp
  PROVE  Kept'
  <1> USE DEF Kept
  <1>1. /\ executor.pc \in Phases /\ timeouts' = timeouts + 1
        /\ UNCHANGED <<dirs, journal, temp, checkpoint, filed, helper, cli, worker, result>>
    BY DEF GiveUp, swapVars
  <1>2. ExecutorHolds
    BY <1>1 DEF ExecutorHolds, Phases
  <1>3. timeouts' # 0 /\ (timeouts > 0 => timeouts' > 0)
    BY <1>1, <1>2, Holding
  <1>4. TreesKept' /\ WorkKnown' /\ (Archived' <=> Archived) /\ (HelperIdle' <=> HelperIdle)
    BY <1>1, <1>3, SwapKept
  <1>5. {"other", "unrestored", "none"} \subseteq Errors /\ {"failed", "pending"} \subseteq OuterStates
        /\ {"failed", "pending"} \subseteq ResultStates
    BY DEF Errors, OuterStates, ResultStates
  <1>6. CASE Exit("failed", "unrestored", "failed") \/ Exit("pending", "none", "pending")
    <2>1. /\ executor'.pc = "report" /\ executor'.final # "completed"
          /\ outer'.status = "pending" \/ (outer'.status = "failed" /\ outer'.error = "unrestored")
      BY <1>2, <1>5, <1>6, Turns, Holding
    <2>2. BarrierSound' /\ SuccessSound' /\ FailureSound'
      BY <1>1, <1>2, <2>1, Holding DEF BarrierSound, SuccessSound, FailureSound, Barred
    <2> QED BY <1>4, <2>1, <2>2, LeftLock DEF ClientsKnow
  <1>7. CASE Fail("other") /\ UNCHANGED outer
    <2>1. executor'.pc = "undo" /\ ~executor'.called /\ executor'.error = "other" /\ executor'.final = executor.final
      BY <1>2, <1>5, <1>7, Turns, Holding
    <2>2. EarlySound' /\ CallSound' /\ PhaseSound' /\ UndoSound'
      BY <1>3, <2>1 DEF EarlySound, Early, CallSound, PhaseSound, UndoSound, Undoing, Called, Phases, Clean
    <2>3. BarrierSound' /\ FailureSound' /\ SuccessSound'
      BY <1>1, <1>2, <1>7, <2>1, HeldOn
    <2> QED BY <1>4, <2>2, <2>3 DEF ClientsKnow
  <1> QED BY <1>6, <1>7 DEF GiveUp

\* The probe of the candidate, and the stop before a rollback.
LEMMA ProbeKnows ==
  ASSUME IInv, Kept, Probe \/ Undo
  PROVE  Kept'
  <1> USE DEF Kept
  <1>1. UNCHANGED <<dirs, journal, temp, checkpoint, filed, helper, cli, worker, result, timeouts>> /\ ~Called
    BY DEF Probe, Undo, swapVars, Called, Phases
  <1>2. ExecutorHolds
    BY DEF ExecutorHolds, Probe, Undo
  <1>3. TreesKept' /\ WorkKnown' /\ (Archived' <=> Archived) /\ (HelperIdle' <=> HelperIdle)
    BY <1>1, SwapKept
  <1>4. /\ {"again", "commit", "undo", "recover"} \subseteq ExecutorPC
        /\ {"other", "unrestored"} \subseteq Errors /\ "failed" \in OuterStates /\ "failed" \in ResultStates
    BY DEF ExecutorPC, Errors, OuterStates, ResultStates
  <1>5. CASE Probe
    <2>1. executor.pc \in {"candidate", "again"} /\ UNCHANGED outer /\ (Go("again") \/ Go("commit") \/ Fail("other"))
      BY <1>5 DEF Probe
    <2>2. journal = "checked" /\ HelperIdle /\ ~filed
      BY <1>2, <2>1, Holding DEF ClientsKnow, PhaseSound, IInv, QuietAfterSwap
    <2>3. executor'.pc \in {"again", "commit", "undo"} /\ ~executor'.called /\ executor'.final = executor.final
      BY <1>2, <1>4, <2>1, Turns, Holding
    <2>4. EarlySound' /\ CallSound' /\ PhaseSound' /\ UndoSound'
      BY <1>1, <1>3, <2>2, <2>3 DEF EarlySound, Early, CallSound, PhaseSound, UndoSound, Undoing, Called, Decided
    <2>5. BarrierSound' /\ FailureSound' /\ SuccessSound'
      BY <1>1, <1>2, <2>1, <2>3, HeldOn
    <2> QED BY <1>3, <2>4, <2>5 DEF ClientsKnow
  <1>6. CASE Undo /\ Go("recover") /\ UNCHANGED outer
    <2>1. executor.pc = "undo" /\ UNCHANGED outer
      BY <1>6 DEF Undo
    <2>2. executor'.pc = "recover" /\ ~executor'.called /\ executor'.final = executor.final /\ executor'.error = executor.error
      BY <1>2, <1>4, <1>6, Turns, Holding
    <2>3. UndoSound'
      BY <1>1, <1>3, <2>1, <2>2 DEF ClientsKnow, UndoSound, Undoing, Called, Clean, Decided
    <2>4. EarlySound' /\ CallSound' /\ PhaseSound'
      BY <2>2 DEF EarlySound, Early, CallSound, PhaseSound, Called
    <2>5. BarrierSound' /\ FailureSound' /\ SuccessSound'
      BY <1>1, <1>2, <2>1, <2>2, HeldOn
    <2> QED BY <1>3, <2>3, <2>4, <2>5 DEF ClientsKnow
  <1>7. CASE Undo /\ Exit("failed", "unrestored", "failed")
    <2>1. /\ executor'.pc = "report" /\ executor'.final = "failed"
          /\ outer'.status = "failed" /\ outer'.error = "unrestored"
      BY <1>2, <1>4, <1>7, Turns, Holding
    <2>2. BarrierSound' /\ FailureSound' /\ SuccessSound'
      BY <1>1, <1>2, <2>1, FailsSound
    <2> QED BY <1>3, <2>1, <2>2, LeftLock DEF ClientsKnow
  <1> QED BY <1>5, <1>6, <1>7 DEF Undo

\* The executor starts the server: the candidate, or what was there before.
LEMMA StartKnows ==
  ASSUME IInv, Kept, Launch \/ Revive \/ Restore
  PROVE  Kept'
  <1> USE DEF Kept
  <1>1. UNCHANGED <<journal, temp, checkpoint, filed, helper, cli, worker, result, timeouts>> /\ ~Called
    BY DEF Launch, Revive, Restore, boundVars, Called, Phases
  <1>2. ExecutorHolds
    BY DEF ExecutorHolds, Launch, Revive, Restore
  <1>3. HelperIdle /\ ~Moving /\ SwapTyped
    BY TypeParts, SwapParts DEF Launch, Revive, Restore, IInv, TypedApart, QuietAfterSwap, HelperSound, Moving
  <1>4. journal \notin {"swapping", "recovering"} /\ (journal = "prepared" => timeouts > 0)
    <2>1. Launch => journal = "checked"
      BY DEF Launch, ClientsKnow, PhaseSound
    <2>2. Revive => journal \in {"none", "recovered", "checked", "committed"} \/ (journal = "prepared" /\ timeouts > 0)
      BY DEF Revive, ClientsKnow, UndoSound
    <2>3. Restore => journal = "none"
      BY DEF Restore, ClientsKnow, PhaseSound, Archived
    <2> QED BY <2>1, <2>2, <2>3
  <1>5. dirs' = dirs \/ \E c \in BOOLEAN : dirs' = [dirs EXCEPT !["active"].clean = c]
    <2>1. dirs["active"].clean \in BOOLEAN
      BY <1>3 DEF SwapTyped, Places, Trees
    <2>2. \A state : Runs(state) => \E c \in BOOLEAN : dirs' = [dirs EXCEPT !["active"].clean = c]
      BY <2>1 DEF Runs
    <2> QED BY <2>2 DEF Launch, Revive, Restore, Restart
  <1>6. TreesKept' /\ WorkKnown' /\ (Archived' <=> Archived) /\ (HelperIdle' <=> HelperIdle)
    <2>1. CASE dirs' = dirs
      BY <1>1, <2>1, SwapKept
    <2>2. CASE \E c \in BOOLEAN : dirs' = [dirs EXCEPT !["active"].clean = c]
      BY <1>1, <1>3, <1>4, <2>2, TouchKept
    <2> QED BY <1>5, <2>1, <2>2
  <1>7. CASE Launch
    <2>1. executor.pc \in {"candidate", "again"} /\ UNCHANGED outer /\ executor' = [executor EXCEPT !.called = TRUE]
      BY <1>7 DEF Launch
    <2>2. executor'.pc = executor.pc /\ executor'.final = executor.final
      BY <1>2, <2>1, Turns, Holding
    <2>3. journal = "checked"
      BY <2>1 DEF ClientsKnow, PhaseSound
    <2>4. EarlySound' /\ CallSound' /\ PhaseSound' /\ UndoSound'
      BY <1>1, <1>3, <1>6, <2>1, <2>2, <2>3 DEF EarlySound, Early, CallSound, PhaseSound, UndoSound, Undoing, Called, Phases
    <2>5. BarrierSound' /\ FailureSound' /\ SuccessSound'
      BY <1>1, <1>2, <2>1, <2>2, HeldOn
    <2> QED BY <1>6, <2>4, <2>5 DEF ClientsKnow
  <1>8. CASE Revive
    <2>1. /\ executor.pc = "revive"
          /\ Exit("failed", executor.error, "failed") \/ Exit("failed", "unrestored", "failed")
      BY <1>8 DEF Revive, Restart
    <2>2. executor.error \in Errors /\ "unrestored" \in Errors /\ "failed" \in OuterStates /\ "failed" \in ResultStates
      BY <1>2, Holding DEF ExecutorType, Errors, OuterStates, ResultStates
    <2>3. /\ executor'.pc = "report" /\ executor'.final = "failed"
          /\ outer'.status = "failed" /\ outer'.error \in {"unrestored", executor.error}
      BY <1>2, <2>1, <2>2, Turns, Holding
    <2>4. Clean => journal \in {"none", "recovered"} /\ ~filed
      BY <2>1 DEF ClientsKnow, UndoSound, Undoing, Decided
    <2>5. BarrierSound' /\ FailureSound' /\ SuccessSound'
      BY <1>1, <1>2, <1>3, <2>3, <2>4, FailsSound DEF Clean
    <2> QED BY <1>6, <2>3, <2>5, LeftLock DEF ClientsKnow
  <1>9. CASE Restore
    <2>1. /\ Archived
          /\ Exit("completed", "none", "completed") \/ Exit("pending", "none", "pending")
      BY <1>9 DEF Restore, Restart, ClientsKnow, PhaseSound
    <2>2. /\ "none" \in Errors /\ {"completed", "pending"} \subseteq OuterStates
          /\ {"completed", "pending"} \subseteq ResultStates
      BY DEF Errors, OuterStates, ResultStates
    <2>3. executor'.pc = "report" /\ outer'.status \in {"completed", "pending"}
      BY <1>2, <2>1, <2>2, Turns, Holding
    <2>4. BarrierSound' /\ FailureSound' /\ SuccessSound'
      BY <1>1, <1>2, <1>3, <1>6, <2>1, <2>3, Holding DEF BarrierSound, FailureSound, SuccessSound, Archived
    <2> QED BY <1>6, <2>3, <2>4, LeftLock DEF ClientsKnow
  <1> QED BY <1>7, <1>8, <1>9

\* Before the lock, and after it.
LEMMA OutsideKnows ==
  ASSUME IInv, Kept, Request \/ Preflight \/ Lock \/ ReportResult
  PROVE  Kept'
  <1> USE DEF Kept
  <1>1. /\ UNCHANGED <<dirs, journal, temp, checkpoint, filed, helper, cli, worker, timeouts>>
        /\ executor \in ExecutorType /\ outer \in OuterType /\ SwapTyped
    BY TypeParts, SwapParts DEF Request, Preflight, Lock, ReportResult, swapVars, boundVars, IInv, TypedApart
  <1>2. TreesKept' /\ WorkKnown' /\ (Archived' <=> Archived) /\ (HelperIdle' <=> HelperIdle)
    BY <1>1, SwapKept
  <1>3. CASE Request
    <2>1. UNCHANGED outer /\ result' = "running" /\ executor'.pc = "preflight" /\ executor'.final = "none"
      BY <1>3 DEF Request, Resting
    <2>2. BarrierSound' /\ FailureSound' /\ SuccessSound'
      BY <1>1, <1>2, <2>1 DEF ClientsKnow, BarrierSound, FailureSound, SuccessSound, Barred
    <2> QED BY <1>2, <2>1, <2>2, LeftLock DEF ClientsKnow
  <1>4. CASE ReportResult
    <2>1. UNCHANGED outer /\ result' = executor.final /\ executor'.pc = "idle" /\ executor'.final = "none"
      BY <1>4 DEF ReportResult, Resting
    <2>2. BarrierSound' /\ FailureSound' /\ SuccessSound'
      BY <1>1, <1>2, <2>1 DEF ClientsKnow, BarrierSound, FailureSound, SuccessSound, Barred
    <2> QED BY <1>2, <2>1, <2>2, LeftLock DEF ClientsKnow
  <1>5. CASE (Preflight \/ Lock) /\ executor' = [executor EXCEPT !.pc = "report", !.final = "failed"] /\ UNCHANGED outer
    <2>1. UNCHANGED <<outer, result>> /\ executor'.pc = "report" /\ executor'.final = "failed"
      BY <1>1, <1>5 DEF Preflight, Lock, ExecutorType
    <2>2. BarrierSound' /\ FailureSound' /\ SuccessSound'
      BY <1>1, <1>2, <2>1 DEF ClientsKnow, BarrierSound, FailureSound, SuccessSound, Barred
    <2> QED BY <1>2, <2>1, <2>2, LeftLock DEF ClientsKnow
  <1>6. CASE Preflight /\ SlotEmpty /\ dirs["active"].build = "old" /\ executor' = [executor EXCEPT !.pc = "lock"]
    <2>1. UNCHANGED <<outer, result>> /\ executor'.pc = "lock" /\ executor'.final = executor.final /\ executor.pc = "preflight"
      BY <1>1, <1>6 DEF Preflight, ExecutorType
    <2>2. journal = "none" /\ ~temp /\ ~filed /\ dirs["stage"] = None
      BY <1>6 DEF SlotEmpty, NoJournal, Empty, IInv, DecisionStands, Decided
    <2>3. helper.todo = <<>> \/ helper.phase \in {"inputs", "build"}
      <3>1. SUFFICES ASSUME helper.todo # <<>> PROVE helper.phase \in {"inputs", "build"}
        OBVIOUS
      <3>2. helper.phase \in Phases
        BY <1>1, <3>1 DEF IInv, HelperSound, SwapTyped, HelperIdle
      <3>3. helper.phase # "prepare"
        BY <2>2, <3>1, TreeFacts DEF WorkKnown, PrepareAt
      <3>4. helper.phase \notin {"switch", "recover", "commit", "archive"}
        BY <2>2, <3>1 DEF IInv, HelperSound, Decided
      <3> QED BY <3>2, <3>3, <3>4 DEF Phases
    <2>4. EarlySound' /\ CallSound' /\ PhaseSound' /\ UndoSound'
      BY <1>1, <2>1, <2>2, <2>3 DEF EarlySound, CallSound, PhaseSound, UndoSound, Undoing, Called, ExecutorHolds, Phases
    <2>5. BarrierSound' /\ FailureSound' /\ SuccessSound'
      BY <1>1, <1>2, <2>1 DEF ClientsKnow, BarrierSound, FailureSound, SuccessSound, Barred
    <2> QED BY <1>2, <2>4, <2>5 DEF ClientsKnow
  <1>7. CASE Lock /\ ~Barred /\ lock = "none" /\ Go("check") /\ outer' = [status |-> "running", attempt |-> attempts, error |-> "none"]
    <2>1. UNCHANGED result /\ outer'.status = "running" /\ executor.pc = "lock"
      BY <1>7 DEF Lock
    <2>2. executor'.pc = "check" /\ ~executor'.called /\ executor'.final = executor.final
      <3>1. "check" \in ExecutorPC
        BY DEF ExecutorPC
      <3> QED BY <1>1, <1>7, <3>1, Turns
    <2>3. journal = "none" /\ ~temp /\ ~filed /\ helper.todo = <<>> /\ HelperIdle
      BY <1>7, <2>1 DEF ClientsKnow, EarlySound, Early, BarrierSound, IInv, HelperSound
    <2>4. EarlySound' /\ CallSound' /\ PhaseSound' /\ UndoSound'
      BY <1>1, <1>2, <2>2, <2>3 DEF EarlySound, CallSound, PhaseSound, UndoSound, Undoing, Called, Phases
    <2>5. worker = "idle" /\ result # "completed" /\ executor.final # "completed"
      BY <1>7, <2>3 DEF IInv, MutualExclusion, ClientsKnow, SuccessSound, Archived
    <2>6. BarrierSound' /\ FailureSound' /\ SuccessSound'
      BY <1>1, <2>1, <2>2, <2>5 DEF BarrierSound, FailureSound, SuccessSound, Barred
    <2> QED BY <1>2, <2>4, <2>6 DEF ClientsKnow
  <1> QED BY <1>3, <1>4, <1>5, <1>6, <1>7 DEF Preflight, Lock

\* A step of somebody else, under a lock of his own or none, that keeps what is archived and
\* lets the executor be: all it may ask of the helper is a recovery or an archival.
LEMMA OthersKnow ==
  ASSUME IInv, Kept, ~ExecutorHolds, UNCHANGED <<executor, journal, temp, filed>>,
         executor.pc = "lock" => helper' = helper \/ helper'.todo = <<>>
  PROVE  EarlySound' /\ CallSound' /\ PhaseSound' /\ UndoSound'
  BY DEF ExecutorHolds, Kept, ClientsKnow, EarlySound, Early, CallSound, PhaseSound, UndoSound, Undoing, Called, Phases

\* The recovery that root runs.
LEMMA CliKnows ==
  ASSUME IInv, Kept, CliStep
  PROVE  Kept'
  <1> USE DEF Kept
  <1>1. /\ UNCHANGED <<executor, worker, result, timeouts>> /\ SwapTyped /\ outer \in OuterType
        /\ lock \in {"none", "cli"} /\ outer.status \in {"failed", "interrupted"}
    BY TypeParts, SwapParts DEF CliStep, CliLock, CliProve, CliFinish, boundVars, IInv, TypedApart, MutualExclusion
  <1>2. ~ExecutorHolds /\ result # "completed" /\ executor.final # "completed" /\ worker = "idle"
    BY <1>1 DEF IInv, MutualExclusion, ClientsKnow, SuccessSound
  <1>3. SuccessSound'
    BY <1>1, <1>2 DEF SuccessSound
  <1>4. CASE CliLock
    <2>1. UNCHANGED <<dirs, journal, temp, checkpoint, filed, helper, outer>> /\ cli = "idle" /\ cli' = "prove"
      BY <1>4 DEF CliLock, swapVars
    <2>2. TreesKept' /\ WorkKnown' /\ (HelperIdle' <=> HelperIdle)
      BY <1>1, <2>1, SwapKept
    <2>3. BarrierSound' /\ FailureSound'
      BY <1>1, <2>1, <2>2 DEF BarrierSound, FailureSound, ClientsKnow, Barred
    <2> QED BY <1>1, <1>2, <1>3, <2>1, <2>2, <2>3, OthersKnow DEF ClientsKnow
  <1>5. CASE CliProve /\ cli' = "wait" /\ Invoke("recover") /\ UNCHANGED outer
    <2>1. "recover" \in Phases /\ cli = "prove"
      BY <1>5 DEF Phases, CliProve
    <2>2. /\ TreesKept' /\ WorkKnown' /\ UNCHANGED <<dirs, journal, temp, checkpoint, filed>>
          /\ ~HelperIdle => helper' = helper
          /\ HelperIdle => \/ HelperIdle' /\ helper'.todo = <<>>
                           \/ /\ helper'.phase = "recover"
                              /\ journal = "none" => helper'.todo = <<>>
      BY <1>1, <1>5, <2>1, InvokeKnown DEF IInv
    <2>3. executor.pc = "lock" => helper' = helper \/ helper'.todo = <<>>
      BY <2>2 DEF ClientsKnow, EarlySound, Early
    <2>4. BarrierSound' /\ FailureSound'
      BY <1>1, <1>5, <2>1, <2>2 DEF BarrierSound, FailureSound, ClientsKnow, Barred, HelperIdle
    <2> QED BY <1>1, <1>2, <1>3, <2>2, <2>3, <2>4, OthersKnow DEF ClientsKnow
  <1>6. CASE (CliProve \/ CliFinish) /\ UNCHANGED swapVars /\ HelperIdle /\ CliRefuses
    <2>1. UNCHANGED <<dirs, journal, temp, checkpoint, filed, helper, outer>>
      BY <1>6 DEF swapVars, CliRefuses
    <2>2. TreesKept' /\ WorkKnown' /\ (HelperIdle' <=> HelperIdle)
      BY <1>1, <2>1, SwapKept
    <2>3. BarrierSound' /\ FailureSound'
      BY <1>1, <1>6, <2>1, <2>2 DEF BarrierSound, FailureSound, ClientsKnow, Barred
    <2> QED BY <1>1, <1>2, <1>3, <2>1, <2>2, <2>3, OthersKnow DEF ClientsKnow
  <1>7. CASE (CliProve \/ CliFinish) /\ UNCHANGED swapVars /\ HelperIdle /\ Recovered /\ journal \in {"none", "recovered"} /\ ~filed /\ ~temp
    <2>1. UNCHANGED <<dirs, journal, temp, checkpoint, filed, helper>>
      BY <1>7 DEF swapVars
    <2>2. outer'.status = "recovered"
      BY <1>1, <1>7 DEF Recovered, OuterType
    <2>3. TreesKept' /\ WorkKnown' /\ (HelperIdle' <=> HelperIdle)
      BY <1>1, <2>1, SwapKept
    <2>4. BarrierSound' /\ FailureSound'
      BY <1>1, <1>7, <2>1, <2>2, <2>3 DEF BarrierSound, FailureSound
    <2> QED BY <1>1, <1>2, <1>3, <2>1, <2>3, <2>4, OthersKnow DEF ClientsKnow
  <1>8. CASE CliProve
    <2>1. CASE NoJournal /\ outer.status = "failed" /\ outer.error = "safe"
      <3>1. journal = "none" /\ ~temp /\ ~filed /\ HelperIdle
        BY <1>8, <2>1 DEF CliProve, NoJournal, ClientsKnow, FailureSound
      <3>2. UNCHANGED swapVars /\ (Recovered \/ CliRefuses)
        BY <1>8, <2>1 DEF CliProve
      <3> QED BY <1>6, <1>7, <1>8, <3>1, <3>2
    <2>2. CASE ~(NoJournal /\ outer.status = "failed" /\ outer.error = "safe")
      BY <1>5, <1>8, <2>2 DEF CliProve
    <2> QED BY <2>1, <2>2
  <1>9. CASE CliFinish
    <2>1. UNCHANGED swapVars /\ HelperIdle
      BY <1>9 DEF CliFinish
    <2>2. CASE helper.answer = "recovered"
      <3>1. journal = "recovered" /\ ~temp
        BY <2>1, <2>2 DEF WorkKnown, AnswerTrue
      <3>2. ~filed /\ Recovered
        BY <1>9, <2>2, <3>1 DEF CliFinish, IInv, DecisionStands
      <3> QED BY <1>7, <1>9, <2>1, <3>1, <3>2
    <2>3. CASE helper.answer # "recovered"
      BY <1>6, <1>9, <2>1, <2>3 DEF CliFinish
    <2> QED BY <2>2, <2>3
  <1> QED BY <1>4, <1>8, <1>9 DEF CliStep

\* The finalization worker.
LEMMA WorkerKnows ==
  ASSUME IInv, Kept, WorkerStep
  PROVE  Kept'
  <1> USE DEF Kept
  <1>1. /\ UNCHANGED <<executor, timeouts, cli>> /\ SwapTyped /\ outer \in OuterType
        /\ outer.status = "pending" /\ ~ExecutorHolds
    <2>1. UNCHANGED <<executor, timeouts, cli>>
      BY DEF WorkerStep, WorkerLock, WorkerResume, WorkerArchived, WorkerRestart, WorkerPublish, WorkerRelease, boundVars
    <2>2. outer.status = "pending" /\ ~ExecutorHolds
      <3>1. CASE WorkerLock
        BY <3>1 DEF WorkerLock, IInv, MutualExclusion
      <3>2. CASE ~WorkerLock
        <4>1. worker # "idle"
          BY <3>2 DEF WorkerStep, WorkerResume, WorkerArchived, WorkerRestart, WorkerPublish, WorkerRelease
        <4> QED BY <4>1 DEF IInv, MutualExclusion
      <3> QED BY <3>1, <3>2
    <2> QED BY <2>1, <2>2, TypeParts, SwapParts DEF IInv, TypedApart
  <1>2. ~Moving
    BY <1>1 DEF IInv, QuietAfterSwap, Moving
  <1>3. WorkerQuits => worker' = "idle"
    BY DEF WorkerQuits
  <1>4. CASE WorkerResume /\ Invoke("archive") /\ worker' = "wait" /\ journal = "committed" /\ UNCHANGED <<outer, result>>
    <2>1. "archive" \in Phases
      BY DEF Phases
    <2>2. /\ TreesKept' /\ WorkKnown' /\ UNCHANGED <<dirs, journal, temp, checkpoint, filed>>
      BY <1>1, <1>4, <2>1, InvokeKnown DEF IInv
    <2>3. executor.pc # "lock"
      BY <1>4 DEF ClientsKnow, EarlySound, Early
    <2>4. Archived' <=> Archived
      BY <2>2 DEF Archived
    <2>5. BarrierSound' /\ FailureSound' /\ SuccessSound'
      BY <1>1, <1>4, <2>4 DEF BarrierSound, FailureSound, SuccessSound, ClientsKnow, Barred
    <2> QED BY <1>1, <2>2, <2>3, <2>5, OthersKnow DEF ClientsKnow
  <1>5. CASE ~(WorkerResume /\ Invoke("archive") /\ worker' = "wait" /\ journal = "committed" /\ UNCHANGED <<outer, result>>)
    <2>1. UNCHANGED <<journal, temp, checkpoint, filed, helper>>
      BY <1>5 DEF WorkerStep, WorkerLock, WorkerResume, WorkerArchived, WorkerRestart, WorkerPublish, WorkerRelease, swapVars,
         boundVars, Committed
    <2>2. worker \in {"restart", "publish", "release"} => Archived
      BY DEF ClientsKnow, SuccessSound
    <2>3. dirs' = dirs \/ (journal = "none" /\ \E c \in BOOLEAN : dirs' = [dirs EXCEPT !["active"].clean = c])
      <3>1. dirs["active"].clean \in BOOLEAN
        BY <1>1 DEF SwapTyped, Places, Trees
      <3>2. \A state : Runs(state) => \E c \in BOOLEAN : dirs' = [dirs EXCEPT !["active"].clean = c]
        BY <3>1 DEF Runs
      <3>3. CASE WorkerRestart
        BY <2>2, <3>2, <3>3 DEF WorkerRestart, Archived
      <3>4. CASE ~WorkerRestart
        BY <1>5, <3>4 DEF WorkerStep, WorkerLock, WorkerResume, WorkerArchived, WorkerPublish, WorkerRelease, swapVars, boundVars,
           Committed
      <3> QED BY <3>3, <3>4
    <2>4. TreesKept' /\ WorkKnown' /\ (Archived' <=> Archived) /\ (HelperIdle' <=> HelperIdle)
      <3>1. CASE dirs' = dirs
        BY <1>1, <2>1, <3>1, SwapKept
      <3>2. CASE journal = "none" /\ \E c \in BOOLEAN : dirs' = [dirs EXCEPT !["active"].clean = c]
        BY <1>1, <1>2, <2>1, <3>2, TouchKept
      <3> QED BY <2>3, <3>1, <3>2
    <2>5. outer'.status \in {"pending", "completed"} /\ (outer'.status = "completed" => Archived)
      <3>1. CASE WorkerRelease
        BY <1>1, <2>2, <3>1 DEF WorkerRelease, OuterType
      <3>2. CASE ~WorkerRelease
        BY <1>1, <3>2 DEF WorkerStep, WorkerLock, WorkerResume, WorkerArchived, WorkerRestart, WorkerPublish
      <3> QED BY <3>1, <3>2
    <2>6. worker' \in {"restart", "publish", "release"} => Archived
      <3>1. result = "completed" => Archived
        BY DEF ClientsKnow, SuccessSound
      <3> QED BY <1>3, <1>5, <2>2, <3>1
              DEF WorkerStep, WorkerLock, WorkerResume, WorkerArchived, WorkerRestart, WorkerPublish, WorkerRelease, Committed
    <2>7. result' = "completed" => Archived
      <3>1. CASE WorkerPublish
        BY <2>2, <3>1 DEF WorkerPublish
      <3>2. CASE ~WorkerPublish
        BY <3>2 DEF WorkerStep, WorkerLock, WorkerResume, WorkerArchived, WorkerRestart, WorkerRelease, boundVars,
           ClientsKnow, SuccessSound
      <3> QED BY <3>1, <3>2
    <2>8. BarrierSound' /\ FailureSound' /\ SuccessSound'
      BY <1>1, <2>1, <2>4, <2>5, <2>6, <2>7 DEF BarrierSound, FailureSound, SuccessSound, ClientsKnow, Barred, Archived
    <2> QED BY <1>1, <2>1, <2>4, <2>8, OthersKnow DEF ClientsKnow
  <1> QED BY <1>4, <1>5

\* The daemon, operators and the game server.
LEMMA OutsidersKnow ==
  ASSUME IInv, Kept, ClearResult \/ ServerExits \/ Operate
  PROVE  Kept'
  <1> USE DEF Kept
  <1>1. UNCHANGED <<executor, timeouts, cli, worker, journal, temp, checkpoint, filed, helper>> /\ SwapTyped /\ outer \in OuterType
    BY TypeParts, SwapParts DEF ClearResult, ServerExits, Operate, swapVars, clientVars, boundVars, IInv, TypedApart
  <1>2. CASE ClearResult \/ ServerExits
    <2>1. UNCHANGED <<dirs, outer>> /\ (result' = "completed" => result = "completed")
      BY <1>2 DEF ClearResult, ServerExits, swapVars
    <2>2. TreesKept' /\ WorkKnown' /\ (Archived' <=> Archived) /\ (HelperIdle' <=> HelperIdle)
      BY <1>1, <2>1, SwapKept
    <2>3. BarrierSound' /\ FailureSound' /\ SuccessSound'
      BY <1>1, <2>1, <2>2 DEF BarrierSound, FailureSound, SuccessSound, ClientsKnow, Barred
    <2>4. EarlySound' /\ CallSound' /\ PhaseSound' /\ UndoSound'
      BY <1>1, <2>2 DEF ClientsKnow, EarlySound, Early, CallSound, PhaseSound, UndoSound, Undoing, Called, Clean, ExecutorHolds,
         Decided, Finished
    <2> QED BY <2>2, <2>3, <2>4 DEF ClientsKnow
  <1>3. CASE Operate
    <2>1. lock = "none" /\ ~Barred /\ UNCHANGED result /\ outer' = [outer EXCEPT !.status = "none", !.error = "none"]
      BY <1>3 DEF Operate
    <2>2. outer'.status = "none"
      BY <1>1, <2>1 DEF OuterType
    <2>3. ~ExecutorHolds /\ worker = "idle" /\ ~Moving
      BY <2>1 DEF IInv, MutualExclusion, MovesBehindBarrier
    <2>4. journal \in {"none", "recovered"} /\ (filed \/ HelperIdle)
      BY <2>1 DEF ClientsKnow, BarrierSound
    <2>5. dirs' = dirs \/ \E c \in BOOLEAN : dirs' = [dirs EXCEPT !["active"].clean = c]
      <3>1. dirs["active"].clean \in BOOLEAN
        BY <1>1 DEF SwapTyped, Places, Trees
      <3>2. \A state : Runs(state) => \E c \in BOOLEAN : dirs' = [dirs EXCEPT !["active"].clean = c]
        BY <3>1 DEF Runs
      <3> QED BY <1>3, <3>2 DEF Operate
    <2>6. TreesKept' /\ WorkKnown' /\ (Archived' <=> Archived) /\ (HelperIdle' <=> HelperIdle)
      <3>1. CASE dirs' = dirs
        BY <1>1, <3>1, SwapKept
      <3>2. CASE \E c \in BOOLEAN : dirs' = [dirs EXCEPT !["active"].clean = c]
        BY <1>1, <2>3, <2>4, <3>2, TouchKept
      <3> QED BY <2>5, <3>1, <3>2
    <2>7. BarrierSound' /\ FailureSound' /\ SuccessSound'
      BY <1>1, <2>1, <2>2, <2>3, <2>4, <2>6 DEF BarrierSound, FailureSound, SuccessSound, ClientsKnow
    <2> QED BY <1>1, <2>3, <2>6, <2>7, OthersKnow DEF ClientsKnow
  <1> QED BY <1>2, <1>3

\* The helper itself: what it writes it writes for the client that waits, behind the barrier.
LEMMA HelperKnows ==
  ASSUME IInv, Kept, Helper \/ Break
  PROVE  Kept'
  <1> USE DEF Kept
  <1>1. /\ UNCHANGED <<executor, outer, timeouts, cli, worker, result>> /\ SwapTyped /\ HelperSound /\ DecisionStands
        /\ HelperStep \/ HelperAnswers \/ HelperBreaks
    BY TypeParts, SwapParts DEF Helper, Break, clientVars, boundVars, IInv, TypedApart
  <1>2. ~HelperIdle
    BY <1>1 DEF HelperStep, HelperAnswers, HelperBreaks
  <1>3. ExecutorHolds => Called \/ executor.pc \in {"undo", "recover"}
    BY <1>2 DEF ClientsKnow, CallSound
  <1>4. Called => executor.pc = "recover" \/ helper.phase = executor.pc
    BY <1>2 DEF ClientsKnow, CallSound, HelperIdle
  <1>5. Undoing /\ Clean => ~Decided /\ Called /\ helper.phase = "recover"
    BY <1>2 DEF ClientsKnow, UndoSound, HelperIdle
  <1>6. executor.pc \notin {"candidate", "again", "revive", "restore"}
    BY <1>2 DEF IInv, QuietAfterSwap
  <1>7. executor.pc \in {"prepare", "switch", "commit"} => Called /\ helper.phase = executor.pc
    BY <1>3, <1>4 DEF ExecutorHolds
  <1>8. CASE HelperStep
    <2>1. /\ TreesKept' /\ WorkKnown'
          /\ Archived => Archived'
          /\ helper.phase # "inputs"
          /\ helper.phase = "build" => UNCHANGED <<journal, temp, filed>>
          /\ helper.phase = "prepare" => journal' \in {"none", "prepared"} /\ ~filed'
          /\ helper.phase = "commit" => ~filed /\ journal' \in {"checked", "committed"}
          /\ helper.phase = "archive" => journal = "committed"
          /\ helper.phase = "recover" => journal # "none" /\ ~filed' /\ (journal = "recovered" => journal' = "recovered")
      BY <1>1, <1>8, HelperWorks
    <2>2. /\ helper.todo # <<>> /\ helper'.phase = helper.phase /\ helper'.answer = helper.answer /\ helper.phase \in Phases
          /\ ~HelperIdle'
      BY <1>1, <1>2, <1>8, StepTaken DEF HelperIdle
    <2>3. helper.phase \in {"switch", "recover", "prepare"} => ~Decided'
      <3>1. helper.phase \notin {"commit", "archive"} => (Decided' => Decided)
        BY <1>1, <1>8, <2>2, HelperStepSound
      <3>2. helper.phase \in {"switch", "recover", "prepare"} => ~Decided
        BY <1>1, <2>2 DEF HelperSound
      <3> QED BY <3>1, <3>2
    <2>4. EarlySound'
      BY <1>1, <2>1, <2>2 DEF ClientsKnow, EarlySound, Early
    <2>5. CallSound'
      BY <1>1, <1>3, <1>4, <2>2 DEF ClientsKnow, CallSound, Called, ExecutorHolds
    <2>6. PhaseSound'
      BY <1>1, <1>6, <1>7, <2>1, <2>2, <2>3 DEF PhaseSound
    <2>7. UndoSound'
      BY <1>1, <1>5, <1>6, <2>1, <2>2, <2>3 DEF UndoSound, ClientsKnow, Undoing, Called, Clean
    <2>8. BarrierSound'
      <3>1. SUFFICES ASSUME ~Barred PROVE BarrierSound'
        BY <1>1 DEF BarrierSound, Barred
      <3>2. journal \in {"none", "recovered"} /\ filed
        BY <1>2, <3>1 DEF ClientsKnow, BarrierSound
      <3>3. helper.phase = "build"
        <4>1. ~Moving /\ Decided
          BY <3>1, <3>2 DEF IInv, MovesBehindBarrier, Decided
        <4> QED BY <1>1, <2>1, <2>2, <3>2, <4>1 DEF HelperSound, Moving, Phases
      <3> QED BY <1>1, <2>1, <3>2, <3>3 DEF BarrierSound, ClientsKnow
    <2>9. FailureSound' /\ SuccessSound'
      BY <1>1, <2>1, <2>2 DEF FailureSound, SuccessSound, ClientsKnow, HelperIdle
    <2> QED BY <2>1, <2>4, <2>5, <2>6, <2>7, <2>8, <2>9 DEF ClientsKnow
  <1>9. CASE HelperAnswers \/ HelperBreaks
    <2>1. /\ TreesKept' /\ WorkKnown' /\ (Archived => Archived') /\ UNCHANGED <<journal, temp, checkpoint, filed>>
          /\ HelperIdle' /\ helper'.todo = <<>>
          /\ helper.phase = "switch" /\ HelperAnswers => journal = "checked"
          /\ helper.phase = "archive" /\ HelperAnswers => Archived
          /\ helper.phase = "commit" /\ HelperBreaks => journal = "checked"
          /\ HelperAnswers => helper'.answer = helper.answer
          /\ HelperBreaks => helper'.answer = "failed"
      BY <1>1, <1>9, HelperStops
    <2>2. helper.answer = IF helper.phase # "recover" THEN "done" ELSE IF journal = "none" THEN "no_swap" ELSE "recovered"
      BY <1>2 DEF WorkKnown, AnswerTrue
    <2>3. EarlySound'
      BY <1>1, <2>1 DEF ClientsKnow, EarlySound, Early
    <2>4. CallSound'
      BY <1>1, <1>4, <1>9, <2>1, <2>2 DEF CallSound, Called, HelperIdle, Finished
    <2>5. PhaseSound'
      BY <1>1, <1>6, <1>7, <1>9, <2>1, <2>2 DEF PhaseSound, ClientsKnow, Called, Decided
    <2>6. UndoSound'
      BY <1>1, <1>5, <1>6, <1>9, <2>1, <2>2 DEF UndoSound, ClientsKnow, Undoing, Called, Clean, Decided, HelperIdle
    <2>7. BarrierSound' /\ FailureSound' /\ SuccessSound'
      BY <1>1, <2>1 DEF BarrierSound, FailureSound, SuccessSound, ClientsKnow, Barred, HelperIdle
    <2> QED BY <2>1, <2>3, <2>4, <2>5, <2>6, <2>7 DEF ClientsKnow
  <1> QED BY <1>1, <1>8, <1>9

\* After a crash nobody remembers the attempt; the journals are all that is left.
LEMMA CrashKnows ==
  ASSUME IInv, Kept, AgentCrash \/ HostCrash
  PROVE  Kept'
  <1> USE DEF Kept
  <1>1. /\ executor' = Resting /\ worker' = "idle" /\ UNCHANGED <<result, timeouts>>
        /\ outer' = IF outer.status = "running" THEN [outer EXCEPT !.status = "interrupted"] ELSE outer
        /\ SwapTyped /\ HelperSound /\ DecisionStands /\ outer \in OuterType
    BY TypeParts, SwapParts DEF AgentCrash, HostCrash, AgentDies, IInv, TypedApart
  <1>2. executor'.pc = "idle" /\ executor'.final = "none"
    BY <1>1 DEF Resting
  <1>3. outer'.status = (IF outer.status = "running" THEN "interrupted" ELSE outer.status) /\ outer'.error = outer.error
    BY <1>1 DEF OuterType
  <1>4. /\ TreesKept' /\ WorkKnown' /\ (Archived => Archived') /\ UNCHANGED <<journal, temp, filed>>
        /\ helper' = helper \/ HelperIdle'
        /\ cli' = cli \/ HelperIdle'
    <2>1. CASE AgentCrash
      <3>1. UNCHANGED <<dirs, journal, temp, checkpoint, filed, helper, cli>>
        BY <2>1 DEF AgentCrash, swapVars
      <3> QED BY <1>1, <3>1, SwapKept
    <2>2. CASE HostCrash
      <3>1. HelperDies
        BY <2>2 DEF HostCrash
      <3> QED BY <1>1, <3>1, HelperStops
    <2> QED BY <2>1, <2>2
  <1>5. BarrierSound' /\ FailureSound' /\ SuccessSound'
    BY <1>1, <1>2, <1>3, <1>4 DEF BarrierSound, FailureSound, SuccessSound, ClientsKnow, Barred, HelperIdle
  <1> QED BY <1>2, <1>4, <1>5, LeftLock DEF ClientsKnow

LEMMA InitKept == Init => Kept
  <1> SUFFICES ASSUME Init PROVE Kept
    OBVIOUS
  <1>1. /\ journal = "none" /\ ~temp /\ ~filed /\ helper.phase = "idle" /\ helper.todo = <<>> /\ helper.answer = "none"
        /\ dirs["active"] = Tree("old") /\ dirs["rollback"] = None /\ executor.pc = "idle" /\ executor.final = "none"
        /\ outer.status = "none" /\ worker = "idle" /\ result = "none"
    BY DEF Init, SwapInit, Resting, Places
  <1>2. TreesKept
    BY <1>1, TreeFacts DEF TreesKept
  <1>3. WorkKnown
    BY <1>1 DEF WorkKnown, AnswerTrue, HelperIdle
  <1>4. ClientsKnow
    BY <1>1 DEF ClientsKnow, EarlySound, Early, CallSound, PhaseSound, UndoSound, Undoing, Called, ExecutorHolds, Phases,
       BarrierSound, FailureSound, SuccessSound, Barred, HelperIdle
  <1> QED BY <1>2, <1>3, <1>4 DEF Kept

LEMMA StepKept == IInv /\ Kept /\ [Next]_vars => Kept'
  <1> SUFFICES ASSUME IInv, Kept, [Next]_vars PROVE Kept'
    OBVIOUS
  <1>1. CASE Request \/ ExecutorStep
    BY <1>1, OutsideKnows, BeforeKnows, CallKnows, ReturnKnows, GiveUpKnows, ProbeKnows, StartKnows DEF ExecutorStep
  <1>2. CASE CliStep \/ WorkerStep
    BY <1>2, CliKnows, WorkerKnows
  <1>3. CASE ClearResult \/ Operate \/ ServerExits
    BY <1>3, OutsidersKnow
  <1>4. CASE Helper \/ Break
    BY <1>4, HelperKnows
  <1>5. CASE AgentCrash \/ HostCrash
    BY <1>5, CrashKnows
  <1>6. CASE UNCHANGED vars
    <2>1. /\ UNCHANGED <<dirs, journal, temp, checkpoint, filed, helper, executor, outer, cli, worker, result, timeouts>>
      BY <1>6 DEF vars, swapVars, clientVars, boundVars
    <2>2. TreesKept' /\ WorkKnown' /\ (Archived' <=> Archived) /\ (HelperIdle' <=> HelperIdle)
      BY <2>1, SwapKept DEF Kept
    <2>3. ClientsKnow'
      BY <2>1, <2>2 DEF Kept, ClientsKnow, EarlySound, Early, CallSound, PhaseSound, UndoSound, Undoing, Called, Clean, ExecutorHolds,
         Decided, Finished, BarrierSound, FailureSound, SuccessSound, Barred
    <2> QED BY <2>2, <2>3 DEF Kept
  <1> QED BY <1>1, <1>2, <1>3, <1>4, <1>5, <1>6 DEF Next

-----------------------------------------------------------------------------
(* What the second part says of every behaviour *)

\* The directories, the helper's remaining work and what its clients concluded agree in
\* every behaviour (materialize_instance.py:228-352).
THEOREM Keeping == Spec => [](IInv /\ Kept)
  BY InitSound, StepKeeps, InitKept, StepKept, PTL DEF Spec

\* Outside the swap itself a build is in place: the directory is never missing there.
LEMMA WholeOutsideSwap ==
  ASSUME IInv, Kept, journal \notin {"swapping", "swapped", "recovering"}
  PROVE  /\ dirs["active"].build \in {"old", "new"} /\ dirs["active"] # None
         /\ filed => dirs["active"].build = "new" /\ Intact("history", "old") /\ dirs["rollback"] = None
         /\ journal = "recovered" \/ (journal = "none" /\ ~filed) => dirs["active"].build = "old" /\ dirs["rollback"] = None
  <1>1. journal \in {"none", "prepared", "checked", "committed", "recovered"} /\ TreesKept /\ DecisionStands
    BY TypeParts, SwapParts DEF IInv, TypedApart, SwapTyped, JournalPhases, Kept
  <1>2. filed => dirs["active"].build = "new" /\ Intact("history", "old") /\ dirs["rollback"] = None
    BY <1>1 DEF TreesKept, DecisionStands, Decided
  <1>3. journal = "recovered" \/ (journal = "none" /\ ~filed) => dirs["active"].build = "old" /\ dirs["rollback"] = None
    BY <1>1 DEF TreesKept
  <1>4. dirs["active"].build \in {"old", "new"}
    BY <1>1 DEF TreesKept, DecisionStands, Decided
  <1> QED BY <1>2, <1>3, <1>4, TreeFacts

\* From the journal's first phase to the end of the archival the original tree is unchanged
\* in one directory, and the runtime directory is missing only behind the barrier, for any
\* number of migrations and crashes between two renames
\* (minecraft_serverpack_migration_swap.py:147-240).
THEOREM OriginalStaysIntact == Spec => []OriginalIntact
  <1>1. IInv /\ Kept => OriginalIntact
    <2> SUFFICES ASSUME IInv, Kept PROVE OriginalIntact
      OBVIOUS
    <2>1. journal \in {"prepared", "swapping", "swapped", "checked", "recovering"} =>
            (\E d \in {"active", "rollback"} : Intact(d, "old")) \/ (journal = "prepared" /\ timeouts > 0)
      BY DEF Kept, TreesKept
    <2>2. journal = "committed" \/ filed => \E d \in {"rollback", "history"} : Intact(d, "old")
      BY DEF Kept, TreesKept
    <2>3. dirs["active"] = None => Barred
      <3>1. ~Barred => journal \in {"none", "recovered"}
        BY DEF Kept, ClientsKnow, BarrierSound
      <3> QED BY <3>1, WholeOutsideSwap
    <2> QED BY <2>1, <2>2, <2>3 DEF OriginalIntact
  <1> QED BY <1>1, Keeping, PTL

\* An archived migration has the new build in place and the original filed.
LEMMA ArchivedWhole ==
  ASSUME IInv, Kept, Archived
  PROVE  dirs["active"].build = "new" /\ Intact("history", "old")
  BY WholeOutsideSwap DEF Archived

\* What the operation journal and the Controller are told of a migration is so, for any
\* number of migrations, crashes and clients that stop waiting (runtime_operations.py:147-195,
\* minecraft_serverpack_migration_transaction.py:236-265,
\* minecraft_serverpack_finalization_coordinator.py:17-80).
THEOREM OutcomesStayTrue == Spec => []OutcomesAreTrue
  <1>1. IInv /\ Kept => OutcomesAreTrue
    <2> SUFFICES ASSUME IInv, Kept PROVE OutcomesAreTrue
      OBVIOUS
    <2>1. BarrierSound /\ FailureSound /\ SuccessSound
      BY DEF Kept, ClientsKnow
    <2>2. outer.status = "completed" => Archived /\ dirs["active"].build = "new" /\ Intact("history", "old")
      BY <2>1, ArchivedWhole DEF BarrierSound
    <2>3. outer.status = "recovered" =>
            /\ dirs["active"].build = "old" /\ dirs["rollback"] = None
            /\ journal \in {"none", "recovered"} /\ ~temp /\ HelperIdle
      BY <2>1, WholeOutsideSwap DEF BarrierSound, Barred
    <2>4. FailureKeepsOld
      BY <2>1, WholeOutsideSwap DEF FailureSound, FailureKeepsOld
    <2>5. CompletedIsArchived
      BY <2>1 DEF SuccessSound, CompletedIsArchived
    <2> QED BY <2>2, <2>3, <2>4, <2>5 DEF OutcomesAreTrue, SettledWhenLifted
  <1> QED BY <1>1, Keeping, PTL

\* Who starts the game server, and what the journal says then.
LEMMA StartedOutsideSwap ==
  ASSUME IInv, Kept, [Next]_vars, server # "active", server' = "active"
  PROVE  journal \notin {"swapping", "swapped", "recovering"}
  <1>1. CASE Launch
    BY <1>1 DEF Launch, Kept, ClientsKnow, PhaseSound
  <1>2. CASE Revive
    BY <1>2 DEF Revive, Kept, ClientsKnow, UndoSound
  <1>3. CASE Restore
    BY <1>3 DEF Restore, Kept, ClientsKnow, PhaseSound, Archived
  <1>4. CASE WorkerRestart
    BY <1>4 DEF WorkerRestart, Kept, ClientsKnow, SuccessSound, Archived
  <1>5. CASE Operate
    BY <1>5 DEF Operate, Kept, ClientsKnow, BarrierSound
  <1>6. CASE ~(Launch \/ Revive \/ Restore \/ WorkerRestart \/ Operate)
    <2>1. ~UNCHANGED server
      OBVIOUS
    <2>2. ~(Request \/ ExecutorStep)
      BY <1>6, <2>1 DEF Request, ExecutorStep, Preflight, Lock, Check, Stop, Backup, Call, Return, InputsMissing, GiveUp, Probe, Undo,
                  ReportResult
    <2>3. ~(CliStep \/ WorkerStep)
      BY <1>6, <2>1 DEF CliStep, CliLock, CliProve, CliFinish, WorkerStep, WorkerLock, WorkerResume, WorkerArchived, WorkerPublish,
                  WorkerRelease
    <2>4. ~(ClearResult \/ ServerExits \/ Helper \/ Break \/ AgentCrash \/ HostCrash \/ UNCHANGED vars)
      BY <2>1 DEF ClearResult, ServerExits, Helper, Break, AgentCrash, HostCrash, vars
    <2> QED BY <1>6, <2>2, <2>3, <2>4 DEF Next
  <1> QED BY <1>1, <1>2, <1>3, <1>4, <1>5, <1>6

\* Nobody starts the game server on a directory between two renames or on a swap without its
\* readiness checkpoint, whichever client or administrator is behind it
\* (materialize_instance.py:329-352).
THEOREM StartsAreWhole == Spec => StartsOnlyWhole
  <1>1. IInv /\ Kept /\ [Next]_vars =>
          [server # "active" /\ server' = "active" =>
             journal \notin {"swapping", "swapped", "recovering"} /\ dirs["active"].build \in {"old", "new"}]_vars
    BY StartedOutsideSwap, WholeOutsideSwap
  <1> QED BY <1>1, Keeping, PTL DEF Spec, StartsOnlyWhole

=============================================================================
