--------------------------- MODULE AnalysisProofs ---------------------------
(***************************************************************************)
(* Proofs about Analysis: what the tables of the study say of a target is  *)
(* earned, for every set of targets and run ids.                           *)
(*                                                                         *)
(* The script that reads guesses the directory of a target from its name   *)
(* and takes the lowest run id.  It is the right one because numbers below *)
(* the target's own never hold a directory (LowerEmpty).                   *)
(***************************************************************************)
EXTENDS Analysis, TargetLifecycleProofs, WellFoundedInduction

\* A target has no directory under a lower number; an archive in progress works
\* on the number of its target, and has moved the directory.
LowerEmpty ==
  /\ \A t \in Targets, j \in Ids : j < config[t].id => exp[<<t, j>>] = Empty
  /\ script.at # "idle" =>
       /\ config[script.target].id = script.id
       /\ exp[<<script.target, script.id>>] = Empty

\* A PASS anywhere on disk is one evaluate() returned for that target.
EarnedInv ==
  \A t \in Targets, i \in Ids :
    LET k == <<t, i>> IN
    exp[k].manifest.pass \/ exp[k].report.pass \/ rows[k].pass => t \in earned

\* A run that failed says so in its directory, as long as it is there.
FailedInv == \A k \in Runs : last[k] = "failed" /\ exp[k] # Empty => exp[k].failure

StudyOK ==
  /\ batchFile \in [Targets -> Statuses]
  /\ failedStage \in [Runs -> StageNames \cup {"none"}]
  /\ earned \subseteq Targets

StudyIInv == LifeIInv /\ StudyOK /\ LowerEmpty /\ EarnedInv /\ FailedInv

\* A PASS is recorded for the run id: in its manifest, its report or its row.
PassAt(k) == exp[k].manifest.pass \/ exp[k].report.pass \/ rows[k].pass

-----------------------------------------------------------------------------
\* The order of the numbers of run ids.
LEMMA InOrder ==
  ASSUME NEW i \in Nat, NEW j \in Nat
  PROVE  /\ ~(j < i) => i <= j
         /\ j < i + 1 => j < i \/ j = i
         /\ j < i => j # i
         /\ i <= j /\ j <= i => i = j
OBVIOUS

\* A set of numbers has a least one.
LEMMA LeastInSet ==
  ASSUME NEW S \in SUBSET Nat, S # {}
  PROVE  /\ Least(S) \in S
         /\ \A j \in S : Least(S) <= j
<1>1. PICK i \in S : \A j \in S : <<j, i>> \notin OpToRel(<, Nat)
  BY NatLessThanWellFounded, WFMin
<1>2. ASSUME NEW j \in S
      PROVE  i <= j
  <2>1. i \in Nat /\ j \in Nat
    OBVIOUS
  <2>2. ~(j < i)
    BY <1>1, <2>1 DEF OpToRel
  <2>3. QED
    BY <2>1, <2>2, InOrder
<1>3. QED
  BY <1>2 DEF Least

\* A PASS that is recorded was recorded before, or evaluate() has just returned
\* it for the run the attempt is about.
LEMMA OwnPass ==
  ASSUME IInv, Next, proc.at # "idle", PassAt(Mine)'
  PROVE  PassAt(Mine) \/ (phase = "open" /\ verdict' = "PASS")
<1>1. TypeOK /\ Mine \in Runs /\ Dir \in Directory /\ Dir = exp[Mine] /\ Mine' = Mine
  <2>1. TypeOK
    BY DEF IInv
  <2>2. Mine' = Mine
    BY <2>1, AttemptWritesItsOwn DEF OwnOnly
  <2>3. QED
    BY <2>1, <2>2, MineIsRun DEF TypeOK, Dir
<1>2. rows'[Mine].pass => rows[Mine].pass \/ Dir.manifest.pass
  <2>1. Registered[Mine].pass = Dir.manifest.pass
    BY <1>1 DEF Registered, TypeOK
  <2>2. rows'[Mine] \in {rows[Mine], NoRow, Registered[Mine]}
    BY <1>1, AttemptWritesItsOwn DEF OwnOnly, RowsAfterStop
  <2>3. QED
    BY <2>1, <2>2 DEF NoRow
<1>3. ASSUME exp'[Mine].manifest.pass => Dir.manifest.pass,
             exp'[Mine].report.pass => Dir.manifest.pass \/ Dir.report.pass
      PROVE  PassAt(Mine)
  BY <1>1, <1>2, <1>3 DEF PassAt
<1> USE <1>1 DEF evalVars, Leave, Goto, Ended
<1>4. ASSUME exp'[Mine].manifest = Dir.manifest, exp'[Mine].report = Dir.report
      PROVE  PassAt(Mine)
  BY <1>3, <1>4
<1>5. ASSUME NEW d \in PartOf(Dir), exp' = [exp EXCEPT ![Mine] = d]
      PROVE  PassAt(Mine)
  <2>1. /\ d.manifest \in {Dir.manifest, NoManifest}
        /\ d.report \in {Dir.report, NoManifest}
    BY PartsOfDirectory
  <2>2. exp'[Mine] = d
    BY <1>5 DEF TypeOK
  <2>3. QED
    BY <1>3, <2>1, <2>2 DEF NoManifest
<1>6. CASE Wipe
  <2>1. exp'[Mine] = Empty
    BY <1>6 DEF Wipe, TypeOK
  <2>2. QED
    BY <1>3, <2>1 DEF Empty, NoManifest
<1>7. CASE WipeFails
  BY <1>5, <1>7 DEF WipeFails
<1>8. CASE Prepare
  BY <1>4, <1>8 DEF Prepare, TypeOK, Directory
<1>9. CASE SaveConfig
  BY <1>4, <1>9 DEF SaveConfig, TypeOK, Directory
<1>10. ASSUME NEW form \in {"good", "unusable"}, CallModel(form)
       PROVE  PassAt(Mine)
  BY <1>4, <1>10 DEF CallModel, TypeOK, Directory
<1>11. CASE Materialize
  BY <1>4, <1>11 DEF Materialize, TypeOK, Directory
<1>12. ASSUME NEW t \in Targets, EvaluateReturns(t)
       PROVE  PassAt(Mine) \/ (phase = "open" /\ verdict' = "PASS")
  <2>1. PICK m \in Manifest : /\ exp' = [exp EXCEPT ![Mine] = [Dir EXCEPT !.manifest = m]]
                              /\ m.pass <=> verdict' = "PASS"
    BY <1>12, ManifestReturned
  <2>2. exp'[Mine].manifest = m /\ exp'[Mine].report = Dir.report
    BY <2>1 DEF TypeOK, Directory
  <2>3. phase = "open"
    BY <1>12 DEF EvaluateReturns, Eval!Return
  <2>4. CASE verdict' = "PASS"
    BY <2>3, <2>4
  <2>5. CASE verdict' # "PASS"
    BY <1>3, <2>1, <2>2, <2>5
  <2>6. QED
    BY <2>4, <2>5
<1>13. CASE Mark
  <2>1. exp'[Mine] = [Dir EXCEPT !.manifest.marked = TRUE]
    BY <1>13 DEF Mark, TypeOK
  <2>2. exp'[Mine].manifest.pass = Dir.manifest.pass /\ exp'[Mine].report = Dir.report
    BY <2>1 DEF Directory, Manifest
  <2>3. QED
    BY <1>3, <2>2
<1>14. CASE Report
  <2>1. exp'[Mine].manifest = Dir.manifest /\ exp'[Mine].report = Dir.manifest
    BY <1>14 DEF Report, TypeOK, Directory
  <2>2. QED
    BY <1>3, <2>1
<1>15. CASE Unlink
  BY <1>4, <1>15 DEF Unlink, TypeOK, Directory
<1>16. CASE RecordFailure
  BY <1>4, <1>16 DEF RecordFailure, TypeOK, Directory
<1>17. CASE Die
  BY <1>4, <1>5, <1>17 DEF Die
<1>18. CASE exp' = exp
  BY <1>4, <1>18
<1>19. QED
  BY <1>6, <1>7, <1>8, <1>9, <1>10, <1>11, <1>12, <1>13, <1>14, <1>15, <1>16, <1>17, <1>18
     DEF Next, Progress, Starts, StartPlain, StartForce, StartReprocess, GenerateDesign,
         EvaluateWorks, EvaluateRaises, Register, StageFails, Outside,
         OperatorCleans, StrayWrites

\* What the tables may call a PASS is earned: no script makes one up, moves one
\* to another target, or leaves one in a row that was not evaluated.
LEMMA EarnedStep ==
  ASSUME IInv, EarnedInv, StudyOK, Harness
  PROVE  EarnedInv'
<1> SUFFICES ASSUME NEW t \in Targets, NEW i \in Ids, PassAt(<<t, i>>)'
             PROVE  t \in earned'
  BY DEF EarnedInv, PassAt
<1> DEFINE k == <<t, i>>
<1>1. /\ TypeOK /\ k \in Runs
      /\ earned \subseteq earned'
      /\ phase = "open" /\ verdict' = "PASS" => proc.target \in earned'
  BY DEF IInv, Runs, Harness
<1>2. PassAt(k) => t \in earned'
  BY <1>1 DEF EarnedInv, PassAt
<1>3. ASSUME exp'[k] \in {exp[k], Empty}, rows'[k] \in {rows[k], NoRow}
      PROVE  PassAt(k)
  BY <1>3 DEF PassAt, Empty, NoManifest, NoRow
<1>4. CASE Next
  <2>1. CASE k # Mine \/ proc.at = "idle"
    BY <1>1, <1>2, <1>3, <1>4, <2>1, OthersKept
  <2>2. CASE k = Mine /\ proc.at # "idle"
    <3>1. Mine' = Mine /\ t = proc.target
      BY <1>1, <1>4, <2>2, AttemptWritesItsOwn DEF OwnOnly, Mine
    <3>2. PassAt(Mine)'
      BY <2>2, <3>1 DEF PassAt
    <3>3. QED
      BY <1>1, <1>2, <1>4, <2>2, <3>1, <3>2, OwnPass
  <2>3. QED
    BY <2>1, <2>2
<1>5. ASSUME NEW u \in Targets, ArchiveMoves(u)
      PROVE  t \in earned'
  <2>1. exp'[k] \in {exp[k], Empty} /\ rows' = rows
    BY <1>1, <1>5 DEF ArchiveMoves, TypeOK
  <2>2. QED
    BY <1>2, <1>3, <2>1
<1>6. CASE UNCHANGED <<exp, rows>>
  BY <1>2, <1>3, <1>6
<1>7. QED
  BY <1>4, <1>5, <1>6
     DEF Harness, LifeNext, Attempt, Configure, ArchiveClassifies, ArchiveConfigures,
         ArchiveDies, Stray, StrayWrites, vars

\* A run only ends as failed with its failure recorded, and nothing removes the
\* record but the removal of the directory or a new attempt.
LEMMA FailedStep ==
  ASSUME IInv, FailedInv, LifeNext
  PROVE  FailedInv'
<1> SUFFICES ASSUME NEW k \in Runs, last'[k] = "failed", exp'[k] # Empty
             PROVE  exp'[k].failure
  BY DEF FailedInv
<1>1. TypeOK /\ ControlInv
  BY DEF IInv
<1>2. CASE Next /\ (k # Mine \/ proc.at = "idle")
  <2>1. exp'[k] = exp[k] /\ last[k] = "failed"
    BY <1>1, <1>2, OthersKept
  <2>2. QED
    BY <2>1 DEF FailedInv
<1>3. CASE Next /\ k = Mine /\ proc.at # "idle"
  <2>1. /\ Dir \in Directory /\ Dir = exp[Mine] /\ Mine \in Runs
        /\ last[Mine] = "running" /\ last'[Mine] = "failed"
    BY <1>1, <1>3, MineIsRun DEF TypeOK, Dir, ControlInv
  <2>2. ASSUME last' = last \/ \E how \in {"completed", "died"} : last' = [last EXCEPT ![Mine] = how]
        PROVE  FALSE
    BY <1>1, <2>1, <2>2 DEF TypeOK
  <2> USE DEF Ended
  <2>3. ~Register /\ ~Unlink /\ ~WipeFails /\ ~Die
    BY <2>2 DEF Register, Unlink, WipeFails, Die
  <2>4. ~Wipe /\ ~Prepare /\ ~SaveConfig /\ ~GenerateDesign /\ ~Materialize /\ ~Mark /\ ~Report
    BY <2>2 DEF Wipe, Prepare, SaveConfig, GenerateDesign, Materialize, Mark, Report
  <2>5. ASSUME NEW form \in {"good", "unusable"}, CallModel(form)
        PROVE  FALSE
    BY <2>2, <2>5 DEF CallModel
  <2>6. ASSUME NEW t \in Targets, EvaluateWorks(t) \/ EvaluateReturns(t)
        PROVE  FALSE
    BY <2>2, <2>6 DEF EvaluateWorks, EvaluateReturns
  <2>7. ~Outside
    BY <2>2 DEF Outside, OperatorCleans, StrayWrites
  <2>8. RecordFailure
    BY <1>3, <2>3, <2>4, <2>5, <2>6, <2>7
       DEF Next, Progress, Starts, StartPlain, StartForce, StartReprocess, StageFails,
           EvaluateRaises
  <2>9. exp'[Mine].failure = TRUE
    BY <1>1, <2>1, <2>8 DEF RecordFailure, Leave, TypeOK, Directory
  <2>10. QED
    BY <1>3, <2>9
<1>4. ASSUME NEW t \in Targets, ArchiveMoves(t)
      PROVE  exp'[k].failure
  <2>1. exp'[k] \in {exp[k], Empty} /\ last' = last
    BY <1>1, <1>4 DEF ArchiveMoves, TypeOK
  <2>2. QED
    BY <2>1 DEF FailedInv
<1>5. CASE UNCHANGED <<exp, last>>
  BY <1>5 DEF FailedInv
<1>6. QED
  BY <1>2, <1>3, <1>4, <1>5
     DEF LifeNext, Attempt, Configure, ArchiveClassifies, ArchiveConfigures,
         ArchiveDies, Stray, StrayWrites, vars

\* The lowest number with a directory is never lower than the target's own.
LEMMA LowerEmptyStep ==
  ASSUME IInv, ScriptOK, OneAtATime, LowerEmpty, LifeNext
  PROVE  LowerEmpty'
<1>1. TypeOK /\ Ids \subseteq Nat \ {0}
  BY RunTargetAssumption DEF IInv, RunTargetAssumption
<1>2. CASE Attempt
  <2>1. config' = config /\ script' = script /\ script.at = "idle" /\ Next
    BY <1>1, <1>2, AttemptFrame DEF Attempt
  <2>2. ASSUME NEW t \in Targets, NEW j \in Ids, j < config[t].id
        PROVE  exp'[<<t, j>>] = Empty
    <3>1. config[t].id \in Ids /\ <<t, j>> \in Runs
      BY <1>1 DEF TypeOK, Runs
    <3>2. j # config[t].id
      BY <1>1, <2>2, <3>1, InOrder
    <3>3. <<t, j>> # Mine \/ proc.at = "idle"
      BY <3>2 DEF OneAtATime, Mine
    <3>4. exp'[<<t, j>>] = exp[<<t, j>>]
      BY <1>1, <2>1, <3>1, <3>3, OthersKept
    <3>5. QED
      BY <2>2, <3>4 DEF LowerEmpty
  <2>3. QED
    BY <2>1, <2>2 DEF LowerEmpty
<1>3. ASSUME NEW t \in Targets, NEW enable \in BOOLEAN, Configure(t, enable)
      PROVE  LowerEmpty'
  <2>1. /\ config' = [config EXCEPT ![t] = [id |-> 1, enabled |-> enable]]
        /\ exp' = exp /\ script' = script /\ script.at = "idle"
    BY <1>3 DEF Configure, Idle, lifeVars
  <2>2. \A j \in Ids : ~(j < 1)
    BY <1>1
  <2>3. QED
    BY <1>1, <2>1, <2>2 DEF LowerEmpty, TypeOK
<1>4. ASSUME NEW t \in Targets, ArchiveMoves(t)
      PROVE  LowerEmpty'
  <2>1. /\ config' = config
        /\ \A k \in Runs : exp'[k] = IF k = Key(t) THEN Empty ELSE exp[k]
        /\ script' = [target |-> t, id |-> config[t].id, at |-> "manifest"]
    BY <1>1, <1>4 DEF ArchiveMoves, TypeOK
  <2>2. Key(t) = <<t, config[t].id>> /\ Key(t) \in Runs
    BY <1>1 DEF TypeOK, Key, Runs
  <2>3. QED
    BY <2>1, <2>2 DEF LowerEmpty, Runs
<1>5. CASE ArchiveClassifies \/ ArchiveDies
  <2>1. /\ UNCHANGED <<config, exp>> /\ script.at # "idle"
        /\ script'.target = script.target /\ script'.id = script.id
    BY <1>5 DEF ArchiveClassifies, ArchiveDies, vars, ScriptOK
  <2>2. QED
    BY <2>1 DEF LowerEmpty
<1>6. CASE ArchiveConfigures
  <2> DEFINE t == script.target
             i == script.id
  <2>1. /\ t \in Targets /\ i \in Ids /\ i + 1 \in Ids
        /\ config[t].id = i /\ exp[<<t, i>>] = Empty
    BY <1>6 DEF ArchiveConfigures, ScriptOK, LowerEmpty
  <2>2. /\ config' = [config EXCEPT ![t].id = i + 1]
        /\ script'.at = "idle" /\ exp' = exp
    BY <1>6 DEF ArchiveConfigures, ScriptOK
  <2>3. \A u \in Targets : config'[u].id = IF u = t THEN i + 1 ELSE config[u].id
    BY <1>1, <2>1, <2>2 DEF TypeOK
  <2>4. ASSUME NEW j \in Ids, j < i + 1
        PROVE  j < i \/ j = i
    BY <1>1, <2>1, <2>4, InOrder
  <2>5. QED
    BY <2>1, <2>2, <2>3, <2>4 DEF LowerEmpty
<1>7. CASE Stray
  BY <1>7 DEF Stray, StrayWrites, lifeVars, LowerEmpty
<1>8. QED
  BY <1>2, <1>3, <1>4, <1>5, <1>6, <1>7 DEF LifeNext

\* What the analysis reads besides keeps its type.
LEMMA StudyOKStep ==
  ASSUME TypeOK, StudyOK, AnalysisNext
  PROVE  StudyOK'
<1>1. CASE Harness
  <2>1. StageName(proc) \in StageNames
    BY DEF StageName, StageNames
  <2>2. failedStage' \in [Runs -> StageNames \cup {"none"}]
    BY <1>1, <2>1 DEF Harness, StudyOK
  <2>3. earned' \subseteq Targets /\ batchFile' = batchFile
    BY <1>1 DEF Harness, StudyOK, TypeOK
  <2>4. QED
    BY <2>2, <2>3 DEF StudyOK
<1>2. CASE BatchReports
  BY <1>2 DEF BatchReports, StudyOK
<1>3. QED
  BY <1>1, <1>2 DEF AnalysisNext

\* The inductive invariant holds at first: nothing was run.
LEMMA StudyInitInv == AnalysisInit => StudyIInv
<1> SUFFICES ASSUME AnalysisInit PROVE StudyIInv
  OBVIOUS
<1>1. LifeIInv /\ script.at = "idle"
  BY LifeInitInv DEF AnalysisInit, LifeInit
<1>2. \A k \in Runs : exp[k] = Empty /\ rows[k] = NoRow /\ last[k] = "none"
  BY DEF AnalysisInit, LifeInit, Init
<1>3. StudyOK
  BY DEF AnalysisInit, StudyOK, Statuses
<1>4. LowerEmpty
  BY <1>1, <1>2 DEF LowerEmpty, Runs
<1>5. EarnedInv /\ FailedInv
  BY <1>2 DEF EarnedInv, FailedInv, Runs, Empty, NoManifest, NoRow
<1>6. QED
  BY <1>1, <1>3, <1>4, <1>5 DEF StudyIInv

\* Every step of the scripts, or of a batch that reports, keeps it.
LEMMA StudyNextInv == StudyIInv /\ [AnalysisNext]_everything => StudyIInv'
<1> SUFFICES ASSUME StudyIInv, [AnalysisNext]_everything PROVE StudyIInv'
  OBVIOUS
<1>1. /\ LifeIInv /\ IInv /\ TypeOK /\ ScriptOK /\ OneAtATime
      /\ StudyOK /\ LowerEmpty /\ EarnedInv /\ FailedInv
  BY DEF StudyIInv, LifeIInv, LifeInv, IInv
<1>2. CASE Harness
  <2>1. LifeIInv'
    BY <1>1, <1>2, LifeNextInv DEF Harness
  <2>2. StudyOK'
    BY <1>1, <1>2, StudyOKStep DEF AnalysisNext
  <2>3. EarnedInv'
    BY <1>1, <1>2, EarnedStep
  <2>4. LowerEmpty' /\ FailedInv'
    BY <1>1, <1>2, LowerEmptyStep, FailedStep DEF Harness
  <2>5. QED
    BY <2>1, <2>2, <2>3, <2>4 DEF StudyIInv
<1>3. ASSUME UNCHANGED <<allVars, earned>>, StudyOK'
      PROVE  StudyIInv'
  <2>1. LifeIInv'
    BY <1>1, <1>3, LifeNextInv
  <2>2. UNCHANGED <<exp, rows, config, last, script>>
    BY <1>3 DEF allVars, vars, lifeVars
  <2>3. LowerEmpty' /\ EarnedInv' /\ FailedInv'
    BY <1>1, <1>3, <2>2 DEF LowerEmpty, EarnedInv, FailedInv
  <2>4. QED
    BY <1>3, <2>1, <2>3 DEF StudyIInv
<1>4. CASE BatchReports
  BY <1>1, <1>3, <1>4, StudyOKStep DEF BatchReports, AnalysisNext
<1>5. CASE UNCHANGED everything
  BY <1>1, <1>3, <1>5 DEF everything, studyVars, StudyOK
<1>6. QED
  BY <1>2, <1>4, <1>5 DEF AnalysisNext

\* The inductive invariant holds whenever the analysis may be run.
THEOREM StudyInvariance == AnalysisSpec => []StudyIInv
BY StudyInitInv, StudyNextInv, PTL DEF AnalysisSpec

\* Every variable the analysis reads keeps its type.
THEOREM AnalysisTypeCorrect == AnalysisSpec => []AnalysisTypeOK
<1>1. StudyIInv => AnalysisTypeOK
  BY DEF StudyIInv, LifeIInv, LifeInv, IInv, ScriptOK, LifeTypeOK, StudyOK, AnalysisTypeOK
<1>2. QED
  BY <1>1, StudyInvariance, PTL

-----------------------------------------------------------------------------
\* The directory found from the name is the one of the target's run id, if that
\* one exists.
LEMMA DirectoryFound ==
  ASSUME StudyIInv, NEW t \in Targets, Exists(Key(t))
  PROVE  ExperimentDirs(t) = {Key(t)} /\ Verdicts(t) = {Verdict(t, Key(t), l) : l \in BOOLEAN}
<1> DEFINE i == config[t].id
<1>1. TypeOK /\ LowerEmpty /\ Ids \subseteq Nat
  BY RunTargetAssumption DEF StudyIInv, LifeIInv, IInv, RunTargetAssumption
<1>2. i \in Ids /\ Key(t) = <<t, i>>
  BY <1>1 DEF TypeOK, Key
<1>3. i \in IdsOf(t)
  BY <1>2 DEF IdsOf
<1>4. ASSUME NEW j \in IdsOf(t)
      PROVE  j \in Nat /\ i <= j
  <2>1. j \in Ids /\ exp[<<t, j>>] # Empty
    BY DEF IdsOf, Exists
  <2>2. ~(j < i)
    BY <1>1, <2>1 DEF LowerEmpty
  <2>3. QED
    BY <1>1, <1>2, <2>1, <2>2, InOrder
<1>5. Least(IdsOf(t)) = i
  <2> HIDE DEF i
  <2>1. IdsOf(t) \in SUBSET Nat /\ IdsOf(t) # {}
    BY <1>3, <1>4
  <2>2. Least(IdsOf(t)) \in IdsOf(t) /\ Least(IdsOf(t)) <= i
    BY <1>3, <2>1, LeastInSet
  <2>3. QED
    BY <1>1, <1>2, <1>4, <2>1, <2>2, InOrder
<1>6. ExperimentDirs(t) = {Key(t)}
  BY <1>2, <1>3, <1>5 DEF ExperimentDirs
<1>7. Verdicts(t) = {Verdict(t, Key(t), l) : l \in BOOLEAN}
  BY <1>6 DEF Verdicts
<1>8. QED
  BY <1>6, <1>7

\* The batch report is never looked at: runs.csv alone gives the status.
LEMMA StatusIsRow ==
  ASSUME NEW t \in Targets
  PROVE  Status(t) = IF rows[Key(t)].n = 0 THEN "none"
                     ELSE IF rows[Key(t)].pass THEN "passed" ELSE "failed"
BY DEF Status, BatchEntry, ReadJson

\* After an attempt that ran to its end the tables say what its manifest says.
THEOREM CompletedIsReported == AnalysisSpec => []CompletedReported
<1>1. ASSUME StudyIInv, NEW t \in Targets, last[Key(t)] = "completed", Exists(Key(t))
      PROVE  Verdicts(t) = {IF exp[Key(t)].manifest.pass THEN "PASS" ELSE "FAIL"}
  <2>1. Key(t) \in Runs
    BY <1>1 DEF StudyIInv, LifeIInv, IInv, TypeOK, Key, Runs
  <2>2. exp[Key(t)].manifest.n # 0
    BY <1>1, <2>1 DEF StudyIInv, LifeIInv, IInv, CompletedAgree
  <2>3. EvaluationOf(Key(t)) = exp[Key(t)].manifest
    BY <2>2 DEF EvaluationOf
  <2>4. \A l \in BOOLEAN :
          Verdict(t, Key(t), l) = IF exp[Key(t)].manifest.pass THEN "PASS" ELSE "FAIL"
    BY <2>2, <2>3 DEF Verdict
  <2>5. QED
    BY <1>1, <2>4, DirectoryFound
<1>2. StudyIInv => CompletedReported
  BY <1>1 DEF CompletedReported
<1>3. QED
  BY <1>2, StudyInvariance, PTL

\* A run that ended by an exception counts as a failure.
THEOREM FailureIsCounted == AnalysisSpec => []FailureCounted
<1>1. ASSUME StudyIInv, NEW t \in Targets, last[Key(t)] = "failed", Exists(Key(t)),
             EvaluationOf(Key(t)).n = 0, Status(t) # "passed"
      PROVE  Verdicts(t) = {"FAIL"}
  <2>1. Key(t) \in Runs
    BY <1>1 DEF StudyIInv, LifeIInv, IInv, TypeOK, Key, Runs
  <2>2. exp[Key(t)].failure
    BY <1>1, <2>1 DEF StudyIInv, FailedInv, Exists
  <2>3. \A l \in BOOLEAN : Inferred(exp[Key(t)].failure, l) = "FAIL"
    BY <2>2 DEF Inferred
  <2>4. \A l \in BOOLEAN : Verdict(t, Key(t), l) = "FAIL"
    BY <1>1, <2>3 DEF Verdict
  <2>5. QED
    BY <1>1, <2>4, DirectoryFound, ZenonT(40)
<1>2. StudyIInv => FailureCounted
  BY <1>1 DEF FailureCounted
<1>3. QED
  BY <1>2, StudyInvariance, PTL

\* A directory that is read as a PASS of a target belongs to a target that
\* evaluate() returned PASS for: the target itself or, when it has none, one with
\* a longer id that begins with its own.
LEMMA PassFound ==
  ASSUME StudyIInv, NEW t \in Targets, "PASS" \in Verdicts(t)
  PROVE  \E u \in earned : u = t \/ <<t, u>> \in Similar
<1>1. TypeOK /\ EarnedInv /\ Ids \subseteq Nat
  BY RunTargetAssumption DEF StudyIInv, LifeIInv, IInv, RunTargetAssumption
<1>2. config[t].id \in Ids /\ Key(t) = <<t, config[t].id>>
  BY <1>1 DEF TypeOK, Key
<1>3. PICK l \in BOOLEAN, d \in IF ExperimentDirs(t) = {} THEN {Key(t)} ELSE ExperimentDirs(t) :
        Verdict(t, d, l) = "PASS"
  BY DEF Verdicts
<1>4. ASSUME NEW u \in Targets, IdsOf(u) # {}
      PROVE  Least(IdsOf(u)) \in Ids
  <2>1. IdsOf(u) \subseteq Ids /\ IdsOf(u) \in SUBSET Nat
    BY <1>1 DEF IdsOf
  <2>2. QED
    BY <1>4, <2>1, LeastInSet
<1>5. PICK u \in Targets, i \in Ids : d = <<u, i>> /\ (u = t \/ <<t, u>> \in Similar)
  BY <1>2, <1>3, <1>4 DEF ExperimentDirs
<1>6. CASE EvaluationOf(d).n # 0
  <2>1. EvaluationOf(d).pass
    BY <1>3, <1>6 DEF Verdict
  <2>2. exp[d].manifest.pass \/ exp[d].report.pass
    BY <2>1 DEF EvaluationOf
  <2>3. u \in earned
    BY <1>1, <1>5, <2>2 DEF EarnedInv
  <2>4. QED
    BY <1>5, <2>3
<1>7. CASE ~(EvaluationOf(d).n # 0)
  <2>1. Inferred(exp[d].failure, l) # "PASS"
    BY DEF Inferred
  <2>2. Status(t) = "passed"
    BY <1>3, <1>7, <2>1 DEF Verdict
  <2>3. rows[Key(t)].pass
    BY <2>2, StatusIsRow
  <2>4. t \in earned
    BY <1>1, <1>2, <2>3 DEF EarnedInv
  <2>5. QED
    BY <2>4
<1>8. QED
  BY <1>6, <1>7

\* The tables say PASS of a target only if evaluate() once returned PASS for it
\* or, where it has no directory, for one with a longer id that begins with its
\* own.
THEOREM PassIsSomeones ==
  AnalysisSpec =>
    [](\A t \in Targets :
         "PASS" \in Verdicts(t) => \E u \in earned : u = t \/ <<t, u>> \in Similar)
<1>1. StudyIInv =>
        \A t \in Targets :
          "PASS" \in Verdicts(t) => \E u \in earned : u = t \/ <<t, u>> \in Similar
  BY PassFound
<1>2. QED
  BY <1>1, StudyInvariance, PTL

\* So where no target's id begins with that of another one, a PASS is its own.
THEOREM PassIsEarned ==
  ASSUME Similar = {}
  PROVE  AnalysisSpec => []PassEarned
<1>1. StudyIInv => PassEarned
  BY PassFound DEF PassEarned
<1>2. QED
  BY <1>1, StudyInvariance, PTL
=============================================================================
