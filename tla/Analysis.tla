------------------------------ MODULE Analysis ------------------------------
(***************************************************************************)
(* scripts/roundtrip/analyze_roundtrip_experiments.py: what the tables of  *)
(* the study say of a target, read off whatever attempts, archives,        *)
(* configure --force and batches have left on disk.  The script only       *)
(* reads; it may be run between any two of them.                           *)
(***************************************************************************)
EXTENDS TargetLifecycle, Sequences

CONSTANT Similar  \* pairs <<t, u>>: the id of u is that of t and more letters

ASSUME SimilarAssumption == Similar \subseteq Targets \X Targets

VARIABLES
  batchFile,   \* status of each target in reports/batch, "none": no entry
  failedStage, \* what pipeline_failure.json of a run says of the stage
  earned       \* history: targets evaluate() returned PASS for

studyVars == <<batchFile, failedStage, earned>>
everything == <<allVars, studyVars>>

\* "ready" and "disabled" say nothing of a verdict: like no entry.
Statuses == {"none", "passed", "failed"}

\* `stage` of main() at each point of an attempt.
StageNames == {"prepare", "generate_design", "regenerate_code", "evaluate",
               "generate_report", "register_run", "reprocess_regeneration_output"}

StageName(p) ==
  CASE p.at \in {"prepare", "save"} -> "prepare"
    [] p.at = "design" -> "generate_design"
    [] p.at = "regenerate" -> "regenerate_code"
    [] p.at = "materialize" -> IF p.mode = "reprocess"
                               THEN "reprocess_regeneration_output"
                               ELSE "regenerate_code"
    [] p.at \in {"evaluate", "mark"} -> "evaluate"
    [] p.at = "report" -> "generate_report"
    [] OTHER -> "register_run"

AnalysisTypeOK ==
  /\ LifeTypeOK
  /\ batchFile \in [Targets -> Statuses]
  /\ failedStage \in [Runs -> StageNames \cup {"none"}]
  /\ earned \subseteq Targets

AnalysisInit ==
  /\ LifeInit
  /\ batchFile = [t \in Targets |-> "none"]
  /\ failedStage = [k \in Runs |-> "none"]
  /\ earned = {}

\* A script of the harness takes a step.
Harness ==
  /\ LifeNext
  /\ failedStage' = IF last'[Mine] = "failed" /\ last[Mine] = "running"
                    THEN [failedStage EXCEPT ![Mine] = StageName(proc)]
                    ELSE failedStage
  /\ earned' = IF phase = "open" /\ verdict' = "PASS"
               THEN earned \cup {proc.target} ELSE earned
  /\ UNCHANGED batchFile

\* A batch wrote its report: "passed" as RunBatch!ResultMatchesAttempt says,
\* "failed" also for a child that refused; "none" for targets it left out.
BatchReports ==
  /\ Idle
  /\ batchFile' \in [Targets -> Statuses]
  /\ \A t \in Targets :
       /\ batchFile'[t] # "none" => config[t].enabled
       /\ batchFile'[t] = "passed" =>
            last[Key(t)] = "completed" /\ exp[Key(t)].manifest.pass
  /\ UNCHANGED <<allVars, failedStage, earned>>

AnalysisNext == Harness \/ BatchReports

AnalysisSpec == AnalysisInit /\ [][AnalysisNext]_everything

-----------------------------------------------------------------------------
Exists(k) == exp[k] # Empty

Least(S) == CHOOSE i \in S : \A j \in S : i <= j

IdsOf(t) == {i \in Ids : Exists(<<t, i>>)}

\* find_experiment_dir(): experiments/<target_id>-roundtrip, which is the
\* directory of run id 1 whatever the configuration says, or else the first
\* name that has the target id in it: those of the target come before those of
\* a target with a longer id.
ExperimentDirs(t) ==
  IF IdsOf(t) # {} THEN {<<t, Least(IdsOf(t))>>}
  ELSE LET others == {u \in Targets : <<t, u>> \in Similar /\ IdsOf(u) # {}} IN
       {<<u, Least(IdsOf(u))>> : u \in others}

\* load_evaluation(): evaluation_manifest.json, or else any JSON file with an
\* overall_pass, which is the copy in report/.
EvaluationOf(k) ==
  IF exp[k].manifest.n # 0 THEN exp[k].manifest ELSE exp[k].report

\* read_json() gives back objects only.
ReadJson(kind, value) == IF kind = "object" THEN value ELSE "none"

\* load_batch_entry(): batch_execution.json and batch_plan.json are lists.
BatchEntry(t) == ReadJson("list", batchFile[t])

\* coerce_bool() of the first status there is, in the batch report and then in
\* runs.csv.
Status(t) ==
  LET row == rows[Key(t)] IN
  IF BatchEntry(t) # "none" THEN BatchEntry(t)
  ELSE IF row.n = 0 THEN "none" ELSE IF row.pass THEN "passed" ELSE "failed"

\* Mutant: no news is good news.
Inferred_Optimistic(failure, length) == IF failure \/ length THEN "FAIL" ELSE "PASS"

\* Mutant: pipeline_failure.json is not looked at.
Inferred_NoFailure(failure, length) == IF length THEN "FAIL" ELSE "unknown"

\* Nothing says how the run ended: it failed if a failure was recorded or a
\* generation ended with done_reason "length".
Inferred(failure, length) == IF failure \/ length THEN "FAIL" ELSE "unknown"

\* Mutant: a truncated generation is a failure whatever the manifest says.
Verdict_LengthFirst(t, d, length) ==
  IF length THEN "FAIL"
  ELSE IF EvaluationOf(d).n # 0 /\ EvaluationOf(d).pass THEN "PASS"
  ELSE "FAIL"

\* overall_pass of the target's record, with d the directory that was read.
Verdict(t, d, length) ==
  IF EvaluationOf(d).n # 0
  THEN IF EvaluationOf(d).pass THEN "PASS" ELSE "FAIL"
  ELSE CASE Status(t) = "passed" -> "PASS"
         [] Status(t) = "failed" -> "FAIL"
         [] OTHER -> Inferred(exp[d].failure, length)

\* The same, over every directory that may be read; a target without any is
\* read as an empty one.
Verdicts(t) ==
  LET dirs == IF ExperimentDirs(t) = {} THEN {Key(t)} ELSE ExperimentDirs(t) IN
  {Verdict(t, d, length) : d \in dirs, length \in BOOLEAN}

-----------------------------------------------------------------------------
\* After an attempt that ran to its end the table says what its manifest says,
\* whatever a batch reported in the meantime and however runs.csv was cut.
CompletedReported ==
  \A t \in Targets :
    last[Key(t)] = "completed" /\ Exists(Key(t)) =>
      Verdicts(t) = {IF exp[Key(t)].manifest.pass THEN "PASS" ELSE "FAIL"}

\* The table says PASS only of a target evaluate() once returned PASS for, over
\* all fallbacks and half-removed directories.
PassEarned == \A t \in Targets : "PASS" \in Verdicts(t) => t \in earned

\* A run that ended by an exception, and has no older result anywhere, counts
\* as a failure and not as an unknown.
FailureCounted ==
  \A t \in Targets :
    LET k == Key(t) IN
    /\ last[k] = "failed" /\ Exists(k)
    /\ EvaluationOf(k).n = 0
    /\ Status(t) # "passed"
    => Verdicts(t) = {"FAIL"}

\* roundtrip_execution_v1.md:13: a format violation of regenerated code is
\* recorded as a failure.  A run whose response was saved but not accepted, and
\* that has no manifest, is not in the table as a PASS.
FailureNotHidden ==
  \A t \in Targets :
    LET k == Key(t) IN
    /\ last[k] = "failed" /\ failedStage[k] = "regenerate_code"
    /\ exp[k].response.n # 0 /\ EvaluationOf(k).n = 0
    => "PASS" \notin Verdicts(t)

\* analyze_roundtrip_experiments.py:16: batch_execution.json is the fallback
\* status source.  A target whose attempt was killed before it left anything
\* on disk, and that a batch reported as failed, is a failure in the table.
BatchStatusUsed ==
  \A t \in Targets :
    /\ last[Key(t)] = "died" /\ IdsOf(t) = {} /\ rows[Key(t)].n = 0
    /\ batchFile[t] = "failed"
    => Verdicts(t) = {"FAIL"}
=============================================================================
