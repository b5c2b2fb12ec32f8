------------------------------ MODULE Failures ------------------------------
(***************************************************************************)
(* scripts/roundtrip/analyze_roundtrip_experiments.py on the manifest of   *)
(* one call of evaluate(): the status of each stage, the class of the      *)
(* failure, and what the target adds to the funnel of the study.           *)
(***************************************************************************)
EXTENDS Evaluation

\* What else the experiment directory and the logs say of the attempt: the
\* done_reason of the two generations; pipeline_failure.json, which a report or
\* a registration that raised leaves beside a manifest; the first error in the
\* log of the build; and how the process of the direct tests ended.
Evidence ==
  [design : {"stop", "length"}, code : {"stop", "length"},
   failure : {"none", "truncated", "other"},
   buildError : {"syntax_error", "duplicate_definition",
                 "missing_definition_or_dependency",
                 "type_interface_misunderstanding", "timeout_or_hang",
                 "build_failure_other"},
   exitCode : {1, 137}]

\* The entry of a stage in manifest["stages"].
SavedStage(s) ==
  [there |-> records[s] # "none", passed |-> records[s] = "passed",
   skipped |-> records[s] = "skipped", timedOut |-> records[s] = "timeout"]

\* Mutant: `passed` is looked at before `skipped`.
StageStatus_PassedFirst(value) ==
  CASE ~value.there  -> "not_recorded"
    [] value.passed  -> "passed"
    [] OTHER         -> "failed"

\* stage_from_mapping(): a skipped stage has passed = False, too.
StageStatus(value) ==
  CASE ~value.there  -> "not_recorded"
    [] value.skipped -> "skipped"
    [] value.passed /\ ~value.skipped -> "passed"
    [] OTHER         -> "failed"

StatusOf(s) == StageStatus(SavedStage(s))

\* generation_stage_from_metadata()
GenerationStatus(doneReason) == IF doneReason = "length" THEN "failed" ELSE "passed"

\* The name of a stage in the tables.
Name(s) == <<"configure", "build", "direct_test", "full_test">>[s]

Rule(applies, blamed, class) ==
  [applies |-> applies, blamed |-> blamed, class |-> class]

TimedOut(s)      == Rule(SavedStage(s).timedOut, Name(s), "timeout_or_hang")
Failed(s, class) == Rule(StatusOf(s) = "failed", Name(s), class)

\* Mutant: a failure of configure is not asked for.
Rules_NoConfigure(e) ==
  << Rule(overall, "none", "none"),
     TimedOut(Configure), TimedOut(Build), TimedOut(DirectTest), TimedOut(FullTest),
     Rule(e.design = "length", "design_generation", "output_truncation"),
     Rule(e.code = "length", "code_regeneration", "output_truncation"),
     Rule(e.failure # "none", "pipeline", "output_format_or_pipeline"),
     Failed(Build, e.buildError),
     Failed(DirectTest, "direct_test_failure"),
     Failed(FullTest, "full_test_failure"),
     Rule(TRUE, "unknown", "unknown_failure") >>

\* The returns of classify_failure(), in their order.  pipeline_failure.json has
\* its stage under "failed_stage", which is not among the names it is looked for
\* under.  The counts of a test stage are not found where they are looked for
\* either, so the exit status alone says that the tests were stopped from
\* outside; for one target of the study that class has a name of its own.
Rules(e) ==
  << Rule(overall, "none", "none"),
     TimedOut(Configure), TimedOut(Build), TimedOut(DirectTest), TimedOut(FullTest),
     Rule(e.design = "length", "design_generation", "output_truncation"),
     Rule(e.code = "length", "code_regeneration", "output_truncation"),
     Rule(e.failure # "none", "pipeline",
          IF e.failure = "truncated" THEN "output_truncation"
          ELSE "output_format_or_pipeline"),
     Failed(Configure, "configure_failure"),
     Failed(Build, e.buildError),
     Failed(DirectTest, IF e.exitCode = 137 THEN "timeout_or_hang"
                        ELSE "direct_test_failure"),
     Failed(FullTest, "full_test_failure"),
     Rule(TRUE, "unknown", "unknown_failure") >>

\* The first that applies.
Classify(e) ==
  LET rules == Rules(e) IN
  rules[CHOOSE i \in DOMAIN rules :
          rules[i].applies /\ \A j \in 1..(i - 1) : ~rules[j].applies]

\* stage_funnel(): the stage counts as reached.
Reached(s) == StatusOf(s) \in {"passed", "failed"}

-----------------------------------------------------------------------------
\* What is known of the attempt besides its manifest, and hides the stage that
\* failed: the first evidence the table takes.
Hiding(e) == e.design = "length" \/ e.code = "length" \/ e.failure # "none"

\* The table blames a FAIL on the stage at which evaluate() stopped, after stages
\* that passed and before stages that were not run: always when that stage ran
\* out of time, and when it failed unless a truncated generation or a
\* pipeline_failure.json is there to be blamed.  Those are blamed only when they
\* are there, and no stage is for an error of the harness (an image that differs,
\* docker that raises, a file that is missing); what stays unknown is such an
\* error, or a repository that was not clean.
FailureLocated ==
  outcome = "returned" /\ ~overall =>
    \A e \in Evidence :
      LET blamed == Classify(e).blamed IN
      /\ \A s \in Stages :
           /\ \/ records[s] = "timeout"
              \/ records[s] = "failed" /\ ~Hiding(e)
              => blamed = Name(s)
           /\ blamed = Name(s) =>
                /\ ~error
                /\ records[s] \in {"failed", "timeout"}
                /\ \A t \in Stages :
                     /\ t < s => records[t] = "passed"
                     /\ t > s => records[t] = "skipped"
      /\ blamed = "design_generation" => e.design = "length"
      /\ blamed = "code_regeneration" => e.code = "length"
      /\ blamed = "pipeline" => e.failure # "none"
      /\ blamed = "unknown" => error \/ ~restoration.clean

\* The funnel of the study narrows: a target that counts as having reached a
\* stage passed the one before it, whatever stopped the call.
FunnelNarrows ==
  outcome = "returned" =>
    \A s \in Build..FullTest : Reached(s) => StatusOf(s - 1) = "passed"
=============================================================================
