-------------------------- MODULE MinimalExperiment --------------------------
(***************************************************************************)
(* scripts/minimal_experiment: the first experiment, one fixed run on one  *)
(* source file.  run_ollama_roundtrip.py calls the LLM for a design and    *)
(* for a body; evaluate_ini_writer_regeneration.py puts the body into the  *)
(* source, runs five stages, restores the source and writes nine outputs.  *)
(* The operator runs one script at a time, each with or without --force.   *)
(***************************************************************************)
EXTENDS Naturals

CONSTANTS
  MaxCalls,  \* bound: calls of the LLM
  MaxRuns    \* bound: runs of the evaluator

ASSUME MinimalAssumption == MaxCalls \in Nat /\ MaxRuns \in Nat

Stages  == {"configure", "build", "direct", "full", "ctest"}
Outputs == {"diff", "replacement", "build", "direct", "full", "ctest",
            "summary", "manifest", "error"}
Saved   == {"request", "response", "raw", "text"}
Kinds   == {"design", "regenerate"}

VARIABLES
  saved,     \* per kind of call and file: number of the call it is from, 0: none
  calls,     \* LLM calls so far
  script,    \* what runs: where, for which kind of call, whether with --force
  source,    \* ini/ini.h: text of HEAD, with a generated body, or torn
  fixtures,  \* the other tracked files are as at HEAD
  runs,      \* evaluator runs so far
  result,    \* stage records of the run
  error,     \* evaluation_error is not None
  raising,   \* an exception waits for the finally to end
  clean,     \* "restored" and "submodule_clean" of the run
  output,    \* per output file: the run that wrote it, 0: none
  manifest,  \* what evaluation_manifest.json says
  ended      \* history: how the last run ended

callVars == <<saved, calls>>
repoVars == <<source, fixtures>>
runVars  == <<runs, result, error, raising, clean>>
outVars  == <<output, manifest, ended>>
vars     == <<callVars, script, repoVars, runVars, outVars>>

InTry   == {"replace", "diff", "replacement"} \cup Stages
Running == InTry \cup {"check", "except", "restore", "status", "persist",
                       "manifest", "summary"}

NoManifest == [run |-> 0, pass |-> FALSE, error |-> FALSE]

TypeOK ==
  /\ saved \in [Kinds -> [Saved -> 0..MaxCalls]]
  /\ calls \in 0..MaxCalls
  /\ script \in [at : {"idle", "call", "save"} \cup Running, kind : Kinds,
                 force : BOOLEAN]
  /\ source \in {"head", "replaced", "torn"}
  /\ fixtures \in BOOLEAN
  /\ runs \in 0..MaxRuns
  /\ result \in [Stages -> {"skipped", "passed", "failed"}]
  /\ error \in BOOLEAN
  /\ raising \in BOOLEAN
  /\ clean \in BOOLEAN
  /\ output \in [Outputs -> 0..MaxRuns]
  /\ \/ manifest = NoManifest
     \/ manifest \in [run : 1..MaxRuns, pass : BOOLEAN, error : BOOLEAN]
  /\ ended \in {"none", "running", "completed", "raised", "broken", "killed"}

Init ==
  /\ saved = [k \in Kinds |-> [f \in Saved |-> 0]]
  /\ calls = 0
  /\ script = [at |-> "idle", kind |-> "design", force |-> FALSE]
  /\ source = "head"
  /\ fixtures = TRUE
  /\ runs = 0
  /\ result = [s \in Stages |-> "skipped"]
  /\ error = FALSE
  /\ raising = FALSE
  /\ clean = FALSE
  /\ output = [f \in Outputs |-> 0]
  /\ manifest = NoManifest
  /\ ended = "none"

At(point)   == script.at = point
Goto(point) == script' = [script EXCEPT !.at = point]

-----------------------------------------------------------------------------
\* run_ollama_roundtrip.py --stage design or regenerate.  Without --force no
\* output of the stage may exist; regenerate needs the design document.  The
\* request is written before the call.
StartCall(kind, force) ==
  /\ At("idle")
  /\ calls < MaxCalls
  /\ force \/ \A f \in Saved : saved[kind][f] = 0
  /\ kind = "regenerate" => saved["design"].text # 0
  /\ calls' = calls + 1
  /\ saved' = [saved EXCEPT ![kind].request = calls + 1]
  /\ script' = [at |-> "call", kind |-> kind, force |-> force]
  /\ UNCHANGED <<repoVars, runVars, outVars>>

\* The response is written, with its metadata.
CallReturns ==
  /\ At("call")
  /\ saved' = [saved EXCEPT ![script.kind].response = calls]
  /\ Goto("save")
  /\ UNCHANGED <<calls, repoVars, runVars, outVars>>

\* The raw text, and from it the document or the body.
SaveText ==
  /\ At("save")
  /\ saved' = [saved EXCEPT ![script.kind].raw = calls, ![script.kind].text = calls]
  /\ Goto("idle")
  /\ UNCHANGED <<calls, repoVars, runVars, outVars>>

\* No answer, a response that is not a string, a write that fails, Ctrl-C.
CallStops ==
  /\ script.at \in {"call", "save"}
  /\ IF At("call") THEN saved' = saved
     ELSE saved' \in {saved, [saved EXCEPT ![script.kind].raw = calls]}
  /\ Goto("idle")
  /\ UNCHANGED <<calls, repoVars, runVars, outVars>>

-----------------------------------------------------------------------------
\* Mutant: only the manifest is looked for.
OutputsAbsent_ManifestOnly == output["manifest"] = 0

\* ensure_outputs_absent()
OutputsAbsent == \A f \in Outputs : output[f] = 0

StartRun(force) ==
  /\ At("idle")
  /\ runs < MaxRuns
  /\ force \/ OutputsAbsent
  /\ runs' = runs + 1
  /\ result' = [s \in Stages |-> "skipped"]
  /\ error' = FALSE
  /\ raising' = FALSE
  /\ clean' = FALSE
  /\ ended' = "running"
  /\ script' = [script EXCEPT !.at = "check", !.force = force]
  /\ UNCHANGED <<callVars, repoVars, output, manifest>>

\* Commits, a clean repository, the image, the hash of the original; then the
\* body is read and the modified text computed.
ChecksPass ==
  /\ At("check")
  /\ saved["regenerate"].text # 0
  /\ source = "head"
  /\ fixtures
  /\ Goto("replace")
  /\ UNCHANGED <<callVars, repoVars, runVars, outVars>>

EndRun(how) == Goto("idle") /\ ended' = how

ChecksFail ==
  /\ At("check")
  /\ EndRun("raised")
  /\ UNCHANGED <<callVars, repoVars, runVars, output, manifest>>

Replace ==
  /\ At("replace")
  /\ source' = "replaced"
  /\ Goto("diff")
  /\ UNCHANGED <<callVars, fixtures, runVars, outVars>>

\* replacement_diff.patch, then source_replacement.json.
WriteEvidence ==
  /\ script.at \in {"diff", "replacement"}
  /\ output' = [output EXCEPT ![script.at] = runs]
  /\ Goto(IF At("diff") THEN "replacement" ELSE "configure")
  /\ UNCHANGED <<callVars, repoVars, runVars, manifest, ended>>

\* Configure and build stop the stages when they fail; the three tests run
\* whatever the ones before them said.
StageAfter(s, passed) ==
  CASE s = "configure" -> IF passed THEN "build" ELSE "restore"
    [] s = "build"     -> IF passed THEN "direct" ELSE "restore"
    [] s = "direct"    -> "full"
    [] s = "full"      -> "ctest"
    [] s = "ctest"     -> "restore"

\* A stage container ends; it may have changed a tracked fixture.  Its record
\* is written: that of configure and that of build into the same file.
RunStage(s, passed) ==
  /\ At(s)
  /\ result' = [result EXCEPT ![s] = IF passed THEN "passed" ELSE "failed"]
  /\ output' = [output EXCEPT ![IF s = "configure" THEN "build" ELSE s] = runs]
  /\ fixtures' \in {fixtures, FALSE}
  /\ Goto(StageAfter(s, passed))
  /\ UNCHANGED <<callVars, source, runs, error, raising, clean, manifest, ended>>

MayTear == source' \in {source, "torn"}

\* An exception in the try.
TryFails ==
  /\ script.at \in InTry
  /\ IF At("replace") THEN MayTear ELSE source' = source
  /\ error' = TRUE
  /\ Goto("except")
  /\ UNCHANGED <<callVars, fixtures, runs, result, raising, clean, outVars>>

\* evaluation_error.json
WriteError ==
  /\ At("except")
  /\ output' = [output EXCEPT !["error"] = runs]
  /\ Goto("restore")
  /\ UNCHANGED <<callVars, repoVars, runVars, manifest, ended>>

\* Mutant: the restore is not in a finally.
Interrupted_NoFinally ==
  /\ script.at \in InTry \cup {"except"}
  /\ EndRun("raised")
  /\ UNCHANGED <<callVars, repoVars, runVars, output, manifest>>

\* Ctrl-C in the try or the except, or evaluation_error.json cannot be
\* written: the finally runs, then the exception goes on.
Interrupted ==
  /\ script.at \in InTry \cup {"except"}
  /\ IF At("replace") THEN MayTear ELSE source' = source
  /\ raising' = TRUE
  /\ Goto("restore")
  /\ UNCHANGED <<callVars, fixtures, runs, result, error, clean, outVars>>

\* The original bytes: prepared as HEAD by the checks.
Restore ==
  /\ At("restore")
  /\ source' = "head"
  /\ Goto("status")
  /\ UNCHANGED <<callVars, fixtures, runVars, outVars>>

RestoreFails ==
  /\ At("restore")
  /\ MayTear
  /\ EndRun("broken")
  /\ UNCHANGED <<callVars, fixtures, runVars, output, manifest>>

\* Hash and git status, still in the finally.
Status ==
  /\ At("status")
  /\ clean' = (source = "head" /\ fixtures)
  /\ IF raising THEN EndRun("raised") ELSE Goto("persist") /\ ended' = ended
  /\ UNCHANGED <<callVars, repoVars, runs, result, error, raising, output, manifest>>

\* Mutant: the records of skipped stages are not written.
Persist_Ran ==
  /\ At("persist")
  /\ output' = [f \in Outputs |->
                 IF f \in Stages /\ result[f] # "skipped" THEN runs ELSE output[f]]
  /\ Goto("manifest")
  /\ UNCHANGED <<callVars, repoVars, runVars, manifest, ended>>

\* All stage records are written, those of skipped stages too.
Persist ==
  /\ At("persist")
  /\ output' = [f \in Outputs |-> IF f \in Stages THEN runs ELSE output[f]]
  /\ Goto("manifest")
  /\ UNCHANGED <<callVars, repoVars, runVars, manifest, ended>>

\* Mutant: the state of the repository is not part of the verdict.
Overall_AnyRepository == ~error /\ \A s \in Stages : result[s] = "passed"

Overall == ~error /\ clean /\ \A s \in Stages : result[s] = "passed"

WriteManifest ==
  /\ At("manifest")
  /\ manifest' = [run |-> runs, pass |-> Overall, error |-> error]
  /\ output' = [output EXCEPT !["manifest"] = runs]
  /\ Goto("summary")
  /\ UNCHANGED <<callVars, repoVars, runVars, ended>>

WriteSummary ==
  /\ At("summary")
  /\ output' = [output EXCEPT !["summary"] = runs]
  /\ EndRun("completed")
  /\ UNCHANGED <<callVars, repoVars, runVars, manifest>>

\* git, a hash or a write raises after the source is back, or Ctrl-C; the
\* records are written one after the other.
LateStop ==
  /\ script.at \in {"status", "persist", "manifest", "summary"}
  /\ output' \in {output} \cup
       (IF At("persist")
        THEN {[f \in Outputs |-> IF f \in written THEN runs ELSE output[f]] :
                written \in SUBSET (Stages \ {"configure"})}
        ELSE {})
  /\ EndRun("raised")
  /\ UNCHANGED <<callVars, repoVars, runVars, manifest>>

\* The process dies.
Kill ==
  /\ script.at \in Running
  /\ IF script.at \in {"replace", "restore"} THEN MayTear ELSE source' = source
  /\ EndRun("killed")
  /\ UNCHANGED <<callVars, fixtures, runVars, output, manifest>>

OperatorCleans ==
  /\ At("idle")
  /\ source # "head" \/ ~fixtures
  /\ source' = "head"
  /\ fixtures' = TRUE
  /\ UNCHANGED <<callVars, script, runVars, outVars>>

Call == CallReturns \/ SaveText \/ CallStops

\* What the evaluator does next; the stages have no time limit.
Evaluator ==
  \/ ChecksPass \/ ChecksFail \/ Replace \/ WriteEvidence \/ WriteError
  \/ Restore \/ Status \/ Persist \/ WriteManifest \/ WriteSummary

Containers == \E s \in Stages, passed \in BOOLEAN : RunStage(s, passed)

Next ==
  \/ \E kind \in Kinds, force \in BOOLEAN : StartCall(kind, force)
  \/ \E force \in BOOLEAN : StartRun(force)
  \/ Call \/ Evaluator \/ Containers
  \/ TryFails \/ Interrupted \/ RestoreFails \/ LateStop \/ Kill
  \/ OperatorCleans

Spec == Init /\ [][Next]_vars

-----------------------------------------------------------------------------
\* PASS is only said when all five stages passed, the source is back at HEAD,
\* and no stage left another tracked file changed.
PassSound ==
  At("summary") /\ manifest.pass =>
    /\ source = "head"
    /\ fixtures
    /\ \A s \in Stages : result[s] = "passed"

\* A run that got past its checks leaves the source at HEAD, unless it was
\* killed or the restoring write itself failed.
SourceRestored ==
  [][ended = "running" /\ ended' \in {"completed", "raised"} =>
       At("check") \/ source' = "head"]_vars

\* After a run with a verdict, stage records, manifest and summary are its
\* own, whatever an earlier run left and wherever this one stopped testing;
\* so is the error when the manifest has one, and the evidence of the
\* replacement when it has none.
OutputsOfOneRun ==
  At("idle") /\ ended = "completed" =>
    /\ \A f \in {"build", "direct", "full", "ctest", "manifest", "summary"} :
         output[f] = runs
    /\ manifest.error => output["error"] = runs
    /\ ~manifest.error => output["diff"] = runs /\ output["replacement"] = runs

\* Without --force no saved output of another call or run is written over, also
\* none that a call or run left which was stopped half-way.
PlainNeverOverwrites ==
  [][/\ \A f \in Outputs :
          output[f] \notin {0, runs} /\ output'[f] # output[f] => script.force
     /\ \A k \in Kinds, f \in Saved :
          saved[k][f] \notin {0, calls} /\ saved'[k][f] # saved[k][f] =>
            script'.force \/ script.force]_vars
=============================================================================
