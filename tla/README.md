# TLA+ models of the round-trip experiment harness

The repository measures whether C++ code can be regenerated from design
documents an LLM wrote about it.  Its program is a set of Python scripts: they
replace source files of a checked-out repository with regenerated code, build
and test that in containers, put the originals back, and record a verdict.
What the study says rests on the verdicts being about the regenerated code and
nothing else, on the sources always coming back, and on no result being lost or
written over.  These modules state and check that.

Paths below are relative to `src/`; `run_target.py` and `roundtrip_common.py`
are in `scripts/roundtrip/`.

## Inventory

| component | state it keeps | operations | hard behaviour |
|---|---|---|---|
| `evaluate()` and `docker_run()` (`run_target.py` 469-597, `roundtrip_common.py` 48-210) | the target's source files in the repository, originals in memory, stage records, manifest, containers, `build/` | read, replace, check the image, four stages, restore in `finally`, verdict | Ctrl-C or kill anywhere, a write that tears a file, time-outs, containers that outlive their client on the bind mount |
| `main()` of `run_target.py` (757-1077), with `prepare`, `generate_design`, `regenerate`, `materialize_regeneration_output`, `build_report`, `register`, `record_pipeline_failure` | `experiments/<id>/`, `manifests/runs.csv`, `targets.csv` | a plain attempt, one with `--force`, one with `--reprocess-existing` | repeated attempts, half-removed directories, stale files of earlier attempts, non-atomic rewrites |
| LLM text handling (`normalize_outer_markdown_fence`, `parse_module_output`, `strip_inline_callable_bodies`, `find_matching_brace`, `locate_class_span`) | none | pure functions on text | nesting, quotes and comments, truncated output |
| `configure_execution.py` | `configs/roundtrip/targets/*.json`: run id, experiment id, `enabled`; its readiness report | infer symbol and tests, probe the baseline, write the final configuration | overwriting a configuration that moved on; a probe of a dirty repository or of no test; a draft that was cut short; configurations that outlive their draft |
| `archive_failed_pilot.py` | `experiments/pilot-failures/<run id>/`, the configuration | classify, move, bump both ids | a stop between the move and the writes; telling a failed pilot from a killed evaluation |
| `run_batch.py` | `reports/batch/*`; one `run_target.py` child at a time | plan, execute | results only written at the end, a target that leaves the repository dirty |
| `bootstrap_batch_catalog.py` | draft configurations, catalog | parse reports, merge records, remove stale drafts | order-dependent merge, a stop between the removals and the writes |
| `analyze_roundtrip_experiments.py` | none; reads everything the others write | join directories, manifests, rows and batch reports, classify failures, compare groups | sources of different attempts, half-removed directories, targets with similar ids |
| `minimal_experiment/*.py` | one fixed run on `ini-cpp` | Ollama round trip, evaluate, restore | no stage time-outs, outputs of an earlier `--force` |
| reporting (`generate_experiment_overview.py`), PowerShell set-up scripts, Docker and CMake files, generated C++ | reports, files | formatting, set-up | none that a state machine would show |

Interactions: `run_batch` starts `run_target` as a child and reads its exit
status; `run_target` calls `evaluate()`; the repository, the experiment
directory and `runs.csv` are shared by whatever runs next; containers share
the repository through a bind mount; `configure_execution` and
`archive_failed_pilot` rewrite the configuration `run_target` reads; the drafts
`bootstrap_batch_catalog` writes are what `configure_execution` reads.

## Modules

| module | models |
|---|---|
| `Evaluation` | one call of `evaluate()` with the `docker_run()` calls it makes |
| `EvaluationPromise` | what callers of `evaluate()` rely on; abstract |
| `EvaluationProofs` | TLAPS proofs about `Evaluation` and `Failures`, for all constants |
| `RunTarget` | attempts one after another on targets of one repository; uses `EvaluationPromise` for the call |
| `TargetLifecycle` | `RunTarget` with `configure --force` and archiving around the attempts |
| `RunBatch` | `run_batch.py`: `RunTarget` with the batch that starts its attempts |
| `MinimalExperiment` | the two scripts of the first, fixed experiment |
| `Analysis` | what the tables of the study say, over everything `TargetLifecycle` and batches leave on disk |
| `Failures` | on the manifest of `Evaluation`: the status of each stage, the class of the failure, the funnel |
| `StudyStatistics` | `rankdata()` and `fisher_two_sided()` |
| `Catalog` | `bootstrap_batch_catalog.py`: reports to drafts and catalog |
| `Configure` | `configure_execution.py` on the drafts of `Catalog` |
| `SourceText` | the brace scanner, the class locator and the body stripper of `roundtrip_common.py`, and what `prepare()` and `evaluate()` do with them |
| `OutputFormat` | from a response to the generated files: fence, JSON, paths |
| `RunTargetProofs`, `TargetLifecycleProofs`, `RunBatchProofs`, `AnalysisProofs`, `SetupProofs`, `MinimalExperimentProofs`, `TextProofs` | TLAPS proofs about the module of the name (`SetupProofs`: `Catalog` and `Configure`; `TextProofs`: `SourceText`, `OutputFormat` and `StudyStatistics`), for all constants |
| `MCEvaluation`, `MCRunTarget`, `MCTargetLifecycle`, `MCRunBatch`, `MCAnalysis`, `MCMinimalExperiment`, `MCText`, `MCSetup` | the instances TLC checks |

### Evaluation

`pc` follows the function: `read` (473), `replace` (479-509), `stage`, `running`,
`cleanup` (511-557 and `docker_run`), `restore` (560-562), `verify` (564-573),
`record` (574-597), `done`.  A tracked file holds `head` (its text at HEAD),
`generated` (the text with the regenerated code), `foreign` (anything else),
`mixed` (a class spliced into a foreign text) or `torn`.  `built` remembers, for
each file, the text the build compiled.  One action per step; every step that
can raise has an action that raises, `InterruptTry`, `InterruptFinally` and
`InterruptOutside` are Ctrl-C in the three regions where it does different
things, and `Kill` is the death of the process.  A container works while
`container = "running"`, also after `TimesOut` and `CleansUp` when `docker rm -f`
did not remove it.

The stage commands are external: they compile files (`Compile`), may write a
tracked file that is not the target's (`ContainerWrites`), and exit with any
status and any test counts; a build only exits with 0 when everything was
compiled.  They never write the target's own files: no stage command of the
configurations does.

`EvaluationPromise` has four actions: `Work` (anything, while the call is open),
`Return` (a verdict; the target's files are as at the call; PASS only when the
repository was at HEAD and is again), `GiveUp` (no verdict, any tree) and
`LateWrite` (a left-over container, never after PASS, which does what
`ContainerWrites` allows: it leaves the target's own files alone).  `KeepsPromise` is the
refinement, under `phase` and `verdict` read off `pc`, `outcome` and `overall`.

### RunTarget

`exp[<<t, n>>]` is the experiment directory of run id number `n` of target `t`:
the saved configuration, the inputs, the response (numbered by the attempt
whose call returned it), the generated code, the manifest, the report's copy of
it, and `pipeline_failure.json`.  `rows` is `runs.csv`.  `proc` is the running
attempt; each stage of `main()` is an action in the order of the code, and
every stage can raise (`StageFails`, `EvaluateRaises`, recorded), or be
interrupted or killed (`Die`, not recorded).  `--force` removes the directory
before anything is checked; an `rmtree` that stops leaves any part of it.
The manifest carries one history field the properties need: who called
`evaluate()`.

An attempt whose `evaluate()` ended without a PASS may leave a container behind
(Ctrl-C, a kill, a `docker rm -f` that failed): its target is in `strays`.  From
then on, also during later attempts, `StrayWrites` lets that container write what
`EvaluationPromise!ContainerWrites` allows: files that are not its target's.
`strays` only grows, since nothing in the code looks for such a container again,
and the operator who brings the repository back to HEAD (`OperatorCleans`) need
not remove it.  `TargetLifecycle`, `RunBatch` and `Analysis` have the step as
`Stray`, whatever script is running.

Configurations do not change in `RunTarget`; a target is enabled or not, and
both are initial states.  `TargetLifecycle` changes them.

### TargetLifecycle

`Attempt` is a step of `RunTarget`; `Configure` is `configure_execution.py
--force` for one target (its one write: run id 1, enabled or not);
`ArchiveMoves`, `ArchiveClassifies` and `ArchiveConfigures` are the three writes
of `archive_failed_pilot.py`, and `ArchiveDies` is a stop between them.  The
operator runs one script at a time.  `replaced` and `cut` are history: an
`evaluate()` of the run overwrote source files; a removal of the directory by
`--force` stopped half-way.

### RunBatch

`batch.at` is `next` (the loop at 62), `child` (75), `write` (93-106); `todo` is
the set of targets left, and `Current` the first of them in the order of their
files (a target has one file); `results` is the list the report
is made of.  A child is an attempt of `RunTarget`; `Refused` is the child whose
directory is not empty.  A batch that dies may leave its child running; the
operator starts nothing before that one has ended.

### Analysis

`analyze_roundtrip_experiments.py` changes nothing the others read, so it is
operators on the state: `ExperimentDirs` (386-418), `EvaluationOf` (460-478),
`ReadJson` and `BatchEntry` (271-278, 512-522), `Status` (525-530, 999-1006),
`Inferred` (1007-1014, 744-753) and `Verdict`, which puts them together as
`parse_standard_target` does.  They are evaluated in every state of the
archives, configurations and attempts of `TargetLifecycle` (`Harness`), with any
report a batch may have written in between (`BatchReports`).  `BatchEntry` is
always "none": `run_batch.py` writes lists, and `read_json` gives back objects
only; `ana_batch` is what follows.  A directory that is found is not determined
when the id of the target is part of two others, nor is whether a generation
ended with `length`: `Verdicts` is the set of all verdicts the record can get.
`earned` is history: the targets `evaluate()` returned PASS for.  `failedStage`
is the field `record_pipeline_failure` writes; the analysis never reads it,
since it asks for `stage` or `failure_stage` (798, 1047) and the field is called
`failed_stage` (`run_target.py` 746).  Of `Verdict` the full-test stage that
passed without an `overall_pass` (1009) is left out: a manifest of
`run_target.py` always has one.

### Failures and StudyStatistics

`Failures` extends `Evaluation`: its operators read the manifest a call of
`evaluate()` returned.  `SavedStage` is the entry of a stage as 544-557 of
`run_target.py` save it (a skipped one has `passed: False`), `StageStatus` is
`stage_from_mapping`, `Rules` the returns of `classify_failure` in their order
and `Classify` the first that applies.  What the manifest does not decide
(done reasons, a `pipeline_failure.json` beside it, the first error in a build
log, the exit status of the tests) is `Evidence`, and the properties hold for
all of it.  A rule has the stage the code returns, `blamed`: `design_generation`
and `code_regeneration` for a generation that was cut off (791-794); for a
`pipeline_failure.json` always `pipeline`, since it has its stage under
`failed_stage` (`run_target.py` 746) and is asked for `stage` or `failure_stage`
(798).  Both are taken before the stage that failed, but behind one that timed
out.  The manifest's `error` is never read by the analysis, so an image that
differs or docker that raises is an `unknown_failure`, of the stage `unknown`.

In `StudyStatistics` a turn of the loop of `rankdata` is an action (ranks are
doubled, halves are whole; `Place` is where the stable `sorted` puts a value),
and `TwoSided` is the sum of `fisher_two_sided` times `comb(total, row1)`, a whole
number.  The tolerance of 1e-12 (1325) is left out: it is there for the rounding
of floating-point numbers, and where `comb(total, row1)` is above 1e12 it lets in
tables whose probability is above the observed one by no more than that.

### Catalog and Configure

An entry of `Catalog` is what one row, list item or decision of a report says of
a target; `reports[t]` are the entries on a target in the order `main()` meets
them.  `Updates` is what `parse_report` makes of an entry (a filter column takes
the place of the filter made of the names, also with an empty cell), `Merge` is
`merge_record`, `NormalizeRecord` makes the filter of the names in the end if
there is none, `Rec` is the record that comes of it.  The run of the script is `BootStart`
(562-592), `RemoveStale` (599), one `WriteDraft` for each target (601-605),
`WriteCatalog` (607-616) and `BootEnds` (617-628); `BootStops` is a stop in any
of them, with any of the removals done or the file that was being written cut
short.  The targets still to be written are a set, from which the loop takes
the `Earliest` in the order of `main()`; so is `todo` in `Configure`.  An absent
value is `NoValue`.  `EditReport` is the author of the reports, between two runs.

`Configure` follows its loop: `Loaded` and `LoadRaises` (168), `ConfigureSkips`
(172), `ConfigureBlocks` (every reason to go on to the next target, and a
configuration that is kept, 295), `ConfigureTarget`, `ProbeStage` for each of
the four containers (300-335), `WriteFinal` (352) and, after the last target,
`WriteReport` and `ConfigureEnds`; `conf.written` is history, the targets whose
configuration this run wrote; `ConfigureStops` is an exception or the death
of the process anywhere.  `scan` is what `scan_classes` and `scan_gtests` find.
A final configuration carries two history fields, for one that is enabled:
`ran` (its filter selects tests) and `head`.  `CheckoutChanges` is the
one step of another part: an attempt that was killed, or an operator who cleans
up.  The run id a configuration gets is in `TargetLifecycle`.

### SourceText and OutputFormat

A text of `SourceText` is a sequence of lexemes: the characters the scanner
looks at, some by name (`lbrace`, `dquote`), and words for what the regular
expressions look for (`sig` ends in an argument list, `class` is the target's
keyword and name).  The two loops are recursive functions of the position:
`Scan` gives mode, escape flag, depth and result before each character, `Strip`
what was put out so far and where the loop goes on.  `FindMatchingBrace`,
`LocateClassSpan` and `StripInlineCallableBodies` are the functions, with 0,
`NoSpan` and `Unclosed` for a `ValueError`; `PrepareText`, `ReplaceClass`,
`RestoreText` and `DieText` are the places they are used at, so that a class is
also looked for in a file an earlier, killed `evaluate()` left.  `MatchingBrace`
is the reference: it knows where comments and literals are and counts braces
outside them.  A source is made of members, fields and callables with a body,
so that `Declare` can say what the scaffold should be.

A response of `OutputFormat` is a sequence of kinds of lines, and the list of
paths its JSON has.  `Normalize` is `normalize_outer_markdown_fence`, `Parses`
`parse_module_output`, `Materialize` `materialize_regeneration_output`, which is
one step here and in `RunTarget`: a stop between the record of the format and the
last file is not modelled (a reprocess writes all of them again, and so does an
attempt that was forced).

### MinimalExperiment

`run_ollama_roundtrip.py` (`StartCall`, `CallReturns`, `SaveText`, `CallStops`)
and `evaluate_ini_writer_regeneration.py` are run one after the other, each with
or without `--force`.  `saved` and `output` say for every file which call or run
wrote it (0: none).  The evaluator's points are `check` (351-455), `replace`,
`diff`, `replacement` (499-503), the five stages (505-618), `except` (620-626),
`restore` (628), `status` (629-645), `persist`, `manifest`, `summary` (647-708).
Unlike `Evaluation`, the three tests run whatever the earlier ones said, no
stage has a time limit, the checks come before the first write, and the records
of skipped stages are written at the end.  `--stage all` is the two calls in a
row.

## What is checked

| run | instance | shows |
|---|---|---|
| `eval_module` | two source files, one other file, `module_files` | `PassSound`, `FinallyRestores`, `StopsAtFirstFailure`, `VerdictExplained` with every failure and interrupt; `Terminates`; the refinement `KeepsPromise`; `FailureLocated`, `FunnelNarrows` |
| `target_safety` | two targets, one run id each, three attempts | `SpoiltOnlyByStrays`, `RowsFollow`, `VerdictMatchesResponse`, `CompletedAgree`, `PlainKeepsVerdicts`, `AttemptsEnd` |
| `life_claim` | one target, three run ids, three attempts | violated: a run whose sources were replaced is archived as one whose were not (`archive_failed_pilot.py` 85, 108) |
| `batch_safety` | two targets, two attempts | `ResultMatchesAttempt`, `BatchEnds` |
| `ana_safety` | one target, three run ids, three attempts | `CompletedReported`, `PassEarned`, `FailureCounted`; of the archives `ArchivedVerdictsAreRemnants`, `FreshRunId`, `ResponsesKept` |
| `ana_hidden` | one target, two run ids, two attempts | violated: a format violation is in the tables as a PASS (`docs/roundtrip_execution_v1.md` 13) |
| `ana_batch` | the same | violated: a failure only the batch report knows is unknown (`analyze_roundtrip_experiments.py` 16) |
| `setup_safety` | two targets; three reports on one of them | `DraftsAreCatalog`, `FirstDecides`, `ReportTrue`, `UnforcedKept`, `SetupEnds` |
| `setup_verified` | the same | violated: a configuration is enabled by direct tests that were none (`docs/roundtrip_execution_v1.md` 5) |
| `text_safety` | texts of five characters behind a brace, classes of up to two members; responses of up to four lines; lists of five values, tables of twelve runs | `BracesMatched`, `OnlyClassReplaced`, `ScaffoldIsInterface`; `CodeIsResponse`, `OutcomeRecorded`; `RanksAverage`, `FisherExact` |
| `text_scaffold` | a constructor with a member initialized by braces | violated: its body is given to the regeneration (`run_target.py` 410) |
| `min_safety` | three LLM calls, two evaluator runs | `PassSound`, `OutputsOfOneRun`, `SourceRestored`, `PlainNeverOverwrites` |

The type invariants of `RunTarget`, `TargetLifecycle`, `RunBatch`, `Analysis` and
`MinimalExperiment` hold on the same instances; no run lists them, since the
properties above say more; they are proved, as a part of the inductive
invariants.

In words, the properties that carry the study:

- `PassSound`: a manifest says PASS only if all stages passed, what was compiled
  was HEAD with the regenerated files in place of the originals and nothing
  else, and the repository was at HEAD before and is after, with no container
  left.  For a `class_span` target this needs the clean check of the verdict:
  the splice keeps whatever else is in the file.
- `FinallyRestores`: the target's files are what they were unless the process
  was killed or a write or a Ctrl-C hit the `finally` itself.
- `SpoiltOnlyByStrays`: when an attempt that called the LLM judges its code, a
  file that differs from HEAD can only have been written by a container left over
  from an `evaluate()` of another target.  What an attempt that died left in its
  own files is caught by `ensure_clean()`; what a container writes after that
  check, while the LLM is asked, is not, and then the verdict can be a FAIL that
  the regenerated code has not earned.  A PASS needs HEAD before and after
  (`PassSound`).
- `RowsFollow`: `runs.csv` never runs ahead of the directory of a run, also after
  half-removed directories and cut files: no row is of a later response than the
  one there, and one that contradicts the manifest about the same response is
  one that a reprocess, running or stopped, has not replaced yet.
- `VerdictMatchesResponse`: a manifest is about the response saved beside it,
  also after half-removed directories and repeated reprocessing.
- `CompletedAgree`: after an attempt that ended, manifest, report and row agree
  and no old failure is left.
- `PlainKeepsVerdicts`: only `--force` and `--reprocess-existing`, which the
  operator asks for, change a verdict that is on disk.
- `ArchivedVerdictsAreRemnants`: a run that ended with a verdict is never
  archived as a failed pilot.  The archive asks for the manifest alone (82-85);
  a `--force` that stopped in the removal can have taken the manifest and left
  the response and `report/`, and then a verdict does go into the archive, and its
  row stays in `runs.csv`.  That is the only way.
- `FreshRunId`, `ResponsesKept`: archiving hands out a run id nothing was ever
  stored under, and no response is lost but by `--force`, although
  `configure --force` can bring a target back to run id 1.
- `ResultMatchesAttempt`: "passed" in a batch is an attempt of that batch which
  ran to its end with PASS; "failed" is everything else, also a
  target whose earlier PASS made the child refuse, or whose attempt stopped
  after its PASS was on disk.
- `CompletedReported`, `PassEarned`, `FailureCounted`: the tables say of a
  finished attempt what its manifest says, however `runs.csv` was cut and a
  generation ended; no fallback turns anything into a PASS that
  `evaluate()` never returned; and a run that raised, with no older result
  anywhere, is a failure and not an unknown.  `FailureNotHidden` is the case
  with an older result, where the code does not keep its word.
- `FailureLocated`, `FunnelNarrows`: the table blames a FAIL on the stage at which
  `evaluate()` stopped: always when that stage timed out, and when it failed
  unless the directory holds a truncated generation or a `pipeline_failure.json`,
  which are taken first and hide it.  Those are blamed only when they are there,
  no stage is blamed for an error of the harness, and only such errors and a
  repository that is not clean are unknown; a target counts at a stage only if it
  passed the one before.
- `DraftsAreCatalog`, `FirstDecides`: a run of the catalog script that ends puts
  right whatever stopped runs and older reports left; of every field the first
  value any report gives is the one in the draft, later rows change nothing.
- `ReportTrue`, `UnforcedKept`: the readiness report is true of the files when it
  is written, and "ready" speaks of what this run probed and wrote: the enabled
  configuration of an earlier run, kept by a target that is blocked now or for
  want of `--force`, does not make it ready; without `--force`, or of
  targets not asked for, no configuration is replaced.  What a probe that passed
  does not show is `EnabledIsVerified`: 336 asks for the exit status of the
  direct tests and not for their number, and gtest exits with 0 when the filter
  selects none.  Such a filter is in the repository:
  `configs/roundtrip/targets/ini-cpp-iniwriter.draft.json` 28 holds
  "INIWriter.*` (3)", the cell of the report with one of its backquotes, used
  when no suite is inferred.  The same property fails for a module without
  source files (222) and for a probe of a checkout an attempt left dirty (300).
- `OnlyClassReplaced`: around the class the file stays the text of HEAD, over
  any number of calls that did or did not get to their `finally`, as long as the
  regenerated texts are complete classes; the text of one that is not may stay.
- `ScaffoldIsInterface`: the scaffold of a class whose headers the stripper knows
  is exactly its declarations.  `NoBodyGiven` is what the prompt claims for every
  class; it fails, and did:
  `experiments/echo-web-server-heap-timer-roundtrip/input/fixed_scaffold.txt`
  236-241 and `echo-web-server-block-deque-roundtrip-001` 126-130 hold bodies.
- `CodeIsResponse`, `OutcomeRecorded`: taking an outer fence off loses no line and
  lets no fence through; the record of the format is there just if the format is
  allowed, also when the content is then refused, and `strict_format_pass` says
  whether there was a fence; a response that is refused leaves no file.  A
  fenced response is a format violation by the prompt (`run_target.py` 408) and
  is evaluated all the same; `docs/roundtrip_execution_v1.md` 12-13 would have
  it recorded as a failure.
- `OutputsOfOneRun`: after a run of the fixed experiment with a verdict, records,
  manifest and summary are that run's, whatever an earlier run left and however
  early this one stopped testing.

### Bounds

Two source files show an interrupt between two replacements and between two
restores; one more tracked file shows a repository that is dirty elsewhere.
The four stages are the code's.  `MaxAttempts = 3` bounds the attempts: two are
needed for one to find what another left, three for a reprocess after a force
after a plain run.  Two targets are needed for one
to dirty the repository of the other, and for a container of one to write under
the other; in `TargetLifecycle` one target is
enough, since its properties relate the run ids of one target (there a
left-over container has no file to write to, so `Stray` changes nothing).  `Ids = {1,2,3}`
allows two archives.  In `MinimalExperiment` two runs show one finding what the
other left, three calls a design, a body, and a forced call.  In `RunBatch` two
attempts are a target run before the batch and one in it, or two in one batch,
or one forced over the other; three do not fit the time of a run.
In `Analysis` two attempts are a
result and the attempt that is forced over it, the third the one after an
archive, and three run ids two archives.
In `MCSetup` the reports on the first target change (a module without sources
that is excluded later on, one that is adopted before it is excluded, a class
with a counted filter), those on the second, with names and an empty filter cell,
do not; with it every step has a
target that is not the one at hand.  What the scans find is one suite of the
name, one near it, or two.  Nothing else is bounded: runs of both scripts are
repeated without end.
In `MCText`
five characters hold an escaped quote inside a literal and a brace on both
sides of it, two members one body behind another, two calls one that finds what
another left, and four lines a fence inside of a fence; five values hold a tie
of three between others.
`CHECK_DEADLOCK FALSE` is set in the runs of all these modules but `Evaluation`
and `Configure`:
after the last attempt, or with the text at its end, there is nothing left to do.

### Fairness

`Terminates` assumes weak fairness of the harness's own next step (`Harness`):
each is a call that returns, because `docker_run` passes a time limit to
`docker run` (300 to 600 s) and `docker rm` (30 s).  Nothing is assumed of
containers or faults.  `git` and `docker image inspect` have no limit in the
code; they are taken to return.  `AttemptsEnd` assumes weak fairness of
`Progress`, the steps of a running attempt: the LLM call has a limit of 1800 s
(`roundtrip_common.py` 244) and `evaluate()` ends by `Terminates`.  `BatchEnds` assumes the same of the batch's own steps, besides `Progress`.
Nothing is claimed of the end of the
fixed evaluator, which sets no limit (213).  `SetupEnds`
assumes weak fairness of the steps of the two scripts (`BootProgress`,
`ConfigureProgress`): reading and writing files returns, and each stage of the
probe has a time limit (250-255).  The violated properties are all invariants:
their traces need no fairness.

## What is proved

The theorems hold for every value of the constants: any targets, run ids,
reports, texts and lists of any length, any number of attempts, batches or runs.  They rest on the named
assumptions of the modules only, which TLC evaluates on every run.  Each is
proved in the same way: an inductive invariant (`IInv`, `LifeIInv`, ...) whose
named parts have a step lemma each, with one case per action; `Init` implies it,
a step keeps it, and it implies the property.  TLC checked each of these
invariants on the instance of the component's run before it was proved.

| module | states proved, with the property a run checks on an instance |
|---|---|
| `EvaluationProofs` | `TypeOK`, `FinallyRestores`, `StopsAtFirstFailure`, `VerdictExplained`, `PassSound`; the refinement `KeepsPromise`; of `Failures` `FunnelNarrows`, `FailureLocated` |
| `RunTargetProofs` | `SpoiltOnlyByStrays`, `RowsFollow`, `VerdictMatchesResponse`, `CompletedAgree`, `PlainKeepsVerdicts` |
| `TargetLifecycleProofs` | `ArchivedVerdictsAreRemnants`, `FreshRunId`, `ResponsesKept`; `VerdictMatchesResponse` and `CompletedAgree` with configurations and archives that change (`RecordsSurvive`) |
| `RunBatchProofs` | `ResultMatchesAttempt`; `BatchSpec => Spec` |
| `AnalysisProofs` | `CompletedReported`, `FailureCounted`, `PassEarned` |
| `SetupProofs` | `ConfigureTypeOK`, `DraftsAreCatalog`, `FirstDecides`, `ReportTrue`, `UnforcedKept` |
| `MinimalExperimentProofs` | `PassSound`, `OutputsOfOneRun`, `SourceRestored`, `PlainNeverOverwrites` |
| `TextProofs` | `BracesMatched`, `OnlyClassReplaced`, `ScaffoldIsInterface`; `CodeIsResponse`, `OutcomeRecorded`; `RanksAverage`, `FisherExact` |

The type invariant of each of these specifications is a theorem as well; in
`TextProofs` it is a part of `TextInv`, `FormatInv` and `StatsInv`.

**Evaluation** (from `ConfigAssumption`, both granularities; the TLC runs take
`module_files`, and `SourceText` shows the splice of a `class_span` target).
None of the safety invariants is inductive alone.  `IInv` adds: the originals
are the tree at the call (`OriginalsInv`); while in the `try` the replaced
prefix holds the replacement text and in the `finally` the restored prefix
holds the originals (`ReplaceInv`, `RestoreInv`); a file that is not the target's
never comes back to HEAD, so a clean tree at the end means it was at HEAD all
along (`OtherFilesInv`); what a build that passed holds, if the tree is clean at
the end, is the expected text of each file (`BuildInv`); and how
`pc`, the stage and the records go together (`ControlInv`, `RecordsInv`).
`PassIsSound` then follows from `IInv` by arithmetic on what `Verify` saw;
`Refinement` maps the steps before the end to `Work`, `WriteManifest` to
`Return`, every other end to `GiveUp`, and a container's late step to
`LateWrite` or a stutter.

**Failures.**  The classification needs to know how far the stages came when
something else than a stage ended the loop, which `IInv` leaves open: `ShapeInv`
adds that an exception leaves a prefix of passed stages and no other record, and
that a loop which ended by itself leaves one for each stage.  `FirstRule` and
`RuleByRule` go through the returns in their order.

**RunTarget.**  What the runs check speaks of directories at any time; it holds
because of what the attempt in progress knows of its own directory at each point
of `main()`.  `FreshInv` says that an attempt that calls the LLM has nothing of
an earlier one there, which fails as soon as the refusal or the removal of
`--force` is dropped; `ResponseInv` and `ManifestInv` say what the call and the
steps after it left; `CleanInv` that from `ensure_clean()` to the call nothing but
a container of another target changes the repository; `CountInv` and `RowsInv`
which attempts the numbers on disk and in `runs.csv` can be of.  `OthersKept` shows that no step touches another
run id's directory; its row may only be lost.

**TargetLifecycle.**  `FreshRunId` is not inductive, and the configuration does
not imply it: `configure --force` brings a target back to run id 1.  It rests on
the history of the numbers (`NumbersInv`): nothing is ever made under a number
before the one below it was archived, and an archive is never taken twice, so the
number an archive is about to give out is free (`NextIsFree`).
`ArchivedRemnants` needs that a directory with a report and no manifest is one a
removal was stopped in, which no other step makes.

**RunBatch.**  A status speaks of a verdict on disk, and a disk holds verdicts
from before.  `NumbersInv` says which attempt every number is of, `LeftInv` that
the targets a batch has left have only numbers from before it, and `ChildInv`
that the child is the attempt on the current target, and when it ended well left
its own number.  `BatchIsAttempts` is a refinement under the identity: a batch
does to the targets only what attempts by hand can do.  So every theorem of
`RunTarget` holds under a batch; `BatchKeepsVerdicts` is the one that says that a
batch run again without `--force` leaves results alone.

**Analysis.**  The script guesses a target's directory from its name and takes
the lowest number.  It finds the right one because a number below the target's
own never holds a directory (`LowerEmpty`), which in turn needs that an archive
moves the directory before it raises the number.  `PassIsSomeones` is proved
without a condition: a PASS in the tables was returned by `evaluate()` for the
target or for one whose id contains its id.  `PassIsEarned` assumes there is no
such pair, as the run does; the study has one
(`riscv-simulator-register` and `-registerfile`), to which only the first
applies.

**Catalog and Configure.**  `BootInv` and `ConfInv` say what each loop has done so
far, `RowTrue` what the row of a target says of its configuration.  `FirstDecides` speaks of a fold over reports of any length, and induction
over data is out of the provers' reach as a rule of inference.  The proof goes
around it: the closed form (of every field the first value, `FirstRecord`)
satisfies the equation the fold is defined by (`FirstSatisfies`), and only one
function does (`FoldIsUnique`), since a smallest set of positions on which two
differ, which `WFMin` gives, cannot exist.

**MinimalExperiment.**  `SourceInv` and `OutputInv` say for each point of the
evaluator what the run has already put right: the source from the restore on, and
which of the nine outputs are its own; `PlainInv` that a run without `--force`
found none.

**SourceText** (`SourceSpec`, from `TextAssumption`: texts are sequences of
lexemes; the class of a source is one complete definition in which its name is
not defined again; a body ends where its brace is closed).  What a loop over a
text of any length computes is proved without a rule of induction, as in
`FirstDecides`: `StepByStep` shows that the recursive function exists,
`AllPositions` that what holds at the first position and is kept from one to the
next holds at all, since a set of positions at which it fails would have a
least one.
`Agree` relates the state of `find_matching_brace` before a position to the
reference, which knows nothing of modes: the mode says whether `Reach` covers the
position and with which kind of region, the escape flag whether the backslashes
before it are odd in number, and the depth is the braces opened less those
closed in `Code`.  `AgreeStep` has a case for each kind of region;
`BraceFound` follows.
`OnlyClassReplaced` needs that the scan sees nothing before its brace and
nothing behind the closing one (`BraceInside`, `BraceShifted`), so that a
complete class is located wherever it lies (`ClassLocated`) and cut out exactly
(`ClassSpliced`).  It is not inductive: after a call that was killed, `before` is
the text with that call's class, so `TextInv` says of both texts which of the
classes put in they hold.
For `ScaffoldIsInterface`, `Flattened` places every member in the text of the
class, `HeaderRead` shows that the headers of `Plain` are recognized, and
`MemberStripped` that the stripper, standing at a member, puts out its
declaration and stands at the next one.

**OutputFormat** (`FormatSpec`, from `FormatAssumption`: responses and lists of
files are sequences, and no source file of a target is called
`regenerated_target.cpp`, the one file a `class_span` target gets).
`Normalized` says what taking the fence off returns for a response of any
length, and `AllowedIsNormalized` that it accepts just the formats
`FormatAllowed` describes; `ContentListed` that a file of an accepted JSON has the content of an
entry of its name.

**StudyStatistics** (`StatsSpec`, from `StatsAssumption`: the values of a metric
are ordered as the integers are, and the four numbers of a table are natural
ones).  The loop of `rankdata` overwrites ranks it has
written when a tie is cut wrongly; `StatsInv` says that ranks below its position
are final and that no value below the position equals one from there on, so no
tie is ever cut.  It needs that the stable order is a permutation that sorts
(`PlaceOrder`, `Sorted`) and that the values up to a tie's end can be counted
(`PlacesCounted`).
`FisherExact` is a double count.  `math.comb` counts subsets (`CombCounts`, by
Pascal's rule on products of factorials, `CountedGrows`); the draws with k of the
first group are pairs of subsets (`SharedWays`); by rows and by columns the
weights of a table are in one ratio (`Exchange`: both are the ways to sort the
runs into four groups), so the code leaves out the same tables as the reference
(`AsLikely`); and each turn of the sum adds the draws it stands for
(`SumCounts`).

These three are about the specification of each module; the run checks them in
one, `TextSpec` of `MCText`, in which one of them moves and the others rest.

### Only model-checked

- Liveness: `Terminates`, `AttemptsEnd`, `BatchEnds`, `SetupEnds`.  Liveness under
  fairness, and the `ENABLED` it needs, are out of the provers' reach.
- The violated properties, which are refuted by their traces.

## What is not modelled

- Two `run_target.py` at the same time: attempts are serial, as the documents
  prescribe.  `register()` has no lock.
- What a container of an earlier attempt does *during* the `evaluate()` of a
  later one, beyond what `Evaluation` knows of its own containers.  In `RunTarget`
  the repository may change in any way while the call is open, but that the
  target's files are as at the call when it returns, and at HEAD for a PASS, is
  what `EvaluationPromise` says, which is proved of `Evaluation` with its own
  containers only.  A foreign one that compiled into the same `build/`, or wrote
  over the regenerated text and put HEAD back before the verdict, is outside.
- A manifest or configuration file torn in the middle: these writes are atomic
  in the models.  Source files and `runs.csv` can be cut short.
- `targets.csv`, log directories, timestamps, and the contents of reports.
- Commits: the check in `prepare()` is one of the ways a stage raises.
- In the texts: line ends other than a line feed, indented fences, comments with
  braces between members, which the stripper does not skip, and headers longer
  than the 240 characters it looks back.
- In the catalog: table syntax, the wording of granularities, full-test counts
  and notes.  Two target names with one slug would share a draft; the reports
  have none.  A digit in a pattern is taken for the count (110-112, 246) only
  when the report gives none.
- In the analysis: the patterns on log texts, sizes, the floating-point
  statistics, tables and charts, and the records of the fixed experiment and of
  archived pilots, which are put together from files nothing in the harness
  changes.
- PowerShell set-up, Docker and CMake files, generated C++ and the experiment
  artefacts: they are inputs or outputs of the program, not part of its control.
- `generate_experiment_overview.py`: a formatter of saved files.

## Other observations

Met while modelling, and not the subject of a run:

- `docs/repository_policy.md` 53-54 says the evaluation container is removed
  automatically before the sources are restored; when `docker rm -f` fails or
  takes more than 30 seconds `docker_run` notes it in `stderr` (162-171) and
  `evaluate()` goes on, and Ctrl-C removes no container at all.  `PassSound` shows
  that no PASS of that call comes of it; what it can do to later ones is
  `SpoiltOnlyByStrays`.
- A `pipeline_failure.json` has its stage under `failed_stage` (`run_target.py`
  746); the analysis looks for `stage` and `failure_stage` (798), so the stage it
  reports is always `pipeline`.
- Without a directory of its own a target is read from the first one whose name
  contains its id (`analyze_roundtrip_experiments.py` 413-418):
  `riscv-simulator-register` from `riscv-simulator-registerfile-roundtrip`.
- The counts of a test stage are saved under `counts` and looked for beside it
  (554-562), so a test that ended with status 137 or 143 is a hang also when
  its counts were recorded (848-853).
- `configure --force` hands out run id -001 again after an archive, and
  `evaluation_error.json` of the fixed experiment outlives a `--force`.
- `bootstrap_batch_catalog.py` writes over drafts that were completed by hand.

## Plan

Every safety property a run checks on an instance is a theorem.  What is left:

- to give `Evaluation` a container of an earlier call, at work from the start;
- to model the records of the fixed experiment in `Analysis`;
- the rounding in `fisher_two_sided()` and its tolerance.
