------------------------------ MODULE RunTarget ------------------------------
(***************************************************************************)
(* scripts/roundtrip/run_target.py: the attempts an operator or the batch  *)
(* makes on targets of one repository, one at a time, and what they leave  *)
(* on disk: the experiment directory of each run id, runs.csv, and the     *)
(* repository itself.  Three kinds of attempt share the code of main():    *)
(* a plain one, one with --force, and one with --reprocess-existing.       *)
(*                                                                         *)
(* evaluate() is used through what EvaluationPromise says of it; module    *)
(* Evaluation is the code that keeps that promise.                         *)
(***************************************************************************)
EXTENDS Naturals

CONSTANTS
  Targets,    \* target_ids of one repository; each stands for its source files
  Ids,        \* numbers of run ids: -001, -002, ... (and of experiment ids)
  MaxAttempts \* bound: attempts started

ASSUME RunTargetAssumption ==
  /\ Ids \subseteq Nat \ {0}
  /\ 1 \in Ids
  /\ MaxAttempts \in Nat

VARIABLES
  tree,     \* what each target's files hold: the text of HEAD or another one
  entry,    \* history: the tree when the attempt began, then when it
            \* called evaluate()
  phase,    \* whether an evaluate() call is open
  verdict,  \* what the evaluate() call of the attempt returned
  strays,   \* targets an evaluate() of ended without PASS: a container of
            \* that call may still run, and write to the repository
  config,   \* per target: number of the run id, and "enabled"
  proc,     \* the running attempt: target, mode, run id, and where it is
  exp,      \* the experiment directory of each run id
  rows,     \* runs.csv: one row per run id
  attempts, \* attempts started so far
  last      \* history: how the last attempt on a run id ended

evalVars == <<tree, entry, phase, verdict, strays>>
vars     == <<evalVars, config, proc, exp, rows, attempts, last>>

Eval(t) == INSTANCE EvaluationPromise WITH
             RepoFiles <- Targets, Sources <- {t}, Content <- {"head", "other"}

Clean == \A t \in Targets : tree[t] = "head"

\* The saved response of the LLM: which attempt it came from, and whether
\* materialize_regeneration_output() can use it.
Response   == [n : 0..MaxAttempts, form : {"none", "good", "unusable"}]
NoResponse == [n |-> 0, form |-> "none"]

\* evaluation_manifest.json: the regenerated code it is about, the verdict and
\* the "reprocessing" mark; as history, who ran evaluate().
Manifest   == [n : 0..MaxAttempts, pass : BOOLEAN, marked : BOOLEAN,
               by : {"none", "generation", "reprocess"}]
NoManifest == [n |-> 0, pass |-> FALSE, marked |-> FALSE, by |-> "none"]

Row   == [n : 0..MaxAttempts, pass : BOOLEAN]
NoRow == [n |-> 0, pass |-> FALSE]

\* Where main() is.
Points == {"idle", "wipe", "prepare", "save", "design", "regenerate", "materialize",
           "evaluate", "mark", "report", "register", "unlink"}

\* An experiment directory: the saved configuration (0: none), the other files
\* of prepare(), the response, the call whose output is in generated/, the
\* manifest, whether there is a pipeline_failure.json, and the evaluation
\* copied into report/.
Directory ==
  [config : {0} \cup Ids, input : BOOLEAN, response : Response,
   generated : 0..MaxAttempts, manifest : Manifest,
   failure : BOOLEAN, report : Manifest]

Empty ==
  [config |-> 0, input |-> FALSE, response |-> NoResponse, generated |-> 0,
   manifest |-> NoManifest, failure |-> FALSE, report |-> NoManifest]

Runs == Targets \X Ids

TypeOK ==
  /\ tree \in [Targets -> {"head", "other"}]
  /\ entry \in [Targets -> {"head", "other"}]
  /\ phase \in {"open", "closed"}
  /\ verdict \in {"none", "PASS", "FAIL"}
  /\ strays \subseteq Targets
  /\ config \in [Targets -> [id : Ids, enabled : BOOLEAN]]
  /\ proc \in [target : Targets, id : Ids, at : Points,
               mode : {"plain", "force", "reprocess"}]
  /\ exp \in [Runs -> Directory]
  /\ rows \in [Runs -> Row]
  /\ attempts \in 0..MaxAttempts
  /\ last \in [Runs -> {"none", "running", "completed", "failed", "died"}]

-----------------------------------------------------------------------------
Init ==
  /\ tree = [t \in Targets |-> "head"]
  /\ entry = tree
  /\ phase = "closed"
  /\ verdict = "none"
  /\ strays = {}
  /\ config \in [Targets -> [id : {1}, enabled : BOOLEAN]]
  /\ proc \in [target : Targets, id : {1}, at : {"idle"}, mode : {"plain"}]
  /\ exp = [k \in Runs |-> Empty]
  /\ rows = [k \in Runs |-> NoRow]
  /\ attempts = 0
  /\ last = [k \in Runs |-> "none"]

Key(t) == <<t, config[t].id>>
Mine   == <<proc.target, proc.id>>
Dir    == exp[Mine]

\* Fields of the attempt's own directory are written.
Leave(dir)  == exp' = [exp EXCEPT ![Mine] = dir]
Goto(point) == proc' = [proc EXCEPT !.at = point]
Ended(how)  == /\ proc' = [proc EXCEPT !.at = "idle", !.mode = "plain"]
               /\ last' = [last EXCEPT ![Mine] = how]

Start(t, mode, point) ==
  /\ attempts < MaxAttempts
  /\ attempts' = attempts + 1
  /\ proc' = [target |-> t, id |-> config[t].id, mode |-> mode, at |-> point]
  /\ last' = [last EXCEPT ![Key(t)] = "running"]
  /\ entry' = tree
  /\ verdict' = "none"
  /\ UNCHANGED <<tree, phase, strays, config, exp, rows>>

\* Mutant: a directory that is not empty is not refused.
StartPlain_NoRefusal(t) ==
  /\ proc.at = "idle"
  /\ config[t].enabled
  /\ Start(t, "plain", "prepare")

\* Without --force main() refuses a directory that is not empty.
StartPlain(t) ==
  /\ proc.at = "idle"
  /\ config[t].enabled
  /\ exp[Key(t)] = Empty
  /\ Start(t, "plain", "prepare")

\* Mutant: --force goes on over the old directory.
StartForce_NoWipe(t) ==
  /\ proc.at = "idle"
  /\ config[t].enabled
  /\ exp[Key(t)] # Empty
  /\ Start(t, "force", "prepare")

\* With --force it removes the directory first, before anything is checked.
StartForce(t) ==
  /\ proc.at = "idle"
  /\ config[t].enabled
  /\ exp[Key(t)] # Empty
  /\ Start(t, "force", "wipe")

\* --reprocess-existing asks neither for "enabled" nor for a clean repository,
\* only for a saved configuration with the identifiers of the current one.
StartReprocess(t) ==
  /\ proc.at = "idle"
  /\ exp[Key(t)].config = config[t].id
  /\ Start(t, "reprocess", "materialize")

\* What shutil.rmtree leaves of a directory when it is stopped or fails: it
\* takes the subdirectories in any order.
PartOf(d) ==
  {[f \in DOMAIN d |-> IF f \in gone THEN Empty[f] ELSE d[f]] :
     gone \in SUBSET DOMAIN d}

Wipe ==
  /\ proc.at = "wipe"
  /\ Leave(Empty)
  /\ Goto("prepare")
  /\ UNCHANGED <<evalVars, config, rows, attempts, last>>

\* rmtree raises outside the try: nothing is recorded.
WipeFails ==
  /\ proc.at = "wipe"
  /\ exp' \in {[exp EXCEPT ![Mine] = d] : d \in PartOf(Dir)}
  /\ Ended("died")
  /\ UNCHANGED <<evalVars, config, rows, attempts>>

\* Mutant: no ensure_clean().
Prepare_NoCheck ==
  /\ proc.at = "prepare"
  /\ Leave([Dir EXCEPT !.input = TRUE])
  /\ Goto("save")
  /\ UNCHANGED <<evalVars, config, rows, attempts, last>>

\* ensure_clean() and the commit check, then the backup and the inputs.
Prepare ==
  /\ proc.at = "prepare"
  /\ Clean
  /\ Leave([Dir EXCEPT !.input = TRUE])
  /\ Goto("save")
  /\ UNCHANGED <<evalVars, config, rows, attempts, last>>

\* The configuration is the last file prepare() writes.
SaveConfig ==
  /\ proc.at = "save"
  /\ Leave([Dir EXCEPT !.config = proc.id])
  /\ Goto("design")
  /\ UNCHANGED <<evalVars, config, rows, attempts, last>>

GenerateDesign ==
  /\ proc.at = "design"
  /\ Goto("regenerate")
  /\ UNCHANGED <<evalVars, config, exp, rows, attempts, last>>

\* The response is saved as it came, whatever it holds.
CallModel(form) ==
  /\ proc.at = "regenerate"
  /\ Leave([Dir EXCEPT !.response = [n |-> attempts, form |-> form]])
  /\ Goto("materialize")
  /\ UNCHANGED <<evalVars, config, rows, attempts, last>>

\* The response is turned into files, and evaluate() is called.
Materialize ==
  /\ proc.at = "materialize"
  /\ Dir.response.form = "good"
  /\ Leave([Dir EXCEPT !.generated = Dir.response.n])
  /\ Goto("evaluate")
  /\ phase' = "open"
  /\ entry' = tree
  /\ UNCHANGED <<tree, verdict, strays, config, rows, attempts, last>>

EvaluateWorks(t) ==
  /\ proc.at = "evaluate"
  /\ proc.target = t
  /\ Eval(t)!Work
  /\ UNCHANGED <<strays, config, proc, exp, rows, attempts, last>>

EvaluateReturns(t) ==
  /\ proc.at = "evaluate"
  /\ proc.target = t
  /\ Eval(t)!Return
  /\ strays' = IF verdict' = "PASS" THEN strays ELSE strays \cup {t}
  /\ Leave([Dir EXCEPT !.manifest =
       [n |-> Dir.generated, pass |-> verdict' = "PASS", marked |-> FALSE,
        by |-> IF proc.mode = "reprocess" THEN "reprocess" ELSE "generation"]])
  /\ Goto(IF proc.mode = "reprocess" THEN "mark" ELSE "report")
  /\ UNCHANGED <<config, rows, attempts, last>>

\* The manifest is written again, with the "reprocessing" field.
Mark ==
  /\ proc.at = "mark"
  /\ Leave([Dir EXCEPT !.manifest.marked = TRUE])
  /\ Goto("report")
  /\ UNCHANGED <<evalVars, config, rows, attempts, last>>

Report ==
  /\ proc.at = "report"
  /\ Leave([Dir EXCEPT !.report = Dir.manifest])
  /\ Goto("register")
  /\ UNCHANGED <<evalVars, config, rows, attempts, last>>

\* runs.csv with the row of the run id replaced.
Registered ==
  [rows EXCEPT ![Mine] = [n |-> Dir.manifest.n, pass |-> Dir.manifest.pass]]

\* The file is truncated and written again row by row: an attempt that ends in
\* it, or in targets.csv after it, leaves the old rows or some of the new ones.
RowsAfterStop ==
  IF proc.at # "register" THEN {rows}
  ELSE {rows} \cup {[k \in Runs |-> IF k \in kept THEN Registered[k] ELSE NoRow] :
                      kept \in SUBSET Runs}

\* Mutant: a run id that has a row keeps it.
Register_KeepsRow ==
  /\ proc.at = "register"
  /\ rows' = IF rows[Mine] = NoRow THEN Registered ELSE rows
  /\ IF proc.mode = "reprocess" THEN Goto("unlink") /\ last' = last
     ELSE Ended("completed")
  /\ UNCHANGED <<evalVars, config, exp, attempts>>

Register ==
  /\ proc.at = "register"
  /\ rows' = Registered
  /\ IF proc.mode = "reprocess" THEN Goto("unlink") /\ last' = last
     ELSE Ended("completed")
  /\ UNCHANGED <<evalVars, config, exp, attempts>>

\* Mutant: the failure of the attempt before is left.
Unlink_Keep ==
  /\ proc.at = "unlink"
  /\ Ended("completed")
  /\ UNCHANGED <<evalVars, config, exp, rows, attempts>>

\* A reprocessed run forgets the failure of the attempt before it.
Unlink ==
  /\ proc.at = "unlink"
  /\ Leave([Dir EXCEPT !.failure = FALSE])
  /\ Ended("completed")
  /\ UNCHANGED <<evalVars, config, rows, attempts>>

-----------------------------------------------------------------------------
\* record_pipeline_failure(): the attempt ends with pipeline_failure.json.
RecordFailure ==
  /\ Leave([Dir EXCEPT !.failure = TRUE])
  /\ Ended("failed")

\* Mutant: prepare() waits for a clean repository instead of raising.
StageFails_Waits ==
  /\ proc.at \notin {"idle", "wipe", "evaluate", "prepare"}
  /\ RecordFailure
  /\ rows' \in RowsAfterStop
  /\ UNCHANGED <<evalVars, config, attempts>>

\* A dirty repository, a wrong commit, no LLM, a response that is missing,
\* empty or malformed, a write that fails: every stage can raise.
StageFails ==
  /\ proc.at \notin {"idle", "wipe", "evaluate"}
  /\ RecordFailure
  /\ rows' \in RowsAfterStop
  /\ UNCHANGED <<evalVars, config, attempts>>

EvaluateRaises(t) ==
  /\ proc.at = "evaluate"
  /\ proc.target = t
  /\ Eval(t)!GiveUp
  /\ strays' = strays \cup {t}
  /\ RecordFailure
  /\ UNCHANGED <<config, rows, attempts>>

\* Ctrl-C or the death of the process, at any point: `except Exception` does
\* not see it.
Die ==
  /\ proc.at # "idle"
  /\ IF proc.at = "evaluate"
     THEN \E t \in Targets :
            t = proc.target /\ Eval(t)!GiveUp /\ strays' = strays \cup {t}
     ELSE UNCHANGED evalVars
  /\ exp' \in IF proc.at = "wipe"
              THEN {[exp EXCEPT ![Mine] = d] : d \in PartOf(Dir)} ELSE {exp}
  /\ rows' \in RowsAfterStop
  /\ Ended("died")
  /\ UNCHANGED <<config, attempts>>

\* An operator brings the repository back to HEAD (git checkout).
OperatorCleans ==
  /\ proc.at = "idle"
  /\ ~Clean
  /\ tree' = [t \in Targets |-> "head"]
  /\ UNCHANGED <<entry, phase, verdict, strays, config, proc, exp, rows, attempts,
                 last>>

\* A container that outlived its evaluate() writes, between two attempts or in
\* one of another target.  While a call is open this is in EvaluateWorks.
StrayWrites(t) ==
  /\ t \in strays
  /\ phase = "closed"
  /\ Eval(t)!ContainerWrites
  /\ UNCHANGED <<entry, phase, verdict, strays, config, proc, exp, rows, attempts,
                 last>>

\* What is done to the repository from outside main().
Outside == OperatorCleans \/ \E t \in Targets : StrayWrites(t)

Starts == \E t \in Targets : StartPlain(t) \/ StartForce(t) \/ StartReprocess(t)

\* The steps of an attempt in progress.  The LLM call has a time limit, and
\* evaluate() ends (Evaluation!Terminates), with a verdict or without.
Progress ==
  \/ Wipe \/ Prepare \/ SaveConfig \/ GenerateDesign
  \/ \E form \in {"good", "unusable"} : CallModel(form)
  \/ Materialize \/ Mark \/ Report \/ Register \/ Unlink \/ StageFails
  \/ \E t \in Targets : EvaluateReturns(t) \/ EvaluateRaises(t)

Next ==
  \/ Starts \/ Progress \/ WipeFails \/ Die \/ Outside
  \/ \E t \in Targets : EvaluateWorks(t)

Spec == Init /\ [][Next]_vars

FairSpec == Spec /\ WF_vars(Progress)

-----------------------------------------------------------------------------
\* An attempt that calls the LLM judges its code in a repository where a file
\* differs from HEAD only if a container left over by an evaluate() of another
\* target may have written it since ensure_clean(): what an attempt that died
\* left in the target's own files never gets into a later verdict.
SpoiltOnlyByStrays ==
  proc.at = "evaluate" /\ proc.mode # "reprocess" =>
    \A u \in Targets : entry[u] # "head" => \E t \in strays : t # u

\* runs.csv follows the run's directory and never runs ahead of it: no row is of
\* a later response than the one on disk, and a row that contradicts the
\* manifest about the same response is one a reprocess has yet to replace.
RowsFollow ==
  \A k \in Runs :
    LET d == exp[k]  r == rows[k] IN
    /\ d.response.n # 0 => r.n <= d.response.n
    /\ d.manifest.n # 0 => r.n <= d.manifest.n
    /\ r.n # 0 /\ r.n = d.manifest.n /\ r.pass # d.manifest.pass =>
         d.manifest.by = "reprocess" /\ last[k] # "completed"

\* The manifest is about the code of the saved response, however often the run
\* was forced, reprocessed, stopped half-way or wiped in part.
VerdictMatchesResponse ==
  \A k \in Runs :
    LET d == exp[k] IN
    /\ d.manifest.n # 0 /\ d.response.n # 0 => d.manifest.n = d.response.n
    /\ d.manifest.n # 0 /\ d.generated # 0  => d.manifest.n = d.generated

\* After an attempt that ran to its end, manifest, report and runs.csv agree,
\* the manifest says whether it was reprocessed, and no failure is left; the
\* row may only be gone with a runs.csv that was cut short.
CompletedAgree ==
  \A k \in Runs :
    last[k] = "completed" =>
      LET m == exp[k].manifest IN
      /\ m.n # 0
      /\ exp[k].report = m
      /\ m.marked <=> m.by = "reprocess"
      /\ ~exp[k].failure
      /\ rows[k] \in {NoRow, [n |-> m.n, pass |-> m.pass]}

\* A verdict only changes or goes away by --force or --reprocess-existing on
\* its own run id: a plain attempt never touches one.
PlainKeepsVerdicts ==
  [][\A k \in Runs :
       exp[k].manifest.n # 0 /\ exp'[k].manifest # exp[k].manifest =>
         Mine = k /\ proc.mode \in {"force", "reprocess"}]_vars

\* Every attempt ends.
AttemptsEnd == proc.at # "idle" ~> proc.at = "idle"
=============================================================================
