--------------------------- MODULE TargetLifecycle ---------------------------
(***************************************************************************)
(* The life of a target around its attempts: configure_execution.py        *)
(* --force, which probes the baseline and writes the final configuration,  *)
(* and archive_failed_pilot.py, which moves a run without a verdict to     *)
(* experiments/pilot-failures and gives the target the next run id.  The   *)
(* operator runs one script at a time.                                     *)
(***************************************************************************)
EXTENDS RunTarget

VARIABLES
  archived, \* pilot-failures/<run id>: the directory that was moved there
  script,   \* the archive in progress: target, run id, and where it is
  replaced, \* history: an evaluate() of this run id overwrote source files
  cut       \* history: a removal of this directory by --force stopped half-way

lifeVars == <<archived, script, replaced, cut>>
allVars  == <<vars, lifeVars>>

\* What pilot-failures/ holds of a run id.  As history: how its last attempt
\* ended, whether evaluate() had overwritten source files with its code, and
\* whether it is what a removal left.
Archive   == [taken : BOOLEAN, dir : Directory, manifest : BOOLEAN,
              how : {"none", "failed", "died", "completed"}, replaced : BOOLEAN,
              cut : BOOLEAN]
NoArchive == [taken |-> FALSE, dir |-> Empty, manifest |-> FALSE,
              how |-> "none", replaced |-> FALSE, cut |-> FALSE]

LifeTypeOK ==
  /\ TypeOK
  /\ archived \in [Runs -> Archive]
  /\ script \in [target : Targets, id : Ids, at : {"idle", "manifest", "config"}]
  /\ replaced \in [Runs -> BOOLEAN]
  /\ cut \in [Runs -> BOOLEAN]

LifeInit ==
  /\ Init
  /\ archived = [k \in Runs |-> NoArchive]
  /\ script \in [target : Targets, id : {1}, at : {"idle"}]
  /\ replaced = [k \in Runs |-> FALSE]
  /\ cut = [k \in Runs |-> FALSE]

Idle == proc.at = "idle" /\ script.at = "idle"

-----------------------------------------------------------------------------
\* An attempt takes a step.
Attempt ==
  /\ script.at = "idle"
  /\ Next
  /\ replaced' = [replaced EXCEPT ![Mine] =
       \/ @ /\ exp'[Mine] # Empty
       \/ proc.at = "evaluate" /\ tree'[proc.target] # entry[proc.target]]
  /\ cut' = [cut EXCEPT ![Mine] = (@ \/ proc.at = "wipe") /\ exp'[Mine] # Empty]
  /\ UNCHANGED <<archived, script>>

\* configure_execution.py --force: the configuration is written with run id
\* -001, enabled when --probe was given and the four baseline stages passed.
Configure(t, enable) ==
  /\ Idle
  /\ config' = [config EXCEPT ![t] = [id |-> 1, enabled |-> enable]]
  /\ UNCHANGED <<evalVars, proc, exp, rows, attempts, last, lifeVars>>

\* Mutant: an archive of the same run id is not refused.
MayArchive_Again(t) ==
  /\ Clean
  /\ exp[Key(t)].response.n # 0
  /\ exp[Key(t)].manifest.n = 0

\* Mutant: an evaluation that exists is not refused.
MayArchive_Evaluated(t) ==
  /\ Clean
  /\ exp[Key(t)].response.n # 0
  /\ ~archived[Key(t)].taken

\* The repository is clean, a code response was saved, there is no evaluation
\* manifest, and nothing was archived under this run id.
MayArchive(t) ==
  /\ Clean
  /\ exp[Key(t)].response.n # 0
  /\ exp[Key(t)].manifest.n = 0
  /\ ~archived[Key(t)].taken

\* The directory is moved.
ArchiveMoves(t) ==
  LET k == Key(t) IN
  /\ Idle
  /\ MayArchive(t)
  /\ archived' = [archived EXCEPT ![k] =
       [taken |-> TRUE, dir |-> exp[k], manifest |-> FALSE, how |-> last[k],
        replaced |-> replaced[k], cut |-> cut[k]]]
  /\ exp' = [exp EXCEPT ![k] = Empty]
  /\ replaced' = [replaced EXCEPT ![k] = FALSE]
  /\ cut' = [cut EXCEPT ![k] = FALSE]
  /\ script' = [target |-> t, id |-> config[t].id, at |-> "manifest"]
  /\ UNCHANGED <<evalVars, config, proc, rows, attempts, last>>

\* pilot_failure_manifest.json is written: a harness failure before source
\* replacement and test execution.
ArchiveClassifies ==
  /\ script.at = "manifest"
  /\ archived' = [archived EXCEPT ![<<script.target, script.id>>].manifest = TRUE]
  /\ script' = [script EXCEPT !.at = "config"]
  /\ UNCHANGED <<vars, replaced, cut>>

\* The configuration is written back with the next run id and experiment id.
\* Ids bounds the numbers.
ArchiveConfigures ==
  /\ script.at = "config"
  /\ script.id + 1 \in Ids
  /\ config' = [config EXCEPT ![script.target].id = script.id + 1]
  /\ script' = [script EXCEPT !.at = "idle"]
  /\ UNCHANGED <<evalVars, proc, exp, rows, attempts, last, archived, replaced, cut>>

\* The script stops after the move: nothing undoes it.
ArchiveDies ==
  /\ script.at # "idle"
  /\ script' = [script EXCEPT !.at = "idle"]
  /\ UNCHANGED <<vars, archived, replaced, cut>>

\* A container left over by an attempt writes, whatever script is running.
Stray == (\E t \in Targets : StrayWrites(t)) /\ UNCHANGED lifeVars

LifeNext ==
  \/ Attempt \/ Stray
  \/ \E t \in Targets, enable \in BOOLEAN : Configure(t, enable)
  \/ \E t \in Targets : ArchiveMoves(t)
  \/ ArchiveClassifies \/ ArchiveConfigures \/ ArchiveDies

LifeSpec == LifeInit /\ [][LifeNext]_allVars

FairLifeSpec == LifeSpec /\ WF_allVars(ArchiveClassifies \/ ArchiveConfigures)

-----------------------------------------------------------------------------
\* A run that ended with a verdict is not archived as a failed pilot.  The
\* archive looks for the manifest alone, so a verdict can still go there in the
\* copy in report/, which the analysis reads as well: only as what a removal by
\* --force left behind when it stopped.
ArchivedVerdictsAreRemnants ==
  \A k \in Runs :
    LET a == archived[k] IN
    a.taken =>
      /\ a.how # "completed"
      /\ a.dir.manifest.n # 0 \/ a.dir.report.n # 0 => a.cut

\* Archiving prepares a fresh run id: the one the target gets has no
\* directory, no archive and no row, also after configure --force brought the
\* target back to -001, or an archive stopped half-way.
FreshRunId ==
  [][\A t \in Targets :
       config'[t].id > config[t].id =>
         LET k == <<t, config'[t].id>> IN
         exp[k] = Empty /\ ~archived[k].taken /\ rows[k] = NoRow]_allVars

\* The response of call n is on disk.
Held(e, a, n) == \E k \in Runs : n \in {e[k].response.n, a[k].dir.response.n}

\* The response of an LLM call is never lost except by --force: it stays in
\* its experiment directory or moves to the archive with it.
ResponsesKept ==
  [][\A n \in 1..MaxAttempts :
       Held(exp, archived, n) /\ ~Held(exp', archived', n) =>
         proc.at = "wipe" /\ proc.mode = "force"]_allVars

\* archive_failed_pilot.py:85 and 108: what is archived had not replaced any
\* source file.
ArchivedBeforeReplacement ==
  \A k \in Runs : archived[k].manifest => ~archived[k].replaced
=============================================================================
