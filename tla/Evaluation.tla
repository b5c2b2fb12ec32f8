----------------------------- MODULE Evaluation -----------------------------
(***************************************************************************)
(* One call of evaluate() of scripts/roundtrip/run_target.py, with the     *)
(* docker_run() calls it makes (roundtrip_common.py).                      *)
(*                                                                         *)
(* evaluate() overwrites the target's source files in the checked-out      *)
(* repository with the regenerated code, runs four stages in containers    *)
(* that bind-mount that repository, puts the original bytes back in a      *)
(* `finally`, and writes a manifest with the verdict.  The process can be  *)
(* interrupted (Ctrl-C), killed, lose a write, or leave a container alive. *)
(***************************************************************************)
EXTENDS Naturals, Sequences

CONSTANTS
  RepoFiles,    \* files of the repository that git tracks
  SourceFiles,  \* config["source_files"], in the order of the list
  Granularity   \* config["granularity"]

\* prepare() refuses a class_span target with several source files, and
\* --reprocess-existing uses the configuration prepare() saved.
ASSUME ConfigAssumption ==
  /\ SourceFiles \in Seq(RepoFiles)
  /\ Granularity \in {"module_files", "class_span"}
  /\ Granularity = "class_span" => Len(SourceFiles) = 1

Sources == {SourceFiles[i] : i \in 1..Len(SourceFiles)}

\* What a tracked file can hold: its text at HEAD, the text that carries the
\* regenerated code, something an earlier run or an operator left, regenerated
\* code spliced into such a text, or the rest of a write that did not end.
Content == {"head", "generated", "foreign", "mixed", "torn"}

Configure  == 1
Build      == 2
DirectTest == 3
FullTest   == 4
Stages     == Configure..FullTest

\* What `records` says of a stage ("none": no entry).
StageRecord == {"none", "passed", "failed", "timeout", "skipped"}

VARIABLES
  pc,           \* where evaluate() is
  tree,         \* content of every tracked file
  entry,        \* history: tree when evaluate() was called
  originals,    \* the bytes read before the try
  next,         \* position in the replacement loop and in the restore loop
  stage,        \* the stage being run
  records,      \* the stage records
  error,        \* an exception was caught (error is not None)
  interrupted,  \* a KeyboardInterrupt is waiting for the finally to end
  container,    \* whether a stage container is alive
  built,        \* the text each file had when it was compiled into build/
  restoration,  \* the answers to "restored" and "repository_clean"
  overall,      \* overall_pass of the manifest
  outcome       \* how the call ended

treeVars == <<tree, entry, originals>>
runVars  == <<stage, records, error, interrupted>>
endVars  == <<restoration, overall, outcome>>
vars     == <<pc, treeVars, next, runVars, container, built, endVars>>

Outcomes == {"none", "returned", "raised", "interrupted", "broken", "killed"}

Clean(t) == \A f \in RepoFiles : t[f] = "head"

Current == SourceFiles[next]

\* Text of a source file once the regenerated code is in it: the whole file,
\* or the class span inside the text the file has now.
Replacement(old) ==
  IF Granularity = "module_files" \/ old = "head"
  THEN "generated" ELSE "mixed"

AllPassed(r) == \A s \in Stages : r[s] = "passed"

TypeOK ==
  /\ pc \in {"read", "replace", "stage", "running", "cleanup", "restore",
             "verify", "record", "done"}
  /\ tree \in [RepoFiles -> Content]
  /\ entry \in [RepoFiles -> Content]
  /\ originals \in [Sources -> Content \cup {"unread"}]
  /\ next \in 1..(Len(SourceFiles) + 1)
  /\ stage \in Stages
  /\ records \in [Stages -> StageRecord]
  /\ error \in BOOLEAN
  /\ interrupted \in BOOLEAN
  /\ container \in {"none", "running"}
  /\ built \in [RepoFiles -> Content \cup {"none"}]
  /\ restoration \in [restored : BOOLEAN, clean : BOOLEAN]
  /\ overall \in BOOLEAN
  /\ outcome \in Outcomes

-----------------------------------------------------------------------------
\* A fresh run calls evaluate() on a tree ensure_clean() found clean;
\* --reprocess-existing calls it on whatever the tree holds, and on a build/
\* of any earlier run.
Init ==
  /\ pc = "read"
  /\ tree \in [RepoFiles -> {"head", "foreign"}]
  /\ entry = tree
  /\ originals = [f \in Sources |-> "unread"]
  /\ next = 1
  /\ stage = Configure
  /\ records = [s \in Stages |-> "none"]
  /\ error = FALSE
  /\ interrupted = FALSE
  /\ container = "none"
  /\ built \in {[f \in RepoFiles |-> c] : c \in {"none", "foreign"}}
  /\ restoration = [restored |-> FALSE, clean |-> FALSE]
  /\ overall = FALSE
  /\ outcome = "none"

\* Mutant: the restore loop goes on where the replacement loop stopped.
EnterFinally_KeepsPosition == /\ pc' = "restore"
                              /\ next' = next

\* Control leaves the try block: the restore loop of the finally starts.
EnterFinally == /\ pc' = "restore"
                /\ next' = 1

\* `except Exception`: the error is noted, then the finally runs.
Caught == /\ error' = TRUE
          /\ EnterFinally

End(how) == /\ pc' = "done"
            /\ outcome' = how
            /\ UNCHANGED <<restoration, overall>>

\* A write_bytes that does not end leaves the old text or a truncated one.
MayTear(f) == tree' \in {tree, [tree EXCEPT ![f] = "torn"]}

\* Mutant: the originals are never read.
ReadOriginals_Unread ==
  /\ pc = "read"
  /\ pc' = "replace"
  /\ UNCHANGED <<treeVars, next, runVars, container, built, endVars>>

ReadOriginals ==
  /\ pc = "read"
  /\ originals' = [f \in Sources |-> tree[f]]
  /\ pc' = "replace"
  /\ UNCHANGED <<tree, entry, next, runVars, container, built, endVars>>

\* The originals are read outside the try: the exception leaves evaluate().
ReadFails ==
  /\ pc = "read"
  /\ End("raised")
  /\ UNCHANGED <<treeVars, next, runVars, container, built>>

ReplaceFile ==
  /\ pc = "replace"
  /\ next <= Len(SourceFiles)
  /\ tree' = [tree EXCEPT ![Current] = Replacement(@)]
  /\ next' = next + 1
  /\ UNCHANGED <<pc, entry, originals, runVars, container, built, endVars>>

\* A generated file is missing, the class span is not found, or the write
\* fails.
ReplaceFails ==
  /\ pc = "replace"
  /\ next <= Len(SourceFiles)
  /\ MayTear(Current)
  /\ Caught
  /\ UNCHANGED <<entry, originals, stage, records, interrupted, container,
                 built, endVars>>

\* docker_image_id() is compared with the image the configuration pins.
ImageMatches ==
  /\ pc = "replace"
  /\ next > Len(SourceFiles)
  /\ pc' = "stage"
  /\ UNCHANGED <<treeVars, next, runVars, container, built, endVars>>

ImageDiffers ==
  /\ pc = "replace"
  /\ next > Len(SourceFiles)
  /\ Caught
  /\ UNCHANGED <<treeVars, stage, records, interrupted, container, built,
                 endVars>>

-----------------------------------------------------------------------------
\* docker run.  The loop starts a stage only when every record so far passed.
\* The configure command of the targets begins with rm -rf build.
StartStage ==
  /\ pc = "stage"
  /\ \A s \in Stages : s < stage => records[s] = "passed"
  /\ pc' = "running"
  /\ container' = "running"
  /\ built' = IF stage = Configure THEN [f \in RepoFiles |-> "none"] ELSE built
  /\ UNCHANGED <<treeVars, next, runVars, endVars>>

\* The build command compiles a file, as the bind mount shows it then.  A
\* container that outlives its time-out goes on compiling.
Compile(f) ==
  /\ container = "running"
  /\ stage = Build
  /\ built' = [built EXCEPT ![f] = tree[f]]
  /\ UNCHANGED <<pc, treeVars, next, runVars, container, endVars>>

\* The stage command writes a tracked file other than the target's (a fixture).
ContainerWrites(f) ==
  /\ container = "running"
  /\ f \notin Sources
  /\ tree[f] # "foreign"
  /\ tree' = [tree EXCEPT ![f] = "foreign"]
  /\ UNCHANGED <<pc, entry, originals, next, runVars, container, built, endVars>>

\* Mutant: the loop breaks without marking the remaining stages.
Recorded_NoSkip(result) == [records EXCEPT ![stage] = result]

\* records[stage] is entered; when it did not pass, every stage without a
\* record is marked skipped and the loop ends.
Recorded(result) ==
  [s \in Stages |-> IF s = stage THEN result
                    ELSE IF result # "passed" /\ records[s] = "none"
                    THEN "skipped" ELSE records[s]]

\* passed: exit status 0 and, for the two test stages, the numbers of tests
\* run and passed are the expected ones and none failed.
StagePasses(exitCode, counts) ==
  /\ exitCode = 0
  /\ stage \in {DirectTest, FullTest} => counts = "expected"

\* cmake --build exits with 0 only when everything is compiled.
MayExit(exitCode) ==
  (stage = Build /\ exitCode = 0) => \A f \in RepoFiles : built[f] # "none"

ContainerExits(exitCode, counts) ==
  LET result == IF StagePasses(exitCode, counts) THEN "passed" ELSE "failed" IN
  /\ pc = "running"
  /\ MayExit(exitCode)
  /\ container' = "none"
  /\ records' = Recorded(result)
  /\ IF result = "passed" /\ stage # FullTest
     THEN /\ pc' = "stage"
          /\ stage' = stage + 1
          /\ next' = next
     ELSE /\ EnterFinally
          /\ stage' = stage
  /\ UNCHANGED <<treeVars, error, interrupted, built, endVars>>

\* Mutant: the build stage has no time-out.
TimesOut_NotBuild ==
  /\ pc = "running"
  /\ stage # Build
  /\ pc' = "cleanup"
  /\ UNCHANGED <<treeVars, next, runVars, container, built, endVars>>

\* subprocess.TimeoutExpired: the docker client is killed, the container is not.
TimesOut ==
  /\ pc = "running"
  /\ pc' = "cleanup"
  /\ UNCHANGED <<treeVars, next, runVars, container, built, endVars>>

\* Mutant: a stage that timed out is left without a record.
CleansUp_NoRecord ==
  /\ pc = "cleanup"
  /\ container' \in {"none", container}
  /\ EnterFinally
  /\ UNCHANGED <<treeVars, stage, records, error, interrupted, built, endVars>>

\* docker rm -f removes the container, finds it gone, fails, or itself takes
\* more than 30 seconds.  The last two only leave a note in stderr.
CleansUp ==
  /\ pc = "cleanup"
  /\ container' \in {"none", container}
  /\ records' = Recorded("timeout")
  /\ EnterFinally
  /\ UNCHANGED <<treeVars, stage, error, interrupted, built, endVars>>

\* docker cannot be started, or a log file cannot be written.
DockerRaises ==
  /\ pc \in {"running", "cleanup"}
  /\ container' \in {"none", container}
  /\ pc = "running" => container' = "none"
  /\ Caught
  /\ UNCHANGED <<treeVars, stage, records, interrupted, built, endVars>>

\* A container nobody waits for any more ends on its own.
OrphanEnds ==
  /\ container = "running"
  /\ pc # "running"
  /\ container' = "none"
  /\ UNCHANGED <<pc, treeVars, next, runVars, built, endVars>>
-----------------------------------------------------------------------------

RestoreFile ==
  /\ pc = "restore"
  /\ next <= Len(SourceFiles)
  /\ tree' = [tree EXCEPT ![Current] = originals[Current]]
  /\ next' = next + 1
  /\ UNCHANGED <<pc, entry, originals, runVars, container, built, endVars>>

\* A write in the finally raises: the rest of the loop is lost.
RestoreFails ==
  /\ pc = "restore"
  /\ next <= Len(SourceFiles)
  /\ MayTear(Current)
  /\ End("broken")
  /\ UNCHANGED <<entry, originals, next, runVars, container, built>>

\* The finally is over: a pending KeyboardInterrupt goes on to the caller.
FinallyEnds ==
  /\ pc = "restore"
  /\ next > Len(SourceFiles)
  /\ IF interrupted THEN End("interrupted")
     ELSE pc' = "verify" /\ UNCHANGED endVars
  /\ UNCHANGED <<treeVars, next, runVars, container, built>>

\* Mutant: the verdict does not ask for a clean repository.
Verify_NoClean ==
  /\ pc = "verify"
  /\ restoration' = [restored |-> \A f \in Sources : tree[f] = originals[f],
                     clean    |-> Clean(tree)]
  /\ overall' = (~error /\ AllPassed(records) /\ restoration'.restored)
  /\ pc' = "record"
  /\ UNCHANGED <<treeVars, next, runVars, container, built, outcome>>

\* Hashes of the restored files, git status, and the verdict.
Verify ==
  /\ pc = "verify"
  /\ restoration' = [restored |-> \A f \in Sources : tree[f] = originals[f],
                     clean    |-> Clean(tree)]
  /\ overall' = ( /\ ~error
                  /\ AllPassed(records)
                  /\ restoration'.restored
                  /\ restoration'.clean )
  /\ pc' = "record"
  /\ UNCHANGED <<treeVars, next, runVars, container, built, outcome>>

\* The manifest is written and returned to main().
WriteManifest ==
  /\ pc = "record"
  /\ End("returned")
  /\ UNCHANGED <<treeVars, next, runVars, container, built>>

\* git, a hash, the normalization record or the manifest write raises.
VerifyFails ==
  /\ pc \in {"verify", "record"}
  /\ End("raised")
  /\ UNCHANGED <<treeVars, next, runVars, container, built>>

-----------------------------------------------------------------------------
\* Mutant: the restore is in an `except Exception`, not in a finally.
InterruptTry_NoFinally ==
  /\ pc \in {"replace", "stage", "running", "cleanup"}
  /\ End("interrupted")
  /\ UNCHANGED <<treeVars, next, runVars, container, built>>

\* Ctrl-C inside the try: not an Exception, so error stays None, but the
\* finally runs.  The container may survive its client.
InterruptTry ==
  /\ pc \in {"replace", "stage", "running", "cleanup"}
  /\ IF pc = "replace" /\ next <= Len(SourceFiles)
     THEN MayTear(Current) ELSE tree' = tree
  /\ interrupted' = TRUE
  /\ EnterFinally
  /\ UNCHANGED <<entry, originals, stage, records, error, container, built, endVars>>

\* Ctrl-C outside the try and the finally.
InterruptOutside ==
  /\ pc \in {"read", "verify", "record"}
  /\ End("interrupted")
  /\ UNCHANGED <<treeVars, next, runVars, container, built>>

\* Ctrl-C in the finally.
InterruptFinally ==
  /\ pc = "restore"
  /\ IF next <= Len(SourceFiles) THEN MayTear(Current) ELSE tree' = tree
  /\ End("broken")
  /\ UNCHANGED <<entry, originals, next, runVars, container, built>>

\* The process dies: no finally, no manifest.
Kill ==
  /\ pc # "done"
  /\ IF pc \in {"replace", "restore"} /\ next <= Len(SourceFiles)
     THEN MayTear(Current) ELSE tree' = tree
  /\ End("killed")
  /\ UNCHANGED <<entry, originals, next, runVars, container, built>>

\* The call is over and no container is left.
Finished ==
  /\ pc = "done"
  /\ container = "none"
  /\ UNCHANGED vars

\* What the harness itself does next; it never waits without a limit but in
\* the git and docker image calls, which these actions take to return.
Harness ==
  \/ ReadOriginals \/ ReplaceFile \/ ImageMatches \/ ImageDiffers
  \/ StartStage \/ TimesOut \/ CleansUp
  \/ RestoreFile \/ FinallyEnds \/ Verify \/ WriteManifest

Faults ==
  \/ ReadFails \/ ReplaceFails \/ DockerRaises \/ RestoreFails \/ VerifyFails
  \/ InterruptTry \/ InterruptOutside \/ InterruptFinally \/ Kill

Containers ==
  \/ \E f \in RepoFiles : Compile(f) \/ ContainerWrites(f)
  \/ \E exitCode \in {0, 1}, counts \in {"expected", "other"} :
       ContainerExits(exitCode, counts)
  \/ OrphanEnds

Next == Harness \/ Faults \/ Containers \/ Finished

Spec == Init /\ [][Next]_vars

FairSpec == Spec /\ WF_vars(Harness)

-----------------------------------------------------------------------------
\* PASS is said only of regenerated code: every stage passed, what was tested
\* was compiled from HEAD with the regenerated sources in place of the
\* original ones and nothing else changed, the repository was at HEAD when
\* evaluate() was called and is at HEAD again, and no container is left.
PassSound ==
  outcome = "returned" /\ overall =>
    /\ Clean(entry)
    /\ Clean(tree)
    /\ AllPassed(records)
    /\ built = [f \in RepoFiles |-> IF f \in Sources THEN "generated" ELSE "head"]
    /\ container = "none"

\* However evaluate() ends, the target's files hold again what they held when
\* it was called, unless a write or a Ctrl-C hit the finally itself or the
\* process was killed; and a manifest never says restored = false.
FinallyRestores ==
  /\ outcome \in {"returned", "raised", "interrupted"} =>
       \A f \in Sources : tree[f] = entry[f]
  /\ outcome = "returned" => restoration.restored

\* The loop stops at the first stage that fails or times out: every earlier
\* stage passed and no later one was run (repository_policy.md, section 6).
StopsAtFirstFailure ==
  \A s \in Stages : records[s] \in {"failed", "timeout"} =>
    /\ \A t \in Stages : t < s => records[t] = "passed"
    /\ \A t \in Stages : t > s => records[t] = "skipped"

\* The manifest explains its verdict: a FAIL has an error, a stage that failed
\* or timed out, or a repository that is not clean; and without an error every
\* stage has a record.
VerdictExplained ==
  outcome = "returned" =>
    /\ ~overall => \/ error
                   \/ \E s \in Stages : records[s] \in {"failed", "timeout"}
                   \/ ~restoration.clean
    /\ ~error => \A s \in Stages : records[s] # "none"

\* evaluate() ends although a container may never exit: the stage time-outs
\* end the wait.
Terminates == <>(pc = "done")

\* evaluate() keeps what its callers rely on (EvaluationPromise).
Promise == INSTANCE EvaluationPromise WITH
             phase   <- IF pc = "done" THEN "closed" ELSE "open",
             verdict <- IF outcome # "returned" THEN "none"
                        ELSE IF overall THEN "PASS" ELSE "FAIL"

KeepsPromise == Promise!Spec
=============================================================================
