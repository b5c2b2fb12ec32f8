-------------------------- MODULE EvaluationProofs --------------------------
(***************************************************************************)
(* Proofs about Evaluation and Failures, for every repository, target and  *)
(* granularity.                                                            *)
(*                                                                         *)
(* The invariants the runs check are not inductive: a verdict is computed  *)
(* from the tree at the end, while the text that was compiled was read     *)
(* long before.  IInv adds what ties the two together: the originals are   *)
(* the text at the call, the restore loop has put back a prefix of them,   *)
(* and what build/ holds was compiled from the replaced sources and from   *)
(* files that, if they are at HEAD now, were at HEAD all along.            *)
(***************************************************************************)
EXTENDS Failures, TLAPS

InTry  == {"stage", "running", "cleanup"}
AtEnd  == {"restore", "verify", "record"}

\* The originals are the bytes the target had at the call.
OriginalsInv ==
  /\ pc = "read" => tree = entry
  /\ pc # "read" /\ pc # "done" => \A f \in Sources : originals[f] = entry[f]

\* Files that are not the target's never come back to HEAD.
OtherFilesInv ==
  \A f \in RepoFiles \ Sources : tree[f] = "head" => entry[f] = "head"

\* The replacement loop has replaced a prefix of the list.
ReplaceInv ==
  /\ pc = "read" => next = 1
  /\ pc = "replace" =>
       /\ next = 1 => \A f \in Sources : tree[f] = entry[f]
       /\ \A i \in 1..Len(SourceFiles) : i < next =>
            tree[SourceFiles[i]] = Replacement(entry[SourceFiles[i]])
  /\ pc \in InTry => \A f \in Sources : tree[f] = Replacement(entry[f])

\* The restore loop has restored a prefix of the list, at the end all of it.
RestoreInv ==
  /\ pc = "restore" =>
       \A i \in 1..Len(SourceFiles) : i < next =>
         tree[SourceFiles[i]] = entry[SourceFiles[i]]
  /\ pc \in {"verify", "record"} => \A f \in Sources : tree[f] = entry[f]

\* Flags and the place evaluate() is at.
ControlInv ==
  /\ pc = "done" <=> outcome # "none"
  /\ pc \in {"read", "replace"} \cup InTry => ~error /\ ~interrupted
  /\ pc \in {"verify", "record"} => ~interrupted
  /\ pc \in {"read", "replace", "stage"} => container = "none"

\* Records of the stages before, at and after the current one.
RecordsInv ==
  /\ pc \in {"read", "replace"} => stage = Configure
  /\ pc \in {"read", "replace"} \cup InTry =>
       \A s \in Stages : records[s] = IF s < stage THEN "passed" ELSE "none"
  /\ pc \in AtEnd /\ ~error /\ ~interrupted =>
       /\ \A s \in Stages : records[s] # "none"
       /\ AllPassed(records)
            \/ \E s \in Stages : records[s] \in {"failed", "timeout"}

\* What is compiled is the replaced sources and unmodified other files.
CompiledRight ==
  /\ \A f \in Sources : built[f] \in {"none", Replacement(entry[f])}
  /\ \A f \in RepoFiles \ Sources :
       tree[f] = "head" => built[f] \in {"none", "head"}

AllCompiled == \A f \in RepoFiles : built[f] # "none"

BuildInv ==
  /\ pc \in {"stage", "running"} /\ (pc = "running" \/ stage # Configure) =>
       CompiledRight
  /\ pc \in {"stage", "running"} /\ stage > Build => AllCompiled
  /\ (pc \in AtEnd \/ pc = "done") /\ AllPassed(records) =>
       CompiledRight /\ AllCompiled /\ container = "none"

\* The verdict against the records and the tree it was computed from.
VerdictInv ==
  pc = "record" \/ outcome = "returned" =>
    /\ restoration.restored
    /\ overall <=> ~error /\ AllPassed(records) /\ restoration.clean
    /\ overall => Clean(tree)
    /\ \A f \in Sources : tree[f] = entry[f]
    /\ ~error => \A s \in Stages : records[s] # "none"
    /\ ~error /\ ~AllPassed(records) =>
         \E s \in Stages : records[s] \in {"failed", "timeout"}

IInv ==
  /\ TypeOK
  /\ OriginalsInv
  /\ OtherFilesInv
  /\ ReplaceInv
  /\ RestoreInv
  /\ ControlInv
  /\ RecordsInv
  /\ BuildInv
  /\ VerdictInv
  /\ FinallyRestores
  /\ StopsAtFirstFailure

\* A target's files are files git tracks.
LEMMA SourcesTracked == Sources \subseteq RepoFiles
BY ConfigAssumption DEF ConfigAssumption, Sources

\* Every variable keeps its type.
LEMMA TypeStep ==
  ASSUME ConfigAssumption, TypeOK, OriginalsInv, [Next]_vars
  PROVE  TypeOK'
<1> USE DEF TypeOK, Content, StageRecord, Outcomes, treeVars, runVars,
        endVars, EnterFinally, Caught, End, MayTear, Current, Sources, Stages,
        Configure, Build, DirectTest, FullTest
<1>1. CASE ReadOriginals
  BY <1>1 DEF ReadOriginals
<1>2. CASE ReplaceFile
  BY <1>2 DEF ReplaceFile, Replacement
<1>3. CASE ReplaceFails
  BY <1>3 DEF ReplaceFails
<1>4. CASE CleansUp
  BY <1>4 DEF CleansUp, Recorded
<1>5. CASE RestoreFile
  BY <1>5 DEF RestoreFile, OriginalsInv
<1>6. CASE Verify
  BY <1>6 DEF Verify, Clean, AllPassed
<1>7. CASE RestoreFails
  BY <1>7 DEF RestoreFails
<1>8. CASE InterruptTry
  BY <1>8 DEF InterruptTry
<1>9. CASE InterruptFinally
  BY <1>9 DEF InterruptFinally
<1>10. CASE Kill
  BY <1>10 DEF Kill
<1>11. CASE \E f \in RepoFiles : Compile(f)
  BY <1>11 DEF Compile
<1>12. CASE \E f \in RepoFiles : ContainerWrites(f)
  BY <1>12 DEF ContainerWrites
<1>13. CASE \E e \in {0, 1}, c \in {"expected", "other"} : ContainerExits(e, c)
  BY <1>13 DEF ContainerExits, Recorded, StagePasses
<1>14. CASE ReadFails
  BY <1>14 DEF ReadFails
<1>15. CASE ImageMatches
  BY <1>15 DEF ImageMatches
<1>16. CASE ImageDiffers
  BY <1>16 DEF ImageDiffers
<1>17. CASE StartStage
  BY <1>17 DEF StartStage
<1>18. CASE TimesOut
  BY <1>18 DEF TimesOut
<1>19. CASE FinallyEnds
  BY <1>19 DEF FinallyEnds
<1>20. CASE WriteManifest
  BY <1>20 DEF WriteManifest
<1>21. CASE DockerRaises
  BY <1>21 DEF DockerRaises
<1>22. CASE VerifyFails
  BY <1>22 DEF VerifyFails
<1>23. CASE InterruptOutside
  BY <1>23 DEF InterruptOutside
<1>24. CASE
    \/ OrphanEnds \/ UNCHANGED vars
  BY <1>24 DEF OrphanEnds, vars
<1>25. QED
  BY <1>1, <1>2, <1>3, <1>4, <1>5, <1>6, <1>7, <1>8, <1>9, <1>10, <1>11,
     <1>12, <1>13, <1>14, <1>15, <1>16, <1>17, <1>18, <1>19, <1>20, <1>21,
     <1>22, <1>23, <1>24
     DEF Next, Harness, Faults, Containers, Finished

\* The originals are read once, before any write, and never assigned again.
LEMMA OriginalsStep ==
  ASSUME ConfigAssumption, TypeOK, ControlInv, OriginalsInv, [Next]_vars
  PROVE  OriginalsInv'
<1> USE DEF TypeOK, OriginalsInv, treeVars, runVars, endVars, EnterFinally,
        Caught, End, MayTear, Current, Sources
<1>1. CASE ReadOriginals
  BY <1>1 DEF ReadOriginals
<1>2. CASE Verify
  BY <1>2 DEF Verify
<1>3. CASE \E f \in RepoFiles : ContainerWrites(f)
  BY <1>3 DEF ContainerWrites, ControlInv
<1>4. CASE
    \/ ReadFails \/ ReplaceFile \/ ReplaceFails \/ ImageMatches
    \/ ImageDiffers
  BY <1>4 DEF ReadFails, ReplaceFile, ReplaceFails, ImageMatches, ImageDiffers
<1>5. CASE
    \/ StartStage \/ TimesOut \/ CleansUp \/ RestoreFile \/ FinallyEnds
  BY <1>5 DEF StartStage, TimesOut, CleansUp, RestoreFile, FinallyEnds
<1>6. CASE
    \/ WriteManifest \/ DockerRaises \/ RestoreFails \/ VerifyFails
    \/ InterruptTry
  BY <1>6 DEF WriteManifest, DockerRaises, RestoreFails, VerifyFails,
     InterruptTry
<1>7. CASE
    \/ InterruptOutside \/ InterruptFinally \/ Kill \/ OrphanEnds
    \/ (\E f \in RepoFiles : Compile(f))
  BY <1>7 DEF InterruptOutside, InterruptFinally, Kill, OrphanEnds, Compile
<1>8. CASE
    \/ (\E e \in {0, 1}, c \in {"expected", "other"} : ContainerExits(e, c))
    \/ UNCHANGED vars
  BY <1>8 DEF ContainerExits, vars
<1>9. QED
  BY <1>1, <1>2, <1>3, <1>4, <1>5, <1>6, <1>7, <1>8
     DEF Next, Harness, Faults, Containers, Finished

\* Only containers write these files, and never the text of HEAD.
LEMMA OtherFilesStep ==
  ASSUME ConfigAssumption, TypeOK, OtherFilesInv, [Next]_vars
  PROVE  OtherFilesInv'
<1> USE DEF TypeOK, OtherFilesInv, treeVars, runVars, endVars, EnterFinally,
        Caught, End, MayTear, Current, Sources
<1>1. CASE Verify
  BY <1>1 DEF Verify
<1>2. CASE \E f \in RepoFiles : ContainerWrites(f)
  BY <1>2 DEF ContainerWrites
<1>3. CASE
    \/ ReadOriginals \/ ReadFails \/ ReplaceFile \/ ReplaceFails
    \/ ImageMatches
  BY <1>3 DEF ReadOriginals, ReadFails, ReplaceFile, ReplaceFails,
     ImageMatches
<1>4. CASE
    \/ ImageDiffers \/ StartStage \/ TimesOut \/ CleansUp \/ RestoreFile
  BY <1>4 DEF ImageDiffers, StartStage, TimesOut, CleansUp, RestoreFile
<1>5. CASE
    \/ FinallyEnds \/ WriteManifest \/ DockerRaises \/ RestoreFails
    \/ VerifyFails
  BY <1>5 DEF FinallyEnds, WriteManifest, DockerRaises, RestoreFails,
     VerifyFails
<1>6. CASE
    \/ InterruptTry \/ InterruptOutside \/ InterruptFinally \/ Kill
    \/ OrphanEnds
  BY <1>6 DEF InterruptTry, InterruptOutside, InterruptFinally, Kill,
     OrphanEnds
<1>7. CASE
    \/ (\E f \in RepoFiles : Compile(f))
    \/ (\E e \in {0, 1}, c \in {"expected", "other"} : ContainerExits(e, c))
    \/ UNCHANGED vars
  BY <1>7 DEF Compile, ContainerExits, vars
<1>8. QED
  BY <1>1, <1>2, <1>3, <1>4, <1>5, <1>6, <1>7
     DEF Next, Harness, Faults, Containers, Finished

\* Each turn of the replacement loop extends the replaced prefix; the loop
\* ends with every source replaced, and the stages leave them alone.
LEMMA ReplaceStep ==
  ASSUME ConfigAssumption, TypeOK, OriginalsInv, ControlInv, ReplaceInv,
         [Next]_vars
  PROVE  ReplaceInv'
<1> USE DEF TypeOK, ReplaceInv, InTry, treeVars, runVars, endVars,
        EnterFinally, Caught, End, MayTear, Current, Sources
<1>1. CASE ReadOriginals
  BY <1>1 DEF ReadOriginals, OriginalsInv
<1>2. CASE ReplaceFile
  BY <1>2 DEF ReplaceFile, Replacement
<1>3. CASE ReplaceFails
  BY <1>3 DEF ReplaceFails
<1>4. CASE ImageMatches
  BY <1>4 DEF ImageMatches
<1>5. CASE Verify
  BY <1>5 DEF Verify
<1>6. CASE \E f \in RepoFiles : ContainerWrites(f)
  <2>1. /\ \A g \in Sources : tree'[g] = tree[g]
        /\ UNCHANGED <<pc, next, entry>>
    BY <1>6, SourcesTracked DEF ContainerWrites
  <2>2. \A i \in 1..Len(SourceFiles) : SourceFiles[i] \in Sources
    OBVIOUS
  <2>3. QED
    BY <1>6, <2>1, <2>2, SourcesTracked DEF ContainerWrites
<1>7. CASE
    \/ ReadFails \/ ImageDiffers \/ StartStage \/ TimesOut \/ CleansUp
  BY <1>7 DEF ReadFails, ImageDiffers, StartStage, TimesOut, CleansUp
<1>8. CASE
    \/ RestoreFile \/ FinallyEnds \/ WriteManifest \/ DockerRaises
    \/ RestoreFails
  BY <1>8 DEF RestoreFile, FinallyEnds, WriteManifest, DockerRaises,
     RestoreFails
<1>9. CASE
    \/ VerifyFails \/ InterruptTry \/ InterruptOutside \/ InterruptFinally
    \/ Kill
  BY <1>9 DEF VerifyFails, InterruptTry, InterruptOutside, InterruptFinally,
     Kill
<1>10. CASE
    \/ OrphanEnds \/ (\E f \in RepoFiles : Compile(f))
    \/ (\E e \in {0, 1}, c \in {"expected", "other"} : ContainerExits(e, c))
    \/ UNCHANGED vars
  BY <1>10 DEF OrphanEnds, Compile, ContainerExits, vars
<1>11. QED
  BY <1>1, <1>2, <1>3, <1>4, <1>5, <1>6, <1>7, <1>8, <1>9, <1>10
     DEF Next, Harness, Faults, Containers, Finished

\* Each turn of the restore loop extends the restored prefix.
LEMMA RestoreStep ==
  ASSUME ConfigAssumption, TypeOK, OriginalsInv, RestoreInv, [Next]_vars
  PROVE  RestoreInv'
<1> USE DEF TypeOK, RestoreInv, treeVars, runVars, endVars, EnterFinally,
        Caught, End, MayTear, Current, Sources
<1>1. CASE RestoreFile
  <2>1. /\ pc = "restore" /\ pc' = "restore"
        /\ next \in 1..Len(SourceFiles) /\ next' = next + 1
        /\ tree' = [tree EXCEPT ![Current] = originals[Current]]
        /\ entry' = entry
    BY <1>1 DEF RestoreFile
  <2>2. originals[Current] = entry[Current] /\ Current \in RepoFiles
    BY <2>1, ConfigAssumption DEF OriginalsInv, ConfigAssumption
  <2>3. ASSUME NEW i \in 1..Len(SourceFiles), i < next'
        PROVE  tree'[SourceFiles[i]] = entry[SourceFiles[i]]
    <3>1. SourceFiles[i] \in RepoFiles
      BY ConfigAssumption DEF ConfigAssumption
    <3>2. CASE SourceFiles[i] = Current
      BY <2>1, <2>2, <3>2
    <3>3. CASE SourceFiles[i] # Current
      BY <2>1, <2>3, <3>1, <3>3
    <3>4. QED
      BY <3>2, <3>3
  <2>4. QED
    BY <2>1, <2>3
<1>2. CASE FinallyEnds
  BY <1>2 DEF FinallyEnds
<1>3. CASE Verify
  BY <1>3 DEF Verify
<1>4. CASE \E f \in RepoFiles : ContainerWrites(f)
  BY <1>4 DEF ContainerWrites
<1>5. CASE
    \/ ReadOriginals \/ ReadFails \/ ReplaceFile \/ ReplaceFails
    \/ ImageMatches
  BY <1>5 DEF ReadOriginals, ReadFails, ReplaceFile, ReplaceFails,
     ImageMatches
<1>6. CASE
    \/ ImageDiffers \/ StartStage \/ TimesOut \/ CleansUp \/ WriteManifest
  BY <1>6 DEF ImageDiffers, StartStage, TimesOut, CleansUp, WriteManifest
<1>7. CASE
    \/ DockerRaises \/ RestoreFails \/ VerifyFails \/ InterruptTry
    \/ InterruptOutside
  BY <1>7 DEF DockerRaises, RestoreFails, VerifyFails, InterruptTry,
     InterruptOutside
<1>8. CASE
    \/ InterruptFinally \/ Kill \/ OrphanEnds
    \/ (\E f \in RepoFiles : Compile(f))
    \/ (\E e \in {0, 1}, c \in {"expected", "other"} : ContainerExits(e, c))
    \/ UNCHANGED vars
  BY <1>8 DEF InterruptFinally, Kill, OrphanEnds, Compile, ContainerExits,
     vars
<1>9. QED
  BY <1>1, <1>2, <1>3, <1>4, <1>5, <1>6, <1>7, <1>8
     DEF Next, Harness, Faults, Containers, Finished

\* The flags follow the place evaluate() is at.
LEMMA ControlStep ==
  ASSUME TypeOK, ControlInv, [Next]_vars
  PROVE  ControlInv'
<1> USE DEF TypeOK, ControlInv, InTry, treeVars, runVars, endVars,
        EnterFinally, Caught, End
<1>1. CASE Verify
  BY <1>1 DEF Verify
<1>2. CASE
    \/ ReadOriginals \/ ReadFails \/ ReplaceFile \/ ReplaceFails
    \/ ImageMatches
  BY <1>2 DEF ReadOriginals, ReadFails, ReplaceFile, ReplaceFails,
     ImageMatches
<1>3. CASE
    \/ ImageDiffers \/ StartStage \/ TimesOut \/ CleansUp \/ RestoreFile
  BY <1>3 DEF ImageDiffers, StartStage, TimesOut, CleansUp, RestoreFile
<1>4. CASE
    \/ FinallyEnds \/ WriteManifest \/ DockerRaises \/ RestoreFails
    \/ VerifyFails
  BY <1>4 DEF FinallyEnds, WriteManifest, DockerRaises, RestoreFails,
     VerifyFails
<1>5. CASE
    \/ InterruptTry \/ InterruptOutside \/ InterruptFinally \/ Kill
    \/ OrphanEnds
  BY <1>5 DEF InterruptTry, InterruptOutside, InterruptFinally, Kill,
     OrphanEnds
<1>6. CASE
    \/ (\E f \in RepoFiles : Compile(f))
    \/ (\E f \in RepoFiles : ContainerWrites(f))
    \/ (\E e \in {0, 1}, c \in {"expected", "other"} : ContainerExits(e, c))
    \/ UNCHANGED vars
  BY <1>6 DEF Compile, ContainerWrites, ContainerExits, vars
<1>7. QED
  BY <1>1, <1>2, <1>3, <1>4, <1>5, <1>6
     DEF Next, Harness, Faults, Containers, Finished

\* The stages that ran before the current one passed; the loop ends with a
\* record for every stage.
LEMMA RecordsStep ==
  ASSUME TypeOK, ControlInv, RecordsInv, [Next]_vars
  PROVE  RecordsInv'
<1> USE DEF TypeOK, RecordsInv, ControlInv, InTry, AtEnd, AllPassed,
        StageRecord, treeVars, runVars, endVars, EnterFinally, Caught, End,
        Stages, Configure, Build, DirectTest, FullTest
<1>1. CASE StartStage
  BY <1>1 DEF StartStage
<1>2. CASE CleansUp
  BY <1>2 DEF CleansUp, Recorded
<1>3. CASE Verify
  BY <1>3 DEF Verify
<1>4. CASE \E e \in {0, 1}, c \in {"expected", "other"} : ContainerExits(e, c)
  BY <1>4 DEF ContainerExits, Recorded, StagePasses
<1>5. CASE
    \/ ReadOriginals \/ ReadFails \/ ReplaceFile \/ ReplaceFails
    \/ ImageMatches
  BY <1>5 DEF ReadOriginals, ReadFails, ReplaceFile, ReplaceFails,
     ImageMatches
<1>6. CASE
    \/ ImageDiffers \/ TimesOut \/ RestoreFile \/ FinallyEnds
    \/ WriteManifest
  BY <1>6 DEF ImageDiffers, TimesOut, RestoreFile, FinallyEnds, WriteManifest
<1>7. CASE
    \/ DockerRaises \/ RestoreFails \/ VerifyFails \/ InterruptTry
    \/ InterruptOutside
  BY <1>7 DEF DockerRaises, RestoreFails, VerifyFails, InterruptTry,
     InterruptOutside
<1>8. CASE
    \/ InterruptFinally \/ Kill \/ OrphanEnds
    \/ (\E f \in RepoFiles : Compile(f))
    \/ (\E f \in RepoFiles : ContainerWrites(f)) \/ UNCHANGED vars
  BY <1>8 DEF InterruptFinally, Kill, OrphanEnds, Compile, ContainerWrites,
     vars
<1>9. QED
  BY <1>1, <1>2, <1>3, <1>4, <1>5, <1>6, <1>7, <1>8
     DEF Next, Harness, Faults, Containers, Finished

\* The build compiles the tree of the try block; a PASS needs its container
\* to have ended, so nothing is compiled after it.
LEMMA BuildStep ==
  ASSUME ConfigAssumption, TypeOK, ControlInv, ReplaceInv, RecordsInv,
         BuildInv, [Next]_vars
  PROVE  BuildInv'
<1> USE DEF TypeOK, BuildInv, CompiledRight, AllCompiled, ControlInv,
        RecordsInv, InTry, AtEnd, AllPassed, treeVars, runVars, endVars,
        EnterFinally, Caught, End, MayTear, Current, Sources, Stages,
        Configure, Build, DirectTest, FullTest
<1>1. CASE StartStage
  BY <1>1 DEF StartStage
<1>2. CASE CleansUp
  BY <1>2 DEF CleansUp, Recorded
<1>3. CASE Verify
  BY <1>3 DEF Verify
<1>4. CASE \E f \in RepoFiles : Compile(f)
  BY <1>4 DEF Compile, ReplaceInv
<1>5. CASE \E f \in RepoFiles : ContainerWrites(f)
  BY <1>5 DEF ContainerWrites
<1>6. CASE \E e \in {0, 1}, c \in {"expected", "other"} : ContainerExits(e, c)
  BY <1>6 DEF ContainerExits, MayExit, Recorded, StagePasses
<1>7. CASE
    \/ ReadOriginals \/ ReadFails \/ ReplaceFile \/ ReplaceFails
    \/ ImageMatches
  BY <1>7 DEF ReadOriginals, ReadFails, ReplaceFile, ReplaceFails,
     ImageMatches
<1>8. CASE
    \/ ImageDiffers \/ TimesOut \/ RestoreFile \/ FinallyEnds
    \/ WriteManifest
  BY <1>8 DEF ImageDiffers, TimesOut, RestoreFile, FinallyEnds, WriteManifest
<1>9. CASE
    \/ DockerRaises \/ RestoreFails \/ VerifyFails \/ InterruptTry
    \/ InterruptOutside
  BY <1>9 DEF DockerRaises, RestoreFails, VerifyFails, InterruptTry,
     InterruptOutside
<1>10. CASE
    \/ InterruptFinally \/ Kill \/ OrphanEnds \/ UNCHANGED vars
  BY <1>10 DEF InterruptFinally, Kill, OrphanEnds, vars
<1>11. QED
  BY <1>1, <1>2, <1>3, <1>4, <1>5, <1>6, <1>7, <1>8, <1>9, <1>10
     DEF Next, Harness, Faults, Containers, Finished

\* The verdict is computed from the records and the restored tree, which no
\* container of a passing run can change afterwards.
LEMMA VerdictStep ==
  ASSUME ConfigAssumption, TypeOK, OriginalsInv, RestoreInv, ControlInv,
         RecordsInv, BuildInv, VerdictInv, [Next]_vars
  PROVE  VerdictInv'
<1> USE DEF TypeOK, VerdictInv, ControlInv, AllPassed, Clean, treeVars,
        runVars, endVars, EnterFinally, Caught, End, MayTear, Current, Sources
<1>1. CASE Verify
  BY <1>1 DEF Verify, OriginalsInv, RestoreInv, RecordsInv, AtEnd
<1>2. CASE \E f \in RepoFiles : ContainerWrites(f)
  BY <1>2 DEF ContainerWrites, BuildInv, AtEnd
<1>3. CASE
    \/ ReadOriginals \/ ReadFails \/ ReplaceFile \/ ReplaceFails
    \/ ImageMatches
  BY <1>3 DEF ReadOriginals, ReadFails, ReplaceFile, ReplaceFails,
     ImageMatches
<1>4. CASE
    \/ ImageDiffers \/ StartStage \/ TimesOut \/ CleansUp \/ RestoreFile
  BY <1>4 DEF ImageDiffers, StartStage, TimesOut, CleansUp, RestoreFile
<1>5. CASE
    \/ FinallyEnds \/ WriteManifest \/ DockerRaises \/ RestoreFails
    \/ VerifyFails
  BY <1>5 DEF FinallyEnds, WriteManifest, DockerRaises, RestoreFails,
     VerifyFails
<1>6. CASE
    \/ InterruptTry \/ InterruptOutside \/ InterruptFinally \/ Kill
    \/ OrphanEnds
  BY <1>6 DEF InterruptTry, InterruptOutside, InterruptFinally, Kill,
     OrphanEnds
<1>7. CASE
    \/ (\E f \in RepoFiles : Compile(f))
    \/ (\E e \in {0, 1}, c \in {"expected", "other"} : ContainerExits(e, c))
    \/ UNCHANGED vars
  BY <1>7 DEF Compile, ContainerExits, vars
<1>8. QED
  BY <1>1, <1>2, <1>3, <1>4, <1>5, <1>6, <1>7
     DEF Next, Harness, Faults, Containers, Finished

\* The files are the target's again wherever the call may end.
LEMMA FinallyStep ==
  ASSUME ConfigAssumption, TypeOK, OriginalsInv, RestoreInv, ControlInv,
         VerdictInv, FinallyRestores, [Next]_vars
  PROVE  FinallyRestores'
<1> USE DEF TypeOK, FinallyRestores, ControlInv, treeVars, runVars, endVars,
        EnterFinally, Caught, End, MayTear, Current, Sources
<1>1. CASE ReadFails
  BY <1>1 DEF ReadFails, OriginalsInv
<1>2. CASE FinallyEnds
  BY <1>2 DEF FinallyEnds, RestoreInv
<1>3. CASE Verify
  BY <1>3 DEF Verify
<1>4. CASE WriteManifest
  BY <1>4 DEF WriteManifest, VerdictInv
<1>5. CASE VerifyFails
  BY <1>5 DEF VerifyFails, RestoreInv
<1>6. CASE InterruptOutside
  BY <1>6 DEF InterruptOutside, OriginalsInv, RestoreInv
<1>7. CASE
    \/ ReadOriginals \/ ReplaceFile \/ ReplaceFails \/ ImageMatches
    \/ ImageDiffers
  BY <1>7 DEF ReadOriginals, ReplaceFile, ReplaceFails, ImageMatches,
     ImageDiffers
<1>8. CASE
    \/ StartStage \/ TimesOut \/ CleansUp \/ RestoreFile \/ DockerRaises
  BY <1>8 DEF StartStage, TimesOut, CleansUp, RestoreFile, DockerRaises
<1>9. CASE
    \/ RestoreFails \/ InterruptTry \/ InterruptFinally \/ Kill \/ OrphanEnds
  BY <1>9 DEF RestoreFails, InterruptTry, InterruptFinally, Kill, OrphanEnds
<1>10. CASE
    \/ (\E f \in RepoFiles : Compile(f))
    \/ (\E f \in RepoFiles : ContainerWrites(f))
    \/ (\E e \in {0, 1}, c \in {"expected", "other"} : ContainerExits(e, c))
    \/ UNCHANGED vars
  BY <1>10 DEF Compile, ContainerWrites, ContainerExits, vars
<1>11. QED
  BY <1>1, <1>2, <1>3, <1>4, <1>5, <1>6, <1>7, <1>8, <1>9, <1>10
     DEF Next, Harness, Faults, Containers, Finished

\* The loop ends with the first record that is not passed.
LEMMA StopsStep ==
  ASSUME TypeOK, RecordsInv, StopsAtFirstFailure, [Next]_vars
  PROVE  StopsAtFirstFailure'
<1> USE DEF TypeOK, StopsAtFirstFailure, RecordsInv, InTry, treeVars, runVars,
        endVars, EnterFinally, Caught, End, Stages, Configure, Build,
        DirectTest, FullTest
<1>1. CASE CleansUp
  BY <1>1 DEF CleansUp, Recorded
<1>2. CASE Verify
  BY <1>2 DEF Verify
<1>3. CASE \E e \in {0, 1}, c \in {"expected", "other"} : ContainerExits(e, c)
  BY <1>3 DEF ContainerExits, Recorded, StagePasses
<1>4. CASE
    \/ ReadOriginals \/ ReadFails \/ ReplaceFile \/ ReplaceFails
    \/ ImageMatches
  BY <1>4 DEF ReadOriginals, ReadFails, ReplaceFile, ReplaceFails,
     ImageMatches
<1>5. CASE
    \/ ImageDiffers \/ StartStage \/ TimesOut \/ RestoreFile \/ FinallyEnds
  BY <1>5 DEF ImageDiffers, StartStage, TimesOut, RestoreFile, FinallyEnds
<1>6. CASE
    \/ WriteManifest \/ DockerRaises \/ RestoreFails \/ VerifyFails
    \/ InterruptTry
  BY <1>6 DEF WriteManifest, DockerRaises, RestoreFails, VerifyFails,
     InterruptTry
<1>7. CASE
    \/ InterruptOutside \/ InterruptFinally \/ Kill \/ OrphanEnds
    \/ (\E f \in RepoFiles : Compile(f))
  BY <1>7 DEF InterruptOutside, InterruptFinally, Kill, OrphanEnds, Compile
<1>8. CASE
    \/ (\E f \in RepoFiles : ContainerWrites(f)) \/ UNCHANGED vars
  BY <1>8 DEF ContainerWrites, vars
<1>9. QED
  BY <1>1, <1>2, <1>3, <1>4, <1>5, <1>6, <1>7, <1>8
     DEF Next, Harness, Faults, Containers, Finished

\* Before the first step nothing was read, run or recorded.
LEMMA InitInv ==
  ASSUME ConfigAssumption, Init
  PROVE  IInv
<1> USE DEF Init
<1>1. TypeOK
  <2>1. next \in 1..(Len(SourceFiles) + 1)
    BY ConfigAssumption DEF ConfigAssumption
  <2>2. tree \in [RepoFiles -> Content] /\ entry \in [RepoFiles -> Content]
    BY DEF Content
  <2>3. built \in [RepoFiles -> Content \cup {"none"}]
    BY DEF Content
  <2>4. originals \in [Sources -> Content \cup {"unread"}]
    OBVIOUS
  <2>5. records \in [Stages -> StageRecord] /\ stage \in Stages
    BY DEF StageRecord, Stages, Configure, FullTest
  <2>6. restoration \in [restored : BOOLEAN, clean : BOOLEAN]
    OBVIOUS
  <2>7. QED
    BY <2>1, <2>2, <2>3, <2>4, <2>5, <2>6 DEF TypeOK, Outcomes
<1>2. OriginalsInv /\ OtherFilesInv /\ ReplaceInv /\ RestoreInv
  BY DEF OriginalsInv, OtherFilesInv, ReplaceInv, RestoreInv, InTry
<1>3. ControlInv /\ RecordsInv
  BY DEF ControlInv, RecordsInv, InTry, AtEnd, Stages, Configure, FullTest
<1>4. BuildInv /\ VerdictInv
  BY DEF BuildInv, VerdictInv, AtEnd
<1>5. FinallyRestores /\ StopsAtFirstFailure
  BY DEF FinallyRestores, StopsAtFirstFailure, Stages, Configure, FullTest
<1>6. QED
  BY <1>1, <1>2, <1>3, <1>4, <1>5 DEF IInv

\* IInv holds in every state evaluate() can be in.
THEOREM Invariance == Spec => []IInv
<1>1. Init => IInv
  BY InitInv, ConfigAssumption
<1>2. IInv /\ [Next]_vars => IInv'
  BY TypeStep, OriginalsStep, OtherFilesStep, ReplaceStep, RestoreStep,
     ControlStep, RecordsStep, BuildStep, VerdictStep, FinallyStep, StopsStep,
     ConfigAssumption
     DEF IInv
<1>3. QED
  BY <1>1, <1>2, PTL DEF Spec

-----------------------------------------------------------------------------
\* Every variable keeps its type, for every repository and target.
THEOREM TypeCorrect == Spec => []TypeOK
<1>1. IInv => TypeOK
  BY DEF IInv
<1>2. QED
  BY <1>1, Invariance, PTL

\* However evaluate() ends, short of a failure in the finally or the death of
\* the process, the target's files are what they were at the call.
THEOREM SourcesRestored == Spec => []FinallyRestores
<1>1. IInv => FinallyRestores
  BY DEF IInv
<1>2. QED
  BY <1>1, Invariance, PTL

\* The stages stop at the first that does not pass.
THEOREM FirstFailureStops == Spec => []StopsAtFirstFailure
<1>1. IInv => StopsAtFirstFailure
  BY DEF IInv
<1>2. QED
  BY <1>1, Invariance, PTL

\* A manifest names the reason of a FAIL and leaves no stage without record.
THEOREM EveryVerdictExplained == Spec => []VerdictExplained
<1>1. IInv => VerdictExplained
  BY DEF IInv, VerdictInv, VerdictExplained
<1>2. QED
  BY <1>1, Invariance, PTL

\* The tree a PASS was computed from was clean, so the target's files were at
\* HEAD at the call and what was compiled is their replacement; the other
\* files never left HEAD, and were compiled as such.
LEMMA PassFromInv ==
  ASSUME IInv
  PROVE  PassSound
<1> SUFFICES ASSUME outcome = "returned", overall
             PROVE  /\ Clean(entry)
                    /\ Clean(tree)
                    /\ AllPassed(records)
                    /\ built = [f \in RepoFiles |->
                                  IF f \in Sources THEN "generated" ELSE "head"]
                    /\ container = "none"
  BY DEF PassSound
<1>1. Clean(tree) /\ AllPassed(records) /\ \A f \in Sources : tree[f] = entry[f]
  BY DEF IInv, VerdictInv
<1>2. Clean(entry)
  BY <1>1 DEF Clean, IInv, OtherFilesInv
<1>3. CompiledRight /\ AllCompiled /\ container = "none"
  BY <1>1 DEF IInv, ControlInv, BuildInv
<1>4. Sources \subseteq RepoFiles
  BY SourcesTracked
<1>5. \A f \in RepoFiles :
        built[f] = IF f \in Sources THEN "generated" ELSE "head"
  BY <1>1, <1>2, <1>3, <1>4
     DEF CompiledRight, AllCompiled, Clean, Replacement
<1>6. built = [f \in RepoFiles |->
                 IF f \in Sources THEN "generated" ELSE "head"]
  BY <1>5 DEF IInv, TypeOK
<1>7. QED
  BY <1>1, <1>2, <1>3, <1>6

\* A PASS is a verdict on HEAD with exactly the regenerated files in it.
THEOREM PassIsSound == Spec => []PassSound
<1>1. IInv => PassSound
  BY PassFromInv
<1>2. QED
  BY <1>1, Invariance, PTL

-----------------------------------------------------------------------------
\* The call at the level of EvaluationPromise.
LEMMA PromiseInit ==
  ASSUME ConfigAssumption, Init
  PROVE  Promise!Init
BY DEF Init, Promise!Init, Content

\* No action assigns entry.
LEMMA EntryConstant ==
  ASSUME [Next]_vars
  PROVE  entry' = entry
BY DEF Next, Harness, Faults, Containers, Finished, vars, treeVars,
       ReadOriginals, ReadFails, ReplaceFile, ReplaceFails, ImageMatches,
       ImageDiffers, StartStage, TimesOut, CleansUp, RestoreFile, FinallyEnds,
       Verify, WriteManifest, DockerRaises, RestoreFails, VerifyFails,
       InterruptTry, InterruptOutside, InterruptFinally, Kill, OrphanEnds,
       Compile, ContainerWrites, ContainerExits

\* Before the end every step is work, or ends the call with or without a
\* verdict; after it only a container that was left behind writes.
LEMMA PromiseStep ==
  ASSUME IInv, IInv', [Next]_vars
  PROVE  [Promise!Next]_(Promise!vars)
<1> DEFINE phase   == IF pc = "done" THEN "closed" ELSE "open"
           verdict == IF outcome # "returned" THEN "none"
                      ELSE IF overall THEN "PASS" ELSE "FAIL"
<1>1. entry' = entry /\ tree' \in [RepoFiles -> Content]
  BY EntryConstant DEF IInv, TypeOK
<1>2. CASE pc # "done" /\ pc' # "done"
  <2>1. outcome = "none" /\ outcome' = "none"
    BY <1>2 DEF IInv, ControlInv
  <2>2. Promise!Work
    BY <1>1, <1>2, <2>1 DEF Promise!Work
  <2>3. QED
    BY <2>2 DEF Promise!Next
<1>3. CASE pc # "done" /\ WriteManifest
  <2>1. outcome = "none" /\ outcome' = "returned" /\ pc' = "done"
    BY <1>3 DEF IInv, ControlInv, WriteManifest, End
  <2>2. \A f \in Sources : tree[f] = entry[f]
    BY <1>3 DEF WriteManifest, IInv, RestoreInv
  <2>3. overall' => Clean(tree') /\ Clean(entry')
    <3>1. overall' = overall /\ tree' = tree
      BY <1>3 DEF WriteManifest, End, treeVars
    <3>2. overall => Clean(tree)
      BY <1>3 DEF WriteManifest, IInv, VerdictInv
    <3>3. Clean(tree) => Clean(entry)
      BY <2>2 DEF Clean, IInv, OtherFilesInv
    <3>4. QED
      BY <1>1, <3>1, <3>2, <3>3 DEF Clean
  <2>4. Promise!Return
    BY <1>1, <1>3, <2>1, <2>2, <2>3
       DEF Promise!Return, Promise!AtHead, Clean, WriteManifest, End, treeVars
  <2>5. QED
    BY <2>4 DEF Promise!Next
<1>4. CASE pc # "done" /\ pc' = "done" /\ ~WriteManifest
  <2>1. outcome = "none" /\ outcome' # "returned"
    BY <1>4
    DEF IInv, ControlInv, Next, Harness, Faults, Containers, Finished, vars,
        EnterFinally, Caught, End, endVars,
        ReadOriginals, ReadFails, ReplaceFile, ReplaceFails, ImageMatches,
        ImageDiffers, StartStage, TimesOut, CleansUp, RestoreFile, FinallyEnds,
        Verify, DockerRaises, RestoreFails, VerifyFails,
        InterruptTry, InterruptOutside, InterruptFinally, Kill, OrphanEnds,
        Compile, ContainerWrites, ContainerExits
  <2>2. Promise!GiveUp
    BY <1>1, <1>4, <2>1 DEF Promise!GiveUp
  <2>3. QED
    BY <2>2 DEF Promise!Next
<1>5. CASE pc = "done"
  <2>1. /\ UNCHANGED <<pc, endVars>>
        /\ \/ tree' = tree
           \/ container = "running" /\ \A f \in Sources : tree'[f] = tree[f]
    <3>1. CASE Harness \/ Faults
      BY <1>5, <3>1
         DEF Harness, Faults, ReadOriginals, ReadFails, ReplaceFile,
             ReplaceFails, ImageMatches, ImageDiffers, StartStage, TimesOut,
             CleansUp, RestoreFile, FinallyEnds, Verify, WriteManifest,
             DockerRaises, RestoreFails, VerifyFails, InterruptTry,
             InterruptOutside, InterruptFinally, Kill
    <3>2. ASSUME NEW f \in RepoFiles, Compile(f)
          PROVE  UNCHANGED <<pc, tree, endVars>>
      BY <3>2 DEF Compile, treeVars
    <3>3. ASSUME NEW f \in RepoFiles, ContainerWrites(f)
          PROVE  /\ UNCHANGED <<pc, endVars>>
                 /\ container = "running"
                 /\ \A g \in Sources : tree'[g] = tree[g]
      BY <3>3, SourcesTracked DEF ContainerWrites, IInv, TypeOK
    <3>4. ASSUME NEW e \in {0, 1}, NEW c \in {"expected", "other"}
          PROVE  ~ContainerExits(e, c)
      BY <1>5 DEF ContainerExits
    <3>5. CASE OrphanEnds \/ UNCHANGED vars
      BY <3>5 DEF OrphanEnds, vars, treeVars
    <3>6. QED
      BY <3>1, <3>2, <3>3, <3>4, <3>5 DEF Next, Containers, Finished
  <2>2. CASE tree' = tree
    BY <1>1, <2>1, <2>2 DEF Promise!vars, endVars
  <2>3. CASE tree' # tree
    <3>1. ~(outcome = "returned" /\ overall)
      BY <2>1, <2>3, PassFromInv DEF PassSound
    <3>2. Promise!LateWrite
      BY <1>1, <1>5, <2>1, <2>3, <3>1
         DEF Promise!LateWrite, Promise!ContainerWrites, endVars
    <3>3. QED
      BY <3>2 DEF Promise!Next
  <2>4. QED
    BY <2>2, <2>3
<1>6. QED
  BY <1>2, <1>3, <1>4, <1>5

\* evaluate() implements the specification of what its callers rely on.
THEOREM Refinement == Spec => KeepsPromise
<1>1. Init => Promise!Init
  BY PromiseInit, ConfigAssumption
<1>2. IInv /\ IInv' /\ [Next]_vars => [Promise!Next]_(Promise!vars)
  BY PromiseStep
<1>3. QED
  BY <1>1, <1>2, Invariance, PTL DEF Spec, KeepsPromise, Promise!Spec

-----------------------------------------------------------------------------
(***************************************************************************)
(* What the tables of the study say of a manifest, for all other evidence. *)
(* The classification needs to know how far the stages came when something *)
(* else than a stage ended the loop, which IInv leaves open: ShapeInv adds *)
(* it.                                                                     *)
(***************************************************************************)

\* An exception or an interrupt leaves a prefix of passed stages.
Partial == \A s \in Stages : records[s] = IF s < stage THEN "passed" ELSE "none"

\* A loop that ended by itself leaves a record of each stage.
Stopped ==
  /\ records[stage] \in {"passed", "failed", "timeout"}
  /\ \A s \in Stages : /\ s < stage => records[s] = "passed"
                       /\ s > stage => records[s] = "skipped"

ShapeInv ==
  /\ error \/ interrupted => Partial
  /\ (pc \in AtEnd \/ outcome = "returned") /\ ~error /\ ~interrupted => Stopped
  /\ outcome = "returned" => ~interrupted

\* At the start no run has a record.
LEMMA ShapeInit == Init => ShapeInv
BY DEF Init, ShapeInv, AtEnd

\* What does not touch stages and flags keeps the shape of the records.
LEMMA ShapeStep ==
  ASSUME IInv, ShapeInv, [Next]_vars
  PROVE  ShapeInv'
<1>1. TypeOK /\ ControlInv /\ RecordsInv
  BY DEF IInv
<1> USE <1>1 DEF ShapeInv, Partial, InTry, AtEnd, ControlInv, runVars, treeVars, endVars,
                 EnterFinally, Caught, End
<1>2. ASSUME pc \in {"replace"} \cup InTry
      PROVE  Partial /\ ~error /\ ~interrupted
  BY <1>2 DEF RecordsInv
<1>3. CASE ReplaceFails \/ ImageDiffers \/ DockerRaises \/ InterruptTry
  <2>1. Partial
    BY <1>2, <1>3 DEF ReplaceFails, ImageDiffers, DockerRaises, InterruptTry
  <2>2. /\ UNCHANGED <<stage, records>> /\ pc' = "restore" /\ outcome' = outcome
        /\ error' \/ interrupted'
        /\ outcome # "returned"
    BY <1>3 DEF ReplaceFails, ImageDiffers, DockerRaises, InterruptTry
  <2>3. QED
    BY <2>1, <2>2
<1>4. CASE CleansUp
  <2>1. Partial /\ ~error /\ ~interrupted /\ stage \in Stages /\ outcome # "returned"
    BY <1>2, <1>4 DEF CleansUp, TypeOK
  <2>2. /\ stage' = stage /\ error' = error /\ interrupted' = interrupted
        /\ outcome' = outcome /\ records' = Recorded("timeout")
    BY <1>4 DEF CleansUp
  <2>3. Stopped'
    BY <2>1, <2>2 DEF Stopped, Recorded, Stages, Configure, FullTest
  <2>4. QED
    BY <2>1, <2>2, <2>3
<1>5. ASSUME NEW exitCode \in {0, 1}, NEW counts \in {"expected", "other"},
             ContainerExits(exitCode, counts)
      PROVE  ShapeInv'
  <2> DEFINE result == IF StagePasses(exitCode, counts) THEN "passed" ELSE "failed"
  <2>1. /\ Partial /\ ~error /\ ~interrupted /\ stage \in Stages
        /\ outcome # "returned" /\ pc = "running"
    BY <1>2, <1>5 DEF ContainerExits, TypeOK
  <2>2. /\ error' = error /\ interrupted' = interrupted /\ outcome' = outcome
        /\ records' = Recorded(result)
        /\ pc' = "stage" \/ (stage' = stage /\ (result = "failed" \/ stage = FullTest))
    BY <1>5 DEF ContainerExits
  <2>3. CASE pc' = "stage"
    BY <2>1, <2>2, <2>3
  <2>4. CASE stage' = stage /\ (result = "failed" \/ stage = FullTest)
    <3>1. Stopped'
      BY <2>1, <2>2, <2>4 DEF Stopped, Recorded, Stages, Configure, FullTest
    <3>2. QED
      BY <2>1, <2>2, <3>1
  <2>5. QED
    BY <2>2, <2>3, <2>4
<1>6. CASE \/ ReadOriginals \/ ReplaceFile \/ ImageMatches \/ StartStage \/ TimesOut
           \/ RestoreFile \/ FinallyEnds \/ Verify \/ WriteManifest
  <2>1. /\ UNCHANGED <<stage, records, error, interrupted>>
        /\ pc' \in AtEnd => pc \in AtEnd
        /\ outcome' = "returned" => pc = "record" \/ outcome = "returned"
    BY <1>6
       DEF ReadOriginals, ReplaceFile, ImageMatches, StartStage, TimesOut, RestoreFile,
           FinallyEnds, Verify, WriteManifest
  <2>2. QED
    BY <2>1 DEF Stopped
<1>7. CASE ReadFails \/ RestoreFails \/ VerifyFails \/ InterruptOutside
           \/ InterruptFinally \/ Kill
  <2>1. /\ UNCHANGED <<stage, records, error, interrupted>>
        /\ pc' = "done" /\ outcome' # "returned"
    BY <1>7
       DEF ReadFails, RestoreFails, VerifyFails, InterruptOutside, InterruptFinally, Kill
  <2>2. QED
    BY <2>1
<1>8. ASSUME NEW f \in RepoFiles, Compile(f) \/ ContainerWrites(f)
      PROVE  ShapeInv'
  BY <1>8 DEF Compile, ContainerWrites, Stopped
<1>9. CASE OrphanEnds \/ UNCHANGED vars
  BY <1>9 DEF OrphanEnds, vars, Stopped
<1>10. QED
  BY <1>3, <1>4, <1>5, <1>6, <1>7, <1>8, <1>9
     DEF Next, Harness, Faults, Containers, Finished

\* The records of a call have that shape in every reachable state.
THEOREM RecordsShape == Spec => [](IInv /\ ShapeInv)
<1>1. Init => ShapeInv
  BY ShapeInit
<1>2. IInv /\ ShapeInv /\ [Next]_vars => ShapeInv'
  BY ShapeStep
<1>3. QED
  BY <1>1, <1>2, Invariance, PTL DEF Spec

-----------------------------------------------------------------------------
\* What StatusOf makes of a record.
LEMMA StatusOfRecord ==
  ASSUME TypeOK, NEW s \in Stages
  PROVE  StatusOf(s) = CASE records[s] = "none"    -> "not_recorded"
                         [] records[s] = "skipped" -> "skipped"
                         [] records[s] = "passed"  -> "passed"
                         [] OTHER                  -> "failed"
<1>1. records[s] \in StageRecord
  BY DEF TypeOK
<1>2. QED
  BY <1>1 DEF StatusOf, StageStatus, SavedStage, StageRecord

\* A stage that counts as reached was preceded by one that passed.
LEMMA FunnelFromShape ==
  ASSUME IInv, ShapeInv
  PROVE  FunnelNarrows
<1> SUFFICES ASSUME outcome = "returned", NEW s \in Build..FullTest, Reached(s)
             PROVE  StatusOf(s - 1) = "passed"
  BY DEF FunnelNarrows
<1>1. s \in Stages /\ s - 1 \in Stages /\ s - 1 < s /\ stage \in Stages /\ TypeOK
  BY DEF Stages, Configure, Build, FullTest, IInv, TypeOK
<1>2. records[s] \in {"passed", "failed", "timeout"}
  <2>1. StatusOf(s) \in {"passed", "failed"}
    BY DEF Reached
  <2>2. records[s] \in StageRecord
    BY <1>1 DEF TypeOK
  <2>3. QED
    BY <1>1, <2>1, <2>2, StatusOfRecord DEF StageRecord
<1>3. records[s - 1] = "passed"
  BY <1>1, <1>2 DEF ShapeInv, Partial, Stopped, Stages, Configure, FullTest
<1>4. QED
  BY <1>1, <1>3, StatusOfRecord

\* The stage funnel of the study narrows from each stage to the next.
THEOREM FunnelOfTheStudy == Spec => []FunnelNarrows
<1>1. IInv /\ ShapeInv => FunnelNarrows
  BY FunnelFromShape
<1>2. QED
  BY <1>1, RecordsShape, PTL

-----------------------------------------------------------------------------
\* One of the rules is the first that applies: the last applies always.
LEMMA FirstRule ==
  ASSUME NEW e \in Evidence
  PROVE  \E i \in 1..13 : /\ Classify(e) = Rules(e)[i]
                          /\ Rules(e)[i].applies
                          /\ \A j \in 1..(i - 1) : ~Rules(e)[j].applies
<1> DEFINE rules == Rules(e)
           first(i) == rules[i].applies /\ \A j \in 1..(i - 1) : ~rules[j].applies
<1>1. DOMAIN rules = 1..13
  BY DEF Rules
<1>2. rules[13].applies
  BY DEF Rules, Rule
<1>3. \E i \in 1..13 : first(i)
  <2> HIDE DEF rules
  <2>1. CASE \E i \in 1..4 : first(i)
    BY <2>1
  <2>2. CASE \E i \in 5..8 : first(i)
    BY <2>2
  <2>3. CASE \E i \in 9..12 : first(i)
    BY <2>3
  <2>4. CASE \A i \in 1..12 : ~first(i)
    <3>1. ~rules[1].applies
      BY <2>4
    <3>2. \A j \in 1..2 : ~rules[j].applies
      BY <2>4, <3>1
    <3>3. \A j \in 1..3 : ~rules[j].applies
      BY <2>4, <3>2
    <3>4. \A j \in 1..4 : ~rules[j].applies
      BY <2>4, <3>3
    <3>5. \A j \in 1..5 : ~rules[j].applies
      BY <2>4, <3>4
    <3>6. \A j \in 1..6 : ~rules[j].applies
      BY <2>4, <3>5
    <3>7. \A j \in 1..7 : ~rules[j].applies
      BY <2>4, <3>6
    <3>8. \A j \in 1..8 : ~rules[j].applies
      BY <2>4, <3>7
    <3>9. \A j \in 1..9 : ~rules[j].applies
      BY <2>4, <3>8
    <3>10. \A j \in 1..10 : ~rules[j].applies
      BY <2>4, <3>9
    <3>11. \A j \in 1..11 : ~rules[j].applies
      BY <2>4, <3>10
    <3>12. \A j \in 1..12 : ~rules[j].applies
      BY <2>4, <3>11
    <3>13. first(13)
      BY <1>2, <3>12
    <3>14. QED
      BY <3>13
  <2>5. QED
    BY <2>1, <2>2, <2>3, <2>4
<1>4. Classify(e) = rules[CHOOSE i \in 1..13 : first(i)]
  BY <1>1 DEF Classify
<1>5. QED
  <2> HIDE DEF rules
  <2>1. first(CHOOSE i \in 1..13 : first(i)) /\ (CHOOSE i \in 1..13 : first(i)) \in 1..13
    BY <1>3
  <2>2. QED
    BY <1>4, <2>1 DEF rules

\* The rules one by one: when each applies, and what it blames.
LEMMA RuleByRule ==
  ASSUME NEW e \in Evidence
  PROVE  /\ Rules(e)[1].applies <=> overall
         /\ \A s \in Stages :
              /\ Rules(e)[1 + s].applies <=> SavedStage(s).timedOut
              /\ Rules(e)[1 + s].blamed = Name(s)
         /\ Rules(e)[6].applies <=> e.design = "length"
         /\ Rules(e)[7].applies <=> e.code = "length"
         /\ Rules(e)[8].applies <=> e.failure # "none"
         /\ \A s \in Stages :
              /\ Rules(e)[8 + s].applies <=> StatusOf(s) = "failed"
              /\ Rules(e)[8 + s].blamed = Name(s)
         /\ /\ Rules(e)[6].blamed = "design_generation"
            /\ Rules(e)[7].blamed = "code_regeneration"
            /\ Rules(e)[8].blamed = "pipeline"
            /\ Rules(e)[13].blamed = "unknown"
<1> DEFINE overallRule == Rule(overall, "none", "none")
           designRule  == Rule(e.design = "length", "design_generation",
                               "output_truncation")
           codeRule    == Rule(e.code = "length", "code_regeneration",
                               "output_truncation")
           fileRule    == Rule(e.failure # "none", "pipeline",
                               IF e.failure = "truncated" THEN "output_truncation"
                               ELSE "output_format_or_pipeline")
           class(s)    == CASE s = Configure  -> "configure_failure"
                            [] s = Build      -> e.buildError
                            [] s = DirectTest -> IF e.exitCode = 137 THEN "timeout_or_hang"
                                                 ELSE "direct_test_failure"
                            [] s = FullTest   -> "full_test_failure"
           timeRule(s)  == TimedOut(s)
           stageRule(s) == Failed(s, class(s))
           lastRule    == Rule(TRUE, "unknown", "unknown_failure")
<1>1. /\ Rules(e)[1] = overallRule /\ Rules(e)[6] = designRule
      /\ Rules(e)[7] = codeRule /\ Rules(e)[8] = fileRule /\ Rules(e)[13] = lastRule
      /\ \A s \in Stages : /\ Rules(e)[1 + s] = timeRule(s)
                           /\ Rules(e)[8 + s] = stageRule(s)
  <2>1. /\ class(Configure) = "configure_failure" /\ class(Build) = e.buildError
        /\ class(DirectTest) = IF e.exitCode = 137 THEN "timeout_or_hang"
                               ELSE "direct_test_failure"
        /\ class(FullTest) = "full_test_failure"
    BY DEF Configure, Build, DirectTest, FullTest
  <2> HIDE DEF class
  <2>2. Rules(e) = <<overallRule, timeRule(Configure), timeRule(Build),
                     timeRule(DirectTest), timeRule(FullTest), designRule, codeRule,
                     fileRule, stageRule(Configure), stageRule(Build),
                     stageRule(DirectTest), stageRule(FullTest), lastRule>>
    BY <2>1, Zenon DEF Rules
  <2> HIDE DEF overallRule, designRule, codeRule, fileRule, timeRule, stageRule, lastRule
  <2>3. /\ Rules(e)[1] = overallRule /\ Rules(e)[6] = designRule
        /\ Rules(e)[7] = codeRule /\ Rules(e)[8] = fileRule /\ Rules(e)[13] = lastRule
    BY <2>2
  <2>4. /\ Rules(e)[1 + 1] = timeRule(1) /\ Rules(e)[1 + 2] = timeRule(2)
        /\ Rules(e)[1 + 3] = timeRule(3) /\ Rules(e)[1 + 4] = timeRule(4)
    BY <2>2 DEF Configure, Build, DirectTest, FullTest
  <2>5. /\ Rules(e)[8 + 1] = stageRule(1) /\ Rules(e)[8 + 2] = stageRule(2)
        /\ Rules(e)[8 + 3] = stageRule(3) /\ Rules(e)[8 + 4] = stageRule(4)
    BY <2>2 DEF Configure, Build, DirectTest, FullTest
  <2>6. Stages = {1, 2, 3, 4}
    BY DEF Stages, Configure, FullTest
  <2>7. QED
    BY <2>3, <2>4, <2>5, <2>6
<1>2. /\ overallRule.applies <=> overall
      /\ designRule.applies <=> e.design = "length"
      /\ codeRule.applies <=> e.code = "length"
      /\ fileRule.applies <=> e.failure # "none"
  BY Zenon DEF Rule
<1>3. /\ designRule.blamed = "design_generation" /\ codeRule.blamed = "code_regeneration"
      /\ fileRule.blamed = "pipeline" /\ lastRule.blamed = "unknown"
  BY Zenon DEF Rule
<1>4. \A s \in Stages : /\ timeRule(s).applies <=> SavedStage(s).timedOut
                        /\ timeRule(s).blamed = Name(s)
  BY Zenon DEF TimedOut, Rule
<1>5. \A s \in Stages : /\ stageRule(s).applies <=> StatusOf(s) = "failed"
                        /\ stageRule(s).blamed = Name(s)
  BY Zenon DEF Failed, Rule
<1> HIDE DEF overallRule, designRule, codeRule, fileRule, timeRule, stageRule, lastRule
<1>6. \A s \in Stages : /\ Rules(e)[1 + s].applies <=> SavedStage(s).timedOut
                        /\ Rules(e)[1 + s].blamed = Name(s)
  BY <1>1, <1>4, Zenon
<1>7. \A s \in Stages : /\ Rules(e)[8 + s].applies <=> StatusOf(s) = "failed"
                        /\ Rules(e)[8 + s].blamed = Name(s)
  BY <1>1, <1>5, Zenon
<1>8. QED
  BY <1>1, <1>2, <1>3, <1>6, <1>7, Zenon

\* Whom a FAIL is blamed on, rule by rule.
LEMMA BlameByRule ==
  ASSUME TypeOK, ~overall, NEW e \in Evidence
  PROVE  \/ \E s \in Stages : records[s] = "timeout" /\ Classify(e).blamed = Name(s)
         \/ /\ \A s \in Stages : records[s] # "timeout"
            /\ \/ e.design = "length" /\ Classify(e).blamed = "design_generation"
               \/ e.code = "length" /\ Classify(e).blamed = "code_regeneration"
               \/ e.failure # "none" /\ Classify(e).blamed = "pipeline"
         \/ /\ \A s \in Stages : records[s] # "timeout"
            /\ ~Hiding(e)
            /\ \E s \in Stages : records[s] = "failed" /\ Classify(e).blamed = Name(s)
         \/ /\ \A s \in Stages : records[s] \notin {"failed", "timeout"}
            /\ Classify(e).blamed = "unknown"
<1> DEFINE c == Classify(e)
<1>1. PICK i \in 1..13 : /\ c = Rules(e)[i]
                         /\ Rules(e)[i].applies
                         /\ \A j \in 1..(i - 1) : ~Rules(e)[j].applies
  BY FirstRule
<1>2. \A s \in Stages : SavedStage(s).timedOut <=> records[s] = "timeout"
  BY DEF SavedStage
<1>3. \A s \in Stages : StatusOf(s) = "failed" <=> records[s] \in {"failed", "timeout"}
  <2> TAKE s \in Stages
  <2>1. records[s] \in StageRecord
    BY DEF TypeOK
  <2>2. QED
    BY <2>1, StatusOfRecord DEF StageRecord
<1>4. \A s \in Stages : s \in 1..4
  BY DEF Stages, Configure, FullTest
<1>5. ASSUME i > 5
      PROVE  \A s \in Stages : records[s] # "timeout"
  <2> TAKE s \in Stages
  <2>1. ~Rules(e)[1 + s].applies
    BY <1>1, <1>4, <1>5
  <2>2. QED
    BY <1>2, <2>1, RuleByRule
<1>6. ASSUME i > 8
      PROVE  ~Hiding(e)
  <2>1. ~Rules(e)[6].applies /\ ~Rules(e)[7].applies /\ ~Rules(e)[8].applies
    BY <1>1, <1>6
  <2>2. QED
    BY <2>1, RuleByRule DEF Hiding
<1>7. CASE i = 1
  BY <1>1, <1>7, RuleByRule
<1>8. CASE i \in 2..5
  <2>1. PICK s \in Stages : i = 1 + s
    BY <1>8 DEF Stages, Configure, FullTest
  <2>2. Rules(e)[1 + s].applies /\ c = Rules(e)[1 + s]
    BY <1>1, <2>1
  <2>3. records[s] = "timeout" /\ c.blamed = Name(s)
    BY <1>2, <2>2, RuleByRule
  <2>4. QED
    BY <2>3
<1>9. CASE i \in {6, 7, 8}
  BY <1>1, <1>5, <1>9, RuleByRule
<1>10. CASE i \in 9..12
  <2>1. PICK s \in Stages : i = 8 + s
    BY <1>10 DEF Stages, Configure, FullTest
  <2>2. Rules(e)[8 + s].applies /\ c = Rules(e)[8 + s]
    BY <1>1, <2>1
  <2>3. records[s] \in {"failed", "timeout"} /\ c.blamed = Name(s)
    BY <1>3, <2>2, RuleByRule
  <2>4. QED
    BY <1>5, <1>6, <1>10, <2>3
<1>11. CASE i = 13
  <2>1. \A s \in Stages : records[s] \notin {"failed", "timeout"}
    <3> TAKE s \in Stages
    <3>1. ~Rules(e)[8 + s].applies
      BY <1>1, <1>4, <1>11
    <3>2. QED
      BY <1>3, <3>1, RuleByRule
  <2>2. c.blamed = "unknown"
    BY <1>1, <1>11, RuleByRule
  <2>3. QED
    BY <2>1, <2>2
<1>12. QED
  BY <1>7, <1>8, <1>9, <1>10, <1>11

\* The names in the tables.
LEMMA NamesDiffer ==
  /\ \A s, t \in Stages : Name(s) = Name(t) => s = t
  /\ \A s \in Stages : Name(s) \notin {"design_generation", "code_regeneration",
                                       "pipeline", "unknown"}
<1>1. Stages = {1, 2, 3, 4}
  BY DEF Stages, Configure, FullTest
<1>2. /\ Name(1) = "configure" /\ Name(2) = "build"
      /\ Name(3) = "direct_test" /\ Name(4) = "full_test"
  BY DEF Name
<1>3. QED
  BY <1>1, <1>2

\* The class of a FAIL follows from where evaluate() stopped.
LEMMA LocatedFromShape ==
  ASSUME IInv, ShapeInv
  PROVE  FailureLocated
<1> DEFINE ended == {s \in Stages : records[s] \in {"failed", "timeout"}}
<1> SUFFICES ASSUME outcome = "returned", ~overall, NEW e \in Evidence
             PROVE  LET blamed == Classify(e).blamed IN
                    /\ \A s \in Stages :
                         /\ \/ records[s] = "timeout"
                            \/ records[s] = "failed" /\ ~Hiding(e)
                            => blamed = Name(s)
                         /\ blamed = Name(s) =>
                              /\ ~error
                              /\ records[s] \in {"failed", "timeout"}
                              /\ \A t \in Stages :
                                   /\ t < s => records[t] = "passed"
                                   /\ t > s => records[t] = "skipped"
                    /\ blamed = "design_generation" => e.design = "length"
                    /\ blamed = "code_regeneration" => e.code = "length"
                    /\ blamed = "pipeline" => e.failure # "none"
                    /\ blamed = "unknown" => error \/ ~restoration.clean
  BY DEF FailureLocated
<1> DEFINE blamed == Classify(e).blamed
<1>1. TypeOK /\ StopsAtFirstFailure /\ VerdictInv
  BY DEF IInv
<1>2. error => ended = {}
  BY DEF ShapeInv, Partial
\* Only one stage can have ended the loop.
<1>3. \A s, t \in ended : s = t
  <2> TAKE s, t \in ended
  <2>1. s \in Nat /\ t \in Nat /\ ~(s < t) /\ ~(t < s)
    BY <1>1 DEF StopsAtFirstFailure, Stages, Configure, FullTest
  <2>2. QED
    BY <2>1
<1>4. \A s \in ended : (records[s] = "timeout" \/ ~Hiding(e)) => blamed = Name(s)
  <2> SUFFICES ASSUME NEW s \in ended, records[s] = "timeout" \/ ~Hiding(e)
               PROVE  blamed = Name(s)
    OBVIOUS
  <2>1. \A t \in Stages : records[t] \in {"failed", "timeout"} => t = s
    BY <1>3
  <2>2. QED
    BY <1>1, <2>1, BlameByRule DEF Hiding
<1>5. \A s \in Stages : blamed = Name(s) => s \in ended
  BY <1>1, BlameByRule, NamesDiffer
<1>6. /\ blamed = "design_generation" => e.design = "length"
      /\ blamed = "code_regeneration" => e.code = "length"
      /\ blamed = "pipeline" => e.failure # "none"
  BY <1>1, BlameByRule, NamesDiffer
<1>7. ASSUME blamed = "unknown"
      PROVE  error \/ ~restoration.clean
  <2>1. ended = {}
    BY <1>1, <1>7, BlameByRule, NamesDiffer
  <2>2. ~error /\ AllPassed(records) => overall \/ ~restoration.clean
    BY <1>1 DEF VerdictInv
  <2>3. QED
    BY <1>1, <2>1, <2>2 DEF VerdictInv
<1>8. \A s \in Stages :
        /\ \/ records[s] = "timeout"
           \/ records[s] = "failed" /\ ~Hiding(e)
           => blamed = Name(s)
        /\ blamed = Name(s) =>
             /\ ~error
             /\ records[s] \in {"failed", "timeout"}
             /\ \A t \in Stages :
                  /\ t < s => records[t] = "passed"
                  /\ t > s => records[t] = "skipped"
  <2> TAKE s \in Stages
  <2>1. \/ records[s] = "timeout"
        \/ records[s] = "failed" /\ ~Hiding(e)
        => blamed = Name(s)
    BY <1>4
  <2>2. ASSUME blamed = Name(s)
        PROVE  /\ ~error
               /\ records[s] \in {"failed", "timeout"}
               /\ \A t \in Stages :
                    /\ t < s => records[t] = "passed"
                    /\ t > s => records[t] = "skipped"
    BY <1>1, <1>2, <1>5, <2>2 DEF StopsAtFirstFailure
  <2>3. QED
    BY <2>1, <2>2
<1>9. QED
  BY <1>6, <1>7, <1>8

\* A FAIL is blamed on the stage at which evaluate() stopped, an error of the
\* harness on none, and no stage's FAIL is lost: not to the unknown ones, and to
\* the generation or the pipeline only with what they left behind.
THEOREM FailuresAreLocated == Spec => []FailureLocated
<1>1. IInv /\ ShapeInv => FailureLocated
  BY LocatedFromShape
<1>2. QED
  BY <1>1, RecordsShape, PTL
=============================================================================
