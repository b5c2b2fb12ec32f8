--------------------------- MODULE RunTargetProofs ---------------------------
(***************************************************************************)
(* Proofs about RunTarget, for every set of targets and run ids and any    *)
(* number of attempts.                                                     *)
(*                                                                         *)
(* What the runs check speaks of directories, at any time; why it holds is *)
(* what the attempt in progress knows of its own directory.  IInv adds, for *)
(* each point of main(), what the steps before it have left there, and     *)
(* that every other directory is only touched by an attempt of its own.    *)
(***************************************************************************)
EXTENDS RunTarget, TLAPS

Before == {"prepare", "save", "design", "regenerate"}
After  == {"report", "register"}

\* An attempt in progress is counted, and its run id is marked as running; the
\* points only some kinds of attempt come to.
ControlInv ==
  /\ proc.at # "idle" => attempts # 0 /\ last[Mine] = "running"
  /\ proc.at = "wipe" => proc.mode = "force"
  /\ proc.at \in Before => proc.mode # "reprocess"
  /\ proc.at \in {"mark", "unlink"} => proc.mode = "reprocess"

\* What differs from HEAD may be the work of a container left over by an
\* evaluate() of another target.
Excused(content) ==
  \A u \in Targets : content[u] # "head" => \E t \in strays : t # u

\* From ensure_clean() to the call nothing else writes to the repository.
CleanInv ==
  proc.mode # "reprocess" =>
    /\ proc.at \in {"save", "design", "regenerate", "materialize"} => Excused(tree)
    /\ proc.at = "evaluate" => Excused(entry)

\* The directory of an attempt that calls the LLM has nothing of an earlier one.
FreshInv ==
  proc.mode # "reprocess" =>
    /\ proc.at \in Before \cup {"materialize", "evaluate"} =>
         Dir.manifest = NoManifest
    /\ proc.at \in Before \cup {"materialize"} => Dir.generated = 0
    /\ proc.at \notin {"idle", "wipe"} => ~Dir.failure

\* A response that can be used is one of an attempt; evaluate() is called on it.
ResponseInv ==
  /\ \A k \in Runs : exp[k].response.form # "none" => exp[k].response.n # 0
  /\ proc.at = "evaluate" =>
       /\ Dir.generated # 0
       /\ Dir.response.n = Dir.generated

\* The manifest after the call, up to the end of the attempt.
ManifestInv ==
  /\ proc.at \in {"mark"} \cup After \cup {"unlink"} =>
       /\ Dir.manifest.n # 0
       /\ Dir.manifest.by = IF proc.mode = "reprocess" THEN "reprocess"
                            ELSE "generation"
  /\ proc.at \in After \cup {"unlink"} =>
       (Dir.manifest.marked <=> proc.mode = "reprocess")
  /\ proc.at \in {"register", "unlink"} => Dir.report = Dir.manifest
  /\ proc.at = "unlink" =>
       rows[Mine] \in {NoRow, [n |-> Dir.manifest.n, pass |-> Dir.manifest.pass]}

\* Responses are numbered by the attempts: nothing on disk is of a later one, and
\* until an attempt that calls the LLM ends no row is of its own.
CountInv ==
  /\ \A k \in Runs :
       /\ rows[k].n <= attempts
       /\ proc.at # "idle" /\ proc.mode # "reprocess" => rows[k].n < attempts
  /\ proc.at \in {"materialize", "evaluate"} /\ proc.mode # "reprocess" =>
       Dir.response.n = attempts
  /\ \A k \in Runs :
       exp[k].response.n <= attempts /\ exp[k].manifest.n <= attempts

\* A row against the directory of its run id.
Follows(d, row) ==
  /\ \A n \in {d.response.n, d.generated, d.manifest.n} : n # 0 => row.n <= n
  /\ row.n # 0 /\ row.n = d.manifest.n /\ row.pass # d.manifest.pass =>
       d.manifest.by = "reprocess"

RowsInv == \A k \in Runs : Follows(exp[k], rows[k])

IInv ==
  /\ TypeOK
  /\ ControlInv
  /\ CleanInv
  /\ FreshInv
  /\ ResponseInv
  /\ ManifestInv
  /\ CountInv
  /\ RowsInv
  /\ VerdictMatchesResponse
  /\ CompletedAgree

\* The run the attempt is about.
LEMMA MineIsRun ==
  ASSUME TypeOK
  PROVE  Mine \in Runs
BY DEF TypeOK, Mine, Runs

\* A directory that is not there is one with nothing in it.
LEMMA EmptyIsDirectory == Empty \in Directory
BY RunTargetAssumption
   DEF RunTargetAssumption, Empty, Directory, Response, NoResponse, Manifest, NoManifest

\* What a removal that was stopped leaves is a directory; each of its files is
\* there or not.
LEMMA PartsOfDirectory ==
  ASSUME NEW d \in Directory, NEW e \in PartOf(d)
  PROVE  /\ e \in Directory
         /\ e.manifest \in {d.manifest, NoManifest}
         /\ e.report \in {d.report, NoManifest}
         /\ e.response \in {d.response, NoResponse}
         /\ e.generated \in {d.generated, 0}
<1>1. PICK gone \in SUBSET DOMAIN d :
        e = [f \in DOMAIN d |-> IF f \in gone THEN Empty[f] ELSE d[f]]
  BY DEF PartOf
<1>2. DOMAIN d = {"config", "input", "response", "generated", "manifest",
                  "failure", "report"}
  BY DEF Directory
<1>3. QED
  BY <1>1, <1>2, EmptyIsDirectory DEF Directory, Empty

\* The manifest a call that returns leaves is about what is in generated/.
LEMMA ManifestReturned ==
  ASSUME TypeOK, NEW t \in Targets, EvaluateReturns(t)
  PROVE  \E m \in Manifest :
           /\ Leave([Dir EXCEPT !.manifest = m])
           /\ m.n = Dir.generated
           /\ ~m.marked
           /\ m.by = IF proc.mode = "reprocess" THEN "reprocess" ELSE "generation"
           /\ m.pass <=> verdict' = "PASS"
<1> DEFINE m == [n |-> Dir.generated, pass |-> verdict' = "PASS", marked |-> FALSE,
                 by |-> IF proc.mode = "reprocess" THEN "reprocess" ELSE "generation"]
<1>1. Dir \in Directory
  BY MineIsRun DEF TypeOK, Dir
<1>2. m \in Manifest
  BY <1>1 DEF Directory, Manifest
<1>3. Leave([Dir EXCEPT !.manifest = m])
  BY DEF EvaluateReturns
<1>4. QED
  BY <1>2, <1>3

\* Every variable keeps its type.
LEMMA TypeStep ==
  ASSUME TypeOK, [Next]_vars
  PROVE  TypeOK'
<1>1. Mine \in Runs /\ Dir \in Directory
  BY MineIsRun DEF TypeOK, Dir
<1>2. Empty \in Directory
  BY EmptyIsDirectory
<1> USE <1>1, <1>2 DEF TypeOK, Points, evalVars, Leave, Goto, Ended
<1>3. ASSUME NEW t \in Targets, NEW mode \in {"plain", "force", "reprocess"},
             NEW point \in Points, Start(t, mode, point)
      PROVE  TypeOK'
  <2>1. Key(t) \in Runs
    BY DEF Key, Runs
  <2>2. QED
    BY <1>3, <2>1, RunTargetAssumption DEF Start, RunTargetAssumption
<1>4. CASE Starts
  BY <1>3, <1>4 DEF Starts, StartPlain, StartForce, StartReprocess
<1>5. CASE Wipe
  BY <1>5 DEF Wipe
<1>6. CASE WipeFails
  <2>1. PICK d \in PartOf(Dir) : exp' = [exp EXCEPT ![Mine] = d]
    BY <1>6 DEF WipeFails
  <2>2. d \in Directory
    BY PartsOfDirectory
  <2>3. QED
    BY <1>6, <2>1, <2>2 DEF WipeFails
<1>7. CASE Prepare
  BY <1>7 DEF Prepare, Directory
<1>21. CASE SaveConfig
  BY <1>21 DEF SaveConfig, Directory
<1>22. CASE GenerateDesign
  BY <1>22 DEF GenerateDesign
<1>8. ASSUME NEW form \in {"good", "unusable"}, CallModel(form)
      PROVE  TypeOK'
  BY <1>8 DEF CallModel, Directory, Response
<1>9. CASE Materialize
  BY <1>9 DEF Materialize, Directory, Response
<1>10. ASSUME NEW t \in Targets, EvaluateWorks(t)
       PROVE  TypeOK'
  BY <1>10 DEF EvaluateWorks, Eval!Work
<1>11. ASSUME NEW t \in Targets, EvaluateReturns(t)
       PROVE  TypeOK'
  <2>1. PICK m \in Manifest : exp' = [exp EXCEPT ![Mine] = [Dir EXCEPT !.manifest = m]]
    BY <1>11, ManifestReturned DEF Leave
  <2>2. [Dir EXCEPT !.manifest = m] \in Directory
    BY DEF Directory
  <2>3. proc' \in [target : Targets, id : Ids, at : Points,
                   mode : {"plain", "force", "reprocess"}]
    BY <1>11 DEF EvaluateReturns
  <2>4. /\ phase' = "closed" /\ verdict' \in {"PASS", "FAIL"}
        /\ UNCHANGED <<tree, entry, config, rows, attempts, last>>
    BY <1>11 DEF EvaluateReturns, Eval!Return
  <2>5. strays' \subseteq Targets
    BY <1>11 DEF EvaluateReturns
  <2>6. exp' \in [Runs -> Directory]
    BY <2>1, <2>2
  <2>7. QED
    BY <2>3, <2>4, <2>5, <2>6
<1>12. ASSUME NEW t \in Targets, EvaluateRaises(t)
       PROVE  TypeOK'
  BY <1>12 DEF EvaluateRaises, RecordFailure, Eval!GiveUp, Directory
<1>13. CASE Mark
  <2>1. [Dir EXCEPT !.manifest.marked = TRUE] \in Directory
    BY DEF Directory, Manifest
  <2>2. QED
    BY <1>13, <2>1 DEF Mark
<1>23. CASE Report
  BY <1>23 DEF Report, Directory
<1>24. CASE Unlink
  BY <1>24 DEF Unlink, Directory
<1>14. Registered \in [Runs -> Row] /\ RowsAfterStop \subseteq [Runs -> Row]
  <2>1. [n |-> Dir.manifest.n, pass |-> Dir.manifest.pass] \in Row
    BY DEF Row, Directory, Manifest
  <2>2. Registered \in [Runs -> Row]
    BY <2>1 DEF Registered
  <2>3. NoRow \in Row
    BY RunTargetAssumption DEF RunTargetAssumption, NoRow, Row
  <2>4. QED
    BY <2>2, <2>3 DEF RowsAfterStop
<1>15. CASE Register
  BY <1>14, <1>15, ZenonT(40) DEF Register
<1>16. CASE StageFails
  BY <1>14, <1>16 DEF StageFails, RecordFailure, Directory
<1>17. CASE Die
  <2>1. exp' \in [Runs -> Directory]
    <3>1. CASE proc.at = "wipe"
      <4>1. PICK d \in PartOf(Dir) : exp' = [exp EXCEPT ![Mine] = d]
        BY <1>17, <3>1 DEF Die
      <4>2. d \in Directory
        BY PartsOfDirectory
      <4>3. QED
        BY <4>1, <4>2
    <3>2. CASE proc.at # "wipe"
      BY <1>17, <3>2 DEF Die
    <3>3. QED
      BY <3>1, <3>2
  <2>2. rows' \in [Runs -> Row]
    BY <1>14, <1>17 DEF Die
  <2>3. /\ tree' \in [Targets -> {"head", "other"}]
        /\ entry' = entry /\ verdict' = verdict
        /\ phase' \in {"open", "closed"}
        /\ strays' \subseteq Targets
    BY <1>17 DEF Die, Eval!GiveUp
  <2>4. QED
    BY <1>17, <2>1, <2>2, <2>3 DEF Die
<1>18. CASE Outside
  BY <1>18 DEF Outside, OperatorCleans, StrayWrites, Eval!ContainerWrites
<1>19. CASE UNCHANGED vars
  BY <1>19 DEF vars
<1>20. QED
  BY <1>4, <1>5, <1>6, <1>7, <1>8, <1>9, <1>10, <1>11, <1>12, <1>13, <1>15,
     <1>16, <1>17, <1>18, <1>19, <1>21, <1>22, <1>23, <1>24 DEF Next, Progress

\* What a step of an attempt in progress may write: its own directory, its own
\* run id's place in the history, and runs.csv.
OwnOnly ==
  /\ Mine' = Mine
  /\ \A k \in Runs : k # Mine => exp'[k] = exp[k] /\ last'[k] = last[k]
  /\ rows' \in RowsAfterStop \/ (proc.at = "register" /\ rows' = Registered)

\* A step of an attempt in progress writes nothing else.
LEMMA AttemptWritesItsOwn ==
  ASSUME TypeOK, [Next]_vars, proc.at # "idle"
  PROVE  OwnOnly
<1>1. Mine \in Runs /\ rows \in RowsAfterStop
  BY MineIsRun DEF RowsAfterStop
<1> USE <1>1 DEF TypeOK, OwnOnly, Mine, evalVars, Leave, Goto, Ended
<1>2. CASE Wipe \/ Prepare \/ SaveConfig \/ GenerateDesign \/ Materialize
  BY <1>2 DEF Wipe, Prepare, SaveConfig, GenerateDesign, Materialize
<1>3. CASE WipeFails
  BY <1>3 DEF WipeFails
<1>4. ASSUME NEW form \in {"good", "unusable"}, CallModel(form)
      PROVE  OwnOnly
  BY <1>4 DEF CallModel
<1>5. ASSUME NEW t \in Targets, EvaluateWorks(t) \/ EvaluateReturns(t) \/ EvaluateRaises(t)
      PROVE  OwnOnly
  BY <1>5, ZenonT(40) DEF EvaluateWorks, EvaluateReturns, EvaluateRaises, RecordFailure
<1>6. CASE Mark \/ Report \/ Register \/ Unlink
  BY <1>6, ZenonT(40) DEF Mark, Report, Register, Unlink
<1>7. CASE StageFails
  BY <1>7 DEF StageFails, RecordFailure
<1>8. CASE Die
  BY <1>8 DEF Die
<1>9. CASE Starts \/ Outside
  BY <1>9 DEF Starts, StartPlain, StartForce, StartReprocess, Outside, OperatorCleans,
              StrayWrites
<1>10. CASE UNCHANGED vars
  BY <1>10 DEF vars
<1>11. QED
  BY <1>2, <1>3, <1>4, <1>5, <1>6, <1>7, <1>8, <1>9, <1>10 DEF Next, Progress

\* Between attempts nothing on disk changes but the sources, and an attempt that
\* begins only marks its run id.
LEMMA IdleWritesNothing ==
  ASSUME TypeOK, [Next]_vars, proc.at = "idle"
  PROVE  /\ exp' = exp /\ rows' = rows
         /\ \A k \in Runs : last'[k] \in {last[k], "running"}
<1> USE DEF TypeOK, evalVars
<1>1. CASE Starts
  BY <1>1 DEF Starts, StartPlain, StartForce, StartReprocess, Start
<1>2. CASE Outside \/ UNCHANGED vars
  BY <1>2 DEF Outside, OperatorCleans, StrayWrites, vars
<1>3. QED
  BY <1>1, <1>2
     DEF Next, Progress, Wipe, WipeFails, Prepare, SaveConfig, GenerateDesign,
         CallModel, Materialize, EvaluateWorks, EvaluateReturns, EvaluateRaises,
         Mark, Report, Register, Unlink, StageFails, Die

\* No step touches the directory of another run id, and its row may only be lost.
LEMMA OthersKept ==
  ASSUME TypeOK, [Next]_vars, NEW k \in Runs, k # Mine \/ proc.at = "idle"
  PROVE  /\ exp'[k] = exp[k]
         /\ rows'[k] \in {rows[k], NoRow}
         /\ last'[k] \in {last[k], "running"}
<1>1. CASE proc.at = "idle"
  BY <1>1, IdleWritesNothing
<1>2. CASE proc.at # "idle"
  <2>1. Registered[k] = rows[k]
    BY <1>2, MineIsRun DEF Registered, TypeOK
  <2>2. OwnOnly
    BY <1>2, AttemptWritesItsOwn
  <2>3. rows'[k] \in {rows[k], NoRow}
    BY <2>1, <2>2 DEF OwnOnly, RowsAfterStop
  <2>4. QED
    BY <1>2, <2>2, <2>3 DEF OwnOnly
<1>3. QED
  BY <1>1, <1>2

\* The attempt is counted and marked, and from ensure_clean() to the call only
\* containers left over write to the repository.
LEMMA ControlStep ==
  ASSUME TypeOK, ControlInv, CleanInv, [Next]_vars
  PROVE  ControlInv' /\ CleanInv'
<1>1. Mine \in Runs
  BY MineIsRun
<1> USE <1>1 DEF TypeOK, ControlInv, CleanInv, Excused, Clean, Before, Mine, evalVars,
                 Leave, Goto, Ended
<1>2. ASSUME NEW t \in Targets, StartPlain(t) \/ StartForce(t) \/ StartReprocess(t)
      PROVE  ControlInv' /\ CleanInv'
  <2>1. Key(t) \in Runs
    BY DEF Key, Runs
  <2>2. /\ attempts' = attempts + 1 /\ Mine' = Key(t)
        /\ last' = [last EXCEPT ![Key(t)] = "running"]
        /\ \/ proc'.at = "prepare" /\ proc'.mode = "plain"
           \/ proc'.at = "wipe" /\ proc'.mode = "force"
           \/ proc'.at = "materialize" /\ proc'.mode = "reprocess"
    BY <1>2 DEF StartPlain, StartForce, StartReprocess, Start, Key
  <2>3. attempts' # 0
    BY <2>2, RunTargetAssumption DEF RunTargetAssumption
  <2>4. last'[Key(t)] = "running"
    BY <2>1, <2>2
  <2>5. QED
    BY <2>2, <2>3, <2>4
<1>3. CASE Wipe \/ Prepare \/ SaveConfig \/ GenerateDesign \/ Materialize
  BY <1>3 DEF Wipe, Prepare, SaveConfig, GenerateDesign, Materialize
<1>4. CASE WipeFails
  BY <1>4 DEF WipeFails
<1>5. ASSUME NEW form \in {"good", "unusable"}, CallModel(form)
      PROVE  ControlInv' /\ CleanInv'
  BY <1>5 DEF CallModel
<1>6. ASSUME NEW t \in Targets, EvaluateWorks(t)
      PROVE  ControlInv' /\ CleanInv'
  BY <1>6 DEF EvaluateWorks, Eval!Work
<1>7. ASSUME NEW t \in Targets, EvaluateReturns(t)
      PROVE  ControlInv' /\ CleanInv'
  <2>1. /\ proc.at = "evaluate" /\ Mine' = Mine /\ proc'.mode = proc.mode
        /\ proc'.at = IF proc.mode = "reprocess" THEN "mark" ELSE "report"
        /\ UNCHANGED <<attempts, last>>
    BY <1>7 DEF EvaluateReturns
  <2>2. QED
    BY <2>1
<1>8. ASSUME NEW t \in Targets, EvaluateRaises(t)
      PROVE  ControlInv' /\ CleanInv'
  BY <1>8 DEF EvaluateRaises, RecordFailure
<1>9. CASE Mark \/ Report
  BY <1>9, SMTT(30) DEF Mark, Report
<1>10. CASE Register \/ Unlink
  <2>1. \/ proc'.at = "idle" /\ proc'.mode = "plain"
        \/ /\ proc'.at = "unlink" /\ proc'.mode = "reprocess"
           /\ Mine' = Mine /\ proc.at # "idle"
           /\ UNCHANGED <<attempts, last>>
    BY <1>10, ZenonT(40) DEF Register, Unlink
  <2>2. QED
    BY <2>1
<1>11. CASE StageFails
  BY <1>11 DEF StageFails, RecordFailure
<1>12. CASE Die
  BY <1>12 DEF Die
<1>13. CASE Outside
  <2>1. CASE OperatorCleans
    BY <2>1 DEF OperatorCleans
  <2>2. ASSUME NEW t \in Targets, StrayWrites(t)
        PROVE  ControlInv' /\ CleanInv'
    <3>1. /\ t \in strays /\ tree'[t] = tree[t]
          /\ UNCHANGED <<entry, strays, proc, attempts, last>>
      BY <2>2 DEF StrayWrites, Eval!ContainerWrites
    <3>2. Excused(tree) => Excused(tree)'
      BY <3>1
    <3>3. QED
      BY <3>1, <3>2
  <2>3. QED
    BY <1>13, <2>1, <2>2 DEF Outside
<1>14. CASE UNCHANGED vars
  BY <1>14 DEF vars
<1>15. QED
  BY <1>2, <1>3, <1>4, <1>5, <1>6, <1>7, <1>8, <1>9, <1>10, <1>11, <1>12,
     <1>13, <1>14
     DEF Next, Progress, Starts

\* What the attempt knows of its own directory, at each point of main().
OwnDirInv == FreshInv /\ ResponseInv /\ ManifestInv

\* It goes on knowing it.
LEMMA OwnDirStep ==
  ASSUME TypeOK, ControlInv, OwnDirInv, [Next]_vars
  PROVE  OwnDirInv'
<1>1. Mine \in Runs /\ Dir \in Directory
  BY MineIsRun DEF TypeOK, Dir
<1> USE <1>1 DEF Before, After, evalVars, Leave, Goto, Ended
\* An attempt that ends: only what holds of every response is left to show.
<1>2. ASSUME proc'.at = "idle",
             \A k \in Runs : exp'[k].response \in {exp[k].response, NoResponse}
      PROVE  OwnDirInv'
  BY <1>2 DEF OwnDirInv, FreshInv, ResponseInv, ManifestInv, NoResponse
<1>3. ASSUME NEW t \in Targets, StartPlain(t) \/ StartForce(t) \/ StartReprocess(t)
      PROVE  OwnDirInv'
  <2>1. /\ Mine' = Key(t) /\ Dir' = exp[Key(t)] /\ exp' = exp
        /\ proc'.at \in {"prepare", "wipe", "materialize"}
        /\ proc'.at = "prepare" => Dir' = Empty
        /\ proc'.at = "materialize" => proc'.mode = "reprocess"
    BY <1>3 DEF StartPlain, StartForce, StartReprocess, Start, Mine, Key, Dir
  <2>2. FreshInv'
    BY <2>1 DEF FreshInv, Empty
  <2>3. ResponseInv' /\ ManifestInv'
    BY <2>1 DEF OwnDirInv, ResponseInv, ManifestInv
  <2>4. QED
    BY <2>2, <2>3 DEF OwnDirInv
<1>4. CASE Wipe
  <2>1. /\ proc'.at = "prepare" /\ proc'.mode = "force"
        /\ Mine' = Mine /\ Dir' = Empty
        /\ \A k \in Runs : exp'[k] \in {exp[k], Empty}
    BY <1>4 DEF Wipe, TypeOK, ControlInv, Mine, Dir
  <2>2. QED
    BY <2>1 DEF OwnDirInv, FreshInv, ResponseInv, ManifestInv, Empty, NoResponse
<1>5. CASE WipeFails
  <2>1. PICK d \in PartOf(Dir) : exp' = [exp EXCEPT ![Mine] = d]
    BY <1>5 DEF WipeFails
  <2>2. d.response \in {Dir.response, NoResponse}
    BY PartsOfDirectory
  <2>3. QED
    BY <1>2, <1>5, <2>1, <2>2 DEF WipeFails, TypeOK, Dir
<1>6. CASE Prepare
  <2>1. /\ proc.at = "prepare" /\ proc'.at = "save" /\ proc'.mode = proc.mode
        /\ Mine' = Mine
        /\ Dir'.manifest = Dir.manifest /\ Dir'.generated = Dir.generated
        /\ Dir'.failure = Dir.failure
        /\ \A k \in Runs : exp'[k].response = exp[k].response
    BY <1>6 DEF Prepare, TypeOK, Mine, Dir, Directory
  <2>2. QED
    BY <2>1 DEF OwnDirInv, FreshInv, ResponseInv, ManifestInv
<1>19. CASE SaveConfig
  <2>1. /\ proc.at = "save" /\ proc'.at = "design" /\ proc'.mode = proc.mode
        /\ Mine' = Mine
        /\ Dir'.manifest = Dir.manifest /\ Dir'.generated = Dir.generated
        /\ Dir'.failure = Dir.failure
        /\ \A k \in Runs : exp'[k].response = exp[k].response
    BY <1>19 DEF SaveConfig, TypeOK, Mine, Dir, Directory
  <2>2. QED
    BY <2>1 DEF OwnDirInv, FreshInv, ResponseInv, ManifestInv
<1>7. CASE GenerateDesign
  <2>1. /\ proc.at = "design" /\ proc'.at = "regenerate" /\ proc'.mode = proc.mode
        /\ Mine' = Mine /\ Dir' = Dir /\ exp' = exp
    BY <1>7 DEF GenerateDesign, TypeOK, Mine, Dir
  <2>2. QED
    BY <2>1 DEF OwnDirInv, FreshInv, ResponseInv, ManifestInv
<1>8. ASSUME NEW form \in {"good", "unusable"}, CallModel(form)
      PROVE  OwnDirInv'
  <2>1. /\ proc.at = "regenerate" /\ proc'.at = "materialize" /\ proc'.mode = proc.mode
        /\ Mine' = Mine
        /\ Dir'.manifest = Dir.manifest /\ Dir'.generated = Dir.generated
        /\ Dir'.failure = Dir.failure
        /\ Dir'.response.n = attempts
        /\ \A k \in Runs : k # Mine => exp'[k] = exp[k]
    BY <1>8 DEF CallModel, TypeOK, Mine, Dir, Directory
  <2>2. attempts # 0
    BY <2>1 DEF ControlInv
  <2>3. \A k \in Runs : exp'[k].response.form # "none" => exp'[k].response.n # 0
    BY <2>1, <2>2 DEF OwnDirInv, ResponseInv, Dir
  <2>4. QED
    BY <2>1, <2>3 DEF OwnDirInv, FreshInv, ResponseInv, ManifestInv
<1>9. CASE Materialize
  <2>1. /\ proc.at = "materialize" /\ proc'.at = "evaluate" /\ proc'.mode = proc.mode
        /\ Mine' = Mine
        /\ Dir'.manifest = Dir.manifest /\ Dir'.generated = Dir.response.n
        /\ Dir'.failure = Dir.failure
        /\ Dir'.response = Dir.response
        /\ \A k \in Runs : exp'[k].response = exp[k].response
    BY <1>9 DEF Materialize, TypeOK, Mine, Dir, Directory
  <2>2. Dir.response.n # 0
    BY <1>9 DEF Materialize, OwnDirInv, ResponseInv, Dir
  <2>3. QED
    BY <2>1, <2>2 DEF OwnDirInv, FreshInv, ResponseInv, ManifestInv
<1>10. ASSUME NEW t \in Targets, EvaluateWorks(t)
       PROVE  OwnDirInv'
  <2>1. UNCHANGED <<proc, exp, rows>> /\ Mine' = Mine /\ Dir' = Dir
    BY <1>10 DEF EvaluateWorks, Mine, Dir
  <2>2. QED
    BY <2>1 DEF OwnDirInv, FreshInv, ResponseInv, ManifestInv
<1>11. ASSUME NEW t \in Targets, EvaluateReturns(t)
       PROVE  OwnDirInv'
  <2>1. PICK m \in Manifest :
          /\ exp' = [exp EXCEPT ![Mine] = [Dir EXCEPT !.manifest = m]]
          /\ m.n = Dir.generated
          /\ ~m.marked
          /\ m.by = IF proc.mode = "reprocess" THEN "reprocess" ELSE "generation"
    BY <1>11, ManifestReturned
  <2>2. /\ proc.at = "evaluate" /\ proc'.mode = proc.mode /\ Mine' = Mine
        /\ proc'.at = IF proc.mode = "reprocess" THEN "mark" ELSE "report"
    BY <1>11 DEF EvaluateReturns, TypeOK, Mine
  <2>3. /\ Dir'.manifest = m /\ Dir'.failure = Dir.failure
        /\ \A k \in Runs : exp'[k].response = exp[k].response
    BY <2>1, <2>2 DEF TypeOK, Dir, Directory
  <2>4. QED
    BY <2>1, <2>2, <2>3 DEF OwnDirInv, FreshInv, ResponseInv, ManifestInv
<1>12. CASE Mark
  <2>1. /\ proc.at = "mark" /\ proc'.at = "report" /\ proc'.mode = proc.mode
        /\ Mine' = Mine
        /\ Dir'.manifest = [Dir.manifest EXCEPT !.marked = TRUE]
        /\ \A k \in Runs : exp'[k].response = exp[k].response
    BY <1>12 DEF Mark, TypeOK, Mine, Dir, Directory
  <2>2. /\ Dir'.manifest.n = Dir.manifest.n /\ Dir'.manifest.by = Dir.manifest.by
        /\ Dir'.manifest.marked
    BY <2>1 DEF Directory, Manifest
  <2>3. QED
    BY <2>1, <2>2 DEF ControlInv, OwnDirInv, FreshInv, ResponseInv, ManifestInv
<1>13. CASE Report
  <2>1. /\ proc.at = "report" /\ proc'.at = "register" /\ proc'.mode = proc.mode
        /\ Mine' = Mine
        /\ Dir'.manifest = Dir.manifest /\ Dir'.report = Dir.manifest
        /\ Dir'.failure = Dir.failure
        /\ \A k \in Runs : exp'[k].response = exp[k].response
    BY <1>13 DEF Report, TypeOK, Mine, Dir, Directory
  <2>2. QED
    BY <2>1 DEF OwnDirInv, FreshInv, ResponseInv, ManifestInv
<1>14. CASE Register
  <2>1. CASE proc.mode = "reprocess"
    <3>1. /\ proc.at = "register" /\ proc'.at = "unlink" /\ proc'.mode = proc.mode
          /\ Mine' = Mine /\ exp' = exp /\ Dir' = Dir
          /\ rows'[Mine] = [n |-> Dir.manifest.n, pass |-> Dir.manifest.pass]
      BY <1>14, <2>1 DEF Register, Registered, TypeOK, Mine, Dir
    <3>2. QED
      BY <2>1, <3>1 DEF OwnDirInv, FreshInv, ResponseInv, ManifestInv
  <2>2. CASE proc.mode # "reprocess"
    BY <1>2, <1>14, <2>2 DEF Register, TypeOK
  <2>3. QED
    BY <2>1, <2>2
<1>15. CASE Unlink
  <2>1. proc'.at = "idle"
    BY <1>15 DEF Unlink, TypeOK
  <2>2. \A k \in Runs : exp'[k].response = exp[k].response
    BY <1>15 DEF Unlink, TypeOK, Dir, Directory
  <2>3. QED
    BY <1>2, <2>1, <2>2
<1>20. ASSUME RecordFailure
       PROVE  OwnDirInv'
  <2>1. proc'.at = "idle"
    BY <1>20 DEF RecordFailure, TypeOK
  <2>2. \A k \in Runs : exp'[k].response = exp[k].response
    BY <1>20 DEF RecordFailure, TypeOK, Dir, Directory
  <2>3. QED
    BY <1>2, <2>1, <2>2
<1>16. CASE Die
  <2>1. proc'.at = "idle"
    BY <1>16 DEF Die, TypeOK
  <2>2. exp' = exp \/ \E d \in PartOf(Dir) : exp' = [exp EXCEPT ![Mine] = d]
    BY <1>16 DEF Die
  <2>3. \A k \in Runs : exp'[k].response \in {exp[k].response, NoResponse}
    BY <2>2, PartsOfDirectory DEF TypeOK, Dir
  <2>4. QED
    BY <1>2, <2>1, <2>3
<1>17. CASE Outside \/ UNCHANGED vars
  <2>1. UNCHANGED <<proc, exp, rows>> /\ Mine' = Mine /\ Dir' = Dir
    BY <1>17 DEF Outside, OperatorCleans, StrayWrites, vars, Mine, Dir
  <2>2. QED
    BY <2>1 DEF OwnDirInv, FreshInv, ResponseInv, ManifestInv
<1>18. QED
  BY <1>3, <1>4, <1>5, <1>6, <1>7, <1>8, <1>9, <1>10, <1>11, <1>12, <1>13,
     <1>14, <1>15, <1>16, <1>17, <1>19, <1>20
     DEF Next, Progress, Starts, StageFails, EvaluateRaises

\* What the verdict in a directory is about, whenever it is looked at.
VerdictsOK(d) ==
  /\ d.manifest.n # 0 /\ d.response.n # 0 => d.manifest.n = d.response.n
  /\ d.manifest.n # 0 /\ d.generated # 0  => d.manifest.n = d.generated

\* Nothing in e is other than in d but what is missing.
Kept(e, d) ==
  /\ e.response.n \in {d.response.n, 0}
  /\ e.generated \in {d.generated, 0}
  /\ \/ e.manifest.n = 0
     \/ /\ e.manifest.n = d.manifest.n
        /\ e.manifest.pass = d.manifest.pass /\ e.manifest.by = d.manifest.by

\* The response, the files made of it and the manifest are each written at one
\* point; everything else an attempt does leaves them, or takes them away.
Written(e) ==
  \/ Kept(e, Dir)
  \/ /\ proc.at = "regenerate"
     /\ e.response.n = attempts
     /\ e.generated = Dir.generated /\ e.manifest = Dir.manifest
  \/ /\ proc.at = "materialize"
     /\ Dir.response.form = "good"
     /\ e.generated = Dir.response.n
     /\ e.response = Dir.response /\ e.manifest = Dir.manifest
  \/ /\ proc.at = "evaluate"
     /\ e.manifest.n = Dir.generated
     /\ e.manifest.by = IF proc.mode = "reprocess" THEN "reprocess" ELSE "generation"
     /\ e.response = Dir.response /\ e.generated = Dir.generated

\* What a step of the attempt in progress may do to its own directory.
LEMMA OwnDirectory ==
  ASSUME TypeOK, [Next]_vars, proc.at # "idle"
  PROVE  Written(exp'[Mine])
<1>1. Mine \in Runs /\ Dir \in Directory /\ Dir = exp[Mine]
  BY MineIsRun DEF TypeOK, Dir
<1> USE <1>1 DEF Leave, Goto, Ended
<1>2. ASSUME exp'[Mine].manifest = Dir.manifest, exp'[Mine].response = Dir.response,
             exp'[Mine].generated = Dir.generated
      PROVE  Written(exp'[Mine])
  BY <1>2 DEF Written, Kept
<1>3. ASSUME exp' = exp
      PROVE  Written(exp'[Mine])
  BY <1>2, <1>3
<1>4. ASSUME NEW d \in PartOf(Dir), exp' = [exp EXCEPT ![Mine] = d]
      PROVE  Written(exp'[Mine])
  BY <1>4, PartsOfDirectory DEF TypeOK, Written, Kept, NoManifest, NoResponse
<1>5. CASE Wipe
  BY <1>5 DEF Wipe, TypeOK, Written, Kept, Empty, NoManifest, NoResponse
<1>6. CASE WipeFails
  BY <1>4, <1>6 DEF WipeFails
<1>7. CASE Prepare
  BY <1>2, <1>7 DEF Prepare, TypeOK, Directory
<1>8. CASE SaveConfig
  BY <1>2, <1>8 DEF SaveConfig, TypeOK, Directory
<1>9. CASE GenerateDesign
  BY <1>3, <1>9 DEF GenerateDesign
<1>10. ASSUME NEW form \in {"good", "unusable"}, CallModel(form)
       PROVE  Written(exp'[Mine])
  BY <1>10 DEF CallModel, TypeOK, Directory, Written
<1>11. CASE Materialize
  BY <1>11 DEF Materialize, TypeOK, Directory, Written
<1>12. ASSUME NEW t \in Targets, EvaluateWorks(t)
       PROVE  Written(exp'[Mine])
  BY <1>3, <1>12 DEF EvaluateWorks
<1>13. ASSUME NEW t \in Targets, EvaluateReturns(t)
       PROVE  Written(exp'[Mine])
  <2>1. PICK m \in Manifest :
          /\ exp' = [exp EXCEPT ![Mine] = [Dir EXCEPT !.manifest = m]]
          /\ m.n = Dir.generated
          /\ m.by = IF proc.mode = "reprocess" THEN "reprocess" ELSE "generation"
    BY <1>13, ManifestReturned
  <2>2. /\ exp'[Mine].manifest = m
        /\ exp'[Mine].response = Dir.response /\ exp'[Mine].generated = Dir.generated
    BY <2>1 DEF TypeOK, Directory
  <2>3. proc.at = "evaluate"
    BY <1>13 DEF EvaluateReturns
  <2>4. QED
    BY <2>1, <2>2, <2>3 DEF Written
<1>14. CASE Mark
  <2>1. /\ exp'[Mine].manifest = [Dir.manifest EXCEPT !.marked = TRUE]
        /\ exp'[Mine].response = Dir.response /\ exp'[Mine].generated = Dir.generated
    BY <1>14 DEF Mark, TypeOK, Directory
  <2>2. Dir.manifest \in Manifest
    BY DEF Directory
  <2>3. QED
    BY <2>1, <2>2 DEF Written, Kept, Manifest
<1>15. CASE Report
  BY <1>2, <1>15 DEF Report, TypeOK, Directory
<1>16. CASE Register
  BY <1>3, <1>16 DEF Register
<1>17. CASE Unlink
  BY <1>2, <1>17 DEF Unlink, TypeOK, Directory
<1>18. ASSUME RecordFailure
       PROVE  Written(exp'[Mine])
  BY <1>2, <1>18 DEF RecordFailure, TypeOK, Directory
<1>19. CASE Die
  BY <1>3, <1>4, <1>19 DEF Die
<1>20. CASE Outside \/ UNCHANGED vars
  BY <1>3, <1>20 DEF Outside, OperatorCleans, StrayWrites, vars
<1>21. QED
  BY <1>5, <1>6, <1>7, <1>8, <1>9, <1>10, <1>11, <1>12, <1>13, <1>14, <1>15,
     <1>16, <1>17, <1>18, <1>19, <1>20
     DEF Next, Progress, Starts, StartPlain, StartForce, StartReprocess,
         StageFails, EvaluateRaises

\* No step of the attempt in progress writes a verdict that is not one of the
\* saved response.
LEMMA OwnVerdictsStep ==
  ASSUME TypeOK, ControlInv, OwnDirInv, VerdictsOK(Dir), [Next]_vars,
         proc.at # "idle"
  PROVE  VerdictsOK(exp'[Mine])
<1>1. Written(exp'[Mine])
  BY OwnDirectory
<1>2. CASE Kept(exp'[Mine], Dir)
  BY <1>2 DEF Kept, VerdictsOK
<1>3. CASE proc.at = "regenerate"
  <2>1. Dir.manifest = NoManifest
    BY <1>3 DEF ControlInv, Before, OwnDirInv, FreshInv
  <2>2. exp'[Mine].manifest.n \in {0, Dir.manifest.n}
    BY <1>1, <1>3 DEF Written, Kept
  <2>3. QED
    BY <2>1, <2>2 DEF VerdictsOK, NoManifest
<1>4. CASE proc.at = "materialize"
  BY <1>1, <1>4 DEF Written, Kept, VerdictsOK
<1>5. CASE proc.at = "evaluate"
  BY <1>1, <1>5 DEF Written, Kept, VerdictsOK, OwnDirInv, ResponseInv
<1>6. QED
  BY <1>1, <1>2, <1>3, <1>4, <1>5 DEF Written

\* What a completed attempt leaves of its run id.
Agreed(d, row) ==
  /\ d.manifest.n # 0
  /\ d.report = d.manifest
  /\ d.manifest.marked <=> d.manifest.by = "reprocess"
  /\ ~d.failure
  /\ row \in {NoRow, [n |-> d.manifest.n, pass |-> d.manifest.pass]}

\* Only runs.csv, or the removal of an earlier failure, ends an attempt well.
LEMMA CompletesAtTheEnd ==
  ASSUME TypeOK, ControlInv, [Next]_vars, proc.at # "idle",
         last'[Mine] = "completed"
  PROVE  Register \/ Unlink
<1>1. Mine \in Runs /\ last[Mine] = "running"
  BY MineIsRun DEF ControlInv
<1> USE <1>1 DEF evalVars, Leave, Goto, Ended
<1>2. ASSUME last' = last \/ \E how \in {"failed", "died"} : last' = [last EXCEPT ![Mine] = how]
      PROVE  FALSE
  BY <1>2 DEF TypeOK
<1>3. CASE \/ Wipe \/ WipeFails \/ Prepare \/ SaveConfig \/ GenerateDesign
           \/ Materialize \/ Mark \/ Report
  BY <1>2, <1>3
     DEF Wipe, WipeFails, Prepare, SaveConfig, GenerateDesign, Materialize, Mark, Report
<1>4. ASSUME NEW form \in {"good", "unusable"}, CallModel(form)
      PROVE  FALSE
  BY <1>2, <1>4 DEF CallModel
<1>5. ASSUME NEW t \in Targets, EvaluateWorks(t) \/ EvaluateReturns(t)
      PROVE  FALSE
  BY <1>2, <1>5 DEF EvaluateWorks, EvaluateReturns
<1>6. CASE RecordFailure
  BY <1>2, <1>6 DEF RecordFailure
<1>7. CASE Die
  BY <1>2, <1>7 DEF Die
<1>8. CASE Outside \/ UNCHANGED vars
  BY <1>2, <1>8 DEF Outside, OperatorCleans, StrayWrites, vars
<1>9. QED
  BY <1>3, <1>4, <1>5, <1>6, <1>7, <1>8
     DEF Next, Progress, Starts, StartPlain, StartForce, StartReprocess,
         StageFails, EvaluateRaises

\* An attempt that comes to its end leaves manifest, report and row agreed.
LEMMA CompletionAgrees ==
  ASSUME TypeOK, ControlInv, OwnDirInv, [Next]_vars, proc.at # "idle",
         last'[Mine] = "completed"
  PROVE  Agreed(exp'[Mine], rows'[Mine])
<1>1. Mine \in Runs /\ Dir \in Directory /\ Dir = exp[Mine] /\ last[Mine] = "running"
  BY MineIsRun DEF TypeOK, Dir, ControlInv
<1> USE <1>1 DEF Leave, Goto, Ended
<1>2. CASE Register
  <2>1. proc.at = "register" /\ proc.mode # "reprocess" /\ exp' = exp
    BY <1>2 DEF Register, TypeOK
  <2>2. rows'[Mine] = [n |-> Dir.manifest.n, pass |-> Dir.manifest.pass]
    BY <1>2 DEF Register, Registered, TypeOK
  <2>3. QED
    BY <2>1, <2>2 DEF Agreed, OwnDirInv, FreshInv, ManifestInv, After
<1>3. CASE Unlink
  <2>1. proc.at = "unlink" /\ proc.mode = "reprocess" /\ rows' = rows
    BY <1>3 DEF Unlink, ControlInv
  <2>2. exp'[Mine].manifest = Dir.manifest /\ exp'[Mine].report = Dir.report
    BY <1>3 DEF Unlink, TypeOK, Directory
  <2>3. ~exp'[Mine].failure
    BY <1>3 DEF Unlink, TypeOK, Directory
  <2>4. QED
    BY <2>1, <2>2, <2>3 DEF Agreed, OwnDirInv, ManifestInv, After
<1>4. QED
  BY <1>2, <1>3, CompletesAtTheEnd

\* What the runs check of directories and rows, run id by run id.
LEMMA RunByRun ==
  ASSUME TRUE
  PROVE  /\ VerdictMatchesResponse <=> \A k \in Runs : VerdictsOK(exp[k])
         /\ CompletedAgree
           <=> \A k \in Runs : last[k] = "completed" => Agreed(exp[k], rows[k])
BY DEF VerdictMatchesResponse, VerdictsOK, CompletedAgree, Agreed

\* The verdicts of every run id stay right, and completed runs stay agreed.
LEMMA RecordsStep ==
  ASSUME IInv, [Next]_vars
  PROVE  VerdictMatchesResponse' /\ CompletedAgree'
<1>1. \A k \in Runs : VerdictsOK(exp[k])
  BY RunByRun DEF IInv
<1>2. \A k \in Runs : last[k] = "completed" => Agreed(exp[k], rows[k])
  BY RunByRun DEF IInv
<1>3. TypeOK /\ ControlInv /\ OwnDirInv
  BY DEF IInv, OwnDirInv
<1>4. Mine \in Runs
  BY <1>3, MineIsRun
<1>5. ASSUME NEW k \in Runs
      PROVE  VerdictsOK(exp'[k])
  <2>1. CASE k # Mine \/ proc.at = "idle"
    BY <1>1, <1>3, <2>1, OthersKept
  <2>2. CASE k = Mine /\ proc.at # "idle"
    BY <1>1, <1>3, <2>2, OwnVerdictsStep DEF Dir
  <2>3. QED
    BY <2>1, <2>2
<1>6. ASSUME NEW k \in Runs, last'[k] = "completed"
      PROVE  Agreed(exp'[k], rows'[k])
  <2>1. CASE k # Mine \/ proc.at = "idle"
    <3>1. exp'[k] = exp[k] /\ rows'[k] \in {rows[k], NoRow} /\ last[k] = "completed"
      BY <1>3, <1>6, <2>1, OthersKept
    <3>2. QED
      BY <1>2, <3>1 DEF Agreed
  <2>2. CASE k = Mine /\ proc.at # "idle"
    BY <1>3, <1>6, <2>2, CompletionAgrees
  <2>3. QED
    BY <2>1, <2>2
<1>7. VerdictMatchesResponse'
  BY <1>5 DEF VerdictMatchesResponse, VerdictsOK
<1>8. CompletedAgree'
  BY <1>6 DEF CompletedAgree, Agreed
<1>9. QED
  BY <1>7, <1>8

\* What goes missing from a directory gives a row nothing to contradict.
LEMMA HeldKept ==
  ASSUME NEW d, NEW e, NEW row, Kept(e, d), Follows(d, row)
  PROVE  Follows(e, row)
BY DEF Kept, Follows

\* The row of the attempt in progress is kept, lost, or written anew.
LEMMA OwnRow ==
  ASSUME TypeOK, [Next]_vars, proc.at # "idle"
  PROVE  \/ rows'[Mine] \in {rows[Mine], NoRow}
         \/ /\ proc.at = "register"
            /\ rows'[Mine] = [n |-> Dir.manifest.n, pass |-> Dir.manifest.pass]
<1>1. Mine \in Runs
  BY MineIsRun
<1>2. Registered[Mine] = [n |-> Dir.manifest.n, pass |-> Dir.manifest.pass]
  BY <1>1 DEF Registered, TypeOK
<1>3. OwnOnly
  BY AttemptWritesItsOwn
<1>4. QED
  BY <1>1, <1>2, <1>3 DEF OwnOnly, RowsAfterStop

\* A step that goes on with an attempt that calls the LLM leaves runs.csv alone,
\* and comes to the call only with the response of that attempt.
LEMMA OwnControl ==
  ASSUME TypeOK, [Next]_vars, proc.at # "idle"
  PROVE  /\ attempts' = attempts
         /\ proc'.at # "idle" =>
              /\ proc'.mode = proc.mode
              /\ proc.mode # "reprocess" => rows' = rows
              /\ proc'.at \in {"materialize", "evaluate"} =>
                   \/ proc.at \in {"materialize", "evaluate"}
                      /\ exp'[Mine].response = Dir.response
                   \/ exp'[Mine].response.n = attempts
<1>1. Mine \in Runs /\ Dir \in Directory /\ Dir = exp[Mine]
  BY MineIsRun DEF TypeOK, Dir
<1> DEFINE Goal == /\ attempts' = attempts
                   /\ proc'.at # "idle" =>
                        /\ proc'.mode = proc.mode
                        /\ proc.mode # "reprocess" => rows' = rows
                        /\ proc'.at \in {"materialize", "evaluate"} =>
                             \/ proc.at \in {"materialize", "evaluate"}
                                /\ exp'[Mine].response = Dir.response
                             \/ exp'[Mine].response.n = attempts
<1> USE <1>1 DEF TypeOK, Leave, Goto, Ended
<1>2. CASE Wipe \/ Prepare \/ SaveConfig \/ GenerateDesign \/ Mark \/ Report
  BY <1>2 DEF Wipe, Prepare, SaveConfig, GenerateDesign, Mark, Report
<1>3. ASSUME NEW form \in {"good", "unusable"}, CallModel(form)
      PROVE  Goal
  BY <1>3 DEF CallModel, Directory
<1>4. CASE Materialize
  BY <1>4 DEF Materialize, Directory
<1>5. ASSUME NEW t \in Targets, EvaluateWorks(t)
      PROVE  Goal
  BY <1>5 DEF EvaluateWorks
<1>6. ASSUME NEW t \in Targets, EvaluateReturns(t)
      PROVE  Goal
  <2>1. proc' = [proc EXCEPT !.at = IF proc.mode = "reprocess" THEN "mark" ELSE "report"]
    BY <1>6 DEF EvaluateReturns
  <2>2. attempts' = attempts /\ rows' = rows
    BY <1>6 DEF EvaluateReturns
  <2>3. QED
    BY <2>1, <2>2
<1>7. CASE Register
  <2>1. attempts' = attempts
    BY <1>7 DEF Register
  <2>2. CASE proc.mode = "reprocess"
    BY <1>7, <2>1, <2>2 DEF Register
  <2>3. CASE proc.mode # "reprocess"
    BY <1>7, <2>1, <2>3 DEF Register
  <2>4. QED
    BY <2>2, <2>3
<1>8. CASE WipeFails \/ Unlink \/ StageFails
  BY <1>8 DEF WipeFails, Unlink, StageFails, RecordFailure
<1>9. ASSUME NEW t \in Targets, EvaluateRaises(t)
      PROVE  Goal
  BY <1>9 DEF EvaluateRaises, RecordFailure
<1>10. CASE Die
  BY <1>10 DEF Die
<1>11. CASE Outside \/ UNCHANGED vars
  BY <1>11 DEF Outside, OperatorCleans, StrayWrites, vars
<1>12. QED
  BY <1>2, <1>3, <1>4, <1>5, <1>6, <1>7, <1>8, <1>9, <1>10, <1>11
     DEF Next, Progress, Starts, StartPlain, StartForce, StartReprocess

\* An attempt that begins is the latest one.
LEMMA StartCounts ==
  ASSUME TypeOK, [Next]_vars, proc.at = "idle"
  PROVE  \/ attempts' = attempts /\ proc' = proc
         \/ /\ attempts' = attempts + 1
            /\ proc'.at \in {"materialize", "evaluate"} => proc'.mode = "reprocess"
<1>1. CASE Starts
  BY <1>1 DEF Starts, StartPlain, StartForce, StartReprocess, Start
<1>2. CASE Outside \/ UNCHANGED vars
  BY <1>2 DEF Outside, OperatorCleans, StrayWrites, vars
<1>3. QED
  BY <1>1, <1>2
     DEF Next, Progress, Wipe, WipeFails, Prepare, SaveConfig, GenerateDesign,
         CallModel, Materialize, EvaluateWorks, EvaluateReturns, EvaluateRaises,
         Mark, Report, Register, Unlink, StageFails, Die

\* The numbers on disk.
LEMMA NumbersAreNaturals ==
  ASSUME TypeOK, NEW k \in Runs
  PROVE  /\ attempts \in Nat /\ rows[k].n \in Nat /\ NoRow.n = 0
         /\ exp[k].manifest.n \in Nat /\ exp[k].response.n \in Nat
         /\ exp[k].generated \in Nat
BY RunTargetAssumption
   DEF RunTargetAssumption, TypeOK, Row, Directory, Manifest, Response, NoRow

\* Nothing on disk is of an attempt still to come.
LEMMA CountStep ==
  ASSUME IInv, [Next]_vars
  PROVE  CountInv'
<1>1. TypeOK /\ TypeOK' /\ ControlInv /\ OwnDirInv /\ CountInv /\ Mine \in Runs
  BY MineIsRun, TypeStep DEF IInv, OwnDirInv
<1>2. CASE proc.at = "idle"
  <2>1. exp' = exp /\ rows' = rows
    BY <1>1, <1>2, IdleWritesNothing
  <2>2. CASE attempts' = attempts /\ proc' = proc
    BY <1>1, <1>2, <2>1, <2>2 DEF CountInv
  <2>3. CASE /\ attempts' = attempts + 1
             /\ proc'.at \in {"materialize", "evaluate"} => proc'.mode = "reprocess"
    <3>1. \A k \in Runs : /\ rows[k].n < attempts + 1 /\ rows[k].n <= attempts + 1
                         /\ exp[k].response.n <= attempts + 1
                         /\ exp[k].manifest.n <= attempts + 1
      <4> TAKE k \in Runs
      <4>1. /\ rows[k].n <= attempts
            /\ exp[k].response.n <= attempts /\ exp[k].manifest.n <= attempts
        BY <1>1 DEF CountInv
      <4>2. QED
        BY <1>1, <4>1, NumbersAreNaturals
    <3>2. QED
      BY <2>1, <2>3, <3>1 DEF CountInv
  <2>4. QED
    BY <1>1, <1>2, <2>2, <2>3, StartCounts
<1>3. CASE proc.at # "idle"
  <2>1. /\ attempts' = attempts /\ Mine' = Mine
        /\ Written(exp'[Mine])
    BY <1>1, <1>3, OwnControl, OwnDirectory, AttemptWritesItsOwn DEF OwnOnly
  <2>2. /\ 0 <= attempts /\ attempts <= attempts
        /\ Dir.response.n <= attempts /\ Dir.manifest.n <= attempts
        /\ proc.at = "evaluate" => Dir.generated <= attempts
    BY <1>1, NumbersAreNaturals DEF CountInv, Dir, OwnDirInv, ResponseInv
  <2>3. exp'[Mine].response.n <= attempts /\ exp'[Mine].manifest.n <= attempts
    BY <2>1, <2>2 DEF Written, Kept
  <2>4. \A k \in Runs : k # Mine => exp'[k] = exp[k] /\ rows'[k] \in {rows[k], NoRow}
    BY <1>1, OthersKept
  <2>5. \A k \in Runs : exp'[k].response.n <= attempts /\ exp'[k].manifest.n <= attempts
    BY <1>1, <2>3, <2>4 DEF CountInv
  <2>6. \A k \in Runs : rows'[k].n <= attempts
    <3>1. rows'[Mine].n \in {rows[Mine].n, 0, Dir.manifest.n}
      BY <1>1, <1>3, OwnRow DEF NoRow
    <3>2. rows'[Mine].n <= attempts
      BY <1>1, <2>2, <3>1 DEF CountInv
    <3>3. \A k \in Runs : k # Mine => rows'[k].n <= attempts
      BY <1>1, <2>2, <2>4 DEF CountInv, NoRow
    <3>4. QED
      BY <3>2, <3>3
  <2>7. proc'.at # "idle" /\ proc'.mode # "reprocess" => \A k \in Runs : rows'[k].n < attempts
    BY <1>1, <1>3, OwnControl DEF CountInv
  <2>8. proc'.at \in {"materialize", "evaluate"} /\ proc'.mode # "reprocess" =>
          exp'[Mine].response.n = attempts
    BY <1>1, <1>3, OwnControl DEF CountInv
  <2>9. Dir' = exp'[Mine]
    BY <2>1 DEF Dir
  <2>10. QED
    BY <2>1, <2>5, <2>6, <2>7, <2>8, <2>9 DEF CountInv
<1>4. QED
  BY <1>2, <1>3

\* A row goes on following the directory of its run id.
LEMMA FollowsStep ==
  ASSUME IInv, [Next]_vars
  PROVE  RowsInv'
<1>1. /\ TypeOK /\ ControlInv /\ OwnDirInv /\ CountInv /\ Mine \in Runs
      /\ Dir = exp[Mine] /\ Dir \in Directory
  BY MineIsRun DEF IInv, OwnDirInv, TypeOK, Dir
<1>2. \A k \in Runs : Follows(exp[k], rows[k])
  BY DEF IInv, RowsInv
\* A row that is lost contradicts nothing.
<1>3. ASSUME NEW d \in Directory
      PROVE  Follows(d, NoRow)
  BY <1>3, RunTargetAssumption
     DEF RunTargetAssumption, Follows, NoRow, Directory, Manifest, Response
<1>4. ASSUME NEW k \in Runs, k # Mine \/ proc.at = "idle"
      PROVE  Follows(exp'[k], rows'[k])
  <2>1. exp'[k] = exp[k] /\ rows'[k] \in {rows[k], NoRow} /\ exp[k] \in Directory
    BY <1>1, <1>4, OthersKept DEF TypeOK
  <2>2. QED
    BY <1>2, <1>3, <2>1
<1>5. ASSUME proc.at # "idle"
      PROVE  Follows(exp'[Mine], rows'[Mine])
  <2> DEFINE e == exp'[Mine]
  <2>1. Written(e) /\ e \in Directory
    BY <1>1, <1>5, OwnDirectory, TypeStep DEF TypeOK
  <2>2. CASE rows'[Mine] = NoRow
    BY <1>3, <2>1, <2>2
  <2>3. CASE rows'[Mine] = rows[Mine]
    <3>1. Follows(Dir, rows[Mine]) /\ rows[Mine].n <= attempts
      BY <1>1, <1>2 DEF CountInv
    <3>2. CASE Kept(e, Dir)
      BY <2>3, <3>1, <3>2, HeldKept
    <3>3. CASE /\ proc.at = "regenerate" /\ e.response.n = attempts
               /\ e.generated = Dir.generated /\ e.manifest = Dir.manifest
      BY <2>3, <3>1, <3>3 DEF Follows
    <3>4. CASE /\ proc.at = "materialize" /\ Dir.response.form = "good"
               /\ e.generated = Dir.response.n
               /\ e.response = Dir.response /\ e.manifest = Dir.manifest
      BY <2>3, <3>1, <3>4 DEF Follows
    <3>5. CASE /\ proc.at = "evaluate" /\ e.manifest.n = Dir.generated
               /\ e.manifest.by = IF proc.mode = "reprocess" THEN "reprocess"
                                  ELSE "generation"
               /\ e.response = Dir.response /\ e.generated = Dir.generated
      <4>1. \A n \in {e.response.n, e.generated, e.manifest.n} : n # 0 => rows[Mine].n <= n
        BY <3>1, <3>5 DEF Follows
      <4>2. CASE proc.mode = "reprocess"
        BY <2>3, <3>5, <4>1, <4>2 DEF Follows
      <4>3. CASE proc.mode # "reprocess"
        <5>1. e.manifest.n = attempts
          BY <1>1, <3>5, <4>3 DEF CountInv, OwnDirInv, ResponseInv
        <5>2. rows[Mine].n < attempts
          BY <1>1, <1>5, <4>3 DEF CountInv
        <5>3. rows[Mine].n # e.manifest.n
          BY <1>1, <5>1, <5>2, NumbersAreNaturals
        <5>4. QED
          BY <2>3, <4>1, <5>3 DEF Follows
      <4>4. QED
        BY <4>2, <4>3
    <3>6. QED
      BY <2>1, <3>2, <3>3, <3>4, <3>5 DEF Written
  <2>4. CASE /\ proc.at = "register"
             /\ rows'[Mine] = [n |-> Dir.manifest.n, pass |-> Dir.manifest.pass]
    <3>1. Kept(e, Dir)
      BY <2>1, <2>4 DEF Written
    <3>2. Dir.manifest.n # 0 /\ VerdictsOK(Dir)
      BY <1>1, <2>4, RunByRun DEF IInv, OwnDirInv, ManifestInv, After
    <3>3. \A n \in {Dir.response.n, Dir.generated, Dir.manifest.n} :
            n # 0 => Dir.manifest.n = n
      BY <3>2 DEF VerdictsOK
    <3>4. Dir.manifest.n <= Dir.manifest.n
      BY <1>1, NumbersAreNaturals
    <3>5. Follows(Dir, rows'[Mine])
      BY <2>4, <3>3, <3>4 DEF Follows
    <3>6. QED
      BY <3>1, <3>5, HeldKept
  <2>5. QED
    BY <1>1, <1>5, <2>2, <2>3, <2>4, OwnRow
<1>6. QED
  BY <1>4, <1>5 DEF RowsInv

\* It holds before the first attempt.
LEMMA InitInv == Init => IInv
<1> SUFFICES ASSUME Init PROVE IInv
  OBVIOUS
<1>1. TypeOK
  BY RunTargetAssumption, EmptyIsDirectory
     DEF Init, TypeOK, RunTargetAssumption, Points, NoRow, Row
<1>2. \A k \in Runs : exp[k] = Empty /\ last[k] = "none"
  BY DEF Init
<1>3. proc.at = "idle" /\ proc.mode = "plain"
  BY DEF Init
<1>4. ControlInv /\ CleanInv /\ FreshInv /\ ResponseInv /\ ManifestInv
  BY <1>2, <1>3
     DEF ControlInv, CleanInv, FreshInv, ResponseInv, ManifestInv, Before, After,
         Empty, NoResponse
<1>5. VerdictMatchesResponse /\ CompletedAgree
  BY <1>2 DEF VerdictMatchesResponse, CompletedAgree, Empty, NoManifest
<1>6. CountInv /\ RowsInv
  <2>1. attempts = 0 /\ \A k \in Runs : rows[k] = NoRow
    BY DEF Init
  <2>2. QED
    BY <1>2, <1>3, <2>1
       DEF CountInv, RowsInv, Follows, Empty, NoManifest, NoResponse, NoRow
<1>7. QED
  BY <1>1, <1>4, <1>5, <1>6 DEF IInv

\* No step of an attempt, however it ends, disturbs it.
LEMMA NextInv == IInv /\ [Next]_vars => IInv'
<1> SUFFICES ASSUME IInv, [Next]_vars PROVE IInv'
  OBVIOUS
<1>1. TypeOK' /\ ControlInv' /\ CleanInv'
  BY TypeStep, ControlStep DEF IInv
<1>2. OwnDirInv'
  BY OwnDirStep DEF IInv, OwnDirInv
<1>3. VerdictMatchesResponse' /\ CompletedAgree'
  BY RecordsStep
<1>4. CountInv' /\ RowsInv'
  BY CountStep, FollowsStep
<1>5. QED
  BY <1>1, <1>2, <1>3, <1>4 DEF IInv, OwnDirInv

\* The inductive invariant holds in every reachable state.
THEOREM Invariance == Spec => []IInv
BY InitInv, NextInv, PTL DEF Spec

\* Every variable of main()'s attempts keeps its type.
THEOREM TypeCorrect == Spec => []TypeOK
BY Invariance, PTL DEF IInv

\* From ensure_clean() to the evaluate() call of an attempt that calls the LLM, a
\* file only comes to differ from HEAD by a container left over by an evaluate()
\* of another target: nothing an attempt that died has left gets that far.
THEOREM SpoiltByStraysAlone == Spec => []SpoiltOnlyByStrays
<1>1. IInv => SpoiltOnlyByStrays
  BY DEF IInv, CleanInv, Excused, SpoiltOnlyByStrays
<1>2. QED
  BY <1>1, Invariance, PTL

\* No row of runs.csv is of a later response than its directory holds, and only a
\* reprocess that has not come to its end leaves one that contradicts the
\* manifest about the same response.
THEOREM RowsFollowRuns == Spec => []RowsFollow
<1>1. IInv => RowsFollow
  <2> SUFFICES ASSUME IInv, NEW k \in Runs
               PROVE  LET d == exp[k]  r == rows[k] IN
                      /\ d.response.n # 0 => r.n <= d.response.n
                      /\ d.manifest.n # 0 => r.n <= d.manifest.n
                      /\ r.n # 0 /\ r.n = d.manifest.n /\ r.pass # d.manifest.pass =>
                           d.manifest.by = "reprocess" /\ last[k] # "completed"
    BY DEF RowsFollow
  <2>1. Follows(exp[k], rows[k])
    BY DEF IInv, RowsInv
  <2>2. last[k] = "completed" =>
          rows[k] \in {NoRow, [n |-> exp[k].manifest.n, pass |-> exp[k].manifest.pass]}
    BY DEF IInv, CompletedAgree
  <2>3. QED
    BY <2>1, <2>2 DEF Follows, NoRow
<1>2. QED
  BY <1>1, Invariance, PTL

\* A manifest never speaks of another code than the saved response holds.
THEOREM ManifestOfResponse == Spec => []VerdictMatchesResponse
BY Invariance, PTL DEF IInv

\* After an attempt that ran to its end, manifest, report and runs.csv agree.
THEOREM CompletedRunsAgree == Spec => []CompletedAgree
BY Invariance, PTL DEF IInv

\* A plain attempt touches no verdict: only --force and --reprocess-existing on
\* the same run id change one.
THEOREM VerdictsKept == Spec => PlainKeepsVerdicts
<1>1. ASSUME IInv, [Next]_vars, NEW k \in Runs, exp[k].manifest.n # 0,
             exp'[k].manifest # exp[k].manifest
      PROVE  Mine = k /\ proc.mode \in {"force", "reprocess"}
  <2>1. TypeOK /\ ControlInv /\ FreshInv
    BY <1>1 DEF IInv
  <2>2. Mine = k /\ proc.at # "idle"
    BY <1>1, <2>1, OthersKept
  <2>3. SUFFICES ASSUME proc.mode = "plain" PROVE FALSE
    BY <2>1, <2>2 DEF TypeOK
  <2>4. proc.at \notin {"idle", "wipe", "mark", "unlink"}
    BY <2>1, <2>2, <2>3 DEF ControlInv
  <2>5. Dir = exp[k] /\ Dir \in Directory /\ k \in Runs
    BY <2>1, <2>2 DEF Dir, TypeOK
  <2>6. proc.at # "evaluate"
    BY <1>1, <2>1, <2>3, <2>5 DEF FreshInv, NoManifest
  <2> USE <2>2, <2>5 DEF TypeOK, evalVars, Leave, Goto, Ended, Directory
  <2>7. CASE Prepare
    BY <1>1, <2>1, <2>7 DEF Prepare
  <2>8. CASE SaveConfig
    BY <1>1, <2>1, <2>8 DEF SaveConfig
  <2>9. CASE GenerateDesign \/ Register \/ Outside \/ UNCHANGED vars
    BY <1>1, <2>9
       DEF GenerateDesign, Register, Outside, OperatorCleans, StrayWrites, vars
  <2>10. ASSUME NEW form \in {"good", "unusable"}, CallModel(form)
         PROVE  FALSE
    BY <1>1, <2>1, <2>10 DEF CallModel
  <2>11. CASE Materialize
    BY <1>1, <2>1, <2>11 DEF Materialize
  <2>12. CASE Report
    BY <1>1, <2>1, <2>12 DEF Report
  <2>13. CASE RecordFailure
    BY <1>1, <2>1, <2>13 DEF RecordFailure
  <2>14. CASE Die
    BY <1>1, <2>4, <2>14 DEF Die
  <2>15. QED
    BY <1>1, <2>4, <2>6, <2>7, <2>8, <2>9, <2>10, <2>11, <2>12, <2>13, <2>14
       DEF Next, Progress, Starts, StartPlain, StartForce, StartReprocess, Wipe,
           WipeFails, EvaluateWorks, EvaluateReturns, EvaluateRaises, Mark, Unlink,
           StageFails
<1>2. IInv /\ [Next]_vars =>
        [\A k \in Runs : exp[k].manifest.n # 0 /\ exp'[k].manifest # exp[k].manifest =>
                           Mine = k /\ proc.mode \in {"force", "reprocess"}]_vars
  BY <1>1
<1>3. QED
  BY <1>2, Invariance, PTL DEF Spec, PlainKeepsVerdicts
=============================================================================
