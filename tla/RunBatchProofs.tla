--------------------------- MODULE RunBatchProofs ---------------------------
(***************************************************************************)
(* Proofs about RunBatch, for every set of targets, any number of batches  *)
(* and any attempts of the operator between them.                          *)
(*                                                                         *)
(* A status speaks of the verdict on disk, which may be older than the     *)
(* batch or of an attempt that did not end well.  BatchInv adds which      *)
(* attempt each number on disk is of: those of the targets the batch has   *)
(* left are from before it, and that of a child that ended well is its own. *)
(***************************************************************************)
EXTENDS RunBatch, RunTargetProofs, WellFoundedInduction

\* No number on disk is that of an attempt still to come, and the response of
\* an attempt that called the LLM is its own.
Numbered(d, n) == d.response.n <= n /\ d.generated <= n /\ d.manifest.n <= n

NumbersInv ==
  /\ \A k \in Runs : Numbered(exp[k], attempts)
  /\ proc.at \in {"materialize", "evaluate"} \cup After /\ proc.mode # "reprocess" =>
       Dir.response.n = attempts

\* The child is the attempt on the current target; while the batch waits for
\* none, no attempt runs.
ChildInv ==
  /\ batch.at \in {"next", "write"} => proc.at = "idle"
  /\ batch.at = "child" =>
       /\ batch.todo # {}
       /\ Mine = Key(Current) /\ proc.mode # "reprocess"
       /\ batch.since < attempts
       /\ proc.at = "idle" /\ last[Mine] = "completed" =>
            Dir.manifest.n = attempts

\* The targets the batch has left have no status yet, and no verdict of an
\* attempt made since it began.
LeftInv ==
  batch.at # "idle" =>
    /\ batch.since <= attempts
    /\ \A t \in batch.todo :
         /\ results[t] = "none"
         /\ batch.at # "child" \/ t # Current =>
              exp[Key(t)].manifest.n <= batch.since

BatchInv ==
  /\ IInv
  /\ BatchTypeOK
  /\ NumbersInv
  /\ ChildInv
  /\ LeftInv
  /\ ResultMatchesAttempt

-----------------------------------------------------------------------------
\* A set of numbers has a least one.
LEMMA MinInSet ==
  ASSUME NEW S \in SUBSET Nat, S # {}
  PROVE  Min(S) \in S
<1>1. PICK i \in S : \A j \in S : <<j, i>> \notin OpToRel(<, Nat)
  BY NatLessThanWellFounded, WFMin
<1>2. ASSUME NEW j \in S
      PROVE  i <= j
  <2>1. i \in Nat /\ j \in Nat
    OBVIOUS
  <2>2. ~(j < i)
    BY <1>1, <2>1 DEF OpToRel
  <2>3. QED
    BY <2>1, <2>2
<1>3. QED
  BY <1>2 DEF Min

\* The target the batch is at is one of those it has left.
LEMMA CurrentIsLeft ==
  ASSUME BatchTypeOK, batch.todo # {}
  PROVE  Current \in batch.todo /\ Current \in Targets
<1> DEFINE S == {i \in DOMAIN Order : Order[i] \in batch.todo}
<1>1. batch.todo \subseteq Targets
  BY DEF BatchTypeOK
<1>2. Order \in Seq(Targets) /\ Targets = {Order[i] : i \in DOMAIN Order}
  BY OrderAssumption DEF OrderAssumption, ToSet
<1>3. S \in SUBSET Nat
  BY <1>2
<1>4. PICK t : t \in batch.todo
  OBVIOUS
<1>5. PICK i \in DOMAIN Order : Order[i] = t
  BY <1>1, <1>2, <1>4
<1>6. S # {}
  BY <1>4, <1>5
<1>7. Min(S) \in S
  BY <1>3, <1>6, MinInSet
<1>8. QED
  BY <1>1, <1>7 DEF Current

\* Different targets have different run ids.
LEMMA KeysDiffer ==
  ASSUME TypeOK, NEW t \in Targets, NEW u \in Targets
  PROVE  Key(t) \in Runs /\ (Key(t) = Key(u) => t = u)
BY DEF TypeOK, Key, Runs

\* What a batch does to the targets is what attempts do: nothing, or a step of
\* run_target.py.
LEMMA BatchStepIsAttemptStep ==
  ASSUME BatchTypeOK, [BatchNext]_allVars
  PROVE  [Next]_vars
<1>1. CASE Launch
  <2>1. Current \in Targets
    BY <1>1, CurrentIsLeft DEF Launch, More
  <2>2. StartPlain(Current) \/ StartForce(Current)
    BY <1>1 DEF Launch, Child
  <2>3. QED
    BY <2>1, <2>2 DEF Next, Starts
<1>2. CASE \E execute \in BOOLEAN, force \in BOOLEAN, filter \in SUBSET Targets :
             StartBatch(execute, force, filter)
  BY <1>2 DEF StartBatch
<1>3. CASE Skip \/ Refused \/ Collect \/ AllDone \/ WriteReport \/ BatchDies
  BY <1>3 DEF Skip, Refused, Collect, AllDone, WriteReport, BatchDies
<1>4. CASE Attempt \/ Operator \/ Stray
  BY <1>4 DEF Attempt, Operator, Stray, Next, Outside
<1>5. CASE UNCHANGED allVars
  BY <1>5 DEF allVars
<1>6. QED
  BY <1>1, <1>2, <1>3, <1>4, <1>5 DEF BatchNext, BatchSteps

\* The batch keeps its type.
LEMMA BatchTypeStep ==
  ASSUME BatchTypeOK, [BatchNext]_allVars
  PROVE  BatchTypeOK'
<1>1. TypeOK'
  BY BatchStepIsAttemptStep, TypeStep DEF BatchTypeOK
<1>2. attempts \in 0..MaxAttempts /\ 0 \in 0..MaxAttempts
  BY RunTargetAssumption DEF RunTargetAssumption, BatchTypeOK, TypeOK
<1> USE <1>1, <1>2 DEF BatchTypeOK
<1>3. ASSUME NEW execute \in BOOLEAN, NEW force \in BOOLEAN, NEW filter \in SUBSET Targets,
             StartBatch(execute, force, filter)
      PROVE  BatchTypeOK'
  BY <1>3 DEF StartBatch, Statuses
<1>4. ASSUME NEW status \in Statuses, Record(status)
      PROVE  batch' \in [at : {"idle", "next", "child", "write"}, execute : BOOLEAN,
                         force : BOOLEAN, todo : SUBSET Targets, since : 0..MaxAttempts]
             /\ results' \in [Targets -> Statuses]
  BY <1>4 DEF Record
<1>5. CASE Skip \/ Refused \/ Collect
  <2>1. PICK status \in Statuses : Record(status)
    BY <1>5 DEF Skip, Refused, Collect, Statuses
  <2>2. QED
    BY <1>4, <2>1
<1>6. CASE Launch \/ AllDone \/ Attempt \/ Operator \/ Stray
  BY <1>6 DEF Launch, AllDone, Attempt, Operator, Stray, batchVars
<1>7. CASE WriteReport \/ BatchDies
  <2>1. results' \in {results, [t \in Targets |-> "none"]} /\ batch' = NoBatch
    BY <1>7 DEF WriteReport, BatchDies
  <2>2. NoBatch \in [at : {"idle", "next", "child", "write"}, execute : BOOLEAN,
                     force : BOOLEAN, todo : SUBSET Targets, since : 0..MaxAttempts]
    BY DEF NoBatch
  <2>3. results' \in [Targets -> Statuses]
    BY <2>1 DEF Statuses
  <2>4. QED
    BY <2>1, <2>2, <2>3
<1>8. CASE UNCHANGED allVars
  BY <1>8 DEF allVars, batchVars
<1>9. QED
  BY <1>3, <1>5, <1>6, <1>7, <1>8 DEF BatchNext, BatchSteps

\* The configuration of a target stays, and so does its run id.
LEMMA KeysKept ==
  ASSUME [Next]_vars, NEW t \in Targets
  PROVE  Key(t)' = Key(t) /\ config' = config
<1>1. config' = config
  BY DEF Next, Progress, Starts, StartPlain, StartForce, StartReprocess, Start, Wipe,
         WipeFails, Prepare, SaveConfig, GenerateDesign, CallModel, Materialize,
         EvaluateWorks, EvaluateReturns, EvaluateRaises, Mark, Report, Register, Unlink,
         StageFails, Die, Outside, OperatorCleans, StrayWrites, vars
<1>2. QED
  BY <1>1 DEF Key

\* While an attempt runs, no other is counted, and its kind stays until it ends.
LEMMA KindKept ==
  ASSUME TypeOK, [Next]_vars, proc.at # "idle"
  PROVE  /\ attempts' = attempts
         /\ proc'.mode # "reprocess" \/ proc.mode = "reprocess"
<1> USE DEF TypeOK, evalVars, Leave, Goto, Ended
<1>1. CASE \/ Wipe \/ WipeFails \/ Prepare \/ SaveConfig \/ GenerateDesign \/ Materialize
           \/ Mark \/ Report \/ Register \/ Unlink
  BY <1>1 DEF Wipe, WipeFails, Prepare, SaveConfig, GenerateDesign, Materialize,
              Mark, Report, Register, Unlink
<1>2. ASSUME NEW form \in {"good", "unusable"}, CallModel(form)
      PROVE  attempts' = attempts /\ proc'.mode = proc.mode
  BY <1>2 DEF CallModel
<1>3. ASSUME NEW t \in Targets, EvaluateWorks(t) \/ EvaluateReturns(t) \/ EvaluateRaises(t)
      PROVE  attempts' = attempts /\ proc'.mode \in {proc.mode, "plain"}
  BY <1>3 DEF EvaluateWorks, EvaluateReturns, EvaluateRaises, RecordFailure
<1>4. CASE StageFails \/ Die
  BY <1>4 DEF StageFails, Die, RecordFailure
<1>5. CASE Starts \/ Outside \/ UNCHANGED vars
  BY <1>5 DEF Starts, StartPlain, StartForce, StartReprocess, Outside, OperatorCleans,
         StrayWrites, vars
<1>6. QED
  BY <1>1, <1>2, <1>3, <1>4, <1>5 DEF Next, Progress

\* An attempt that begins, and the removal of files, put no number too high.
LEMMA NumbersGrow ==
  ASSUME NEW d \in Directory, NEW n \in Nat, Numbered(d, n)
  PROVE  /\ Numbered(d, n + 1)
         /\ Numbered(Empty, n)
         /\ \A e \in PartOf(d) : Numbered(e, n)
<1>1. d.response.n \in Nat /\ d.generated \in Nat /\ d.manifest.n \in Nat
  BY RunTargetAssumption DEF RunTargetAssumption, Directory, Response, Manifest
<1>2. Numbered(d, n + 1)
  BY <1>1 DEF Numbered
<1>3. Numbered(Empty, n)
  BY DEF Numbered, Empty, NoResponse, NoManifest
<1>4. ASSUME NEW e \in PartOf(d)
      PROVE  Numbered(e, n)
  BY PartsOfDirectory DEF Numbered, NoResponse, NoManifest
<1>5. QED
  BY <1>2, <1>3, <1>4

\* The attempt in progress writes no number but its own and those it finds.
LEMMA OwnNumbersStep ==
  ASSUME TypeOK, ControlInv, NumbersInv, [Next]_vars, proc.at # "idle"
  PROVE  /\ Numbered(exp'[Mine], attempts)
         /\ proc'.at \in {"materialize", "evaluate"} \cup After /\ proc'.mode # "reprocess" =>
              exp'[Mine].response.n = attempts
<1> DEFINE Called == proc'.at \in {"materialize", "evaluate"} \cup After /\ proc'.mode # "reprocess"
           Goal   == /\ Numbered(exp'[Mine], attempts)
                     /\ Called => exp'[Mine].response.n = attempts
<1>1. Mine \in Runs /\ Dir \in Directory /\ Dir = exp[Mine] /\ attempts \in Nat
  BY MineIsRun, RunTargetAssumption DEF RunTargetAssumption, TypeOK, Dir
<1>2. Numbered(Dir, attempts)
  BY <1>1 DEF NumbersInv
<1> USE <1>1 DEF evalVars, Leave, Goto, Ended, After
<1>3. ASSUME exp'[Mine].response = Dir.response, exp'[Mine].generated = Dir.generated,
             exp'[Mine].manifest.n = Dir.manifest.n,
             ~Called \/ (proc'.mode = proc.mode
                           /\ proc.at \in {"materialize", "evaluate"} \cup After)
      PROVE  Goal
  BY <1>2, <1>3 DEF Numbered, NumbersInv
<1>4. ASSUME NEW d \in PartOf(Dir) \cup {Empty}, exp'[Mine] = d, ~Called
      PROVE  Goal
  BY <1>2, <1>4, NumbersGrow
<1>5. CASE Wipe
  BY <1>4, <1>5 DEF Wipe, TypeOK
<1>18. CASE WipeFails
  <2>1. PICK d \in PartOf(Dir) : exp' = [exp EXCEPT ![Mine] = d]
    BY <1>18 DEF WipeFails
  <2>2. exp'[Mine] = d /\ ~Called
    BY <1>18, <2>1 DEF WipeFails, TypeOK
  <2>3. QED
    BY <1>4, <2>2
<1>6. CASE Prepare
  BY <1>3, <1>6 DEF Prepare, TypeOK, Directory
<1>19. CASE SaveConfig
  BY <1>3, <1>19 DEF SaveConfig, TypeOK, Directory
<1>20. CASE GenerateDesign
  BY <1>3, <1>20 DEF GenerateDesign, TypeOK
<1>7. ASSUME NEW form \in {"good", "unusable"}, CallModel(form)
      PROVE  Goal
  <2>1. /\ exp'[Mine].response.n = attempts
        /\ exp'[Mine].generated = Dir.generated /\ exp'[Mine].manifest = Dir.manifest
    BY <1>7 DEF CallModel, TypeOK, Directory
  <2>2. QED
    BY <1>2, <2>1 DEF Numbered
<1>8. CASE Materialize
  <2>1. /\ proc.at = "materialize" /\ proc'.mode = proc.mode
        /\ exp'[Mine].response = Dir.response
        /\ exp'[Mine].generated = Dir.response.n /\ exp'[Mine].manifest = Dir.manifest
    BY <1>8 DEF Materialize, TypeOK, Directory
  <2>2. QED
    BY <1>2, <2>1 DEF Numbered, NumbersInv
<1>9. ASSUME NEW t \in Targets, EvaluateWorks(t)
      PROVE  Goal
  BY <1>3, <1>9 DEF EvaluateWorks
<1>10. ASSUME NEW t \in Targets, EvaluateReturns(t)
       PROVE  Goal
  <2>1. PICK m \in Manifest :
          exp' = [exp EXCEPT ![Mine] = [Dir EXCEPT !.manifest = m]] /\ m.n = Dir.generated
    BY <1>10, ManifestReturned
  <2>2. proc.at = "evaluate" /\ proc'.mode = proc.mode
    BY <1>10 DEF EvaluateReturns, TypeOK
  <2>3. /\ exp'[Mine].response = Dir.response /\ exp'[Mine].generated = Dir.generated
        /\ exp'[Mine].manifest = m
    BY <2>1 DEF TypeOK, Directory
  <2>4. QED
    BY <1>2, <2>1, <2>2, <2>3 DEF Numbered, NumbersInv
<1>11. ASSUME NEW t \in Targets, EvaluateRaises(t)
       PROVE  Goal
  BY <1>3, <1>11 DEF EvaluateRaises, RecordFailure, TypeOK, Directory
<1>12. CASE Mark
  <2>1. /\ exp'[Mine].manifest = [Dir.manifest EXCEPT !.marked = TRUE]
        /\ exp'[Mine].response = Dir.response /\ exp'[Mine].generated = Dir.generated
    BY <1>12 DEF Mark, TypeOK, Directory
  <2>2. exp'[Mine].manifest.n = Dir.manifest.n
    BY <2>1 DEF Directory, Manifest
  <2>3. ~Called
    BY <1>12 DEF Mark, TypeOK, ControlInv
  <2>4. QED
    BY <1>2, <2>1, <2>2, <2>3 DEF Numbered
<1>13. CASE Report
  BY <1>3, <1>13 DEF Report, TypeOK, Directory
<1>21. CASE Register
  BY <1>3, <1>21 DEF Register, TypeOK
<1>22. CASE Unlink
  BY <1>3, <1>22 DEF Unlink, TypeOK, Directory
<1>14. CASE StageFails
  BY <1>3, <1>14 DEF StageFails, RecordFailure, TypeOK, Directory
<1>15. CASE Die
  <2>1. ~Called
    BY <1>15 DEF Die, TypeOK
  <2>2. exp' = exp \/ \E d \in PartOf(Dir) : exp' = [exp EXCEPT ![Mine] = d]
    BY <1>15 DEF Die
  <2>3. exp' = exp \/ \E d \in PartOf(Dir) : exp'[Mine] = d
    BY <2>2 DEF TypeOK
  <2>4. CASE exp' = exp
    BY <1>3, <2>1, <2>4
  <2>5. ASSUME NEW d \in PartOf(Dir), exp'[Mine] = d
        PROVE  Goal
    BY <1>4, <2>1, <2>5
  <2>6. QED
    BY <2>3, <2>4, <2>5
<1>16. CASE Outside \/ UNCHANGED vars
  BY <1>3, <1>16 DEF Outside, OperatorCleans, StrayWrites, vars, Mine
<1>17. QED
  BY <1>5, <1>6, <1>7, <1>8, <1>9, <1>10, <1>11, <1>12, <1>13, <1>14, <1>15, <1>16,
     <1>18, <1>19, <1>20, <1>21, <1>22
     DEF Next, Progress, Starts, StartPlain, StartForce, StartReprocess

\* The numbers stay right.
LEMMA NumbersStep ==
  ASSUME TypeOK, ControlInv, NumbersInv, [Next]_vars
  PROVE  NumbersInv'
<1>1. CASE proc.at = "idle"
  <2>1. exp' = exp
    BY <1>1, IdleWritesNothing
  <2>2. attempts \in Nat /\ attempts' \in {attempts, attempts + 1}
    BY <1>1, RunTargetAssumption
       DEF RunTargetAssumption, TypeOK, Next, Progress, Starts, StartPlain, StartForce,
           StartReprocess, Start, Wipe, WipeFails, Prepare, SaveConfig, GenerateDesign,
           CallModel, Materialize, EvaluateWorks, EvaluateReturns, EvaluateRaises, Mark,
           Report, Register, Unlink, StageFails, Die, Outside, OperatorCleans, StrayWrites, vars
  <2>3. ASSUME NEW k \in Runs
        PROVE  Numbered(exp'[k], attempts')
    BY <2>1, <2>2, NumbersGrow DEF NumbersInv, TypeOK
  <2>4. proc'.at \notin {"materialize", "evaluate"} \cup After \/ proc'.mode = "reprocess"
    BY <1>1
       DEF After, Next, Progress, Starts, StartPlain, StartForce,
           StartReprocess, Start, Wipe, WipeFails, Prepare, SaveConfig, GenerateDesign,
           CallModel, Materialize, EvaluateWorks, EvaluateReturns, EvaluateRaises, Mark,
           Report, Register, Unlink, StageFails, Die, Outside, OperatorCleans, StrayWrites, vars
  <2>5. QED
    BY <2>3, <2>4 DEF NumbersInv
<1>2. CASE proc.at # "idle"
  <2>1. Mine' = Mine /\ Dir' = exp'[Mine]
    BY <1>2, AttemptWritesItsOwn DEF OwnOnly, Dir
  <2>2. attempts' = attempts
    BY <1>2, KindKept
  <2>3. ASSUME NEW k \in Runs
        PROVE  Numbered(exp'[k], attempts')
    <3>1. CASE k = Mine
      BY <1>2, <2>2, <3>1, OwnNumbersStep
    <3>2. CASE k # Mine
      BY <2>2, <3>2, OthersKept DEF NumbersInv
    <3>3. QED
      BY <3>1, <3>2
  <2>4. QED
    BY <1>2, <2>1, <2>2, <2>3, OwnNumbersStep DEF NumbersInv
<1>3. QED
  BY <1>1, <1>2

\* An attempt of the batch that came to its end left a verdict of its own.
LEMMA OwnVerdictAtTheEnd ==
  ASSUME IInv, NumbersInv, [Next]_vars, proc.at # "idle", proc.mode # "reprocess",
         last'[Mine] = "completed"
  PROVE  exp'[Mine].manifest.n = attempts
<1>1. TypeOK /\ ControlInv /\ OwnDirInv /\ VerdictMatchesResponse
  BY DEF IInv, OwnDirInv
<1>2. Register \/ Unlink
  BY <1>1, CompletesAtTheEnd
<1>3. proc.at = "register" /\ exp' = exp
  BY <1>1, <1>2 DEF Register, Unlink, ControlInv
<1>4. Dir.response.n = attempts /\ attempts # 0
  BY <1>1, <1>3 DEF NumbersInv, After, ControlInv
<1>5. Dir.manifest.n # 0
  BY <1>1, <1>3 DEF OwnDirInv, ManifestInv, After
<1>6. Mine \in Runs /\ Dir = exp[Mine]
  BY <1>1, MineIsRun DEF Dir
<1>7. QED
  BY <1>1, <1>3, <1>4, <1>5, <1>6 DEF VerdictMatchesResponse

-----------------------------------------------------------------------------
\* What BatchInv says of a step of the child: the batch stays where it is.
LEMMA ChildStep ==
  ASSUME BatchInv, Attempt, batch.at = "child"
  PROVE  ChildInv' /\ LeftInv' /\ ResultMatchesAttempt'
<1>1. TypeOK /\ ControlInv /\ batch.todo # {} /\ batch.todo \subseteq Targets
  BY DEF BatchInv, IInv, BatchTypeOK, ChildInv
<1>2. [Next]_vars /\ proc.at # "idle" /\ batch' = batch /\ results' = results
  BY DEF Attempt, batchVars
<1>3. Current \in batch.todo /\ Current \in Targets /\ Current' = Current
  BY <1>1, <1>2, CurrentIsLeft DEF BatchInv, Current
<1>4. /\ Mine' = Mine
      /\ \A k \in Runs : k # Mine => exp'[k] = exp[k] /\ last'[k] = last[k]
  BY <1>1, <1>2, AttemptWritesItsOwn DEF OwnOnly
<1>5. \A t \in Targets : Key(t)' = Key(t) /\ Key(t) \in Runs
  BY <1>1, <1>2, KeysKept, KeysDiffer
<1>6. Mine = Key(Current) /\ proc.mode # "reprocess" /\ batch.since < attempts
  BY DEF BatchInv, ChildInv
<1>7. attempts' = attempts /\ proc'.mode # "reprocess"
  BY <1>1, <1>2, <1>6, KindKept
<1>8. \A t \in Targets : t # Current =>
        exp'[Key(t)] = exp[Key(t)] /\ last'[Key(t)] = last[Key(t)]
  BY <1>1, <1>3, <1>4, <1>5, <1>6, KeysDiffer
<1>9. ChildInv'
  <2>1. proc'.at = "idle" /\ last'[Mine] = "completed" => exp'[Mine].manifest.n = attempts
    BY <1>2, <1>6, OwnVerdictAtTheEnd DEF BatchInv
  <2>2. Dir' = exp'[Mine] /\ Key(Current)' = Key(Current)
    BY <1>3, <1>4, <1>5 DEF Dir, Key
  <2>3. QED
    BY <1>1, <1>2, <1>4, <1>6, <1>7, <2>1, <2>2 DEF ChildInv
<1>10. LeftInv'
  <2>1. ASSUME NEW t \in batch.todo, t # Current
        PROVE  exp'[Key(t)'].manifest.n <= batch.since
    BY <1>1, <1>5, <1>8, <2>1 DEF BatchInv, LeftInv
  <2>2. QED
    BY <1>2, <1>3, <1>7, <2>1 DEF BatchInv, LeftInv
<1>11. ResultMatchesAttempt'
  <2>1. ASSUME NEW t \in Targets, results[t] \in {"passed", "failed"}
        PROVE  t # Current
    BY <1>3, <2>1 DEF BatchInv, LeftInv
  <2>2. QED
    BY <1>2, <1>5, <1>8, <2>1 DEF BatchInv, ResultMatchesAttempt
<1>12. QED
  BY <1>9, <1>10, <1>11

\* The attempt of this batch on a target ran to its end with a PASS: what
\* "passed" says.
Earned(t) ==
  LET m == exp[Key(t)].manifest IN
  /\ last[Key(t)] = "completed"
  /\ m.pass
  /\ m.n > batch.since

\* A status that says what the current target has earned leaves all in order.
LEMMA RecordStep ==
  ASSUME BatchInv, NEW status, Record(status), UNCHANGED vars,
         batch.at \in {"next", "child"}, proc.at = "idle", batch.todo # {},
         status \in {"passed", "failed"} => (status = "passed" <=> Earned(Current))
  PROVE  ChildInv' /\ LeftInv' /\ ResultMatchesAttempt'
<1>1. TypeOK /\ batch.todo \subseteq Targets /\ results \in [Targets -> Statuses]
  BY DEF BatchInv, BatchTypeOK
<1>2. /\ UNCHANGED <<exp, attempts, last, config>> /\ proc' = proc
      /\ \A t \in Targets : Key(t)' = Key(t)
  BY DEF vars, Key
<1>3. PICK c \in Targets : c = Current /\ c \in batch.todo
  BY <1>1, CurrentIsLeft DEF BatchInv
<1>4. /\ batch'.at = "next" /\ batch'.todo = batch.todo \ {c} /\ batch'.since = batch.since
      /\ results' = [results EXCEPT ![c] = status]
  BY <1>3 DEF Record, BatchInv, BatchTypeOK
<1>5. ChildInv'
  BY <1>2, <1>4 DEF ChildInv
<1>6. LeftInv'
  <2>1. ASSUME NEW t \in batch.todo \ {c}
        PROVE  results'[t] = "none" /\ exp'[Key(t)'].manifest.n <= batch.since
    BY <1>1, <1>2, <1>3, <1>4, <2>1 DEF BatchInv, LeftInv
  <2>2. batch.since <= attempts
    BY DEF BatchInv, LeftInv
  <2>3. QED
    BY <1>2, <1>4, <2>1, <2>2 DEF LeftInv
<1>7. ResultMatchesAttempt'
  <2>1. ASSUME NEW t \in Targets, results'[t] \in {"passed", "failed"}
        PROVE  results'[t] = "passed" <=> Earned(t)
    <3>1. CASE t = c
      BY <1>1, <1>3, <1>4, <2>1, <3>1
    <3>2. CASE t # c
      BY <1>1, <1>4, <2>1, <3>2 DEF BatchInv, ResultMatchesAttempt, Earned
    <3>3. QED
      BY <3>1, <3>2
  <2>2. QED
    BY <1>2, <1>4, <2>1 DEF ResultMatchesAttempt, Earned
<1>8. QED
  BY <1>5, <1>6, <1>7

\* A step of run_batch.py's own main() keeps all in order.
LEMMA MainStep ==
  ASSUME BatchInv, BatchSteps
  PROVE  ChildInv' /\ LeftInv' /\ ResultMatchesAttempt'
<1>1. /\ TypeOK /\ batch.todo \subseteq Targets /\ IInv
      /\ batch.at \in {"next", "write"} => proc.at = "idle"
      /\ batch \in [at : {"idle", "next", "child", "write"}, execute : BOOLEAN,
                    force : BOOLEAN, todo : SUBSET Targets, since : 0..MaxAttempts]
  BY DEF BatchInv, BatchTypeOK, ChildInv
<1>2. CASE Skip
  <2>1. PICK status \in {"ready", "disabled"} : Record(status)
    BY <1>2 DEF Skip
  <2>2. QED
    BY <1>1, <1>2, <2>1, RecordStep DEF Skip, More
<1>3. CASE Refused
  <2>1. PICK c \in Targets : c = Current /\ c \in batch.todo
    BY <1>1, <1>3, CurrentIsLeft DEF Refused, More, BatchInv
  <2>2. exp[Key(c)].manifest.n <= batch.since
    BY <1>3, <2>1 DEF Refused, More, BatchInv, LeftInv
  <2>3. exp[Key(c)].manifest.n \in Nat /\ batch.since \in Nat
    <3>1. Key(c) \in Runs
      BY <1>1, KeysDiffer
    <3>2. QED
      BY <1>1, <3>1, RunTargetAssumption
         DEF RunTargetAssumption, TypeOK, Directory, Manifest
  <2>4. ~Earned(Current)
    BY <2>1, <2>2, <2>3 DEF Earned
  <2>5. Record("failed") /\ UNCHANGED vars /\ batch.at = "next" /\ batch.todo # {}
    BY <1>3 DEF Refused, More
  <2>6. QED
    BY <1>1, <2>4, <2>5, RecordStep
<1>4. CASE Collect
  <2>1. PICK c \in Targets : c = Current /\ c \in batch.todo
    BY <1>1, <1>4, CurrentIsLeft DEF Collect, BatchInv, ChildInv
  <2>2. Mine = Key(c) /\ batch.since < attempts
    BY <1>4, <2>1 DEF Collect, BatchInv, ChildInv
  <2>3. last[Key(c)] = "completed" => exp[Key(c)].manifest.n > batch.since
    <3>1. attempts \in Nat /\ batch.since \in Nat
      BY <1>1, RunTargetAssumption DEF RunTargetAssumption, TypeOK
    <3>2. last[Key(c)] = "completed" => exp[Key(c)].manifest.n = attempts
      BY <1>4, <2>2 DEF Collect, BatchInv, ChildInv, Dir
    <3>3. QED
      BY <2>2, <3>1, <3>2
  <2>4. ExitsZero <=> Earned(c)
    BY <2>2, <2>3 DEF ExitsZero, Earned
  <2>5. Record(IF ExitsZero THEN "passed" ELSE "failed") /\ UNCHANGED vars
    BY <1>4 DEF Collect
  <2>6. batch.at = "child" /\ proc.at = "idle" /\ batch.todo # {}
    BY <1>4, <2>1 DEF Collect
  <2>7. CASE ExitsZero
    BY <2>1, <2>4, <2>5, <2>6, <2>7, RecordStep
  <2>8. CASE ~ExitsZero
    BY <2>1, <2>4, <2>5, <2>6, <2>8, RecordStep
  <2>9. QED
    BY <2>7, <2>8
<1>5. CASE Launch
  <2>1. PICK c \in Targets : c = Current /\ c \in batch.todo
    BY <1>1, <1>5, CurrentIsLeft DEF Launch, More, BatchInv
  <2>2. /\ batch.at = "next" /\ batch'.at = "child" /\ proc.at = "idle"
        /\ batch'.todo = batch.todo /\ batch'.since = batch.since /\ results' = results
    BY <1>1, <1>5 DEF Launch, More
  <2>3. Current' = c
    BY <2>1, <2>2 DEF Current
  <2>4. /\ attempts' = attempts + 1 /\ proc'.at # "idle" /\ proc'.mode # "reprocess"
        /\ proc'.target = c /\ proc'.id = config[c].id
        /\ exp' = exp /\ config' = config
        /\ last' = [last EXCEPT ![Key(c)] = "running"]
    BY <1>5, <2>1 DEF Launch, Child, StartPlain, StartForce, Start
  <2>5. attempts \in Nat /\ batch.since \in Nat /\ batch.since <= attempts
    BY <1>1, <2>2, RunTargetAssumption DEF RunTargetAssumption, TypeOK, BatchInv, LeftInv
  <2>6. ChildInv'
    <3>1. Mine' = Key(Current)'
      BY <2>3, <2>4 DEF Mine, Key
    <3>2. batch'.since < attempts'
      BY <2>2, <2>4, <2>5
    <3>3. QED
      BY <2>1, <2>2, <2>4, <3>1, <3>2 DEF ChildInv
  <2>7. LeftInv'
    <3>1. ASSUME NEW t \in batch.todo
          PROVE  results[t] = "none" /\ exp'[Key(t)'].manifest.n <= batch.since
      BY <2>2, <2>4, <3>1 DEF BatchInv, LeftInv, Key
    <3>2. batch'.since <= attempts'
      BY <2>2, <2>4, <2>5
    <3>3. QED
      BY <2>2, <3>1, <3>2 DEF LeftInv
  <2>8. ResultMatchesAttempt'
    <3>1. ASSUME NEW t \in Targets, results[t] \in {"passed", "failed"}
          PROVE  last'[Key(t)] = last[Key(t)]
      <4>1. t # c
        BY <2>1, <2>2, <3>1 DEF BatchInv, LeftInv
      <4>2. QED
        BY <1>1, <2>4, <4>1, KeysDiffer DEF TypeOK
    <3>2. QED
      BY <2>2, <2>4, <3>1 DEF BatchInv, ResultMatchesAttempt, Key
  <2>9. QED
    BY <2>6, <2>7, <2>8
<1>6. CASE AllDone
  <2>1. /\ UNCHANGED <<exp, attempts, last, config>> /\ proc' = proc /\ results' = results
        /\ \A t \in Targets : Key(t)' = Key(t)
    BY <1>6 DEF AllDone, vars, Key
  <2>2. /\ batch.at = "next" /\ batch'.at = "write"
        /\ batch.todo = {} /\ batch'.todo = {} /\ batch'.since = batch.since
    BY <1>1, <1>6 DEF AllDone
  <2>3. ChildInv' /\ LeftInv' /\ ResultMatchesAttempt'
    BY <1>1, <2>1, <2>2 DEF ChildInv, LeftInv, ResultMatchesAttempt, BatchInv
  <2>4. QED
    BY <2>3
<1>7. CASE WriteReport
  BY <1>7 DEF WriteReport, NoBatch, ChildInv, LeftInv, ResultMatchesAttempt
<1>8. QED
  BY <1>2, <1>3, <1>4, <1>5, <1>6, <1>7 DEF BatchSteps

\* Before the first batch there is nothing to be wrong.
LEMMA BatchInitInv == BatchInit => BatchInv
<1> SUFFICES ASSUME BatchInit PROVE BatchInv
  OBVIOUS
<1>1. IInv
  BY InitInv DEF BatchInit
<1>2. batch = NoBatch /\ results = [t \in Targets |-> "none"]
  BY DEF BatchInit
<1>3. BatchTypeOK
  <2>1. 0 \in 0..MaxAttempts
    BY RunTargetAssumption DEF RunTargetAssumption
  <2>2. QED
    BY <1>1, <1>2, <2>1 DEF BatchTypeOK, IInv, NoBatch, Statuses
<1>4. NumbersInv
  BY DEF BatchInit, Init, NumbersInv, Numbered, Empty, NoResponse, NoManifest, After
<1>5. ChildInv /\ LeftInv /\ ResultMatchesAttempt
  BY <1>2 DEF NoBatch, ChildInv, LeftInv, ResultMatchesAttempt
<1>6. QED
  BY <1>1, <1>3, <1>4, <1>5 DEF BatchInv

\* No step disturbs it: while the batch is idle nothing is said of it, and while
\* it runs only its own child does.
LEMMA BatchNextInv == BatchInv /\ [BatchNext]_allVars => BatchInv'
<1> SUFFICES ASSUME BatchInv, [BatchNext]_allVars PROVE BatchInv'
  OBVIOUS
<1>1. TypeOK /\ ControlInv /\ IInv /\ NumbersInv /\ BatchTypeOK
  BY DEF BatchInv, IInv
<1>2. [Next]_vars
  BY <1>1, BatchStepIsAttemptStep
<1>3. IInv' /\ BatchTypeOK' /\ NumbersInv'
  BY <1>1, <1>2, NextInv, NumbersStep, BatchTypeStep
<1>4. ChildInv' /\ LeftInv' /\ ResultMatchesAttempt'
  <2>1. CASE BatchSteps
    BY <2>1, MainStep
  <2>2. ASSUME NEW execute \in BOOLEAN, NEW force \in BOOLEAN, NEW filter \in SUBSET Targets,
               StartBatch(execute, force, filter)
        PROVE  ChildInv' /\ LeftInv' /\ ResultMatchesAttempt'
    <3>1. /\ proc.at = "idle" /\ proc' = proc /\ exp' = exp /\ attempts' = attempts
          /\ config' = config
          /\ batch'.at = "next" /\ batch'.todo = filter /\ batch'.since = attempts
          /\ results' = [t \in Targets |-> "none"]
      BY <2>2 DEF StartBatch, vars
    <3>2. \A t \in filter : exp'[Key(t)'].manifest.n <= attempts
      BY <1>1, <3>1, KeysDiffer DEF NumbersInv, Numbered, Key
    <3>3. attempts <= attempts
      BY <1>1, RunTargetAssumption DEF RunTargetAssumption, TypeOK
    <3>4. QED
      BY <3>1, <3>2, <3>3 DEF ChildInv, LeftInv, ResultMatchesAttempt
  <2>3. CASE BatchDies
    BY <2>3 DEF BatchDies, NoBatch, ChildInv, LeftInv, ResultMatchesAttempt
  <2>4. CASE Attempt
    <3>1. batch.at \in {"idle", "child"} /\ batch' = batch
      BY <1>1, <2>4 DEF Attempt, BatchInv, ChildInv, BatchTypeOK, batchVars
    <3>2. CASE batch.at = "child"
      BY <2>4, <3>2, ChildStep
    <3>3. CASE batch.at = "idle"
      BY <3>1, <3>3 DEF ChildInv, LeftInv, ResultMatchesAttempt
    <3>4. QED
      BY <3>1, <3>2, <3>3
  <2>5. CASE Operator
    BY <2>5 DEF Operator, batchVars, ChildInv, LeftInv, ResultMatchesAttempt
  <2>6. CASE UNCHANGED allVars \/ Stray
    <3>1. /\ UNCHANGED <<exp, attempts, last, config, results, batch, proc>>
          /\ Mine' = Mine /\ Dir' = Dir /\ Current' = Current
          /\ \A t \in Targets : Key(t)' = Key(t)
      BY <2>6 DEF allVars, vars, batchVars, Stray, StrayWrites, Mine, Dir, Current, Key
    <3>2. Key(Current)' = Key(Current)
      BY <3>1 DEF Key
    <3>3. ChildInv' /\ ResultMatchesAttempt'
      BY <3>1, <3>2 DEF BatchInv, ChildInv, ResultMatchesAttempt
    <3>4. LeftInv'
      BY <1>1, <3>1 DEF BatchInv, LeftInv, BatchTypeOK
    <3>5. QED
      BY <3>3, <3>4
  <2>7. QED
    BY <2>1, <2>2, <2>3, <2>4, <2>5, <2>6 DEF BatchNext
<1>5. QED
  BY <1>3, <1>4 DEF BatchInv

\* The inductive invariant of a repository on which batches run.
THEOREM BatchInvariance == BatchSpec => []BatchInv
BY BatchInitInv, BatchNextInv, PTL DEF BatchSpec

\* The batch and everything it starts keep their types.
THEOREM BatchTypeCorrect == BatchSpec => []BatchTypeOK
BY BatchInvariance, PTL DEF BatchInv

\* A batch does nothing to targets that attempts by hand could not do: what is
\* proved of run_target.py holds under run_batch.py.
THEOREM BatchIsAttempts == BatchSpec => Spec
<1>1. BatchInit => Init
  BY DEF BatchInit
<1>2. BatchInv /\ [BatchNext]_allVars => [Next]_vars
  BY BatchStepIsAttemptStep DEF BatchInv
<1>3. QED
  BY <1>1, <1>2, BatchInvariance, PTL DEF BatchSpec, Spec

\* "passed" and "failed" are about the attempt this batch made on the target:
\* a verdict from before, or of an attempt that did not end, is never reported.
THEOREM StatusesAreOfThisBatch == BatchSpec => []ResultMatchesAttempt
BY BatchInvariance, PTL DEF BatchInv

\* A batch run again over targets that are done leaves their verdicts alone: only
\* --force and --reprocess-existing, on the same run id, change one.
THEOREM BatchKeepsVerdicts == BatchSpec => PlainKeepsVerdicts
BY BatchIsAttempts, VerdictsKept
=============================================================================
