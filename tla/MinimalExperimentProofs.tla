----------------------- MODULE MinimalExperimentProofs -----------------------
(***************************************************************************)
(* Proofs about MinimalExperiment, for any number of calls and runs.       *)
(*                                                                         *)
(* IInv says, for each point of the evaluator, what the run has already    *)
(* put right: the source from the restore on, "clean" from the status on,  *)
(* and which of the nine outputs are its own.                              *)
(***************************************************************************)
EXTENDS MinimalExperiment, TLAPS

Restored == {"status", "persist", "manifest", "summary"}
Verified == {"persist", "manifest", "summary"}
After    == {"restore"} \cup Restored

\* The history follows the script; an error or an interrupt is only there
\* behind the point that raises it, and an interrupt never comes to a verdict.
ControlInv ==
  /\ ended = "running" <=> script.at \in Running
  /\ script.at \in Running => runs # 0
  /\ script.at \in {"check"} \cup InTry => ~error /\ ~raising
  /\ script.at = "except" => error /\ ~raising
  /\ script.at \in Verified => ~raising

\* The source is back from the restore on; "clean" is what the status found.
SourceInv ==
  /\ script.at \in Restored => source = "head"
  /\ script.at \in Verified => (clean => fixtures)
  /\ script.at = "summary" => manifest = [run |-> runs, pass |-> Overall, error |-> error]

\* The outputs that a run with a verdict must have written.
OwnOutputs ==
  /\ \A f \in {"build", "direct", "full", "ctest", "manifest", "summary"} :
       output[f] = runs
  /\ manifest.error => output["error"] = runs
  /\ ~manifest.error => output["diff"] = runs /\ output["replacement"] = runs

\* Which outputs are of this run, and that those of a completed run stay.
OutputInv ==
  /\ script.at = "replacement" => output["diff"] = runs
  /\ script.at \in Stages \cup After /\ ~error /\ ~raising =>
       output["diff"] = runs /\ output["replacement"] = runs
  /\ script.at \in After /\ error /\ ~raising => output["error"] = runs
  /\ script.at \in {"manifest", "summary"} =>
       \A f \in {"build", "direct", "full", "ctest"} : output[f] = runs
  /\ script.at = "summary" => output["manifest"] = runs
  /\ script.at \notin Running /\ ended = "completed" => OwnOutputs

\* Without --force there is nothing of an earlier run or call to write over.
PlainInv ==
  ~script.force =>
    /\ script.at \in Running => \A f \in Outputs : output[f] \in {0, runs}
    /\ script.at \in {"call", "save"} =>
         \A f \in Saved : saved[script.kind][f] \in {0, calls}

IInv == TypeOK /\ ControlInv /\ SourceInv /\ OutputInv /\ PlainInv

\* Every variable keeps its type.
LEMMA TypeStep ==
  ASSUME TypeOK, ControlInv, [Next]_vars
  PROVE  TypeOK'
<1> USE MinimalAssumption DEF TypeOK, ControlInv, Kinds, Saved, Outputs,
             callVars, repoVars, runVars, outVars, At, Goto, EndRun, MayTear,
             Running, InTry, Stages, MinimalAssumption
<1>1. ASSUME NEW kind \in Kinds, NEW force \in BOOLEAN, StartCall(kind, force)
      PROVE  TypeOK'
  BY <1>1 DEF StartCall
<1>2. CASE CallReturns
  BY <1>2 DEF CallReturns
<1>3. CASE SaveText
  BY <1>3 DEF SaveText
<1>4. CASE CallStops
  BY <1>4 DEF CallStops
<1>5. ASSUME NEW force \in BOOLEAN, StartRun(force)
      PROVE  TypeOK'
  <2>1. /\ runs' \in 0..MaxRuns /\ ended' = "running"
        /\ result' = [s \in Stages |-> "skipped"]
        /\ error' = FALSE /\ raising' = FALSE /\ clean' = FALSE
        /\ UNCHANGED <<callVars, repoVars, output, manifest>>
    BY <1>5 DEF StartRun
  <2>2. script' = [script EXCEPT !.at = "check", !.force = force]
    BY <1>5 DEF StartRun
  <2>3. QED
    BY <2>1, <2>2
<1>6. CASE ChecksPass \/ ChecksFail
  BY <1>6 DEF ChecksPass, ChecksFail
<1>7. CASE Replace \/ WriteEvidence
  BY <1>7 DEF Replace, WriteEvidence
<1>8. ASSUME NEW s \in Stages, NEW passed \in BOOLEAN, RunStage(s, passed)
      PROVE  TypeOK'
  BY <1>8, ZenonT(40) DEF RunStage, StageAfter
<1>9. CASE TryFails \/ Interrupted
  BY <1>9, ZenonT(40) DEF TryFails, Interrupted
<1>10. CASE WriteError
  BY <1>10 DEF WriteError
<1>11. CASE Restore \/ RestoreFails
  BY <1>11 DEF Restore, RestoreFails
<1>12. CASE Status
  BY <1>12 DEF Status
<1>13. CASE Persist
  BY <1>13 DEF Persist
<1>14. CASE WriteManifest
  <2>1. Overall \in BOOLEAN
    BY DEF Overall
  <2>2. runs \in 1..MaxRuns
    BY <1>14 DEF WriteManifest
  <2>3. manifest' \in [run : 1..MaxRuns, pass : BOOLEAN, error : BOOLEAN]
    BY <1>14, <2>1, <2>2 DEF WriteManifest
  <2>4. QED
    BY <1>14, <2>3 DEF WriteManifest
<1>15. CASE WriteSummary
  BY <1>15 DEF WriteSummary
<1>16. CASE LateStop
  BY <1>16 DEF LateStop
<1>17. CASE Kill
  BY <1>17 DEF Kill
<1>18. CASE OperatorCleans
  BY <1>18 DEF OperatorCleans
<1>19. CASE UNCHANGED vars
  BY <1>19 DEF vars
<1>20. QED
  BY <1>1, <1>2, <1>3, <1>4, <1>5, <1>6, <1>7, <1>8, <1>9, <1>10, <1>11,
     <1>12, <1>13, <1>14, <1>15, <1>16, <1>17, <1>18, <1>19 DEF Next, Call,
     Evaluator, Containers

\* Errors, interrupts and the history follow the script.
LEMMA ControlStep ==
  ASSUME TypeOK, ControlInv, [Next]_vars
  PROVE  ControlInv'
<1> USE DEF TypeOK, ControlInv, Verified, callVars, repoVars, runVars, outVars,
             At, Goto, EndRun, MayTear, Running, InTry, Stages
<1>1. ASSUME NEW kind \in Kinds, NEW force \in BOOLEAN, StartCall(kind, force)
      PROVE  ControlInv'
  BY <1>1 DEF StartCall
<1>2. CASE CallReturns
  BY <1>2 DEF CallReturns
<1>3. CASE SaveText
  BY <1>3 DEF SaveText
<1>4. CASE CallStops
  BY <1>4 DEF CallStops
<1>5. ASSUME NEW force \in BOOLEAN, StartRun(force)
      PROVE  ControlInv'
  BY <1>5 DEF StartRun, OutputsAbsent
<1>6. CASE ChecksPass \/ ChecksFail
  BY <1>6 DEF ChecksPass, ChecksFail
<1>7. CASE Replace \/ WriteEvidence
  BY <1>7 DEF Replace, WriteEvidence
<1>8. ASSUME NEW s \in Stages, NEW passed \in BOOLEAN, RunStage(s, passed)
      PROVE  ControlInv'
  BY <1>8 DEF RunStage, StageAfter
<1>9. CASE TryFails \/ Interrupted
  BY <1>9 DEF TryFails, Interrupted
<1>10. CASE WriteError
  BY <1>10 DEF WriteError
<1>11. CASE Restore \/ RestoreFails
  BY <1>11 DEF Restore, RestoreFails
<1>12. CASE Status
  BY <1>12 DEF Status
<1>13. CASE Persist
  BY <1>13 DEF Persist
<1>14. CASE WriteManifest
  BY <1>14 DEF WriteManifest
<1>15. CASE WriteSummary
  BY <1>15 DEF WriteSummary
<1>16. CASE LateStop
  BY <1>16 DEF LateStop
<1>17. CASE Kill
  BY <1>17 DEF Kill
<1>18. CASE OperatorCleans
  BY <1>18 DEF OperatorCleans
<1>19. CASE UNCHANGED vars
  BY <1>19 DEF vars
<1>20. QED
  BY <1>1, <1>2, <1>3, <1>4, <1>5, <1>6, <1>7, <1>8, <1>9, <1>10, <1>11,
     <1>12, <1>13, <1>14, <1>15, <1>16, <1>17, <1>18, <1>19 DEF Next, Call,
     Evaluator, Containers

\* Nothing after the restore touches the source, and the verdict is of this run.
LEMMA SourceStep ==
  ASSUME TypeOK, ControlInv, SourceInv, [Next]_vars
  PROVE  SourceInv'
<1> USE DEF TypeOK, SourceInv, Restored, Verified, Overall, callVars, repoVars,
             runVars, outVars, At, Goto, EndRun, MayTear, Running, InTry, Stages
<1>1. ASSUME NEW kind \in Kinds, NEW force \in BOOLEAN, StartCall(kind, force)
      PROVE  SourceInv'
  BY <1>1 DEF StartCall
<1>2. CASE CallReturns
  BY <1>2 DEF CallReturns
<1>3. CASE SaveText
  BY <1>3 DEF SaveText
<1>4. CASE CallStops
  BY <1>4 DEF CallStops
<1>5. ASSUME NEW force \in BOOLEAN, StartRun(force)
      PROVE  SourceInv'
  BY <1>5 DEF StartRun, OutputsAbsent
<1>6. CASE ChecksPass \/ ChecksFail
  BY <1>6 DEF ChecksPass, ChecksFail
<1>7. CASE Replace \/ WriteEvidence
  BY <1>7 DEF Replace, WriteEvidence
<1>8. ASSUME NEW s \in Stages, NEW passed \in BOOLEAN, RunStage(s, passed)
      PROVE  SourceInv'
  BY <1>8 DEF RunStage, StageAfter
<1>9. CASE TryFails \/ Interrupted
  BY <1>9 DEF TryFails, Interrupted
<1>10. CASE WriteError
  BY <1>10 DEF WriteError
<1>11. CASE Restore \/ RestoreFails
  BY <1>11 DEF Restore, RestoreFails
<1>12. CASE Status
  BY <1>12 DEF Status
<1>13. CASE Persist
  BY <1>13 DEF Persist
<1>14. CASE WriteManifest
  BY <1>14 DEF WriteManifest
<1>15. CASE WriteSummary
  BY <1>15 DEF WriteSummary
<1>16. CASE LateStop
  BY <1>16 DEF LateStop
<1>17. CASE Kill
  BY <1>17 DEF Kill
<1>18. CASE OperatorCleans
  BY <1>18 DEF OperatorCleans
<1>19. CASE UNCHANGED vars
  BY <1>19 DEF vars
<1>20. QED
  BY <1>1, <1>2, <1>3, <1>4, <1>5, <1>6, <1>7, <1>8, <1>9, <1>10, <1>11,
     <1>12, <1>13, <1>14, <1>15, <1>16, <1>17, <1>18, <1>19 DEF Next, Call,
     Evaluator, Containers

\* The outputs a run must have written by each point are written by then.
LEMMA OutputStep ==
  ASSUME TypeOK, ControlInv, SourceInv, OutputInv, [Next]_vars
  PROVE  OutputInv'
<1> USE DEF TypeOK, ControlInv, OutputInv, OwnOutputs, Verified, Restored,
             After, Outputs, callVars, repoVars, runVars, outVars, At, Goto,
             EndRun, MayTear, Running, InTry, Stages
<1>1. ASSUME NEW kind \in Kinds, NEW force \in BOOLEAN, StartCall(kind, force)
      PROVE  OutputInv'
  BY <1>1 DEF StartCall
<1>2. CASE CallReturns
  BY <1>2 DEF CallReturns
<1>3. CASE SaveText
  BY <1>3 DEF SaveText
<1>4. CASE CallStops
  BY <1>4 DEF CallStops
<1>5. ASSUME NEW force \in BOOLEAN, StartRun(force)
      PROVE  OutputInv'
  BY <1>5 DEF StartRun, OutputsAbsent
<1>6. CASE ChecksPass \/ ChecksFail
  BY <1>6 DEF ChecksPass, ChecksFail
<1>7. CASE Replace \/ WriteEvidence
  BY <1>7 DEF Replace, WriteEvidence
<1>8. ASSUME NEW s \in Stages, NEW passed \in BOOLEAN, RunStage(s, passed)
      PROVE  OutputInv'
  BY <1>8 DEF RunStage, StageAfter
<1>9. CASE TryFails \/ Interrupted
  BY <1>9 DEF TryFails, Interrupted
<1>10. CASE WriteError
  BY <1>10 DEF WriteError
<1>11. CASE Restore \/ RestoreFails
  BY <1>11 DEF Restore, RestoreFails
<1>12. CASE Status
  BY <1>12 DEF Status
<1>13. CASE Persist
  BY <1>13 DEF Persist
<1>14. CASE WriteManifest
  BY <1>14 DEF WriteManifest
<1>15. CASE WriteSummary
  <2>1. manifest.error = error /\ ~raising
    BY <1>15 DEF WriteSummary, SourceInv
  <2>2. OwnOutputs'
    BY <1>15, <2>1 DEF WriteSummary
  <2>3. script'.at = "idle" /\ ended' = "completed"
    BY <1>15 DEF WriteSummary
  <2>4. QED
    BY <2>2, <2>3
<1>16. CASE LateStop
  BY <1>16 DEF LateStop
<1>17. CASE Kill
  BY <1>17 DEF Kill
<1>18. CASE OperatorCleans
  BY <1>18 DEF OperatorCleans
<1>19. CASE UNCHANGED vars
  BY <1>19 DEF vars
<1>20. QED
  BY <1>1, <1>2, <1>3, <1>4, <1>5, <1>6, <1>7, <1>8, <1>9, <1>10, <1>11,
     <1>12, <1>13, <1>14, <1>15, <1>16, <1>17, <1>18, <1>19, ZenonT(40) DEF Next, Call,
     Evaluator, Containers

\* A call or a run without --force starts from nothing and sees only its own.
LEMMA PlainStep ==
  ASSUME TypeOK, PlainInv, [Next]_vars
  PROVE  PlainInv'
<1> USE DEF TypeOK, PlainInv, Kinds, Saved, Outputs, callVars, repoVars,
             runVars, outVars, At, Goto, EndRun, MayTear, Running, InTry, Stages
<1>1. ASSUME NEW kind \in Kinds, NEW force \in BOOLEAN, StartCall(kind, force)
      PROVE  PlainInv'
  BY <1>1 DEF StartCall
<1>2. CASE CallReturns
  BY <1>2 DEF CallReturns
<1>3. CASE SaveText
  BY <1>3 DEF SaveText
<1>4. CASE CallStops
  BY <1>4 DEF CallStops
<1>5. ASSUME NEW force \in BOOLEAN, StartRun(force)
      PROVE  PlainInv'
  BY <1>5 DEF StartRun, OutputsAbsent
<1>6. CASE ChecksPass \/ ChecksFail
  BY <1>6 DEF ChecksPass, ChecksFail
<1>7. CASE Replace \/ WriteEvidence
  BY <1>7 DEF Replace, WriteEvidence
<1>8. ASSUME NEW s \in Stages, NEW passed \in BOOLEAN, RunStage(s, passed)
      PROVE  PlainInv'
  BY <1>8 DEF RunStage, StageAfter
<1>9. CASE TryFails \/ Interrupted
  BY <1>9 DEF TryFails, Interrupted
<1>10. CASE WriteError
  BY <1>10 DEF WriteError
<1>11. CASE Restore \/ RestoreFails
  BY <1>11 DEF Restore, RestoreFails
<1>12. CASE Status
  BY <1>12 DEF Status
<1>13. CASE Persist
  BY <1>13 DEF Persist
<1>14. CASE WriteManifest
  BY <1>14 DEF WriteManifest
<1>15. CASE WriteSummary
  BY <1>15 DEF WriteSummary
<1>16. CASE LateStop
  BY <1>16 DEF LateStop
<1>17. CASE Kill
  BY <1>17 DEF Kill
<1>18. CASE OperatorCleans
  BY <1>18 DEF OperatorCleans
<1>19. CASE UNCHANGED vars
  BY <1>19 DEF vars
<1>20. QED
  BY <1>1, <1>2, <1>3, <1>4, <1>5, <1>6, <1>7, <1>8, <1>9, <1>10, <1>11,
     <1>12, <1>13, <1>14, <1>15, <1>16, <1>17, <1>18, <1>19, ZenonT(40) DEF Next, Call,
     Evaluator, Containers

\* It holds before the first run.
LEMMA InitInv == Init => IInv
<1> SUFFICES ASSUME Init PROVE IInv
  OBVIOUS
<1>1. TypeOK
  <2>1. 0 \in 0..MaxCalls /\ 0 \in 0..MaxRuns
    BY MinimalAssumption DEF MinimalAssumption
  <2>2. saved \in [Kinds -> [Saved -> 0..MaxCalls]] /\ output \in [Outputs -> 0..MaxRuns]
    BY <2>1 DEF Init
  <2>3. script \in [at : {"idle", "call", "save"} \cup Running, kind : Kinds,
                    force : BOOLEAN]
    BY DEF Init, Kinds
  <2>4. QED
    BY <2>1, <2>2, <2>3 DEF Init, TypeOK
<1>2. ControlInv /\ SourceInv /\ OutputInv /\ PlainInv
  BY DEF Init, ControlInv, SourceInv, OutputInv, PlainInv, Running, InTry, Stages,
         Verified, Restored, After
<1>3. QED
  BY <1>1, <1>2 DEF IInv

\* No step of a run, and no crash, disturbs it.
LEMMA NextInv == IInv /\ [Next]_vars => IInv'
BY TypeStep, ControlStep, SourceStep, OutputStep, PlainStep DEF IInv

\* The inductive invariant holds in every reachable state.
THEOREM Invariance == Spec => []IInv
BY InitInv, NextInv, PTL DEF Spec

\* Every variable of the two scripts keeps its type.
THEOREM TypeCorrect == Spec => []TypeOK
BY Invariance, PTL DEF IInv

\* A PASS of evaluate_ini_writer_regeneration.py has five passed stages and a
\* repository that is back at HEAD behind it.
THEOREM PassIsSound == Spec => []PassSound
<1>1. IInv => PassSound
  <2> SUFFICES ASSUME IInv, script.at = "summary", manifest.pass
               PROVE  source = "head" /\ fixtures /\ \A s \in Stages : result[s] = "passed"
    BY DEF PassSound, At
  <2>1. source = "head" /\ (clean => fixtures)
    BY DEF IInv, SourceInv, Restored, Verified
  <2>2. Overall
    BY DEF IInv, SourceInv
  <2>3. QED
    BY <2>1, <2>2 DEF Overall
<1>2. QED
  BY <1>1, Invariance, PTL

\* After a run with a verdict the saved outputs are those of that run.
THEOREM OutputsAreOfOneRun == Spec => []OutputsOfOneRun
<1>1. IInv => OutputsOfOneRun
  BY DEF IInv, OutputInv, OwnOutputs, OutputsOfOneRun, At, Running, InTry, Stages
<1>2. QED
  BY <1>1, Invariance, PTL

\* However a run behind its checks ends, the source is at HEAD, unless it was
\* killed or the restoring write failed.
THEOREM SourceIsRestored == Spec => SourceRestored
<1>1. ASSUME IInv, [Next]_vars, ended = "running", ended' \in {"completed", "raised"}
      PROVE  At("check") \/ source' = "head"
  <2>1. script.at \in Restored => source = "head"
    BY <1>1 DEF IInv, SourceInv
  <2>2. QED
    BY <1>1, <2>1
       DEF Next, Call, Evaluator, Containers, StartCall, CallReturns, SaveText, CallStops,
           StartRun, ChecksPass, ChecksFail, Replace, WriteEvidence, RunStage, TryFails,
           WriteError, Interrupted, Restore, RestoreFails, Status, Persist, WriteManifest,
           WriteSummary, LateStop, Kill, OperatorCleans, EndRun, At, Restored, callVars,
           repoVars, runVars, outVars, vars
<1>2. IInv /\ [Next]_vars =>
        [ended = "running" /\ ended' \in {"completed", "raised"} =>
           At("check") \/ source' = "head"]_vars
  BY <1>1
<1>3. QED
  BY <1>2, Invariance, PTL DEF Spec, SourceRestored

\* Without --force nothing that an earlier run or call has saved is written over.
THEOREM NothingOverwritten == Spec => PlainNeverOverwrites
<1>1. ASSUME IInv, [Next]_vars, NEW f \in Outputs,
             output[f] \notin {0, runs}, output'[f] # output[f]
      PROVE  script.force
  <2>1. script.at \in Running
    BY <1>1
       DEF Next, Call, Evaluator, Containers, StartCall, CallReturns, SaveText, CallStops,
           StartRun, ChecksPass, ChecksFail, Replace, WriteEvidence, RunStage, TryFails,
           WriteError, Interrupted, Restore, RestoreFails, Status, Persist, WriteManifest,
           WriteSummary, LateStop, Kill, OperatorCleans, At, Running, InTry, Stages,
           callVars, repoVars, runVars, outVars, vars
  <2>2. QED
    BY <1>1, <2>1 DEF IInv, PlainInv
<1>2. ASSUME IInv, [Next]_vars, NEW k \in Kinds, NEW f \in Saved,
             saved[k][f] \notin {0, calls}, saved'[k][f] # saved[k][f]
      PROVE  script'.force \/ script.force
  <2>1. TypeOK /\ PlainInv
    BY <1>2 DEF IInv
  <2>2. ASSUME NEW kind \in Kinds, NEW force \in BOOLEAN, StartCall(kind, force)
        PROVE  script'.force
    BY <1>2, <2>1, <2>2 DEF StartCall, TypeOK, Saved
  <2>3. CASE Call
    <3>1. script.at \in {"call", "save"} /\ saved' # saved
      BY <1>2, <2>3 DEF Call, CallReturns, SaveText, CallStops, At
    <3>2. k = script.kind
      BY <1>2, <2>1, <2>3 DEF Call, CallReturns, SaveText, CallStops, TypeOK, Kinds, Saved
    <3>3. QED
      BY <1>2, <2>1, <3>1, <3>2 DEF PlainInv
  <2>4. saved' # saved
    BY <1>2
  <2>5. QED
    BY <1>2, <2>2, <2>3, <2>4
       DEF Next, Evaluator, Containers, StartRun, ChecksPass, ChecksFail, Replace,
           WriteEvidence, RunStage, TryFails, WriteError, Interrupted, Restore,
           RestoreFails, Status, Persist, WriteManifest, WriteSummary, LateStop, Kill,
           OperatorCleans, callVars, vars
<1>3. IInv /\ [Next]_vars =>
        [/\ \A f \in Outputs :
              output[f] \notin {0, runs} /\ output'[f] # output[f] => script.force
         /\ \A k \in Kinds, f \in Saved :
              saved[k][f] \notin {0, calls} /\ saved'[k][f] # saved[k][f] =>
                script'.force \/ script.force]_vars
  BY <1>1, <1>2
<1>4. QED
  BY <1>3, Invariance, PTL DEF Spec, PlainNeverOverwrites
=============================================================================
