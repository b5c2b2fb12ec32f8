------------------------------ MODULE RunBatch ------------------------------
(***************************************************************************)
(* scripts/roundtrip/run_batch.py: plans or runs the targets one after the *)
(* other in the order of their configuration files, each as a child        *)
(* process running run_target.py, and reports what became of each.         *)
(* Between batches the operator makes attempts of his own.                 *)
(***************************************************************************)
EXTENDS RunTarget, SequencesExt

CONSTANT Order  \* the targets in the order of their configuration files

\* Each target has one configuration file.
ASSUME OrderAssumption ==
  Order \in Seq(Targets) /\ IsInjective(Order) /\ ToSet(Order) = Targets

VARIABLES
  batch,    \* where the batch is, its arguments, the targets it has left
  results   \* per target: the status the batch has for it

batchVars == <<batch, results>>
allVars   == <<vars, batchVars>>

Statuses == {"none", "ready", "disabled", "passed", "failed"}

\* since: history, the attempts made before the batch.
NoBatch == [at |-> "idle", execute |-> FALSE, force |-> FALSE, todo |-> {},
            since |-> 0]

BatchTypeOK ==
  /\ TypeOK
  /\ batch \in [at : {"idle", "next", "child", "write"}, execute : BOOLEAN,
                force : BOOLEAN, todo : SUBSET Targets, since : 0..MaxAttempts]
  /\ results \in [Targets -> Statuses]

BatchInit ==
  /\ Init
  /\ batch = NoBatch
  /\ results = [t \in Targets |-> "none"]

-----------------------------------------------------------------------------
\* The configurations are loaded, those of --targets only when it is given.
\* MaxAttempts also bounds the children it will start.
StartBatch(execute, force, filter) ==
  /\ batch.at = "idle"
  /\ proc.at = "idle"
  /\ LET Starting == {t \in filter : force \/ exp[Key(t)] = Empty} IN
     execute => attempts + Cardinality(Starting) <= MaxAttempts
  /\ batch' = [at |-> "next", execute |-> execute, force |-> force,
               todo |-> filter, since |-> attempts]
  /\ results' = [t \in Targets |-> "none"]
  /\ UNCHANGED vars

More == batch.at = "next" /\ batch.todo # {}

\* The targets are taken in the order of their files.
Current == Order[Min({i \in DOMAIN Order : Order[i] \in batch.todo})]

\* Mutant: a target that failed is tried again.
Record_Retry(status) ==
  /\ results' = [results EXCEPT ![Current] = status]
  /\ batch' = [batch EXCEPT !.at = "next", !.todo = IF status = "failed" THEN @ ELSE @ \ {Current}]

\* The batch has a status for the target and goes on.
Record(status) ==
  /\ results' = [results EXCEPT ![Current] = status]
  /\ batch' = [batch EXCEPT !.at = "next", !.todo = @ \ {Current}]

MayRun == batch.execute /\ config[Current].enabled

\* Nothing is run for a plan, or for a target that is not enabled.
Skip ==
  /\ More
  /\ ~MayRun
  /\ Record(IF config[Current].enabled THEN "ready" ELSE "disabled")
  /\ UNCHANGED vars

\* run_target.py, with --force if the batch has it.
Child(t) == StartPlain(t) \/ (batch.force /\ StartForce(t))

Launch ==
  /\ More
  /\ MayRun
  /\ Child(Current)
  /\ batch' = [batch EXCEPT !.at = "child"]
  /\ UNCHANGED results

\* The child refuses a directory that is not empty: exit status 1, and no file
\* is written.
Refused ==
  /\ More
  /\ MayRun
  /\ ~batch.force
  /\ exp[Key(Current)] # Empty
  /\ Record("failed")
  /\ UNCHANGED vars

\* Mutant: the status is the verdict on disk.
ExitsZero_Manifest == exp[Mine].manifest.pass

\* main() returns 0 for a run that ended with PASS; an exception, Ctrl-C or a
\* kill is another status.
ExitsZero == last[Mine] = "completed" /\ exp[Mine].manifest.pass

Collect ==
  /\ batch.at = "child"
  /\ proc.at = "idle"
  /\ Record(IF ExitsZero THEN "passed" ELSE "failed")
  /\ UNCHANGED vars

\* batch_plan or batch_execution is only written when all targets are done.
AllDone ==
  /\ batch.at = "next"
  /\ batch.todo = {}
  /\ batch' = [batch EXCEPT !.at = "write"]
  /\ UNCHANGED <<vars, results>>

WriteReport ==
  /\ batch.at = "write"
  /\ batch' = NoBatch
  /\ UNCHANGED <<vars, results>>

\* The batch is interrupted or killed, or a child cannot be started: what it
\* had so far is lost.  A child it started may go on.
BatchDies ==
  /\ batch.at # "idle"
  /\ batch' = NoBatch
  /\ results' = [t \in Targets |-> "none"]
  /\ UNCHANGED vars

\* A running attempt takes a step, or ends.
Attempt == proc.at # "idle" /\ Next /\ UNCHANGED batchVars

\* The operator starts an attempt of his own, or cleans the repository.
Operator ==
  /\ batch.at = "idle"
  /\ Starts \/ OperatorCleans
  /\ UNCHANGED batchVars

\* A container left over by an attempt writes, whoever is at work.
Stray == (\E t \in Targets : StrayWrites(t)) /\ UNCHANGED batchVars

BatchSteps == Skip \/ Launch \/ Refused \/ Collect \/ AllDone \/ WriteReport

BatchNext ==
  \/ \E execute \in BOOLEAN, force \in BOOLEAN, filter \in SUBSET Targets :
       StartBatch(execute, force, filter)
  \/ BatchSteps \/ BatchDies \/ Attempt \/ Operator \/ Stray

BatchSpec == BatchInit /\ [][BatchNext]_allVars

FairBatchSpec ==
  /\ BatchSpec
  /\ WF_allVars(BatchSteps)
  /\ WF_allVars(Progress /\ UNCHANGED batchVars)

-----------------------------------------------------------------------------
\* "passed" says that this batch made an attempt that ran to its end with a
\* PASS: never a PASS found from before, and never that of an attempt that
\* failed or died after its verdict.  "failed" says the opposite:
\* also of a target whose PASS from before made the child refuse.
ResultMatchesAttempt ==
  batch.at \in {"next", "child", "write"} =>
    \A t \in Targets :
      LET k == Key(t)  m == exp[k].manifest IN
      results[t] \in {"passed", "failed"} =>
        (results[t] = "passed" <=>
           /\ last[k] = "completed"
           /\ m.pass
           /\ m.n > batch.since)

\* docs/roundtrip_execution_v1.md:57: the batch goes on after a target failed,
\* whatever it left behind, and comes to its end.
BatchEnds == batch.at # "idle" ~> batch.at = "idle"
=============================================================================
