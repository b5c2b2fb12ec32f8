------------------------ MODULE TargetLifecycleProofs ------------------------
(***************************************************************************)
(* Proofs about TargetLifecycle, for every set of targets and run ids.     *)
(*                                                                         *)
(* The three scripts never run at once, so what RunTargetProofs knows of   *)
(* the attempts goes on holding.  That a run id is fresh when a target     *)
(* gets it rests on the history of its number: nothing is ever made under  *)
(* a number before the number below it was archived, and an archive is     *)
(* never taken twice.                                                      *)
(***************************************************************************)
EXTENDS TargetLifecycle, RunTargetProofs

ScriptOK ==
  /\ archived \in [Runs -> Archive]
  /\ script \in [target : Targets, id : Ids, at : {"idle", "manifest", "config"}]
  /\ replaced \in [Runs -> BOOLEAN]
  /\ cut \in [Runs -> BOOLEAN]

\* One script at a time; a run id is only running while its attempt is, and an
\* attempt works under the run id its target has.
OneAtATime ==
  /\ script.at # "idle" => proc.at = "idle"
  /\ proc.at # "idle" => config[proc.target].id = proc.id
  /\ \A k \in Runs : last[k] = "running" => proc.at # "idle" /\ k = Mine

\* Something was made under this run id.
Used(k) == exp[k] # Empty \/ archived[k].taken \/ rows[k] # NoRow

\* The numbers of a target are used one after the other.
NumbersInv ==
  \A t \in Targets, i \in Ids :
    i # 1 /\ (Used(<<t, i>>) \/ config[t].id = i) =>
      i - 1 \in Ids /\ archived[<<t, i - 1>>].taken

\* While an archive is in progress the number it will give out is free, and
\* higher than the one the target has.
NextIsFree ==
  script.at # "idle" =>
    /\ archived[<<script.target, script.id>>].taken
    /\ script.id + 1 \in Ids => ~Used(<<script.target, script.id + 1>>)

\* Where nothing was archived there is nothing.
NoneInvented == \A k \in Runs : ~archived[k].taken => archived[k].dir = Empty

\* A copy of a verdict without the manifest is what a removal left.
RemnantsCut ==
  \A k \in Runs : exp[k].report.n # 0 /\ exp[k].manifest.n = 0 => cut[k]

\* The response is written into a directory that has none.
ResponseOnce == proc.at \in Before => Dir.response.n = 0

LifeInv ==
  /\ ScriptOK
  /\ OneAtATime
  /\ NumbersInv
  /\ NextIsFree
  /\ NoneInvented
  /\ ResponseOnce
  /\ RemnantsCut
  /\ ArchivedVerdictsAreRemnants

LifeIInv == IInv /\ LifeInv

-----------------------------------------------------------------------------
\* A configuration that is written between attempts is nothing IInv speaks of.
LEMMA ConfigurationsAside ==
  ASSUME IInv, config' \in [Targets -> [id : Ids, enabled : BOOLEAN]],
         UNCHANGED <<evalVars, proc, exp, rows, attempts, last>>
  PROVE  IInv'
<1>1. TypeOK'
  BY DEF IInv, TypeOK, evalVars
<1>2. Mine' = Mine /\ Dir' = Dir /\ (Clean' <=> Clean)
  BY DEF Mine, Dir, Clean, evalVars
<1>3. ControlInv' /\ CleanInv'
  BY <1>2 DEF IInv, ControlInv, CleanInv, Excused, evalVars
<1>4. OwnDirInv' /\ CountInv'
  BY <1>2 DEF IInv, OwnDirInv, FreshInv, ResponseInv, ManifestInv, CountInv
<1>5. RowsInv' /\ VerdictMatchesResponse' /\ CompletedAgree'
  BY DEF IInv, RowsInv, VerdictMatchesResponse, CompletedAgree
<1>6. QED
  BY <1>1, <1>3, <1>4, <1>5 DEF IInv, OwnDirInv

\* Taking away a directory that has no manifest leaves the others as they are:
\* a run without a manifest has not run to its end.
LEMMA DirectoryMoves ==
  ASSUME IInv, proc.at = "idle", NEW k \in Runs, exp[k].manifest.n = 0,
         exp' = [exp EXCEPT ![k] = Empty],
         UNCHANGED <<evalVars, config, proc, rows, attempts, last>>
  PROVE  IInv'
<1>1. TypeOK'
  BY EmptyIsDirectory DEF IInv, TypeOK, evalVars
<1>2. \A r \in Runs : exp'[r] = IF r = k THEN Empty ELSE exp[r]
  BY DEF IInv, TypeOK
<1>3. ControlInv' /\ CleanInv'
  BY DEF ControlInv, CleanInv, Before
<1>4. OwnDirInv'
  BY <1>2
     DEF IInv, OwnDirInv, FreshInv, ResponseInv, ManifestInv, Before, After, Empty, NoResponse
<1>5. \A r \in Runs : VerdictsOK(exp'[r])
  <2>1. \A r \in Runs : VerdictsOK(exp[r])
    BY RunByRun DEF IInv
  <2>2. VerdictsOK(Empty)
    BY DEF VerdictsOK, Empty, NoManifest
  <2>3. QED
    BY <1>2, <2>1, <2>2
<1>6. \A r \in Runs : last[r] = "completed" => Agreed(exp'[r], rows[r])
  <2>1. \A r \in Runs : last[r] = "completed" => Agreed(exp[r], rows[r])
    BY RunByRun DEF IInv
  <2>2. last[k] # "completed"
    BY <2>1 DEF Agreed
  <2>3. QED
    BY <1>2, <2>1, <2>2
<1>7. VerdictMatchesResponse' /\ CompletedAgree'
  BY <1>5, <1>6 DEF VerdictMatchesResponse, VerdictsOK, CompletedAgree, Agreed
<1>8. RowsInv'
  <2>1. \A r \in Runs : Follows(exp[r], rows[r])
    BY DEF IInv, RowsInv
  <2>2. \A r \in Runs : Follows(Empty, rows[r])
    <3> TAKE r \in Runs
    <3>1. Empty.response.n = 0 /\ Empty.generated = 0 /\ Empty.manifest.n = 0
      BY DEF Empty, NoResponse, NoManifest
    <3>2. QED
      BY <3>1 DEF Follows
  <2>3. QED
    BY <1>2, <2>1, <2>2 DEF RowsInv
<1>9. CountInv'
  <2>1. 0 <= attempts
    BY NumbersAreNaturals, MineIsRun DEF IInv
  <2>2. QED
    BY <1>2, <2>1 DEF IInv, CountInv, Empty, NoManifest, NoResponse
<1>10. QED
  BY <1>1, <1>3, <1>4, <1>7, <1>8, <1>9 DEF IInv, OwnDirInv

\* No script disturbs what is known of the attempts.
LEMMA AttemptsStayRight ==
  ASSUME IInv, OneAtATime, [LifeNext]_allVars
  PROVE  IInv'
<1>1. CASE Attempt
  BY <1>1, NextInv DEF Attempt
<1>2. ASSUME NEW t \in Targets, NEW enable \in BOOLEAN, Configure(t, enable)
      PROVE  IInv'
  <2>1. config' \in [Targets -> [id : Ids, enabled : BOOLEAN]]
    BY <1>2, RunTargetAssumption DEF Configure, RunTargetAssumption, IInv, TypeOK
  <2>2. QED
    BY <1>2, <2>1, ConfigurationsAside DEF Configure
<1>3. ASSUME NEW t \in Targets, ArchiveMoves(t)
      PROVE  IInv'
  <2>1. Key(t) \in Runs
    BY DEF Key, Runs, IInv, TypeOK
  <2>2. QED
    BY <1>3, <2>1, DirectoryMoves DEF ArchiveMoves, MayArchive, Idle
<1>4. CASE ArchiveConfigures
  <2>1. config' \in [Targets -> [id : Ids, enabled : BOOLEAN]]
    BY <1>4, ZenonT(40) DEF ArchiveConfigures, IInv, TypeOK
  <2>2. QED
    BY <1>4, <2>1, ConfigurationsAside DEF ArchiveConfigures
<1>5. CASE UNCHANGED vars
  BY <1>5, NextInv
<1>6. CASE Stray
  BY <1>6, NextInv DEF Stray, Next, Outside
<1>7. QED
  BY <1>1, <1>2, <1>3, <1>4, <1>5, <1>6
     DEF LifeNext, ArchiveClassifies, ArchiveDies, allVars

\* What an attempt's steps do to the current run id and to the history.
LEMMA AttemptFrame ==
  ASSUME TypeOK, Next
  PROVE  /\ config' = config
         /\ proc.at = "idle" =>
              \/ proc' = proc /\ last' = last
              \/ \E t \in Targets :
                   /\ proc'.at # "idle"
                   /\ proc'.target = t /\ proc'.id = config[t].id
                   /\ last' = [last EXCEPT ![Key(t)] = "running"]
         /\ proc.at # "idle" =>
              /\ proc'.target = proc.target /\ proc'.id = proc.id
              /\ proc'.at = "idle" => last'[Mine] # "running"
<1> USE DEF TypeOK, evalVars, Leave, Goto, Ended
<1>1. Mine \in Runs
  BY MineIsRun
<1>2. CASE Starts
  BY <1>2 DEF Starts, StartPlain, StartForce, StartReprocess, Start
<1>3. CASE Wipe \/ Prepare \/ SaveConfig \/ GenerateDesign \/ Materialize
           \/ Mark \/ Report
  BY <1>3 DEF Wipe, Prepare, SaveConfig, GenerateDesign, Materialize, Mark, Report
<1>4. ASSUME NEW form \in {"good", "unusable"}, CallModel(form)
      PROVE  /\ config' = config /\ proc.at # "idle" /\ proc'.at # "idle"
             /\ proc'.target = proc.target /\ proc'.id = proc.id
  BY <1>4 DEF CallModel
<1>5. ASSUME NEW t \in Targets, EvaluateWorks(t) \/ EvaluateReturns(t)
      PROVE  /\ config' = config /\ proc.at # "idle" /\ proc'.at # "idle"
             /\ proc'.target = proc.target /\ proc'.id = proc.id
  BY <1>5 DEF EvaluateWorks, EvaluateReturns
<1>6. CASE Register \/ Unlink
  BY <1>1, <1>6, ZenonT(40) DEF Register, Unlink
<1>7. ASSUME RecordFailure
      PROVE  /\ proc'.target = proc.target /\ proc'.id = proc.id
             /\ last'[Mine] # "running"
  BY <1>1, <1>7 DEF RecordFailure
<1>8. CASE StageFails
  BY <1>7, <1>8 DEF StageFails
<1>9. ASSUME NEW t \in Targets, EvaluateRaises(t)
      PROVE  /\ config' = config /\ proc.at # "idle"
             /\ proc'.target = proc.target /\ proc'.id = proc.id
             /\ last'[Mine] # "running"
  BY <1>7, <1>9 DEF EvaluateRaises
<1>10. CASE WipeFails
  BY <1>1, <1>10 DEF WipeFails
<1>11. CASE Die
  BY <1>1, <1>11 DEF Die
<1>12. CASE Outside
  BY <1>12 DEF Outside, OperatorCleans, StrayWrites
<1>13. QED
  BY <1>2, <1>3, <1>4, <1>5, <1>6, <1>8, <1>9, <1>10, <1>11, <1>12 DEF Next, Progress

\* The archive keeps its form, and the scripts exclude each other.
LEMMA ScriptStep ==
  ASSUME IInv, ScriptOK, OneAtATime, [LifeNext]_allVars
  PROVE  ScriptOK' /\ OneAtATime'
<1>1. TypeOK
  BY DEF IInv
<1> USE DEF ScriptOK, OneAtATime, Mine
<1>2. CASE Attempt
  <2>1. ScriptOK'
    <3>1. Mine \in Runs
      BY <1>1, MineIsRun
    <3>2. /\ archived' = archived /\ script' = script
          /\ \E b \in BOOLEAN : replaced' = [replaced EXCEPT ![Mine] = b]
          /\ \E b \in BOOLEAN : cut' = [cut EXCEPT ![Mine] = b]
      BY <1>2 DEF Attempt
    <3>3. QED
      BY <3>1, <3>2
  <2>2. script.at = "idle" /\ script' = script /\ Next
    BY <1>2 DEF Attempt
  <2>3. config' = config
    BY <1>1, <2>2, AttemptFrame
  <2>4. CASE proc.at = "idle" /\ proc' = proc /\ last' = last
    BY <2>1, <2>2, <2>3, <2>4
  <2>5. ASSUME proc.at = "idle", NEW t \in Targets,
               proc'.at # "idle", proc'.target = t, proc'.id = config[t].id,
               last' = [last EXCEPT ![Key(t)] = "running"]
        PROVE  OneAtATime'
    <3>1. Key(t) = <<proc'.target, proc'.id>>
      BY <2>5 DEF Key
    <3>2. \A k \in Runs : last'[k] = "running" => k = Key(t)
      BY <1>1, <2>5 DEF TypeOK
    <3>3. QED
      BY <2>2, <2>3, <2>5, <3>1, <3>2
  <2>6. CASE proc.at # "idle"
    <3>1. /\ proc'.target = proc.target /\ proc'.id = proc.id
          /\ proc'.at = "idle" => last'[Mine] # "running"
      BY <1>1, <2>2, <2>6, AttemptFrame
    <3>2. \A k \in Runs : k # Mine => last'[k] = last[k]
      BY <1>1, <2>2, <2>6, AttemptWritesItsOwn DEF OwnOnly
    <3>3. QED
      BY <2>1, <2>2, <2>3, <2>6, <3>1, <3>2
  <2>7. QED
    BY <1>1, <2>1, <2>2, <2>4, <2>5, <2>6, AttemptFrame
<1>3. ASSUME NEW t \in Targets, NEW enable \in BOOLEAN, Configure(t, enable)
      PROVE  ScriptOK' /\ OneAtATime'
  BY <1>3 DEF Configure, Idle, lifeVars
<1>4. ASSUME NEW t \in Targets, ArchiveMoves(t)
      PROVE  ScriptOK' /\ OneAtATime'
  <2>1. Key(t) \in Runs /\ exp[Key(t)] \in Directory /\ config[t].id \in Ids
    BY <1>1 DEF TypeOK, Key, Runs
  <2>2. last[Key(t)] \in {"none", "failed", "died", "completed"}
    BY <1>1, <1>4, <2>1 DEF ArchiveMoves, Idle, TypeOK
  <2>3. replaced[Key(t)] \in BOOLEAN /\ cut[Key(t)] \in BOOLEAN
    BY <2>1
  <2>4. \E a \in Archive : archived' = [archived EXCEPT ![Key(t)] = a]
    BY <1>4, <2>1, <2>2, <2>3 DEF ArchiveMoves, Archive
  <2>5. archived' \in [Runs -> Archive]
    BY <2>4
  <2>6. /\ script' = [target |-> t, id |-> config[t].id, at |-> "manifest"]
        /\ replaced' = [replaced EXCEPT ![Key(t)] = FALSE]
        /\ cut' = [cut EXCEPT ![Key(t)] = FALSE]
        /\ UNCHANGED <<config, proc, last>> /\ proc.at = "idle"
    BY <1>4 DEF ArchiveMoves, Idle
  <2>7. replaced' \in [Runs -> BOOLEAN] /\ cut' \in [Runs -> BOOLEAN]
    BY <2>6
  <2>8. script' \in [target : Targets, id : Ids, at : {"idle", "manifest", "config"}]
    BY <2>1, <2>6
  <2>9. script'.target = t /\ script'.id = config'[t].id /\ script'.at = "manifest"
    BY <2>6
  <2>10. QED
    BY <2>5, <2>6, <2>7, <2>8, <2>9
<1>5. CASE ArchiveClassifies
  <2>1. /\ script' = [script EXCEPT !.at = "config"] /\ script.at = "manifest"
        /\ UNCHANGED <<config, proc, last, replaced, cut>>
    BY <1>5 DEF ArchiveClassifies, vars
  <2>2. archived' \in [Runs -> Archive]
    <3> DEFINE k == <<script.target, script.id>>
               new == [archived[k] EXCEPT !.manifest = TRUE]
    <3>1. archived' = [archived EXCEPT ![k] = new]
      BY <1>5 DEF ArchiveClassifies
    <3>2. archived[k] \in Archive
      <4>1. k \in Runs
        BY DEF Runs
      <4>2. QED
        BY <4>1
    <3>3. new \in Archive
      <4> HIDE DEF k
      <4>1. QED
        BY <3>2 DEF Archive
    <3> HIDE DEF k, new
    <3>4. QED
      BY <3>1, <3>3
  <2>3. QED
    BY <2>1, <2>2
<1>6. CASE ArchiveConfigures
  <2>1. script.at = "config" /\ script' = [script EXCEPT !.at = "idle"]
        /\ UNCHANGED <<proc, last, archived, replaced, cut>>
    BY <1>6 DEF ArchiveConfigures
  <2>2. QED
    BY <2>1
<1>7. CASE ArchiveDies
  BY <1>7 DEF ArchiveDies, vars
<1>8. CASE UNCHANGED allVars \/ Stray
  BY <1>8 DEF allVars, vars, lifeVars, Stray, StrayWrites
<1>9. QED
  BY <1>2, <1>3, <1>4, <1>5, <1>6, <1>7, <1>8 DEF LifeNext

\* An attempt makes something only under the run id it works under.
LEMMA AttemptUsesItsOwn ==
  ASSUME IInv, OneAtATime, Attempt, NEW k \in Runs, Used(k)', ~Used(k)
  PROVE  k = Mine /\ proc.at # "idle"
<1>1. SUFFICES ASSUME k # Mine \/ proc.at = "idle"
               PROVE  FALSE
  OBVIOUS
<1>2. TypeOK /\ Next /\ archived' = archived
  BY DEF IInv, Attempt
<1>3. exp'[k] = exp[k] /\ rows'[k] \in {rows[k], NoRow}
  BY <1>1, <1>2, OthersKept
<1>4. QED
  BY <1>2, <1>3 DEF Used

\* The numbers of a target go on being used one after the other, and the number
\* that an archive will give out stays free.
LEMMA NumbersStep ==
  ASSUME IInv, ScriptOK, OneAtATime, NumbersInv, NextIsFree, [LifeNext]_allVars
  PROVE  NumbersInv' /\ NextIsFree'
<1>1. TypeOK /\ Ids \subseteq Nat \ {0} /\ 1 \in Ids
  BY RunTargetAssumption DEF IInv, RunTargetAssumption
\* What is the same for the steps that move no directory and give no number.
<1>2. ASSUME config' = config, archived' = archived,
             \A k \in Runs : Used(k)' => Used(k) \/ (k = Mine /\ proc.at # "idle")
      PROVE  NumbersInv'
  <2> SUFFICES ASSUME NEW t \in Targets, NEW i \in Ids, i # 1,
                      Used(<<t, i>>)' \/ config'[t].id = i
               PROVE  i - 1 \in Ids /\ archived'[<<t, i - 1>>].taken
    BY DEF NumbersInv
  <2>1. <<t, i>> \in Runs
    BY DEF Runs
  <2>2. CASE Used(<<t, i>>) \/ config[t].id = i
    BY <1>2, <2>2 DEF NumbersInv
  <2>3. CASE <<t, i>> = Mine /\ proc.at # "idle"
    <3>1. config[t].id = i
      BY <2>3 DEF OneAtATime, Mine
    <3>2. QED
      BY <1>2, <3>1 DEF NumbersInv
  <2>4. QED
    BY <1>2, <2>1, <2>2, <2>3
<1>3. CASE Attempt
  <2>1. script.at = "idle" /\ script' = script /\ archived' = archived /\ config' = config
    BY <1>1, <1>3, AttemptFrame DEF Attempt
  <2>2. NumbersInv'
    BY <1>2, <1>3, <2>1, AttemptUsesItsOwn
  <2>3. QED
    BY <2>1, <2>2 DEF NextIsFree
<1>4. ASSUME NEW t \in Targets, NEW enable \in BOOLEAN, Configure(t, enable)
      PROVE  NumbersInv' /\ NextIsFree'
  <2>1. /\ config' = [config EXCEPT ![t] = [id |-> 1, enabled |-> enable]]
        /\ UNCHANGED <<exp, rows, archived, script>>
    BY <1>4 DEF Configure, lifeVars
  <2>2. \A u \in Targets : config'[u].id \in {config[u].id, 1}
    BY <1>1, <2>1 DEF TypeOK
  <2>3. \A k \in Runs : Used(k)' <=> Used(k)
    BY <2>1 DEF Used
  <2>4. NumbersInv'
    BY <2>1, <2>2, <2>3 DEF NumbersInv, Used
  <2>5. NextIsFree'
    BY <2>1 DEF NextIsFree, Used
  <2>6. QED
    BY <2>4, <2>5
<1>5. ASSUME NEW t \in Targets, ArchiveMoves(t)
      PROVE  NumbersInv' /\ NextIsFree'
  <2> DEFINE i == config[t].id
  <2>1. i \in Ids /\ Key(t) = <<t, i>> /\ Key(t) \in Runs
    BY <1>1 DEF TypeOK, Key, Runs
  <2>2. /\ config' = config /\ rows' = rows
        /\ script' = [target |-> t, id |-> i, at |-> "manifest"]
        /\ ~archived[Key(t)].taken
    BY <1>5 DEF ArchiveMoves, MayArchive
  <2>3. /\ \A k \in Runs : k # Key(t) => exp'[k] = exp[k] /\ archived'[k] = archived[k]
        /\ archived'[Key(t)].taken
    BY <1>1, <1>5, <2>1 DEF ArchiveMoves, TypeOK, ScriptOK
  <2>4. NumbersInv'
    <3> SUFFICES ASSUME NEW u \in Targets, NEW j \in Ids, j # 1,
                        Used(<<u, j>>)' \/ config'[u].id = j
                 PROVE  j - 1 \in Ids /\ archived'[<<u, j - 1>>].taken
      BY DEF NumbersInv
    <3>1. Used(<<u, j>>) \/ config[u].id = j
      BY <2>1, <2>2, <2>3 DEF Used, Runs
    <3>2. j - 1 \in Ids /\ archived[<<u, j - 1>>].taken
      BY <3>1 DEF NumbersInv
    <3>3. QED
      BY <2>3, <3>2 DEF Runs
  <2>5. ASSUME NEW j \in Ids, j = i + 1
        PROVE  ~Used(<<t, j>>)'
    <3> HIDE DEF i
    <3>1. j = i + 1
      BY <2>5
    <3>2. j # 1 /\ j - 1 = i
      BY <1>1, <2>1, <3>1
    <3>3. ~Used(<<t, j>>)
      <4>1. Used(<<t, j>>) => archived[<<t, j - 1>>].taken
        BY <3>2 DEF NumbersInv
      <4>2. ~archived[<<t, j - 1>>].taken
        BY <2>1, <2>2, <3>2
      <4>3. QED
        BY <4>1, <4>2
    <3>4. <<t, j>> \in Runs /\ <<t, j>> # Key(t)
      BY <1>1, <2>1, <3>1 DEF Runs
    <3>5. QED
      BY <2>2, <2>3, <3>3, <3>4 DEF Used
  <2>6. NextIsFree'
    BY <2>1, <2>2, <2>3, <2>5 DEF NextIsFree
  <2>7. QED
    BY <2>4, <2>6
<1>6. CASE ArchiveClassifies
  <2>1. /\ UNCHANGED <<exp, rows, config>> /\ script.at # "idle"
        /\ script'.target = script.target /\ script'.id = script.id
    BY <1>6 DEF ArchiveClassifies, vars, ScriptOK
  <2>2. \A k \in Runs : archived'[k].taken <=> archived[k].taken
    BY <1>6, ZenonT(40) DEF ArchiveClassifies, ScriptOK, Archive
  <2>3. \A k \in Runs : Used(k)' <=> Used(k)
    BY <2>1, <2>2 DEF Used
  <2>4. NumbersInv'
    BY <2>1, <2>2, <2>3 DEF NumbersInv, Runs
  <2>5. NextIsFree'
    BY <2>1, <2>2, <2>3 DEF NextIsFree, Runs, ScriptOK
  <2>6. QED
    BY <2>4, <2>5
<1>7. CASE ArchiveConfigures
  <2> DEFINE t == script.target
             i == script.id
  <2>1. /\ t \in Targets /\ i \in Ids /\ i + 1 \in Ids /\ (i + 1) - 1 = i
        /\ archived[<<t, i>>].taken
    BY <1>1, <1>7 DEF ArchiveConfigures, ScriptOK, NextIsFree
  <2>2. /\ config' = [config EXCEPT ![t].id = i + 1]
        /\ script'.at = "idle" /\ UNCHANGED <<exp, rows, archived>>
    BY <1>7 DEF ArchiveConfigures, ScriptOK
  <2>3. \A u \in Targets : config'[u].id = IF u = t THEN i + 1 ELSE config[u].id
    BY <1>1, <2>1, <2>2 DEF TypeOK
  <2>4. NumbersInv'
    BY <2>1, <2>2, <2>3 DEF NumbersInv, Used
  <2>5. NextIsFree'
    BY <2>2 DEF NextIsFree
  <2>6. QED
    BY <2>4, <2>5
<1>8. CASE ArchiveDies
  <2>1. /\ UNCHANGED <<exp, rows, config, archived>> /\ script'.at = "idle"
    BY <1>8 DEF ArchiveDies, vars, ScriptOK
  <2>2. QED
    BY <2>1 DEF NumbersInv, NextIsFree, Used
<1>9. CASE UNCHANGED allVars \/ Stray
  <2>1. UNCHANGED <<exp, rows, config, archived, script>>
    BY <1>9 DEF allVars, vars, lifeVars, Stray, StrayWrites
  <2>2. QED
    BY <2>1 DEF NumbersInv, NextIsFree, Used
<1>10. QED
  BY <1>3, <1>4, <1>5, <1>6, <1>7, <1>8, <1>9 DEF LifeNext

\* A copy of a verdict next to no manifest was so before, but for a removal: the
\* copy is only written from a manifest, and nothing else takes that away.
LEMMA VerdictsLeave ==
  ASSUME IInv, Next, proc.at # "idle", proc.at # "wipe",
         exp'[Mine].report.n # 0, exp'[Mine].manifest.n = 0
  PROVE  Dir.report.n # 0 /\ Dir.manifest.n = 0
<1>1. TypeOK /\ Mine \in Runs /\ Dir = exp[Mine] /\ Dir \in Directory
  BY MineIsRun DEF IInv, TypeOK, Dir
<1> USE <1>1 DEF TypeOK, Leave, Goto, Ended, Directory
<1>2. ASSUME exp'[Mine].report = Dir.report, exp'[Mine].manifest = Dir.manifest
      PROVE  Dir.report.n # 0 /\ Dir.manifest.n = 0
  BY <1>2
<1>3. ASSUME exp' = exp
      PROVE  Dir.report.n # 0 /\ Dir.manifest.n = 0
  BY <1>3
<1>4. ASSUME NEW form \in {"good", "unusable"}, CallModel(form)
      PROVE  Dir.report.n # 0 /\ Dir.manifest.n = 0
  BY <1>2, <1>4 DEF CallModel
<1>5. CASE Prepare
  BY <1>2, <1>5 DEF Prepare
<1>6. CASE SaveConfig
  BY <1>2, <1>6 DEF SaveConfig
<1>7. CASE Materialize
  BY <1>2, <1>7 DEF Materialize
<1>8. ASSUME NEW t \in Targets, EvaluateReturns(t)
      PROVE  FALSE
  <2>1. PICK m \in Manifest :
          /\ exp' = [exp EXCEPT ![Mine] = [Dir EXCEPT !.manifest = m]]
          /\ m.n = Dir.generated
    BY <1>8, ManifestReturned
  <2>2. Dir.generated # 0
    BY <1>8 DEF EvaluateReturns, IInv, ResponseInv
  <2>3. QED
    BY <2>1, <2>2
<1>9. CASE Mark
  <2>1. /\ exp'[Mine].report = Dir.report
        /\ exp'[Mine].manifest = [Dir.manifest EXCEPT !.marked = TRUE]
    BY <1>9 DEF Mark
  <2>2. exp'[Mine].manifest.n = Dir.manifest.n
    BY <2>1 DEF Manifest
  <2>3. QED
    BY <2>1, <2>2
<1>10. CASE Report
  <2>1. exp'[Mine].manifest = Dir.manifest /\ proc.at = "report"
    BY <1>10 DEF Report
  <2>2. Dir.manifest.n # 0
    BY <2>1 DEF IInv, ManifestInv, After
  <2>3. QED
    BY <2>1, <2>2
<1>11. CASE Unlink
  BY <1>2, <1>11 DEF Unlink
<1>12. CASE RecordFailure
  BY <1>2, <1>12 DEF RecordFailure
<1>13. CASE Die
  BY <1>3, <1>13 DEF Die
<1>14. QED
  BY <1>3, <1>4, <1>5, <1>6, <1>7, <1>8, <1>9, <1>10, <1>11, <1>12, <1>13
     DEF Next, Progress, Starts, StartPlain, StartForce, StartReprocess, Wipe, WipeFails,
         GenerateDesign, EvaluateWorks, EvaluateRaises, Register, StageFails, Outside,
         OperatorCleans, StrayWrites

\* Only a removal that stopped takes the manifest and leaves the copy.
LEMMA RemnantsStep ==
  ASSUME IInv, ScriptOK, RemnantsCut, [LifeNext]_allVars
  PROVE  RemnantsCut'
<1>1. TypeOK /\ Mine \in Runs /\ Dir = exp[Mine] /\ Dir \in Directory
  BY MineIsRun DEF IInv, TypeOK, Dir
<1>2. Empty.report.n = 0
  BY DEF Empty, NoManifest
<1>3. ASSUME exp' = exp, cut' = cut
      PROVE  RemnantsCut'
  BY <1>3 DEF RemnantsCut
<1>4. ASSUME NEW t \in Targets, ArchiveMoves(t)
      PROVE  RemnantsCut'
  <2>1. /\ exp' = [exp EXCEPT ![Key(t)] = Empty]
        /\ cut' = [cut EXCEPT ![Key(t)] = FALSE]
    BY <1>4 DEF ArchiveMoves
  <2>2. QED
    BY <1>1, <1>2, <2>1 DEF RemnantsCut, TypeOK, ScriptOK
<1>5. CASE Attempt
  <2>1. /\ Next
        /\ \A k \in Runs : k # Mine => cut'[k] = cut[k]
        /\ cut'[Mine] <=> (cut[Mine] \/ proc.at = "wipe") /\ exp'[Mine] # Empty
    BY <1>1, <1>5 DEF Attempt, ScriptOK
  <2>2. ASSUME NEW k \in Runs, k # Mine \/ proc.at = "idle",
               exp'[k].report.n # 0, exp'[k].manifest.n = 0
        PROVE  cut'[k]
    <3>1. exp'[k] = exp[k]
      BY <1>1, <2>1, <2>2, OthersKept
    <3>2. cut[k] /\ exp'[k] # Empty
      BY <1>2, <2>2, <3>1 DEF RemnantsCut
    <3>3. QED
      BY <2>1, <3>2
  <2>3. ASSUME proc.at # "idle", exp'[Mine].report.n # 0, exp'[Mine].manifest.n = 0
        PROVE  cut'[Mine]
    <3>1. exp'[Mine] # Empty
      BY <1>2, <2>3
    <3>2. CASE proc.at = "wipe"
      BY <2>1, <3>1, <3>2
    <3>3. CASE proc.at # "wipe"
      <4>1. Dir.report.n # 0 /\ Dir.manifest.n = 0
        BY <2>1, <2>3, <3>3, VerdictsLeave
      <4>2. QED
        BY <1>1, <2>1, <3>1, <4>1 DEF RemnantsCut
    <3>4. QED
      BY <3>2, <3>3
  <2>4. QED
    BY <2>2, <2>3 DEF RemnantsCut
<1>6. QED
  BY <1>3, <1>4, <1>5
     DEF LifeNext, Configure, ArchiveClassifies, ArchiveConfigures, ArchiveDies, Stray,
         StrayWrites, allVars, vars, lifeVars

\* What is archived has not run to its end, and has a verdict only as a remnant;
\* what is not archived is nothing.
LEMMA ArchiveStep ==
  ASSUME IInv, ScriptOK, NoneInvented, RemnantsCut, ArchivedVerdictsAreRemnants,
         [LifeNext]_allVars
  PROVE  NoneInvented' /\ ArchivedVerdictsAreRemnants'
<1> USE DEF NoneInvented, ArchivedVerdictsAreRemnants, ScriptOK
<1>1. ASSUME NEW t \in Targets, ArchiveMoves(t)
      PROVE  NoneInvented' /\ ArchivedVerdictsAreRemnants'
  <2>1. Key(t) \in Runs
    BY DEF IInv, TypeOK, Key, Runs
  <2>2. exp[Key(t)].manifest.n = 0
    BY <1>1 DEF ArchiveMoves, MayArchive
  <2>3. last[Key(t)] # "completed"
    BY <2>1, <2>2 DEF IInv, CompletedAgree
  <2>4. exp[Key(t)].report.n # 0 => cut[Key(t)]
    BY <2>1, <2>2 DEF RemnantsCut
  <2>5. archived' = [archived EXCEPT ![Key(t)] =
          [taken |-> TRUE, dir |-> exp[Key(t)], manifest |-> FALSE,
           how |-> last[Key(t)], replaced |-> replaced[Key(t)], cut |-> cut[Key(t)]]]
    BY <1>1 DEF ArchiveMoves
  <2>6. QED
    BY <2>1, <2>2, <2>3, <2>4, <2>5
<1>2. CASE ArchiveClassifies
  <2> DEFINE c == <<script.target, script.id>>
  <2>1. \A k \in Runs :
          archived'[k] = IF k = c THEN [archived[k] EXCEPT !.manifest = TRUE]
                         ELSE archived[k]
    BY <1>2 DEF ArchiveClassifies
  <2>2. \A k \in Runs : /\ archived'[k].taken <=> archived[k].taken
                        /\ archived'[k].dir = archived[k].dir
                        /\ archived'[k].how = archived[k].how
                        /\ archived'[k].cut <=> archived[k].cut
    <3> TAKE k \in Runs
    <3>1. archived[k] \in Archive
      OBVIOUS
    <3>2. CASE k = c
      <4>1. archived'[k] = [archived[k] EXCEPT !.manifest = TRUE]
        BY <2>1, <3>2
      <4>2. QED
        BY <3>1, <4>1 DEF Archive
    <3>3. CASE k # c
      BY <2>1, <3>3
    <3>4. QED
      BY <3>2, <3>3
  <2>3. QED
    BY <2>2
<1>3. ASSUME archived' = archived
      PROVE  NoneInvented' /\ ArchivedVerdictsAreRemnants'
  BY <1>3
<1>4. QED
  BY <1>1, <1>2, <1>3
     DEF LifeNext, Attempt, Configure, ArchiveConfigures, ArchiveDies, Stray, allVars,
         lifeVars

\* Only --force takes the response of a directory away: a call that saves one
\* finds none.
LEMMA ResponseStays ==
  ASSUME IInv, ResponseOnce, Next, proc.at # "idle", proc.at # "wipe",
         exp'[Mine].response.n # Dir.response.n
  PROVE  Dir.response.n = 0
<1>1. TypeOK /\ Mine \in Runs /\ Dir = exp[Mine] /\ Dir \in Directory
  BY MineIsRun DEF IInv, TypeOK, Dir
<1>2. exp # exp' /\ exp'[Mine].response # Dir.response
  BY <1>1
<1> USE <1>1, <1>2 DEF TypeOK, evalVars, Leave, Goto, Ended, Directory
<1>3. ASSUME NEW form \in {"good", "unusable"}, CallModel(form)
      PROVE  Dir.response.n = 0
  BY <1>3 DEF CallModel, ResponseOnce, Before
<1>4. CASE Prepare
  BY <1>4 DEF Prepare
<1>5. CASE SaveConfig
  BY <1>5 DEF SaveConfig
<1>6. CASE Materialize
  BY <1>6 DEF Materialize
<1>7. ASSUME NEW t \in Targets, EvaluateReturns(t)
      PROVE  FALSE
  <2>1. PICK m \in Manifest : exp' = [exp EXCEPT ![Mine] = [Dir EXCEPT !.manifest = m]]
    BY <1>7, ManifestReturned
  <2>2. QED
    BY <2>1
<1>8. CASE Mark
  BY <1>8 DEF Mark
<1>9. CASE Report
  BY <1>9 DEF Report
<1>10. CASE Unlink
  BY <1>10 DEF Unlink
<1>11. CASE RecordFailure
  BY <1>11 DEF RecordFailure
<1>12. CASE Die
  BY <1>12 DEF Die
<1>13. QED
  BY <1>3, <1>4, <1>5, <1>6, <1>7, <1>8, <1>9, <1>10, <1>11, <1>12
     DEF Next, Progress, Starts, StartPlain, StartForce, StartReprocess, Wipe, WipeFails,
         GenerateDesign, EvaluateWorks, EvaluateRaises, Register, StageFails, Outside,
         OperatorCleans, StrayWrites

\* An attempt comes to its call without a response in its directory.
LEMMA ResponseOnceStep ==
  ASSUME IInv, ResponseOnce, [LifeNext]_allVars
  PROVE  ResponseOnce'
<1>1. TypeOK /\ Mine \in Runs /\ Dir = exp[Mine] /\ Dir \in Directory
  BY MineIsRun DEF IInv, TypeOK, Dir
<1>2. ASSUME proc' = proc, exp' = exp \/ proc.at = "idle"
      PROVE  ResponseOnce'
  BY <1>2 DEF ResponseOnce, Before, Dir, Mine
<1>3. ASSUME proc'.at \notin Before
      PROVE  ResponseOnce'
  BY <1>3 DEF ResponseOnce
<1>4. ASSUME Next
      PROVE  ResponseOnce'
  <2> USE <1>1 DEF evalVars, Leave, Goto, Ended, Before
  <2>1. ASSUME NEW t \in Targets, StartPlain(t)
        PROVE  ResponseOnce'
    BY <2>1
       DEF StartPlain, Start, ResponseOnce, Dir, Mine, Key, Empty, NoResponse
  <2>2. ASSUME NEW t \in Targets, StartForce(t) \/ StartReprocess(t)
        PROVE  ResponseOnce'
    BY <1>3, <2>2 DEF StartForce, StartReprocess, Start
  <2>3. CASE Wipe
    BY <2>3 DEF Wipe, TypeOK, ResponseOnce, Dir, Mine, Empty, NoResponse
  <2>4. ASSUME proc.at \in Before, Mine' = Mine, exp'[Mine].response = Dir.response
        PROVE  ResponseOnce'
    BY <2>4 DEF ResponseOnce, Dir
  <2>5. CASE Prepare
    BY <2>4, <2>5 DEF Prepare, TypeOK, Directory, Mine
  <2>6. CASE SaveConfig
    BY <2>4, <2>6 DEF SaveConfig, TypeOK, Directory, Mine
  <2>7. CASE GenerateDesign
    BY <2>4, <2>7 DEF GenerateDesign, TypeOK, Mine
  <2>8. ASSUME NEW form \in {"good", "unusable"}, CallModel(form)
        PROVE  ResponseOnce'
    BY <1>3, <2>8 DEF CallModel, TypeOK
  <2>9. CASE Materialize \/ Mark \/ Report \/ Register \/ Unlink
    BY <1>3, <2>9 DEF Materialize, Mark, Report, Register, Unlink, TypeOK
  <2>10. ASSUME NEW t \in Targets, EvaluateWorks(t)
         PROVE  ResponseOnce'
    BY <1>2, <2>10 DEF EvaluateWorks
  <2>11. ASSUME NEW t \in Targets, EvaluateReturns(t)
         PROVE  ResponseOnce'
    <3>1. proc' = [proc EXCEPT !.at = IF proc.mode = "reprocess" THEN "mark" ELSE "report"]
      BY <2>11 DEF EvaluateReturns
    <3>2. QED
      BY <1>3, <3>1 DEF TypeOK
  <2>12. CASE RecordFailure \/ WipeFails \/ Die
    BY <1>3, <2>12, ZenonT(40) DEF RecordFailure, WipeFails, Die, TypeOK
  <2>13. CASE Outside
    BY <1>2, <2>13 DEF Outside, OperatorCleans, StrayWrites
  <2>14. QED
    BY <1>4, <2>1, <2>2, <2>3, <2>5, <2>6, <2>7, <2>8, <2>9, <2>10, <2>11, <2>12, <2>13
       DEF Next, Progress, Starts, StageFails, EvaluateRaises
<1>5. QED
  BY <1>2, <1>4
     DEF LifeNext, Attempt, Configure, ArchiveMoves, ArchiveClassifies, ArchiveConfigures,
         ArchiveDies, Stray, StrayWrites, Idle, allVars, vars

-----------------------------------------------------------------------------
\* It holds before the first attempt and the first archive.
LEMMA LifeInitInv == LifeInit => LifeIInv
<1> SUFFICES ASSUME LifeInit PROVE LifeIInv
  OBVIOUS
<1>1. IInv
  BY InitInv DEF LifeInit
<1>2. 1 \in Ids /\ 0 \notin Ids
  BY RunTargetAssumption DEF RunTargetAssumption
<1>3. ScriptOK
  BY <1>2, EmptyIsDirectory DEF LifeInit, ScriptOK, Archive, NoArchive
<1>4. /\ proc.at = "idle" /\ script.at = "idle"
      /\ \A t \in Targets : config[t].id = 1
      /\ \A k \in Runs : /\ exp[k] = Empty /\ rows[k] = NoRow /\ last[k] = "none"
                        /\ archived[k] = NoArchive
  BY DEF LifeInit, Init
<1>5. OneAtATime /\ NextIsFree /\ NoneInvented /\ ResponseOnce
  BY <1>4 DEF OneAtATime, NextIsFree, NoneInvented, ResponseOnce, Before, NoArchive
<1>6. NumbersInv
  BY <1>4 DEF NumbersInv, Used, NoArchive, Runs
<1>7. RemnantsCut /\ ArchivedVerdictsAreRemnants
  <2>1. Empty.report.n = 0 /\ ~NoArchive.taken
    BY DEF Empty, NoManifest, NoArchive
  <2>2. QED
    BY <1>4, <2>1 DEF RemnantsCut, ArchivedVerdictsAreRemnants
<1>8. QED
  BY <1>1, <1>3, <1>5, <1>6, <1>7 DEF LifeIInv, LifeInv

\* Neither an attempt nor an archiving, complete or stopped, disturbs it.
LEMMA LifeNextInv == LifeIInv /\ [LifeNext]_allVars => LifeIInv'
BY AttemptsStayRight, ScriptStep, NumbersStep, RemnantsStep, ArchiveStep, ResponseOnceStep
   DEF LifeIInv, LifeInv

\* The inductive invariant holds in every state the three scripts can reach.
THEOREM LifeInvariance == LifeSpec => []LifeIInv
BY LifeInitInv, LifeNextInv, PTL DEF LifeSpec

\* Every variable of the scripts keeps its type.
THEOREM LifeTypeCorrect == LifeSpec => []LifeTypeOK
<1>1. LifeIInv => LifeTypeOK
  BY DEF LifeIInv, LifeInv, IInv, ScriptOK, LifeTypeOK
<1>2. QED
  BY <1>1, LifeInvariance, PTL

\* Archives and configure --force between the attempts take nothing away from
\* what the attempts leave: verdicts on the saved response, and agreed records.
THEOREM RecordsSurvive == LifeSpec => [](VerdictMatchesResponse /\ CompletedAgree)
<1>1. LifeIInv => VerdictMatchesResponse /\ CompletedAgree
  BY DEF LifeIInv, IInv
<1>2. QED
  BY <1>1, LifeInvariance, PTL

\* What archive_failed_pilot.py moves aside has not run to its end, and holds a
\* verdict only if a removal by --force stopped half-way in it.
THEOREM ArchivedRemnants == LifeSpec => []ArchivedVerdictsAreRemnants
<1>1. LifeIInv => ArchivedVerdictsAreRemnants
  BY DEF LifeIInv, LifeInv
<1>2. QED
  BY <1>1, LifeInvariance, PTL

\* The run id a target gets from an archive was never used before.
THEOREM RunIdsAreFresh == LifeSpec => FreshRunId
<1>1. ASSUME LifeIInv, [LifeNext]_allVars, NEW t \in Targets,
             config'[t].id > config[t].id
      PROVE  LET k == <<t, config'[t].id>> IN
             exp[k] = Empty /\ ~archived[k].taken /\ rows[k] = NoRow
  <2>1. TypeOK /\ ScriptOK /\ NextIsFree /\ Ids \subseteq Nat \ {0}
    BY <1>1, RunTargetAssumption DEF LifeIInv, LifeInv, IInv, RunTargetAssumption
  <2>2. config[t].id \in Nat \ {0}
    BY <2>1 DEF TypeOK
  <2>3. config' # config
    BY <1>1, <2>2
  <2>4. ASSUME NEW u \in Targets, NEW enable \in BOOLEAN, Configure(u, enable)
        PROVE  FALSE
    <3>1. config'[t].id \in {1, config[t].id}
      BY <2>1, <2>4 DEF Configure, TypeOK
    <3>2. QED
      BY <1>1, <2>2, <3>1
  <2>5. ~Attempt
    BY <2>1, <2>3, AttemptFrame DEF Attempt
  <2>6. ArchiveConfigures
    BY <1>1, <2>3, <2>4, <2>5
       DEF LifeNext, ArchiveMoves, ArchiveClassifies, ArchiveDies, Stray, StrayWrites,
           allVars, vars
  <2>7. /\ script.at # "idle" /\ script.id + 1 \in Ids
        /\ config' = [config EXCEPT ![script.target].id = script.id + 1]
    BY <2>6 DEF ArchiveConfigures
  <2>8. t = script.target /\ config'[t].id = script.id + 1
    BY <1>1, <2>1, <2>2, <2>7 DEF TypeOK, ScriptOK
  <2>9. ~Used(<<t, script.id + 1>>)
    BY <2>1, <2>7, <2>8 DEF NextIsFree
  <2>10. QED
    BY <2>8, <2>9 DEF Used
<1>2. LifeIInv /\ [LifeNext]_allVars =>
        [\A t \in Targets :
           config'[t].id > config[t].id =>
             LET k == <<t, config'[t].id>> IN
             exp[k] = Empty /\ ~archived[k].taken /\ rows[k] = NoRow]_allVars
  BY <1>1
<1>3. QED
  BY <1>2, LifeInvariance, PTL DEF LifeSpec, FreshRunId

\* Only --force loses the response of a call.
THEOREM ResponsesAreKept == LifeSpec => ResponsesKept
<1>1. ASSUME LifeIInv, [LifeNext]_allVars, NEW n \in 1..MaxAttempts,
             Held(exp, archived, n), ~Held(exp', archived', n)
      PROVE  proc.at = "wipe" /\ proc.mode = "force"
  <2>1. /\ IInv /\ TypeOK /\ ControlInv
        /\ ScriptOK /\ NoneInvented /\ ResponseOnce
    BY <1>1 DEF LifeIInv, LifeInv, IInv
  <2>2. PICK k \in Runs : n \in {exp[k].response.n, archived[k].dir.response.n}
    BY <1>1 DEF Held
  <2>3. n # exp'[k].response.n /\ n # archived'[k].dir.response.n /\ n # 0
    BY <1>1 DEF Held
  <2>4. ASSUME NEW t \in Targets, ArchiveMoves(t)
        PROVE  FALSE
    <3>1. /\ exp' = [exp EXCEPT ![Key(t)] = Empty]
          /\ archived' = [archived EXCEPT ![Key(t)] =
               [taken |-> TRUE, dir |-> exp[Key(t)], manifest |-> FALSE,
                how |-> last[Key(t)], replaced |-> replaced[Key(t)],
                cut |-> cut[Key(t)]]]
          /\ ~archived[Key(t)].taken
      BY <2>4 DEF ArchiveMoves, MayArchive
    <3>2. k = Key(t)
      BY <2>1, <2>2, <2>3, <3>1 DEF TypeOK, ScriptOK
    <3>3. archived'[k].dir = exp[k]
      BY <2>1, <3>1, <3>2 DEF ScriptOK
    <3>4. archived[k].dir.response.n = 0
      BY <2>1, <3>1, <3>2 DEF NoneInvented, Empty, NoResponse
    <3>5. QED
      BY <2>2, <2>3, <3>3, <3>4
  <2>5. CASE Attempt
    <3>1. Next /\ archived' = archived
      BY <2>5 DEF Attempt
    <3>2. n = exp[k].response.n /\ exp'[k].response.n # n
      BY <2>2, <2>3, <3>1
    <3>3. k = Mine /\ proc.at # "idle"
      BY <2>1, <3>1, <3>2, OthersKept
    <3>4. proc.at = "wipe"
      BY <2>1, <2>3, <3>1, <3>2, <3>3, ResponseStays DEF Dir
    <3>5. QED
      BY <2>1, <3>4 DEF ControlInv
  <2>6. CASE ArchiveClassifies
    <3>1. exp' = exp /\ archived'[k].dir = archived[k].dir
      BY <2>1, <2>6 DEF ArchiveClassifies, vars, ScriptOK, Archive
    <3>2. QED
      BY <2>2, <2>3, <3>1
  <2>7. CASE UNCHANGED <<exp, archived>>
    BY <2>2, <2>3, <2>7
  <2>8. QED
    BY <1>1, <2>4, <2>5, <2>6, <2>7
       DEF LifeNext, Configure, ArchiveConfigures, ArchiveDies, Stray, StrayWrites,
           allVars, vars, lifeVars
<1>2. LifeIInv /\ [LifeNext]_allVars =>
        [\A n \in 1..MaxAttempts :
           Held(exp, archived, n) /\ ~Held(exp', archived', n) =>
             proc.at = "wipe" /\ proc.mode = "force"]_allVars
  BY <1>1
<1>3. QED
  BY <1>2, LifeInvariance, PTL DEF LifeSpec, ResponsesKept
=============================================================================
