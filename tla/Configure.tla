------------------------------ MODULE Configure ------------------------------
(***************************************************************************)
(* scripts/roundtrip/configure_execution.py on the drafts of Catalog: for  *)
(* one target after the other the symbol and the tests are inferred from   *)
(* the repository, the baseline is probed when asked for, and the final    *)
(* configuration is written.  The operator runs one script at a time, with *)
(* or without --probe, --force and --target.                               *)
(***************************************************************************)
EXTENDS Catalog

CONSTANT Scans \* per target: what scan_classes() and scan_gtests() may find

\* Class names and test suites that are the target's name when normalized, and
\* those of which one contains the other; how many of the source files define
\* the class; whether there is a template and a checkout of the repository.
Scan ==
  [classes : SUBSET STRING, nearClasses : SUBSET STRING,
   suites : SUBSET STRING, nearSuites : SUBSET STRING,
   definitions : Nat, checkout : BOOLEAN]

ASSUME ConfigureAssumption ==
  \A t \in Targets : \A s \in Scans[t] :
    /\ s.classes \subseteq s.nearClasses /\ s.suites \subseteq s.nearSuites
    /\ s.definitions \in Nat /\ s.checkout \in BOOLEAN

VARIABLES
  scan,   \* per target: what is found for it
  tree,   \* the checkout: "head", or what a killed attempt left
  final,  \* configs/roundtrip/targets/<target id>.json
  conf,   \* the run: options, where it is, targets left, stages that passed,
          \* and as history the targets whose configuration it wrote
  rows    \* the rows of execution_config_readiness.csv to be

confVars  == <<scan, tree, final, conf, rows>>
setupVars == <<catalogVars, confVars>>

Stages == {"configure", "build", "full", "direct"}

\* A final configuration; as history, of one that is enabled: whether the direct
\* tests of its probe were any, and the checkout was at the commit it names.
Final   == [is : {"none", "torn", "json"}, enabled : BOOLEAN, sources : BOOLEAN,
            ran : BOOLEAN, head : BOOLEAN]
NoFinal == [is |-> "none", enabled |-> FALSE, sources |-> FALSE,
            ran |-> FALSE, head |-> FALSE]

NoConf == [at |-> "idle", probe |-> FALSE, force |-> FALSE, selected |-> {},
           todo |-> {}, written |-> {}, tried |-> {}, passed |-> {}, head |-> FALSE]

ConfigureTypeOK ==
  /\ CatalogTypeOK
  /\ scan \in Selections(Scans)
  /\ tree \in {"head", "other"}
  /\ final \in [Targets -> Final]
  /\ conf \in [at : {"idle", "load", "probe", "write", "report"}, probe : BOOLEAN,
               force : BOOLEAN, selected : SUBSET Targets, todo : SUBSET Targets,
               written : SUBSET Targets, tried : SUBSET Stages, passed : SUBSET Stages, head : BOOLEAN]
  /\ conf.passed \subseteq conf.tried
  /\ rows \in [Targets -> {"none", "blocked", "unprobed", "ready"}]

ConfigureInit ==
  /\ CatalogInit
  /\ scan \in Selections(Scans)
  /\ tree = "head"
  /\ final = [t \in Targets |-> NoFinal]
  /\ conf = NoConf
  /\ rows = [t \in Targets |-> "none"]

SetupIdle == BootIdle /\ conf.at = "idle"

-----------------------------------------------------------------------------
\* infer_symbol(): the one class of that name, or else the one near it.
InferSymbol(s) ==
  IF Cardinality(s.classes) = 1 THEN s.classes
  ELSE IF Cardinality(s.nearClasses) = 1 THEN s.nearClasses ELSE {}

\* infer_tests(): the one suite of that name, or else the one near it; two of
\* that name are none.
InferTests(s) ==
  LET suites == IF s.suites = {} THEN s.nearSuites ELSE s.suites IN
  IF Cardinality(suites) = 1 THEN suites ELSE {}

\* The direct tests: those of the draft if it has names and a filter, or else
\* those inferred, or else what filter the draft has.
Filter(r, s) ==
  IF (r.names = NoValue \/ r.filter = NoValue) /\ InferTests(s) # {} THEN "suite" ELSE r.filter

CountKnown(r, s) ==
  r.count # NoValue \/ r.names # NoValue \/ Filter(r, s) = "suite"

\* A reason not to configure the target.
Blocked(r, s) ==
  \/ ~s.checkout
  \/ r.granularity = "class_span" /\ (InferSymbol(s) = {} \/ s.definitions # 1)
  \/ r.granularity = "module_files" /\ r.sources = "gone"
  \/ r.granularity \notin {"class_span", "module_files"}
  \/ Filter(r, s) = NoValue \/ ~CountKnown(r, s)

\* The source files of the configuration: discovered for a class if the draft
\* has none, and nothing at all for a module that has none.
HasSources(r) == r.granularity = "class_span" \/ r.sources # NoValue

-----------------------------------------------------------------------------
ConfigureStart(selected, probe, force) ==
  /\ SetupIdle
  /\ conf' = [NoConf EXCEPT !.at = "load", !.probe = probe, !.force = force,
       !.selected = selected,
       !.todo = {t \in Targets : drafts[t].is # "none"}]
  /\ rows' = [t \in Targets |-> "none"]
  /\ UNCHANGED <<catalogVars, scan, tree, final>>

Current == Earliest(conf.todo)

\* The target is done with a row; these configurations are written by then.
Done(status, written) ==
  /\ rows' = [rows EXCEPT ![Current] = status]
  /\ conf' = [NoConf EXCEPT !.at = "load", !.probe = conf.probe, !.force = conf.force,
       !.selected = conf.selected, !.todo = conf.todo \ {Current}, !.written = written]

Loaded ==
  /\ conf.at = "load" /\ conf.todo # {}
  /\ drafts[Current].is = "json"

\* Every draft is read, those of other targets too.
ConfigureSkips ==
  /\ Loaded
  /\ Current \notin conf.selected
  /\ conf' = [conf EXCEPT !.todo = @ \ {Current}]
  /\ UNCHANGED <<catalogVars, scan, tree, final, rows>>

CurrentBlocked == Blocked(drafts[Current].record, scan[Current])

\* Mutant: --force is not asked for.
Kept_Never == FALSE

\* A final configuration that is there is kept without --force.
Kept == final[Current].is # "none" /\ ~conf.force

\* Mutant: the row of a target that keeps its configuration says what that is.
ConfigureBlocks_AsBefore ==
  /\ Loaded
  /\ Current \in conf.selected
  /\ CurrentBlocked \/ Kept
  /\ Done(IF final[Current].enabled THEN "ready" ELSE "blocked", conf.written)
  /\ UNCHANGED <<catalogVars, scan, tree, final>>

\* A target that is blocked keeps the configuration it has, with --force too.
ConfigureBlocks ==
  /\ Loaded
  /\ Current \in conf.selected
  /\ CurrentBlocked \/ Kept
  /\ Done("blocked", conf.written)
  /\ UNCHANGED <<catalogVars, scan, tree, final>>

ConfigureTarget ==
  /\ Loaded
  /\ Current \in conf.selected
  /\ ~CurrentBlocked /\ ~Kept
  /\ conf' = [conf EXCEPT !.at = IF conf.probe THEN "probe" ELSE "write",
                          !.head = tree = "head"]
  /\ UNCHANGED <<catalogVars, scan, tree, final, rows>>

\* The stages in their order: each has to wait for the one before it, and is
\* run only if configure, or then build, has passed.
Runnable(s) ==
  CASE s = "configure" -> TRUE
    [] s = "build"     -> "configure" \in conf.passed
    [] s = "full"      -> "build" \in conf.passed
    [] s = "direct"    -> "build" \in conf.passed /\ "full" \in conf.tried

\* A stage container ends with exit status 0 or another, or at its time limit.
\* gtest exits with 0 also when the filter selects no test.
ProbeStage(s, passed) ==
  /\ conf.at = "probe"
  /\ s \notin conf.tried
  /\ Runnable(s)
  /\ conf' = [conf EXCEPT !.tried = @ \cup {s},
       !.passed = IF passed THEN @ \cup {s} ELSE @]
  /\ UNCHANGED <<catalogVars, scan, tree, final, rows>>

ProbeDone == \A s \in Stages : s \in conf.tried \/ ~Runnable(s)

BaselineOk == conf.passed = Stages

Writing == \/ conf.at = "write"
           \/ conf.at = "probe" /\ ProbeDone

\* The configuration is written with run id -001: disabled without a probe, or
\* when a stage of it failed.
WriteFinal ==
  LET r  == drafts[Current].record
      on == conf.probe /\ BaselineOk
  IN
  /\ Writing
  /\ final' = [final EXCEPT ![Current] =
       [is |-> "json", enabled |-> on, sources |-> HasSources(r),
        ran |-> on /\ Filter(r, scan[Current]) # "stray", head |-> on /\ conf.head]]
  /\ Done(IF ~conf.probe THEN "unprobed" ELSE IF on THEN "ready" ELSE "blocked",
          conf.written \cup {Current})
  /\ UNCHANGED <<catalogVars, scan, tree>>

\* After the last target the report is written, of the rows there are.
WriteReport ==
  /\ conf.at = "load" /\ conf.todo = {}
  /\ conf' = [conf EXCEPT !.at = "report"]
  /\ UNCHANGED <<catalogVars, scan, tree, final, rows>>

Stopped == conf' = NoConf /\ rows' = [t \in Targets |-> "none"]

ConfigureEnds ==
  /\ conf.at = "report"
  /\ Stopped
  /\ UNCHANGED <<catalogVars, scan, tree, final>>

\* Mutant: a draft that cannot be read is read again.
LoadRaises_Again ==
  /\ conf.at = "load" /\ conf.todo # {}
  /\ drafts[Current].is = "torn"
  /\ UNCHANGED setupVars

\* A draft that cannot be read ends the run, without a report.
LoadRaises ==
  /\ conf.at = "load" /\ conf.todo # {}
  /\ drafts[Current].is = "torn"
  /\ Stopped
  /\ UNCHANGED <<catalogVars, scan, tree, final>>

\* git, docker or a write raises, or the process dies: what was written stays,
\* the file that was being written may be cut short, and there is no report.
ConfigureStops ==
  /\ conf.at # "idle"
  /\ final' \in {final} \cup
       (IF Writing
        THEN {[final EXCEPT ![Current] = [NoFinal EXCEPT !.is = "torn"]]} ELSE {})
  /\ Stopped
  /\ UNCHANGED <<catalogVars, scan, tree>>

\* Between two scripts an attempt is killed while regenerated code is in the
\* checkout, or the operator takes it away.
CheckoutChanges ==
  /\ SetupIdle
  /\ tree' \in {"head", "other"} \ {tree}
  /\ tree' = "other" => \E t \in Targets : final[t].enabled
  /\ UNCHANGED <<catalogVars, scan, final, conf, rows>>

ConfigureProgress ==
  \/ ConfigureSkips \/ ConfigureBlocks \/ ConfigureTarget
  \/ \E s \in Stages, passed \in BOOLEAN : ProbeStage(s, passed)
  \/ WriteFinal \/ WriteReport \/ ConfigureEnds \/ LoadRaises

SetupNext ==
  \/ conf.at = "idle" /\ CatalogNext /\ UNCHANGED confVars
  \/ \E selected \in (SUBSET Targets) \ {{}}, probe \in BOOLEAN, force \in BOOLEAN :
       ConfigureStart(selected, probe, force)
  \/ ConfigureProgress \/ ConfigureStops \/ CheckoutChanges

SetupSpec == ConfigureInit /\ [][SetupNext]_setupVars

\* Reading and writing files returns; a stage of the probe has a time limit.
FairSetupSpec ==
  /\ SetupSpec
  /\ WF_setupVars(BootProgress /\ UNCHANGED confVars)
  /\ WF_setupVars(ConfigureProgress)

-----------------------------------------------------------------------------
\* When the report of a run is written it is true of the files: "ready" is
\* enabled and "unprobed" is not, and both were written by this run, with and
\* without --probe.  An enabled configuration of an earlier run that a target
\* keeps, because it is blocked now or for want of --force, does not make it
\* ready: what was written is of no target that is blocked.  Every target that
\* was asked for and has a draft is in the report, and no other.
ReportTrue ==
  conf.at = "report" =>
    \A t \in Targets :
      /\ rows[t] = "ready" =>
           conf.probe /\ t \in conf.written /\ final[t].is = "json" /\ final[t].enabled
      /\ rows[t] = "unprobed" =>
           ~conf.probe /\ t \in conf.written /\ final[t].is = "json" /\ ~final[t].enabled
      /\ t \in conf.written => ~Blocked(drafts[t].record, scan[t])
      /\ rows[t] # "none" <=> t \in conf.selected /\ drafts[t].is = "json"

\* Without --force a configuration that is there stays, whatever a run meets;
\* so does that of a target that is not selected.
UnforcedKept ==
  [][\A t \in Targets :
       final[t].is # "none" /\ final'[t] # final[t] =>
         conf.force /\ t \in conf.selected]_setupVars

\* Every run of the two scripts ends.
SetupEnds == ~SetupIdle ~> SetupIdle

\* roundtrip_execution_v1.md:5: only verified settings are executed.  What an
\* enabled configuration was verified with: source files to replace, direct
\* tests that ran, and the commit it names.
EnabledIsVerified ==
  \A t \in Targets : final[t].enabled =>
    final[t].sources /\ final[t].ran /\ final[t].head
=============================================================================
