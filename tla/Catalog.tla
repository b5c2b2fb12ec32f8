------------------------------- MODULE Catalog -------------------------------
(***************************************************************************)
(* scripts/roundtrip/bootstrap_batch_catalog.py: what the metadata reports *)
(* say of the targets is merged into one record per target, and written as *)
(* draft configurations, a catalog and a readiness report.  The operator   *)
(* runs it again whenever a report has changed, or a run was stopped.      *)
(***************************************************************************)
EXTENDS Naturals, Sequences, SequencesExt, FiniteSets

CONSTANTS
  Order,    \* ids of the targets the reports may name, as their names sort
  Contents  \* per target: the lists of entries reports may have on it

Targets == ToSet(Order)

NoValue == ""  \* a field or a cell without a value

\* An entry of a report: a row of a table, an item of a list, a row of the
\* list of decisions; no value where it has no such column.  sources: the paths
\* listed exist, or one of them is gone.  filterCell: a pattern in backquotes,
\* a pattern in backquotes and a count behind it, or an empty cell.
Entry ==
  [status : {NoValue, "adopted", "excluded"},
   granularity : {NoValue, "class_span", "module_files", "other"},
   sources : {NoValue, "there", "gone"}, names : {NoValue, "listed"},
   filterCell : {NoValue, "quoted", "counted", "blank"}, count : {NoValue, "given"}]

ASSUME CatalogAssumption ==
  /\ Order \in Seq(STRING) /\ IsInjective(Order)
  /\ \A t \in Targets : Contents[t] \subseteq Seq(Entry)

\* For each target one of what F has for it.
Selections(F) ==
  {f \in [Targets -> UNION {F[t] : t \in Targets}] : \A t \in Targets : f[t] \in F[t]}

VARIABLES
  reports, \* per target: the entries on it, as main() comes to them
  drafts,  \* configs/roundtrip/targets/*.draft.json
  catalog, \* target_catalog.json: the targets that are in it
  boot     \* the run: where it is, the drafts still to write; current: history,
           \* the last run ended and no report has changed since

catalogVars == <<reports, drafts, catalog, boot>>

Record ==
  [status : {NoValue, "adopted", "excluded"},
   granularity : {NoValue, "class_span", "module_files", "other"},
   sources : {NoValue, "there", "gone"}, names : {NoValue, "listed"},
   filter : {NoValue, "joined", "pattern", "stray"}, count : {NoValue, "given"}]

Blank == [f \in {"status", "granularity", "sources", "names", "filter", "count"} |->
            NoValue]

\* A file: not there, cut short, or what it holds.
Draft   == [is : {"none", "torn", "json"}, record : Record]
NoDraft == [is |-> "none", record |-> Blank]

-----------------------------------------------------------------------------
\* .strip("` ") takes the backquote off an end of the cell only.
Strip(cell) ==
  CASE cell = "quoted"  -> "pattern"
    [] cell = "counted" -> "stray"
    [] OTHER            -> NoValue

\* Mutant: the cell is taken as it is.
Updates_Raw(e) ==
  [status |-> e.status, granularity |-> e.granularity, sources |-> e.sources,
   names |-> e.names,
   filter |-> IF e.filterCell # NoValue THEN e.filterCell
              ELSE IF e.names # NoValue THEN "joined" ELSE NoValue,
   count |-> IF e.count = NoValue /\ e.filterCell = "counted" THEN "given" ELSE e.count]

\* The updates parse_report() makes of an entry: names give a filter, a filter
\* column takes its place, with an empty cell too, and the number in it is the
\* count if there is none.
Updates(e) ==
  [status |-> e.status, granularity |-> e.granularity, sources |-> e.sources,
   names |-> e.names,
   filter |-> IF e.filterCell # NoValue THEN Strip(e.filterCell)
              ELSE IF e.names # NoValue THEN "joined" ELSE NoValue,
   count |-> IF e.count = NoValue /\ e.filterCell = "counted" THEN "given" ELSE e.count]

\* Mutant: the last value counts.
Merge_Last(record, updates) ==
  [f \in DOMAIN record |-> IF updates[f] # NoValue THEN updates[f] ELSE record[f]]

\* merge_record(): an empty value changes nothing, and no value another.
Merge(record, updates) ==
  [f \in DOMAIN record |-> IF record[f] = NoValue THEN updates[f] ELSE record[f]]

Merged(entries) ==
  FoldLeft(LAMBDA record, e : Merge(record, Updates(e)), Blank, entries)

\* normalize_record(): names without a filter give one in the end.
NormalizeRecord(record) ==
  IF record.filter = NoValue /\ record.names # NoValue
  THEN [record EXCEPT !.filter = "joined"] ELSE record

RecordOf(entries) == NormalizeRecord(Merged(entries))

Records == [entries \in UNION {Contents[t] : t \in Targets} |-> RecordOf(entries)]

Rec(t) == Records[reports[t]]

\* The loops over targets take them as their names sort.
Earliest(S) == Order[Min({i \in DOMAIN Order : Order[i] \in S})]

Known(t) == reports[t] # <<>>

\* The targets of the catalog: those a report knows and the record of which
\* does not say that they are excluded.
Adopted == {t \in Targets : Known(t) /\ Rec(t).status # "excluded"}

-----------------------------------------------------------------------------
CatalogTypeOK ==
  /\ reports \in Selections(Contents)
  /\ drafts \in [Targets -> Draft]
  /\ catalog \subseteq Targets
  /\ boot \in [at : {"idle", "stale", "write", "readiness"}, todo : SUBSET Targets,
               current : BOOLEAN]

CatalogInit ==
  /\ reports \in Selections(Contents)
  /\ drafts = [t \in Targets |-> NoDraft]
  /\ catalog = {}
  /\ boot = [at |-> "idle", todo |-> {}, current |-> FALSE]

BootIdle == boot.at = "idle"

\* A report is written anew.
EditReport(t) ==
  /\ BootIdle
  /\ reports' \in {[reports EXCEPT ![t] = entries] : entries \in Contents[t]}
  /\ reports' # reports
  /\ boot' = [boot EXCEPT !.current = FALSE]
  /\ UNCHANGED <<drafts, catalog>>

\* Every report is read and merged, and the directory is made.
BootStart ==
  /\ BootIdle
  /\ \E t \in Targets : Known(t)
  /\ boot' = [at |-> "stale", todo |-> Adopted, current |-> FALSE]
  /\ UNCHANGED <<reports, drafts, catalog>>

\* remove_stale_drafts(): what is not expected and can be read.
Stale(t) == t \notin Adopted /\ drafts[t].is = "json"

RemoveStale ==
  /\ boot.at = "stale"
  /\ drafts' = [t \in Targets |-> IF Stale(t) THEN NoDraft ELSE drafts[t]]
  /\ boot' = [boot EXCEPT !.at = "write"]
  /\ UNCHANGED <<reports, catalog>>

\* Mutant: a draft that is there is kept.
WriteDraft_Missing ==
  /\ boot.at = "write" /\ boot.todo # {}
  /\ LET t == Earliest(boot.todo) IN
     drafts' = [drafts EXCEPT ![t] =
       IF @.is = "json" THEN @ ELSE [is |-> "json", record |-> Rec(t)]]
  /\ boot' = [boot EXCEPT !.todo = @ \ {Earliest(@)}]
  /\ UNCHANGED <<reports, catalog>>

\* The draft of the next target is written, over whatever is there.
WriteDraft ==
  /\ boot.at = "write" /\ boot.todo # {}
  /\ LET t == Earliest(boot.todo) IN
     drafts' = [drafts EXCEPT ![t] = [is |-> "json", record |-> Rec(t)]]
  /\ boot' = [boot EXCEPT !.todo = @ \ {Earliest(@)}]
  /\ UNCHANGED <<reports, catalog>>

WriteCatalog ==
  /\ boot.at = "write" /\ boot.todo = {}
  /\ catalog' = Adopted
  /\ boot' = [boot EXCEPT !.at = "readiness"]
  /\ UNCHANGED <<reports, drafts>>

\* The readiness reports are written.  The exit status says whether the number
\* of targets is the expected one; the files are the same.
BootEnds ==
  /\ boot.at = "readiness"
  /\ boot' = [boot EXCEPT !.at = "idle", !.current = TRUE]
  /\ UNCHANGED <<reports, drafts, catalog>>

\* A write fails, or the process dies: what was removed and written stays, the
\* file that was being written may be cut short.
BootStops ==
  /\ ~BootIdle
  /\ drafts' \in
       {drafts}
       \cup (IF boot.at = "stale"
             THEN {[t \in Targets |-> IF Stale(t) /\ t \in gone THEN NoDraft ELSE drafts[t]] :
                     gone \in SUBSET Targets}
             ELSE {})
       \cup (IF boot.at = "write" /\ boot.todo # {}
             THEN {[drafts EXCEPT ![Earliest(boot.todo)] = [NoDraft EXCEPT !.is = "torn"]]}
             ELSE {})
  /\ boot' = [at |-> "idle", todo |-> {}, current |-> FALSE]
  /\ UNCHANGED <<reports, catalog>>

BootProgress == RemoveStale \/ WriteDraft \/ WriteCatalog \/ BootEnds

CatalogNext ==
  \/ \E t \in Targets : EditReport(t)
  \/ BootStart \/ BootProgress \/ BootStops

-----------------------------------------------------------------------------
\* After a run that ended, whatever earlier runs were stopped at and whatever
\* the reports said then: the catalog is what the reports say now, the draft
\* of each target in it holds its record, and of the others there is no draft
\* that can be read.
DraftsAreCatalog ==
  BootIdle /\ boot.current =>
    /\ catalog = Adopted
    /\ \A t \in catalog : drafts[t] = [is |-> "json", record |-> Rec(t)]
    /\ \A t \in Targets \ catalog : drafts[t].is # "json"

\* The reference for the merge: of every field the first value any entry has.
FirstOf(entries, f) ==
  LET given == {i \in DOMAIN entries : Updates(entries[i])[f] # NoValue} IN
  IF given = {} THEN NoValue
  ELSE Updates(entries[Min(given)])[f]

\* With no filter in any entry, but names: their filter.
Decided(entries, f) ==
  IF f = "filter" /\ FirstOf(entries, f) = NoValue /\ FirstOf(entries, "names") # NoValue
  THEN "joined" ELSE FirstOf(entries, f)

\* What a report says first of a target stays: when a run has written its
\* drafts, no later row or report has changed a field in one, or turned an
\* adopted target into an excluded one.
FirstDecides ==
  boot.at = "readiness" =>
    \A t \in Targets :
      /\ t \in catalog <=> Known(t) /\ FirstOf(reports[t], "status") # "excluded"
      /\ t \in catalog =>
           \A f \in DOMAIN Blank : drafts[t].record[f] = Decided(reports[t], f)
=============================================================================
