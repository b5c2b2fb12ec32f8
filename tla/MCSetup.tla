------------------------------- MODULE MCSetup -------------------------------
\* Instance of Configure for TLC: the reports on one target change, those on
\* the other do not, and have a filter column with an empty cell.
EXTENDS Configure

NoEntry == [status |-> NoValue, granularity |-> NoValue, sources |-> NoValue,
            names |-> NoValue, filterCell |-> NoValue, count |-> NoValue]

\* A complete row, as in the report on Echo-Web-Server.
ModuleRow == [status |-> "adopted", granularity |-> "module_files",
              sources |-> "there", names |-> "listed", filterCell |-> NoValue,
              count |-> "given"]

\* A row with a filter column, as in the report on ini-cpp.
ClassRow(cell) == [NoEntry EXCEPT !.granularity = "class_span",
                   !.sources = "there", !.filterCell = cell]

\* A row of the list of decisions.
Decision(status) == [NoEntry EXCEPT !.status = status]

\* A row without sources that is excluded later on; a row that is adopted
\* before; a filter column, and a decision on the same target.
ChangingContents ==
  {<<[ModuleRow EXCEPT !.status = NoValue, !.sources = NoValue], Decision("excluded")>>,
   <<[ModuleRow EXCEPT !.sources = NoValue], Decision("excluded")>>,
   <<ClassRow("counted"), Decision("adopted")>>}

TwoTargets == <<"first", "second">>

SomeContents == [t \in {"first", "second"} |->
  IF t = "first" THEN ChangingContents
  ELSE {<<[ModuleRow EXCEPT !.filterCell = "blank"]>>}]

\* One class and one suite of the name; a suite near the name; two of them.
AScan(suites, near, definitions) ==
  [classes |-> {"a"}, nearClasses |-> {"a", "b"}, suites |-> suites,
   nearSuites |-> near, definitions |-> definitions, checkout |-> TRUE]

SomeScans == [t \in {"first", "second"} |->
  IF t = "first" THEN {AScan({"a"}, {"a", "b"}, 1), AScan({}, {"b", "c"}, 1)}
  ELSE {AScan({}, {"b"}, 1)}]
=============================================================================
