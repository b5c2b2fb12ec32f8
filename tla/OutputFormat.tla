---------------------------- MODULE OutputFormat ----------------------------
(***************************************************************************)
(* scripts/roundtrip/run_target.py, from the text of a response to the     *)
(* generated files: normalize_outer_markdown_fence, parse_module_output    *)
(* and materialize_regeneration_output.                                    *)
(*                                                                         *)
(* A response is a sequence of lines:                                      *)
(*   "bare"    ``` and nothing else                                        *)
(*   "tagged"  ``` and a language this granularity allows                  *)
(*   "alien"   ``` and another language                                    *)
(*   "blank", "body" (code, or JSON), "prose"                              *)
(* Lines end with a line feed; fences start in the first column.           *)
(***************************************************************************)
EXTENDS Integers, Sequences, FiniteSets, SequencesExt

CONSTANTS
  Lines,   \* responses
  Arrays,  \* what the body's files array may list: sequences of paths
  Paths    \* config["source_files"]

\* Responses and arrays are lists; no source file has the name of the file the
\* class is written to.
ASSUME FormatAssumption ==
  /\ \A text \in Lines : text \in Seq(ToSet(text))
  /\ \A list \in Arrays : list \in Seq(ToSet(list))
  /\ "regenerated_target.cpp" \notin Paths

VARIABLES
  mode,       \* config["granularity"]
  lines,      \* the text of the response
  array,      \* the paths its JSON lists, entry by entry
  metadata,   \* raw_output/code_regeneration_normalization.json
  generated,  \* generated/: the lines of the class; per file the entry it is of
  step        \* "response", "accepted", "refused"

formatVars == <<mode, lines, array, metadata, generated, step>>

Target == "regenerated_target.cpp"

Fences == {"bare", "tagged", "alien"}

NoMetadata == [applied |-> FALSE, strict |-> FALSE, written |-> FALSE]
NoFiles    == [f \in Paths \cup {Target} |-> <<>>]

FormatInit ==
  /\ mode \in {"module_files", "class_span"}
  /\ lines \in Lines
  /\ array \in IF mode = "module_files" THEN Arrays ELSE {<<>>}
  /\ metadata = NoMetadata
  /\ generated = NoFiles
  /\ step = "response"

-----------------------------------------------------------------------------
Filled(text) == {i \in DOMAIN text : text[i] # "blank"}

HasFence(text) == \E i \in DOMAIN text : text[i] \in Fences

\* Mutant: the removal of a fence is not recorded.
Normalize_Silent(text) ==
  LET first == Min(Filled(text))
      last  == Max(Filled(text))
      inner == SubSeq(text, first + 1, last - 1)
  IN IF Filled(text) # {} /\ text[first] \in Fences /\ text[last] = "bare" /\ last > first + 1
     THEN [ok |-> text[first] # "alien" /\ Filled(inner) # {} /\ ~HasFence(inner),
           text |-> inner, applied |-> FALSE]
     ELSE [ok |-> ~HasFence(text), text |-> text, applied |-> FALSE]

\* Mutant: fences inside of the outer one are let through.
Normalize_Nested(text) ==
  LET first == Min(Filled(text))
      last  == Max(Filled(text))
      inner == SubSeq(text, first + 1, last - 1)
  IN IF Filled(text) # {} /\ text[first] \in Fences /\ text[last] = "bare" /\ last > first + 1
     THEN [ok |-> text[first] # "alien" /\ Filled(inner) # {}, text |-> inner, applied |-> TRUE]
     ELSE [ok |-> ~HasFence(text), text |-> text, applied |-> FALSE]

\* normalize_outer_markdown_fence: the pattern matches when the first filled
\* line is a fence and the last one a bare fence, with a line between.
Normalize(text) ==
  LET first == Min(Filled(text))
      last  == Max(Filled(text))
      inner == SubSeq(text, first + 1, last - 1)
  IN IF Filled(text) # {} /\ text[first] \in Fences /\ text[last] = "bare" /\ last > first + 1
     THEN [ok |-> text[first] # "alien" /\ Filled(inner) # {} /\ ~HasFence(inner),
           text |-> inner, applied |-> TRUE]
     ELSE [ok |-> ~HasFence(text), text |-> text, applied |-> FALSE]

IsJson(text) == Filled(text) # {} /\ \A i \in Filled(text) : text[i] = "body"

\* parse_module_output accepts: valid JSON, and no path missing or left over.
\* A path that is there twice is not refused.
Parses(text) == IsJson(text) /\ ToSet(array) = Paths

\* Of a path that is there twice the last content is taken.
ContentOf(path) == <<Max({i \in DOMAIN array : array[i] = path})>>

\* Mutant: the format is recorded once the response is accepted.
Materialize_ParseFirst ==
  /\ step = "response"
  /\ LET n        == Normalize(lines)
         accepted == n.ok /\ (mode = "module_files" => Parses(n.text)) IN
     /\ metadata' = IF accepted
                    THEN [applied |-> n.applied, strict |-> ~n.applied, written |-> TRUE]
                    ELSE metadata
     /\ generated' = [f \in DOMAIN generated |->
          CASE accepted /\ mode = "class_span" /\ f = Target  -> n.text
            [] accepted /\ mode = "module_files" /\ f \in Paths -> ContentOf(f)
            [] OTHER -> generated[f]]
     /\ step' = IF accepted THEN "accepted" ELSE "refused"
  /\ UNCHANGED <<mode, lines, array>>

\* materialize_regeneration_output.
Materialize ==
  /\ step = "response"
  /\ LET n == Normalize(lines) IN
     /\ metadata' = IF n.ok THEN [applied |-> n.applied, strict |-> ~n.applied, written |-> TRUE]
                    ELSE metadata
     /\ \/ /\ n.ok /\ mode = "class_span"
           /\ generated' = [generated EXCEPT ![Target] = n.text]
           /\ step' = "accepted"
        \/ /\ n.ok /\ mode = "module_files" /\ Parses(n.text)
           /\ generated' = [f \in DOMAIN generated |->
                              IF f \in Paths THEN ContentOf(f) ELSE generated[f]]
           /\ step' = "accepted"
        \/ /\ ~n.ok \/ (mode = "module_files" /\ ~Parses(n.text))
           /\ step' = "refused" /\ UNCHANGED generated
  /\ UNCHANGED <<mode, lines, array>>

FormatSpec == FormatInit /\ [][Materialize]_formatVars

-----------------------------------------------------------------------------
\* The class that is evaluated is a part of the response, in one piece: outside
\* of it there are only fences and blank lines, so no line of code is lost with
\* the fence that is removed, whatever is inside, and no fence is compiled.
CodeIsResponse ==
  step = "accepted" /\ mode = "class_span" =>
    /\ \E first \in 1..(Len(lines) + 1), last \in 0..Len(lines) :
         /\ generated[Target] = SubSeq(lines, first, last)
         /\ \A i \in DOMAIN lines :
              i \in first..last \/ lines[i] \in Fences \cup {"blank"}
    /\ ~HasFence(generated[Target])

\* A format that is allowed: no fence, or two and nothing but blank lines
\* outside of them, the first of an allowed language, the second bare, and
\* between them something that is not blank.
FormatAllowed(text) ==
  LET fences == {i \in DOMAIN text : text[i] \in Fences} IN
  \/ fences = {}
  \/ /\ fences = {Min(Filled(text)), Max(Filled(text))}
     /\ text[Min(Filled(text))] # "alien" /\ text[Max(Filled(text))] = "bare"
     /\ Filled(text) # fences

\* The record of a response's format is there just if the format is allowed,
\* also when the response is then refused for what is in it: it tells the two
\* refusals apart.  strict_format_pass is: written without a fence.  A response
\* that is refused leaves no file; one that is accepted has its record, and
\* gives every source file a content it lists for that file.
OutcomeRecorded ==
  step \in {"accepted", "refused"} =>
    /\ metadata.written <=> FormatAllowed(lines)
    /\ metadata.written => metadata.strict = ~HasFence(lines)
    /\ step = "accepted" => metadata.written
    /\ IF step = "accepted" /\ mode = "module_files"
       THEN \A f \in Paths : \E i \in DOMAIN array : array[i] = f /\ generated[f] = <<i>>
       ELSE \A f \in Paths : generated[f] = <<>>
=============================================================================
