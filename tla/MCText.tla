------------------------------- MODULE MCText -------------------------------
\* Instances of SourceText, OutputFormat and StudyStatistics for TLC.  They
\* share nothing: one of a source, a response and an argument is followed, with
\* the other two at rest.
EXTENDS SourceText, OutputFormat, StudyStatistics

CONSTANTS hdr, src

Characters == {"lbrace", "rbrace", "dquote", "'", "\\", "/", "*", "\n"}

Source(b, ms, a) == [before |-> b, members |-> ms, after |-> a]

\* Texts of up to 5 characters behind a brace.
CharacterSources ==
  {Source(<<"class", "lbrace">> \o s, <<>>, <<>>) : s \in SeqOf(Characters, 5)}

Field(h)    == [kind |-> "field", header |-> h, body |-> <<>>]
Method(h, b) == [kind |-> "callable", header |-> h, body |-> b]

Headers ==
  {<<"sig">>, <<"sig", "const", "noexcept">>, <<"sig", "const", "override">>,
   <<"sig", "word", "sig">>}

\* A member initialized with braces before the body.
BracedHeader == <<"sig", "word", "lbrace", "word", "rbrace">>

Bodies ==
  {<<>>, <<"stmt">>, <<"if", "lbrace", "stmt", "rbrace">>,
   <<"sig", "lbrace", "stmt", "rbrace">>,
   <<"dquote", "rbrace", "dquote", "stmt">>,
   <<"/", "/", "'", "lbrace", "\n", "stmt">>}

SomeMembers == {Field(<<"word">>)} \cup {Method(h, b) : h \in Headers, b \in Bodies}

Around == {<<>>, <<"word">>, <<"word", "lbrace", "rbrace", "semicolon">>}

ClassSources ==
  {Source(b, ms, a) : b \in Around, ms \in SeqOf(SomeMembers, 1), a \in Around}
  \cup {Source(<<>>, ms, <<>>) : ms \in SeqOf(SomeMembers, 2)}
  \cup {Source(<<"class", "semicolon">>, <<>>, <<>>)}

AllSources == CharacterSources \cup ClassSources

BracedSources == {Source(<<>>, <<Method(BracedHeader, b)>>, <<>>) : b \in Bodies}

\* Complete classes; one that is cut off, one with something behind it, one
\* that is there twice, and no class.
SomeResponses ==
  {<<"class", "lbrace", "rbrace", "semicolon">>,
   <<"class", "lbrace", "sig", "lbrace", "stmt", "rbrace", "rbrace", "semicolon">>,
   <<"class", "lbrace", "sig", "lbrace", "stmt">>,
   <<"class", "lbrace", "rbrace", "semicolon", "word", "semicolon">>,
   <<"class", "lbrace", "rbrace", "semicolon",
     "class", "lbrace", "rbrace", "semicolon">>, <<"word">>}

SomeLines == SeqOf({"bare", "tagged", "alien", "blank", "body", "prose"}, 4)

SomeArrays == SeqOf({hdr, src, "other"}, 3)

NoSource == Source(<<>>, <<>>, <<>>)

FormatRests ==
  /\ mode = "class_span" /\ lines = <<>> /\ array = <<>>
  /\ metadata = NoMetadata /\ generated = NoFiles /\ step = "rest"

TextRests ==
  /\ source = NoSource /\ file = <<>> /\ before = <<>> /\ at = "rest"
  /\ scaffold = <<>> /\ splices = <<>>

StatsRest ==
  values = <<>> /\ ranks = <<>> /\ index = 1 /\ table = NoTable /\ tail = 1

SomeValues == SeqOf(1..3, 5)

SomeTables == (0..3) \X (0..3) \X (0..3) \X (0..3)

SpecInit ==
  \/ TextInit /\ FormatRests /\ StatsRest
  \/ FormatInit /\ TextRests /\ StatsRest
  \/ StatsInit /\ TextRests /\ FormatRests

SpecNext ==
  \/ TextNext /\ UNCHANGED <<formatVars, statsVars>>
  \/ Materialize /\ UNCHANGED <<textVars, statsVars>>
  \/ StatsNext /\ UNCHANGED <<textVars, formatVars>>

TextSpec == SpecInit /\ [][SpecNext]_<<textVars, formatVars, statsVars>>
=============================================================================
