----------------------------- MODULE SourceText -----------------------------
(***************************************************************************)
(* The lexical part of scripts/roundtrip/: find_matching_brace,            *)
(* locate_class_span and strip_inline_callable_bodies, and what prepare()  *)
(* and evaluate() do with them for a class_span target: the scaffold that  *)
(* is given to the regeneration, and the class that is put into the file.  *)
(*                                                                         *)
(* A text is a sequence of the characters that matter, by name or as they  *)
(* are, and of words:                                                      *)
(*   "class"  the target's class or struct keyword and name                *)
(*   "sig"    a word and an argument list, up to its ")"                   *)
(*   "if"     a control statement up to its ")"                            *)
(*   "stmt"   a statement of a function body                               *)
(*   "word"   anything else; space is left out                             *)
(*   the qualifiers of a function                                          *)
(***************************************************************************)
EXTENDS Integers, Sequences, FiniteSets, SequencesExt

CONSTANTS
  Sources,    \* the file at HEAD: text before the class, members, text after
  Responses,  \* regenerated texts
  MaxSplices  \* bound on the calls of evaluate()

VARIABLES
  source,    \* the file at HEAD
  file,      \* its text in the repository
  before,    \* original_texts of the call of evaluate() in progress
  at,        \* "new", "idle", "replaced", "raised"
  scaffold,  \* input/fixed_scaffold.txt
  splices    \* history: the texts put into the file and not taken out again

textVars == <<source, file, before, at, scaffold, splices>>

Modes == {"code", "line_comment", "block_comment", "string", "char"}

-----------------------------------------------------------------------------
\* The state after c, when n is next.
ModeAfter(mode, c, n) ==
  CASE mode = "code" ->
         CASE c = "/" /\ n = "/" -> "line_comment"
           [] c = "/" /\ n = "*" -> "block_comment"
           [] c = "dquote" -> "string"
           [] c = "'" -> "char"
           [] OTHER -> "code"
    [] mode = "line_comment" /\ c = "\n" -> "code"
    [] mode = "block_comment" /\ c = "*" /\ n = "/" -> "code"
    [] mode = "string" /\ c = "dquote" -> "code"
    [] mode = "char" /\ c = "'" -> "code"
    [] OTHER -> mode

\* Mutant: a backslash does not protect the next character.
Width_NoEscape(mode, c, n) ==
  IF \/ mode = "code" /\ c = "/" /\ n \in {"/", "*"}
     \/ mode = "block_comment" /\ c = "*" /\ n = "/"
  THEN 2 ELSE 1

\* How far the index moves.
Width(mode, c, n) ==
  IF \/ mode = "code" /\ c = "/" /\ n \in {"/", "*"}
     \/ mode = "block_comment" /\ c = "*" /\ n = "/"
     \/ mode \in {"string", "char"} /\ c = "\\"
  THEN 2 ELSE 1

DepthAfter(mode, c, depth) ==
  CASE mode = "code" /\ c = "lbrace" -> depth + 1
    [] mode = "code" /\ c = "rbrace" -> depth - 1
    [] OTHER -> depth

\* skip is 1 when a character is taken together with the one before.
ScanStart == [mode |-> "code", depth |-> 0, skip |-> 0]

\* One turn of the loop, or a character that a turn passes over.
ScanStep(s, c, n) ==
  IF s.skip = 1 THEN [mode |-> s.mode, depth |-> s.depth, skip |-> 0]
  ELSE [mode  |-> ModeAfter(s.mode, c, n),
        depth |-> DepthAfter(s.mode, c, s.depth),
        skip  |-> Width(s.mode, c, n) - 1]

\* The loop from open on: its state when it comes to the character at i.
Scan(text, open) ==
  LET scan[i \in open..Len(text)] ==
        IF i = open THEN ScanStart ELSE ScanStep(scan[i - 1], text[i - 1], text[i])
  IN scan

\* The position of the brace that closes the one at open; 0 for the ValueError.
FindMatchingBrace(text, open) ==
  LET scan == Scan(text, open)
      closing == {i \in open..Len(text) :
        text[i] = "rbrace" /\ scan[i] = [mode |-> "code", depth |-> 1, skip |-> 0]}
  IN IF closing = {} THEN 0 ELSE Min(closing)

First(text, lexeme, from) ==
  LET found(l) == l = lexeme IN SelectInSubSeq(text, from, Len(text), found)

NoSpan == <<0, 0>>

\* Mutant: the first of several definitions is taken.
LocateClassSpan_First(text) ==
  LET start == First(text, "class", 1)
      open  == First(text, "lbrace", start + 1)
      close == IF start = 0 \/ open = 0 THEN 0 ELSE FindMatchingBrace(text, open)
      semi  == First(text, "semicolon", close)
  IN  IF close = 0 THEN NoSpan ELSE <<start, IF semi # 0 THEN semi ELSE close>>

\* First and last position of the class with its semicolon; NoSpan for the
\* ValueError of a class that is missing, twice there or not closed.
LocateClassSpan(text) ==
  LET start == First(text, "class", 1)
      open  == First(text, "lbrace", start + 1)
      close == IF start = 0 \/ open = 0 THEN 0 ELSE FindMatchingBrace(text, open)
      semi  == First(text, "semicolon", close)
  IN  IF close = 0 \/ First(text, "class", start + 1) # 0 THEN NoSpan
      ELSE <<start, IF semi # 0 THEN semi ELSE close>>

Cut(text, first, last) == SubSeq(text, first, last)

Splice(text, span, new) ==
  Cut(text, 1, span[1] - 1) \o new \o Cut(text, span[2] + 1, Len(text))

\* The qualifiers looks_callable knows, in their order.
Qualifiers == [const |-> 1, noexcept |-> 2, override |-> 3, final |-> 4]

\* looks_callable: before i an argument list, then qualifiers, each at most
\* once and in their order.
LooksCallable(text, i) ==
  \E j \in 1..(i - 1) :
    /\ text[j] \in {"sig", "if"}
    /\ \A k \in (j + 1)..(i - 1) : text[k] \in DOMAIN Qualifiers
    /\ \A k, l \in (j + 1)..(i - 1) : k < l => Qualifiers[text[k]] < Qualifiers[text[l]]

\* Mutant: only the argument list may come before a body.
IsBody_Bare(text, i) == i > 1 /\ text[i - 1] = "sig"

\* looks_callable and not looks_control.
IsBody(text, i) == LooksCallable(text, i) /\ text[i - 1] # "if"

Unclosed == <<"unclosed">>

\* The loop at i: what it copies, or its jump behind the body that starts there.
StripStep(text, i, s) ==
  IF s.index > i THEN s
  ELSE IF text[i] # "lbrace" \/ ~IsBody(text, i)
  THEN [output |-> Append(s.output, text[i]), index |-> i + 1]
  ELSE LET close == FindMatchingBrace(text, i)
       IN IF close = 0 THEN [output |-> Unclosed, index |-> Len(text) + 1]
          ELSE [output |-> Append(s.output, "semicolon"), index |-> close + 1]

StripStart == [output |-> <<>>, index |-> 1]

\* The loop: its output and its index when it is done with the first i.
Strip(text) ==
  LET strip[i \in 0..Len(text)] ==
        IF i = 0 THEN StripStart ELSE StripStep(text, i, strip[i - 1])
  IN strip

\* Likely callable bodies are replaced by "semicolon"; Unclosed for the ValueError.
StripInlineCallableBodies(text) == Strip(text)[Len(text)].output

-----------------------------------------------------------------------------
\* A member is a header and, of a callable, a body.
Body(m) == <<"lbrace">> \o m.body \o <<"rbrace">>

Render(m) ==
  IF m.kind = "callable" THEN m.header \o Body(m) ELSE m.header \o <<"semicolon">>

Declare(m) == m.header \o <<"semicolon">>

ClassOf(members, show(_)) ==
  <<"class", "lbrace">> \o FlattenSeq([k \in DOMAIN members |-> show(members[k])])
    \o <<"rbrace", "semicolon">>

ClassText(s) == ClassOf(s.members, Render)

TextOf(s) == s.before \o ClassText(s) \o s.after

TextInit ==
  /\ source \in Sources
  /\ file = TextOf(source)
  /\ before = <<>>
  /\ at = "new"
  /\ scaffold = <<>>
  /\ splices = <<>>

\* prepare() of a class_span target, on the file at HEAD.
PrepareText ==
  /\ at = "new"
  /\ LET span == LocateClassSpan(file)
         stripped == StripInlineCallableBodies(Cut(file, span[1], span[2]))
     IN IF span = NoSpan \/ stripped = Unclosed
        THEN at' = "raised" /\ UNCHANGED scaffold
        ELSE at' = "idle" /\ scaffold' = stripped
  /\ UNCHANGED <<source, file, before, splices>>

\* evaluate() of that target: the class in the file, whatever the file holds by
\* now, is replaced by the regenerated text.
ReplaceClass(g) ==
  /\ at = "idle" /\ Len(splices) < MaxSplices
  /\ before' = file
  /\ LET span == LocateClassSpan(file)
     IN IF span = NoSpan
        THEN UNCHANGED <<file, at, splices>>
        ELSE /\ file' = Splice(file, span, g)
             /\ at' = "replaced"
             /\ splices' = Append(splices, g)
  /\ UNCHANGED <<source, scaffold>>

\* The finally.
RestoreText ==
  /\ at = "replaced"
  /\ file' = before
  /\ at' = "idle"
  /\ splices' = Front(splices)
  /\ UNCHANGED <<source, before, scaffold>>

\* The process is killed before the finally; the next call finds the file as
\* it is.
DieText ==
  /\ at = "replaced"
  /\ at' = "idle"
  /\ UNCHANGED <<source, file, before, scaffold, splices>>

TextNext ==
  \/ PrepareText
  \/ \E g \in Responses : ReplaceClass(g)
  \/ RestoreText
  \/ DieText

SourceSpec == TextInit /\ [][TextNext]_textVars

-----------------------------------------------------------------------------
\* Where a comment or a literal starts, if no other is open.
Starts(text, p) ==
  \/ text[p] \in {"dquote", "'"}
  \/ text[p] = "/" /\ p < Len(text) /\ text[p + 1] \in {"/", "*"}

\* The backslashes before q in a literal that starts at p.
Backslashes(text, p, q) == q - 1 - Max({j \in p..(q - 1) : text[j] # "\\"})

\* The comment or literal that starts at p may end at q.
Ends(text, p, q) ==
  \/ text[p] # "/" /\ text[q] = text[p] /\ Backslashes(text, p, q) % 2 = 0
  \/ text[p] = "/" /\ text[p + 1] = "/" /\ text[q] = "\n"
  \/ text[p] = "/" /\ text[p + 1] = "*" /\ q > p + 2 /\ text[q - 1] = "*" /\ text[q] = "/"

RegionEnd(text, p) ==
  LET ends == {q \in (p + 1)..Len(text) : Ends(text, p, q)}
  IN IF ends = {} THEN Len(text) ELSE Min(ends)

\* How far the comment or literal reaches that i is in, 0 if it is in none,
\* when r is this for the position before.
ReachStep(text, i, r) ==
  IF r >= i THEN r ELSE IF Starts(text, i) THEN RegionEnd(text, i) ELSE 0

Reach(text, from) ==
  LET reach[i \in from..Len(text)] ==
        ReachStep(text, i, IF i = from THEN 0 ELSE reach[i - 1])
  IN reach

\* The positions from `from' on that are outside comments and literals.
Code(text, from) ==
  LET reach == Reach(text, from) IN {i \in from..Len(text) : reach[i] = 0}

\* The brace that closes the one at open, without a scan: the first position
\* where as many braces are closed as opened, outside comments and literals.
MatchingBrace(text, open) ==
  LET code == Code(text, open)
      count(c, i) == Cardinality({j \in code : j <= i /\ text[j] = c})
      balanced == {i \in code :
        text[i] = "rbrace" /\ count("lbrace", i) = count("rbrace", i)}
  IN IF balanced = {} THEN 0 ELSE Min(balanced)

\* find_matching_brace agrees with that on every text.
BracesMatched ==
  \A i \in DOMAIN file :
    file[i] = "lbrace" => FindMatchingBrace(file, i) = MatchingBrace(file, i)

\* A text that is one class definition and nothing else.
Complete(g) ==
  /\ Len(g) > 3 /\ g[1] = "class" /\ g[2] = "lbrace" /\ g[Len(g)] = "semicolon"
  /\ MatchingBrace(g, 2) = Len(g) - 1
  /\ First(g, "class", 2) = 0

\* What a text is made of.
Lexemes ==
  {"lbrace", "rbrace", "semicolon", "dquote", "'", "\\", "/", "*", "\n",
   "class", "sig", "if", "stmt", "word", "const", "noexcept", "override", "final"}

Members ==
  {m \in [kind : {"field", "callable"}, header : Seq(Lexemes), body : Seq(Lexemes)] :
     m.kind = "callable" => MatchingBrace(Body(m), 1) = Len(Body(m))}

\* The class of a source is one, and it is named nowhere inside of itself; a
\* body is what is between a brace and the one that closes it.
ASSUME TextAssumption ==
  /\ \A s \in Sources :
       /\ s.before \in Seq(Lexemes) /\ s.after \in Seq(Lexemes)
       /\ ClassText(s) \in Seq(Lexemes) /\ Complete(ClassText(s))
       /\ s.members \in Seq(Members)
  /\ \A g \in Responses : g \in Seq(Lexemes)

\* evaluate() of a class_span target only ever replaces the class, also in a
\* file that an earlier call, stopped before its finally, left replaced: as
\* long as the regenerated texts are complete classes, everything around the
\* class is the text of HEAD, and the class is the last one put in.
OnlyClassReplaced ==
  splices # <<>> /\ (\A k \in DOMAIN splices : Complete(splices[k])) =>
    file = source.before \o Last(splices) \o source.after

\* Headers strip_inline_callable_bodies knows: no brace, and of a callable an
\* argument list and qualifiers at the end.
Plain(m) ==
  LET h == m.header IN
  /\ ~Contains(h, "lbrace")
  /\ m.kind = "callable" =>
       \E k \in DOMAIN h : h[k] = "sig" /\ Cut(h, k + 1, Len(h)) \in
         {<<>>, <<"const">>, <<"noexcept">>, <<"const", "noexcept">>,
          <<"const", "override">>}

\* The scaffold of a class with such headers is its declarations: no body is
\* left, whatever is in it, and no declaration is lost.
ScaffoldIsInterface ==
  at \in {"idle", "replaced"}
    /\ (\A k \in DOMAIN source.members : Plain(source.members[k]))
    => scaffold = ClassOf(source.members, Declare)

\* run_target.py:410 tells the model that it is not given the original
\* implementation: no statement of a body is in the scaffold.
NoBodyGiven == ~Contains(scaffold, "stmt")
=============================================================================
