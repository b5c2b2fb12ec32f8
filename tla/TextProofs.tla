----------------------------- MODULE TextProofs -----------------------------
(***************************************************************************)
(* Proofs about OutputFormat, StudyStatistics and SourceText, for texts    *)
(* and lists of any length.                                                *)
(***************************************************************************)
EXTENDS SourceText, OutputFormat, StudyStatistics, FiniteSetTheorems, SequenceTheorems, TLAPS

\* A set of numbers has a least one.
LEMMA LeastOf ==
  ASSUME NEW S \in SUBSET Nat, S # {}
  PROVE  Min(S) \in S /\ \A j \in S : Min(S) <= j
<1>1. PICK i \in S : \A j \in S : <<j, i>> \notin OpToRel(<, Nat)
  BY NatLessThanWellFounded, WFMin
<1>2. ASSUME NEW j \in S
      PROVE  i <= j
  <2>1. i \in Nat /\ j \in Nat
    OBVIOUS
  <2>2. ~(j < i)
    BY <1>1, <2>1 DEF OpToRel
  <2>3. QED
    BY <2>1, <2>2
<1>3. QED
  BY <1>2 DEF Min

\* A bounded set of numbers has a greatest one.
LEMMA GreatestOf ==
  ASSUME NEW n \in Nat, NEW S \in SUBSET (1..n), S # {}
  PROVE  Max(S) \in S /\ \A j \in S : j <= Max(S)
<1> DEFINE gaps == {n - i : i \in S}
<1>1. gaps \in SUBSET Nat /\ gaps # {}
  <2>1. \A i \in S : n - i \in Nat
    OBVIOUS
  <2>2. QED
    BY <2>1
<1>2. Min(gaps) \in gaps /\ \A j \in gaps : Min(gaps) <= j
  BY <1>1, LeastOf
<1>3. PICK m \in S : Min(gaps) = n - m
  BY <1>2
<1>4. ASSUME NEW j \in S
      PROVE  m >= j
  <2>1. n - m <= n - j
    BY <1>2, <1>3
  <2>2. m \in Nat /\ j \in Nat
    OBVIOUS
  <2>3. QED
    BY <2>1, <2>2
<1>5. Max(S) \in S /\ \A j \in S : Max(S) >= j
  BY <1>4 DEF Max
<1>6. \A j \in S : j \in Nat
  OBVIOUS
<1>7. QED
  BY <1>5, <1>6

-----------------------------------------------------------------------------
(***************************************************************************)
(* Induction over the positions of a text or a range, stated with sets,    *)
(* and what it says of functions defined from one position to the next.    *)
(***************************************************************************)

\* A set with the first position, and with the next of each, has all.
LEMMA AllPositions ==
  ASSUME NEW a \in Nat, NEW b \in Nat, NEW good,
         a <= b => a \in good,
         \A i \in a..b : i \in good /\ i + 1 <= b => i + 1 \in good
  PROVE  \A i \in a..b : i \in good
<1> SUFFICES ASSUME NEW k \in a..b, k \notin good
             PROVE  FALSE
  OBVIOUS
<1> DEFINE bad == {i \in a..b : i \notin good}
           m == Min(bad)
<1>1. bad \in SUBSET Nat /\ bad # {}
  OBVIOUS
<1>2. m \in bad /\ \A j \in bad : m <= j
  BY <1>1, LeastOf
<1> HIDE DEF m
<1>3. m \in a..b /\ m \notin good /\ m # a
  BY <1>2
<1>4. m - 1 \in a..b /\ m - 1 + 1 = m /\ m <= b
  BY <1>3
<1>5. m - 1 \notin bad
  <2>1. m \in Nat /\ ~(m <= m - 1)
    BY <1>3
  <2>2. QED
    BY <1>2, <2>1
<1>6. m - 1 \in good
  BY <1>4, <1>5
<1>7. QED
  BY <1>3, <1>4, <1>6

\* Functions that are defined from each position to the next.
Stepwise(a, b, X, x0, next) ==
  {f \in [a..b -> X] :
     \A i \in a..b : f[i] = IF i = a THEN x0 ELSE next[<<i, f[i - 1]>>]}

\* There is one.
LEMMA StepByStep ==
  ASSUME NEW a \in Nat, NEW b \in Nat, NEW X, NEW x0 \in X,
         NEW next \in [(a..b) \X X -> X]
  PROVE  Stepwise(a, b, X, x0, next) # {}
<1> DEFINE Is(f, m) == \A i \in a..m : f[i] = IF i = a THEN x0 ELSE next[<<i, f[i - 1]>>]
           good == {m \in a..b : \E f \in [a..m -> X] : Is(f, m)}
<1>1. CASE a <= b
  <2>1. a \in good
    <3>1. [i \in a..a |-> x0] \in [a..a -> X] /\ Is([i \in a..a |-> x0], a)
      OBVIOUS
    <3>2. a \in a..b
      BY <1>1
    <3> HIDE DEF Is
    <3>3. QED
      BY <3>1, <3>2
  <2>2. ASSUME NEW m \in a..b, m \in good, m + 1 <= b
        PROVE  m + 1 \in good
    <3>1. PICK f \in [a..m -> X] : Is(f, m)
      BY <2>2
    <3> DEFINE g == [i \in a..(m + 1) |-> IF i <= m THEN f[i] ELSE next[<<m + 1, f[m]>>]]
    <3>2. f[m] \in X /\ m + 1 \in a..b /\ m \in a..m
      BY <2>2, <3>1
    <3>3. next[<<m + 1, f[m]>>] \in X
      BY <3>2
    <3>4. g \in [a..(m + 1) -> X]
      BY <3>1, <3>3
    <3>5. ASSUME NEW i \in a..(m + 1)
          PROVE  g[i] = IF i = a THEN x0 ELSE next[<<i, g[i - 1]>>]
      <4>1. CASE i <= m
        <5>1. i \in a..m /\ g[i] = f[i] /\ (i # a => g[i - 1] = f[i - 1])
          BY <4>1
        <5>2. QED
          BY <3>1, <5>1
      <4>2. CASE i = m + 1
        <5>1. g[i] = next[<<i, f[m]>>] /\ g[i - 1] = f[m] /\ i # a
          BY <4>2
        <5>2. QED
          BY <5>1
      <4>3. QED
        BY <4>1, <4>2
    <3>6. Is(g, m + 1)
      BY <3>5
    <3> HIDE DEF g, Is
    <3>7. QED
      BY <3>2, <3>4, <3>6
  <2> HIDE DEF good
  <2>3. \A m \in a..b : m \in good
    BY <2>1, <2>2, AllPositions
  <2>4. b \in good
    BY <1>1, <2>3
  <2>5. QED
    BY <2>4 DEF good, Stepwise
<1>2. CASE ~(a <= b)
  <2>1. a..b = {}
    BY <1>2
  <2>2. [i \in a..b |-> x0] \in [a..b -> X]
    OBVIOUS
  <2>3. QED
    BY <2>1, <2>2 DEF Stepwise
<1>3. QED
  BY <1>1, <1>2

-----------------------------------------------------------------------------
(***************************************************************************)
(* OutputFormat.                                                           *)
(***************************************************************************)

\* `part' is a piece of `text' with only fences and blank lines around it.
PieceOf(part, text) ==
  \E first \in 1..(Len(text) + 1), last \in 0..Len(text) :
    /\ part = SubSeq(text, first, last)
    /\ \A i \in DOMAIN text :
         i \in first..last \/ text[i] \in Fences \cup {"blank"}

\* What normalize_outer_markdown_fence returns is such a piece without a fence,
\* and it says that it removed one just if one was there.
LEMMA Normalized ==
  ASSUME NEW text, text \in Seq(ToSet(text)), Normalize(text).ok
  PROVE  /\ PieceOf(Normalize(text).text, text)
         /\ ~HasFence(Normalize(text).text)
         /\ Normalize(text).applied = HasFence(text)
<1> DEFINE first == Min(Filled(text))
           last  == Max(Filled(text))
           inner == SubSeq(text, first + 1, last - 1)
           outer == Filled(text) # {} /\ text[first] \in Fences
                      /\ text[last] = "bare" /\ last > first + 1
<1>1. Len(text) \in Nat /\ DOMAIN text = 1..Len(text)
  OBVIOUS
<1>2. CASE outer
  <2>1. Filled(text) \in SUBSET (1..Len(text)) /\ Filled(text) # {}
    BY <1>1, <1>2 DEF Filled
  <2>2. first \in Filled(text) /\ \A j \in Filled(text) : first <= j
    <3>1. Filled(text) \in SUBSET Nat
      BY <2>1
    <3>2. QED
      BY <2>1, <3>1, LeastOf
  <2>3. last \in Filled(text) /\ \A j \in Filled(text) : j <= last
    BY <1>1, <2>1, GreatestOf
  <2>4. first \in 1..Len(text) /\ last \in 1..Len(text)
    BY <2>1, <2>2, <2>3
  <2>5. /\ Normalize(text).text = inner
        /\ Normalize(text).applied = TRUE
        /\ ~HasFence(inner)
    BY <1>2 DEF Normalize
  <2>6. \A i \in DOMAIN text :
          i \in (first + 1)..(last - 1) \/ text[i] \in Fences \cup {"blank"}
    <3> SUFFICES ASSUME NEW i \in DOMAIN text, i \notin (first + 1)..(last - 1)
                 PROVE  text[i] \in Fences \cup {"blank"}
      OBVIOUS
    <3> HIDE DEF first, last
    <3>1. i <= first \/ i >= last
      BY <1>1, <2>4
    <3>2. CASE i = first \/ i = last
      <4>1. text[first] \in Fences /\ text[last] = "bare"
        BY <1>2
      <4>2. QED
        BY <3>2, <4>1 DEF Fences
    <3>3. CASE i < first \/ i > last
      <4>1. i \notin Filled(text)
        BY <1>1, <2>2, <2>3, <2>4, <3>3
      <4>2. QED
        BY <4>1 DEF Filled
    <3>4. QED
      BY <1>1, <2>4, <3>1, <3>2, <3>3
  <2>7. PieceOf(inner, text)
    <3>1. first + 1 \in 1..(Len(text) + 1) /\ last - 1 \in 0..Len(text)
      BY <1>1, <2>4
    <3>2. QED
      BY <3>1, <2>6 DEF PieceOf
  <2>8. HasFence(text)
    BY <1>1, <1>2, <2>4 DEF HasFence
  <2>9. QED
    BY <2>5, <2>7, <2>8
<1>3. CASE ~outer
  <2>1. /\ Normalize(text).text = text
        /\ Normalize(text).applied = FALSE
        /\ ~HasFence(text)
    BY <1>3 DEF Normalize
  <2>2. text = SubSeq(text, 1, Len(text))
    BY <1>1
  <2>3. PieceOf(text, text)
    <3>1. 1 \in 1..(Len(text) + 1) /\ Len(text) \in 0..Len(text)
      BY <1>1
    <3>2. \A i \in DOMAIN text : i \in 1..Len(text)
      BY <1>1
    <3>3. QED
      BY <2>2, <3>1, <3>2 DEF PieceOf
  <2>4. HasFence(text) = FALSE
    BY <2>1 DEF HasFence
  <2>5. Normalize(text).applied = HasFence(text)
    BY <2>1, <2>4
  <2>6. PieceOf(Normalize(text).text, text) /\ ~HasFence(Normalize(text).text)
    BY <2>1, <2>3
  <2>7. QED
    BY <2>5, <2>6
<1>4. QED
  BY <1>2, <1>3

\* It accepts just the texts of an allowed format.
LEMMA AllowedIsNormalized ==
  ASSUME NEW text, text \in Seq(ToSet(text))
  PROVE  Normalize(text).ok = FormatAllowed(text)
<1> DEFINE first  == Min(Filled(text))
           last   == Max(Filled(text))
           inner  == SubSeq(text, first + 1, last - 1)
           fences == {i \in DOMAIN text : text[i] \in Fences}
           outer  == Filled(text) # {} /\ text[first] \in Fences
                       /\ text[last] = "bare" /\ last > first + 1
           pair   == fences = {first, last} /\ text[first] # "alien"
                       /\ text[last] = "bare" /\ Filled(text) # fences
<1>1. Len(text) \in Nat /\ DOMAIN text = 1..Len(text)
  OBVIOUS
<1>2. FormatAllowed(text) = (fences = {} \/ pair)
  BY DEF FormatAllowed
<1>3. fences \subseteq Filled(text) /\ (HasFence(text) <=> fences # {})
  BY DEF Fences, Filled, HasFence
<1>4. CASE Filled(text) = {}
  <2>1. Normalize(text).ok = ~HasFence(text) /\ fences = {} /\ ~HasFence(text)
    BY <1>3, <1>4 DEF Normalize
  <2>2. QED
    BY <1>2, <2>1
<1>5. CASE Filled(text) # {}
  <2>1. Filled(text) \in SUBSET (1..Len(text)) /\ Filled(text) # {}
    BY <1>1, <1>5 DEF Filled
  <2>2. first \in Filled(text) /\ \A j \in Filled(text) : first <= j
    <3>1. Filled(text) \in SUBSET Nat
      BY <2>1
    <3>2. QED
      BY <2>1, <3>1, LeastOf
  <2>3. last \in Filled(text) /\ \A j \in Filled(text) : j <= last
    BY <1>1, <2>1, GreatestOf
  <2>4. first \in 1..Len(text) /\ last \in 1..Len(text) /\ first <= last
    BY <2>1, <2>2, <2>3
  <2>5. CASE outer
    <3>1. Normalize(text).ok = (text[first] # "alien" /\ Filled(inner) # {} /\ ~HasFence(inner))
      BY <2>5 DEF Normalize
    <3>2. {first, last} \subseteq fences /\ first # last
      BY <1>1, <2>4, <2>5 DEF Fences
    <3>3. /\ DOMAIN inner = 1..(last - first - 1)
          /\ \A i \in DOMAIN inner : first + i \in DOMAIN text /\ inner[i] = text[first + i]
      <4> HIDE DEF first, last
      <4>1. QED
        BY <1>1, <2>4, <2>5
    <3>4. Filled(inner) # {} <=> Filled(text) \ {first, last} # {}
      <4>1. ASSUME NEW i \in Filled(inner)
            PROVE  first + i \in Filled(text) \ {first, last}
        <5>1. i \in 1..(last - first - 1) /\ text[first + i] # "blank" /\ first + i \in DOMAIN text
          BY <3>3, <4>1 DEF Filled
        <5> HIDE DEF first, last, inner
        <5>2. QED
          BY <2>4, <5>1 DEF Filled
      <4>2. ASSUME NEW i \in Filled(text) \ {first, last}
            PROVE  i - first \in Filled(inner)
        <5>1. i \in 1..Len(text) /\ text[i] # "blank"
          BY <1>1, <4>2 DEF Filled
        <5>2. first <= i /\ i <= last /\ i # first /\ i # last
          BY <2>2, <2>3, <4>2
        <5> HIDE DEF first, last, inner
        <5>3. i - first \in 1..(last - first - 1) /\ first + (i - first) = i
          BY <2>4, <5>1, <5>2
        <5>4. QED
          BY <3>3, <5>1, <5>3 DEF Filled
      <4> HIDE DEF first, last, inner
      <4>3. QED
        BY <4>1, <4>2
    <3>5. HasFence(inner) <=> fences \ {first, last} # {}
      <4>1. ASSUME NEW i \in DOMAIN inner, inner[i] \in Fences
            PROVE  first + i \in fences \ {first, last}
        <5>1. i \in 1..(last - first - 1) /\ text[first + i] \in Fences /\ first + i \in DOMAIN text
          BY <3>3, <4>1
        <5> HIDE DEF first, last, inner
        <5>2. QED
          BY <2>4, <5>1
      <4>2. ASSUME NEW i \in fences \ {first, last}
            PROVE  i - first \in DOMAIN inner /\ inner[i - first] \in Fences
        <5>1. i \in 1..Len(text) /\ text[i] \in Fences
          BY <1>1, <4>2
        <5>2. first <= i /\ i <= last /\ i # first /\ i # last
          BY <1>3, <2>2, <2>3, <4>2
        <5> HIDE DEF first, last, inner
        <5>3. i - first \in 1..(last - first - 1) /\ first + (i - first) = i
          BY <2>4, <5>1, <5>2
        <5>4. QED
          BY <3>3, <5>1, <5>3
      <4> HIDE DEF first, last, inner, fences
      <4>3. QED
        BY <4>1, <4>2 DEF HasFence
    <3>6. fences # {} /\ text[last] = "bare"
      BY <2>5, <3>2
    <3> HIDE DEF first, last, inner, fences
    <3>7. pair <=> text[first] # "alien" /\ Filled(inner) # {} /\ ~HasFence(inner)
      <4>1. fences = {first, last} <=> ~HasFence(inner)
        BY <3>2, <3>5
      <4>2. ASSUME fences = {first, last}
            PROVE  Filled(text) # fences <=> Filled(inner) # {}
        BY <1>3, <3>4, <4>2
      <4>3. QED
        BY <3>6, <4>1, <4>2
    <3>8. Normalize(text).ok = pair
      BY <3>1, <3>7
    <3>9. QED
      BY <1>2, <3>6, <3>8
  <2>6. CASE ~outer
    <3>1. Normalize(text).ok = ~HasFence(text)
      BY <2>6 DEF Normalize
    <3>2. ~pair
      <4>1. SUFFICES ASSUME pair
                     PROVE  FALSE
        OBVIOUS
      <4>2. first \in fences /\ text[first] \in Fences
        BY <4>1
      <4>3. PICK i \in Filled(text) : i \notin {first, last}
        BY <1>3, <4>1
      <4>4. first <= i /\ i <= last /\ i \in 1..Len(text)
        BY <2>1, <2>2, <2>3, <4>3
      <4>5. last > first + 1
        <5>1. i # first /\ i # last
          BY <4>3
        <5> HIDE DEF first, last
        <5>2. QED
          BY <2>4, <4>4, <5>1
      <4>6. QED
        BY <1>5, <2>6, <4>1, <4>2, <4>5
    <3> HIDE DEF pair, fences
    <3>3. QED
      BY <1>2, <1>3, <3>1, <3>2
  <2>7. QED
    BY <2>5, <2>6
<1>6. QED
  BY <1>4, <1>5

\* Of a path that is listed, the content is that of one of its entries.
LEMMA ContentListed ==
  ASSUME array \in Seq(ToSet(array)), NEW path \in ToSet(array)
  PROVE  \E i \in DOMAIN array : array[i] = path /\ ContentOf(path) = <<i>>
<1> DEFINE entries == {i \in DOMAIN array : array[i] = path}
<1>1. Len(array) \in Nat /\ DOMAIN array = 1..Len(array)
  OBVIOUS
<1>2. entries \in SUBSET (1..Len(array)) /\ entries # {}
  BY <1>1 DEF ToSet
<1>3. Max(entries) \in entries
  BY <1>1, <1>2, GreatestOf
<1>4. QED
  BY <1>3 DEF ContentOf

\* What is known while a response is being read: nothing is written before
\* the only step, and then what the two properties say.
FormatInv ==
  /\ lines \in Seq(ToSet(lines))
  /\ array \in Seq(ToSet(array))
  /\ step = "response" => metadata = NoMetadata /\ generated = NoFiles
  /\ CodeIsResponse
  /\ OutcomeRecorded

\* Before a response is read nothing is recorded.
LEMMA FormatStart == FormatInit => FormatInv
<1> SUFFICES ASSUME FormatInit
             PROVE  FormatInv
  OBVIOUS
<1>1. lines \in Seq(ToSet(lines))
  BY FormatAssumption DEF FormatInit
<1>2. array \in Seq(ToSet(array))
  <2>1. <<>> \in Seq(ToSet(<<>>))
    OBVIOUS
  <2>2. array \in Arrays \/ array = <<>>
    BY DEF FormatInit
  <2>3. QED
    BY <2>1, <2>2, FormatAssumption
<1>3. CodeIsResponse
  BY DEF FormatInit, CodeIsResponse
<1>4. OutcomeRecorded
  BY DEF FormatInit, OutcomeRecorded, NoFiles, NoMetadata
<1>5. QED
  BY <1>1, <1>2, <1>3, <1>4 DEF FormatInv, FormatInit

\* The class of a response that is accepted.
LEMMA ClassAccepted ==
  ASSUME FormatInv, Materialize, step' = "accepted", mode = "class_span"
  PROVE  /\ generated' = [generated EXCEPT ![Target] = Normalize(lines).text]
         /\ Normalize(lines).ok
         /\ generated'[Target] = Normalize(lines).text
<1>1. generated = NoFiles
  BY DEF FormatInv, Materialize
<1>2. /\ generated' = [generated EXCEPT ![Target] = Normalize(lines).text]
      /\ Normalize(lines).ok
  BY DEF Materialize
<1>3. QED
  BY <1>1, <1>2 DEF NoFiles

\* The files of a response that is accepted.
LEMMA FilesAccepted ==
  ASSUME FormatInv, Materialize, step' = "accepted", mode = "module_files"
  PROVE  /\ Normalize(lines).ok
         /\ ToSet(array) = Paths
         /\ \A f \in Paths : generated'[f] = ContentOf(f)
<1>1. generated = NoFiles
  BY DEF FormatInv, Materialize
<1>2. /\ Normalize(lines).ok
      /\ Parses(Normalize(lines).text)
      /\ generated' = [f \in DOMAIN generated |->
                         IF f \in Paths THEN ContentOf(f) ELSE generated[f]]
  BY DEF Materialize
<1>3. QED
  BY <1>1, <1>2 DEF NoFiles, Parses

\* materialize_regeneration_output keeps the invariant.
LEMMA FormatStep == FormatInv /\ [Materialize]_formatVars => FormatInv'
<1> SUFFICES ASSUME FormatInv, [Materialize]_formatVars
             PROVE  FormatInv'
  OBVIOUS
<1>1. CASE UNCHANGED formatVars
  <2>1. UNCHANGED <<mode, lines, array, metadata, generated, step>>
    BY <1>1 DEF formatVars
  <2>2. CodeIsResponse'
    BY <2>1 DEF FormatInv, CodeIsResponse, HasFence
  <2>3. HasFence(lines)' = HasFence(lines) /\ FormatAllowed(lines)' = FormatAllowed(lines)
    BY <2>1 DEF HasFence, FormatAllowed, Filled
  <2>4. OutcomeRecorded'
    BY <2>1, <2>3 DEF FormatInv, OutcomeRecorded
  <2>5. QED
    BY <2>1, <2>2, <2>4 DEF FormatInv
<1>2. CASE Materialize
  <2> DEFINE n == Normalize(lines)
  <2>1. /\ step = "response" /\ step' \in {"accepted", "refused"}
        /\ mode' = mode /\ lines' = lines /\ array' = array
        /\ metadata = NoMetadata /\ generated = NoFiles
    BY <1>2 DEF Materialize, FormatInv
  <2>2. lines \in Seq(ToSet(lines)) /\ array \in Seq(ToSet(array))
    BY DEF FormatInv
  <2>3. CodeIsResponse'
    <3> SUFFICES ASSUME step' = "accepted", mode = "class_span"
                 PROVE  /\ PieceOf(generated'[Target], lines)
                        /\ ~HasFence(generated'[Target])
      BY <2>1 DEF CodeIsResponse, PieceOf, HasFence
    <3>1. n.ok /\ generated'[Target] = n.text
      BY <1>2, ClassAccepted
    <3>2. QED
      BY <2>2, <3>1, Normalized
  <2>4. /\ metadata'.written <=> n.ok
        /\ metadata'.written => metadata'.strict = ~n.applied
    BY <1>2, <2>1 DEF Materialize, NoMetadata
  <2>5. /\ metadata'.written <=> FormatAllowed(lines)
        /\ metadata'.written => metadata'.strict = ~HasFence(lines)
    BY <2>2, <2>4, Normalized, AllowedIsNormalized
  <2>6. step' = "accepted" => metadata'.written
    BY <1>2 DEF Materialize
  <2>7. ASSUME step' = "accepted" /\ mode = "module_files", NEW f \in Paths
        PROVE  \E i \in DOMAIN array : array[i] = f /\ generated'[f] = <<i>>
    BY <1>2, <2>2, <2>7, FilesAccepted, ContentListed
  <2>8. ASSUME ~(step' = "accepted" /\ mode = "module_files"), NEW f \in Paths
        PROVE  generated'[f] = <<>>
    <3>1. f # Target /\ generated[f] = <<>> /\ f \in DOMAIN generated
      BY <2>1, FormatAssumption DEF NoFiles, Target
    <3>2. CASE step' = "refused"
      BY <1>2, <3>1, <3>2 DEF Materialize
    <3>3. CASE step' = "accepted" /\ mode # "module_files"
      <4>1. mode = "class_span"
        BY <1>2, <3>3 DEF Materialize
      <4>2. QED
        BY <1>2, <3>1, <3>3, <4>1, ClassAccepted
    <3>4. QED
      BY <2>1, <2>8, <3>2, <3>3
  <2>9. OutcomeRecorded'
    <3>1. (\A f \in Paths : \E i \in DOMAIN array : array[i] = f /\ generated[f] = <<i>>)'
            \/ ~(step' = "accepted" /\ mode' = "module_files")
      BY <2>1, <2>7
    <3>2. (\A f \in Paths : generated[f] = <<>>)'
            \/ (step' = "accepted" /\ mode' = "module_files")
      BY <2>1, <2>8
    <3>3. HasFence(lines)' = HasFence(lines) /\ FormatAllowed(lines)' = FormatAllowed(lines)
      BY <2>1 DEF HasFence, FormatAllowed, Filled
    <3>4. QED
      BY <2>5, <2>6, <3>1, <3>2, <3>3 DEF OutcomeRecorded
  <2>10. QED
    BY <2>1, <2>2, <2>3, <2>9 DEF FormatInv
<1>3. QED
  BY <1>1, <1>2

\* The invariant of the reading of responses.
THEOREM FormatInvariance == FormatSpec => []FormatInv
<1>1. QED
  BY FormatStart, FormatStep, PTL DEF FormatSpec

\* The class that is evaluated is a part of the response, in one piece, with
\* only fences and blank lines around it: normalize_outer_markdown_fence loses
\* no line of code of a response of any length and lets no fence through.
THEOREM ResponseIsEvaluated == FormatSpec => []CodeIsResponse
<1>1. FormatInv => CodeIsResponse
  BY DEF FormatInv
<1>2. QED
  BY <1>1, FormatInvariance, PTL

\* What materialize_regeneration_output leaves of a response of any length: the
\* record of its format just if that is allowed, also when what is in it is
\* refused, and true of it; and every file or none.
THEOREM OutcomesAreRecorded == FormatSpec => []OutcomeRecorded
<1>1. FormatInv => OutcomeRecorded
  BY DEF FormatInv
<1>2. QED
  BY <1>1, FormatInvariance, PTL

-----------------------------------------------------------------------------
(***************************************************************************)
(* StudyStatistics: rankdata().                                            *)
(***************************************************************************)

\* A list has as many positions as it is long.
LEMMA UpTo ==
  ASSUME NEW n \in Nat
  PROVE  IsFiniteSet(1..n) /\ Cardinality(1..n) = n
<1>1. 1 \in Int /\ n \in Int
  OBVIOUS
<1>2. IsFiniteSet(1..n) /\ Cardinality(1..n) = IF 1 > n THEN 0 ELSE n - 1 + 1
  BY <1>1, FS_Interval
<1>3. QED
  BY <1>2

\* What sorted() puts no later than the value at i.
Below(i) ==
  {j \in DOMAIN values : values[j] < values[i] \/ (values[j] = values[i] /\ j <= i)}

\* The sort is an order of the positions: of two, one has the lower place.
LEMMA PlaceOrder ==
  ASSUME values \in Seq(Int), NEW i \in DOMAIN values, NEW j \in DOMAIN values,
         values[i] < values[j] \/ (values[i] = values[j] /\ i < j)
  PROVE  /\ Place(i) \in 1..Len(values) /\ Place(j) \in 1..Len(values)
         /\ Place(i) < Place(j)
<1>1. /\ Len(values) \in Nat /\ DOMAIN values = 1..Len(values)
      /\ \A k \in DOMAIN values : values[k] \in Int
  OBVIOUS
<1>2. IsFiniteSet(DOMAIN values) /\ Cardinality(DOMAIN values) = Len(values)
  BY <1>1, UpTo
<1>3. ASSUME NEW k \in DOMAIN values
      PROVE  /\ IsFiniteSet(Below(k)) /\ k \in Below(k)
             /\ Place(k) = Cardinality(Below(k))
             /\ Place(k) \in 1..Len(values)
  <2>1. Below(k) \subseteq DOMAIN values /\ k \in Below(k)
    BY <1>1 DEF Below
  <2>2. IsFiniteSet(Below(k)) /\ Cardinality(Below(k)) <= Len(values)
    BY <1>2, <2>1, FS_Subset
  <2>3. Cardinality(Below(k)) \in Nat /\ Cardinality(Below(k)) # 0
    BY <2>1, <2>2, FS_CardinalityType, FS_EmptySet
  <2>4. Place(k) = Cardinality(Below(k))
    BY DEF Place, Below
  <2>5. QED
    BY <1>1, <2>1, <2>2, <2>3, <2>4
<1>4. Below(i) \subseteq Below(j) /\ j \notin Below(i)
  BY <1>1 DEF Below
<1>5. /\ Cardinality(Below(i)) <= Cardinality(Below(j))
      /\ Cardinality(Below(j)) = Cardinality(Below(i)) => Below(j) = Below(i)
  BY <1>3, <1>4, FS_Subset
<1>6. Cardinality(Below(i)) # Cardinality(Below(j))
  BY <1>3, <1>4, <1>5
<1>7. QED
  <2>1. /\ Place(i) = Cardinality(Below(i)) /\ Place(j) = Cardinality(Below(j))
        /\ Place(i) \in 1..Len(values) /\ Place(j) \in 1..Len(values)
    BY <1>3
  <2>2. QED
    BY <1>1, <1>5, <1>6, <2>1

\* Every position has a place, every place one position, which is what is there
\* in the sorted list, and the list is sorted.
LEMMA Sorted ==
  ASSUME values \in Seq(Int)
  PROVE  /\ \A i \in DOMAIN values : Place(i) \in 1..Len(values) /\ Indexed[Place(i)] = i
         /\ \A k \in 1..Len(values) :
              Indexed[k] \in DOMAIN values /\ Place(Indexed[k]) = k
         /\ \A i, j \in DOMAIN values : Place(i) <= Place(j) => values[i] <= values[j]
<1>1. /\ Len(values) \in Nat /\ DOMAIN values = 1..Len(values)
      /\ \A k \in DOMAIN values : values[k] \in Int
  OBVIOUS
<1>2. ASSUME NEW i \in DOMAIN values
      PROVE  Place(i) \in 1..Len(values)
  <2>1. Below(i) \subseteq DOMAIN values /\ i \in Below(i)
    BY <1>1 DEF Below
  <2>2. IsFiniteSet(DOMAIN values) /\ Cardinality(DOMAIN values) = Len(values)
    BY <1>1, UpTo
  <2>3. IsFiniteSet(Below(i)) /\ Cardinality(Below(i)) <= Len(values)
    BY <2>1, <2>2, FS_Subset
  <2>4. Cardinality(Below(i)) \in Nat /\ Cardinality(Below(i)) # 0
    BY <2>1, <2>3, FS_CardinalityType, FS_EmptySet
  <2>5. Place(i) = Cardinality(Below(i))
    BY DEF Place, Below
  <2>6. QED
    BY <1>1, <2>3, <2>4, <2>5
<1>3. ASSUME NEW i \in DOMAIN values, NEW j \in DOMAIN values, i # j
      PROVE  Place(i) # Place(j)
  <2>1. \/ values[i] < values[j] \/ (values[i] = values[j] /\ i < j)
        \/ values[j] < values[i] \/ (values[j] = values[i] /\ j < i)
    BY <1>1, <1>3
  <2>2. Place(i) < Place(j) \/ Place(j) < Place(i)
    BY <2>1, PlaceOrder
  <2>3. QED
    BY <1>1, <1>2, <2>2
<1>4. ASSUME NEW k \in 1..Len(values)
      PROVE  \E i \in DOMAIN values : Place(i) = k
  <2> DEFINE D == 1..Len(values)
             f == [i \in D |-> Place(i)]
  <2>1. f \in Injection(D, D)
    <3>1. f \in [D -> D]
      BY <1>1, <1>2
    <3>2. \A i, j \in D : f[i] = f[j] => i = j
      BY <1>1, <1>3
    <3>3. QED
      BY <3>1, <3>2 DEF Injection, IsInjective
  <2>2. IsFiniteSet(D)
    BY <1>1, FS_Interval
  <2>3. f \in Surjection(D, D)
    <3> HIDE DEF D, f
    <3>1. QED
      BY <2>1, <2>2, FS_Injection
  <2>4. QED
    BY <1>1, <2>3 DEF Surjection
<1>5. ASSUME NEW k \in 1..Len(values)
      PROVE  Indexed[k] \in DOMAIN values /\ Place(Indexed[k]) = k
  <2>1. \E i \in DOMAIN values : Place(i) = k
    BY <1>4
  <2>2. Indexed[k] = CHOOSE i \in DOMAIN values : Place(i) = k
    BY <1>1 DEF Indexed
  <2>3. QED
    BY <2>1, <2>2
<1>6. ASSUME NEW i \in DOMAIN values
      PROVE  Indexed[Place(i)] = i
  <2>1. Indexed[Place(i)] \in DOMAIN values /\ Place(Indexed[Place(i)]) = Place(i)
    BY <1>2, <1>5
  <2>2. QED
    BY <1>3, <2>1
<1>7. ASSUME NEW i \in DOMAIN values, NEW j \in DOMAIN values, Place(i) <= Place(j)
      PROVE  values[i] <= values[j]
  <2>1. CASE values[j] < values[i]
    <3>1. Place(j) < Place(i)
      BY <2>1, PlaceOrder
    <3>2. QED
      BY <1>1, <1>2, <1>7, <3>1
  <2>2. QED
    BY <1>1, <2>1
<1>8. QED
  BY <1>2, <1>5, <1>6, <1>7

\* Up to the m-th place there are m positions.
LEMMA PlacesCounted ==
  ASSUME values \in Seq(Int), NEW m \in 0..Len(values),
         NEW S, S = {i \in DOMAIN values : Place(i) <= m}
  PROVE  Cardinality(S) = m
<1> DEFINE f == [k \in 1..m |-> Indexed[k]]
<1>1. /\ Len(values) \in Nat /\ DOMAIN values = 1..Len(values) /\ m \in Nat
  OBVIOUS
<1>2. ASSUME NEW k \in 1..m
      PROVE  f[k] \in S /\ Place(f[k]) = k
  <2>1. k \in 1..Len(values) /\ k <= m
    BY <1>1
  <2>2. f[k] \in DOMAIN values /\ Place(f[k]) = k
    BY <2>1, Sorted
  <2>3. QED
    BY <2>1, <2>2
<1>3. ASSUME NEW i \in S
      PROVE  Place(i) \in 1..m /\ f[Place(i)] = i
  <2>1. i \in DOMAIN values /\ Place(i) <= m
    OBVIOUS
  <2>2. Place(i) \in 1..Len(values) /\ Indexed[Place(i)] = i
    BY <2>1, Sorted
  <2>3. QED
    BY <1>1, <2>1, <2>2
<1>4. f \in Bijection(1..m, S)
  <2>1. f \in [1..m -> S]
    BY <1>2
  <2>2. \A k, l \in 1..m : f[k] = f[l] => k = l
    BY <1>2
  <2>3. \A i \in S : \E k \in 1..m : f[k] = i
    BY <1>3
  <2>4. QED
    BY <2>1, <2>2, <2>3 DEF Bijection, Injection, Surjection, IsInjective
<1>5. ExistsBijection(1..m, S)
  BY <1>4 DEF ExistsBijection
<1>6. QED
  BY <1>1, <1>5, FS_CountingElements

\* The inner loop stops at the last of the values that are equal to the one at
\* index.
LEMMA TieFound ==
  ASSUME values \in Seq(Int), index \in 1..Len(values)
  PROVE  /\ TieEnd \in index..Len(values)
         /\ \A k \in index..TieEnd : values[Indexed[k]] = values[Indexed[index]]
         /\ TieEnd < Len(values) => values[Indexed[TieEnd + 1]] # values[Indexed[index]]
<1> DEFINE tied == {k \in index..Len(values) : values[Indexed[k]] = values[Indexed[index]]}
           last == Max(tied)
<1>1. /\ Len(values) \in Nat /\ DOMAIN values = 1..Len(values) /\ index \in Nat
      /\ \A k \in DOMAIN values : values[k] \in Int
  OBVIOUS
<1>2. tied \in SUBSET (1..Len(values)) /\ index \in tied
  BY <1>1
<1>3. last \in tied /\ \A k \in tied : k <= last
  BY <1>1, <1>2, GreatestOf
<1> HIDE DEF last
<1>4. last \in index..Len(values) /\ values[Indexed[last]] = values[Indexed[index]]
  BY <1>3
<1>5. ASSUME NEW k \in index..last
      PROVE  values[Indexed[k]] = values[Indexed[index]]
  <2>1. /\ index \in 1..Len(values) /\ k \in 1..Len(values) /\ last \in 1..Len(values)
        /\ index <= k /\ k <= last
    BY <1>1, <1>4
  <2>2. /\ Indexed[index] \in DOMAIN values /\ Place(Indexed[index]) = index
        /\ Indexed[k] \in DOMAIN values /\ Place(Indexed[k]) = k
        /\ Indexed[last] \in DOMAIN values /\ Place(Indexed[last]) = last
    BY <2>1, Sorted
  <2>3. /\ values[Indexed[index]] <= values[Indexed[k]]
        /\ values[Indexed[k]] <= values[Indexed[last]]
    BY <2>1, <2>2, Sorted
  <2>4. QED
    BY <1>1, <1>4, <2>2, <2>3
<1>6. last < Len(values) => values[Indexed[last + 1]] # values[Indexed[index]]
  <2>1. ASSUME last < Len(values), values[Indexed[last + 1]] = values[Indexed[index]]
        PROVE  FALSE
    <3>1. last + 1 \in tied
      BY <1>1, <1>4, <2>1
    <3>2. QED
      BY <1>1, <1>3, <1>4, <3>1
  <2>2. QED
    BY <2>1
<1>7. QED
  <2> HIDE DEF tied
  <2>1. \E e \in index..Len(values) :
          /\ \A k \in index..e : values[Indexed[k]] = values[Indexed[index]]
          /\ e < Len(values) => values[Indexed[e + 1]] # values[Indexed[index]]
    BY <1>4, <1>5, <1>6
  <2>2. QED
    BY <2>1 DEF TieEnd

\* Twice the rank of a value by its definition.
RankOf(i) ==
  1 + Cardinality({j \in DOMAIN values : values[j] < values[i]})
    + Cardinality({j \in DOMAIN values : values[j] <= values[i]})

\* Between two turns of the loop: what is before index is less than all that
\* is not, and has its rank.
StatsInv ==
  /\ values \in Seq(Int)
  /\ index \in 1..(Len(values) + 1)
  /\ DOMAIN ranks = DOMAIN values
  /\ \A i, j \in DOMAIN values :
       Place(i) < index /\ Place(j) >= index => values[i] < values[j]
  /\ \A i \in DOMAIN values : Place(i) < index => ranks[i] = RankOf(i)

\* Before the first turn no value has a rank.
LEMMA StatsStart == StatsInit => StatsInv
<1> SUFFICES ASSUME StatsInit
             PROVE  StatsInv
  OBVIOUS
<1>1. values \in Seq(Int) /\ index = 1 /\ DOMAIN ranks = DOMAIN values
  BY StatsAssumption DEF StatsInit
<1>2. \A i \in DOMAIN values : ~(Place(i) < index)
  <2>1. \A i \in DOMAIN values : Place(i) \in 1..Len(values)
    BY <1>1, Sorted
  <2>2. QED
    BY <1>1, <2>1
<1>3. index \in 1..(Len(values) + 1)
  BY <1>1
<1>4. QED
  BY <1>1, <1>2, <1>3 DEF StatsInv

\* The values of a tie take up the places from index to TieEnd: the sum of the
\* first and the last of them is what the definition counts.
LEMMA TieRanked ==
  ASSUME StatsInv, index <= Len(values),
         NEW i \in DOMAIN values, Place(i) \in index..TieEnd
  PROVE  RankOf(i) = index + TieEnd
<1>1. /\ values \in Seq(Int) /\ index \in 1..Len(values)
      /\ Len(values) \in Nat /\ DOMAIN values = 1..Len(values) /\ index \in Nat
      /\ \A k \in DOMAIN values : values[k] \in Int
  BY DEF StatsInv
<1> DEFINE e == TieEnd
           v == values[Indexed[index]]
<1>2. /\ e \in index..Len(values)
      /\ \A k \in index..e : values[Indexed[k]] = v
      /\ e < Len(values) => values[Indexed[e + 1]] # v
  BY <1>1, TieFound
<1>3. values[i] = v
  <2>1. Indexed[Place(i)] = i
    BY <1>1, Sorted
  <2>2. QED
    BY <1>2, <2>1
<1>4. Indexed[index] \in DOMAIN values /\ Place(Indexed[index]) = index /\ v \in Int
  BY <1>1, Sorted
<1> HIDE DEF e, v
<1>5. {j \in DOMAIN values : values[j] < values[i]} = {j \in DOMAIN values : Place(j) <= index - 1}
  <2>1. ASSUME NEW j \in DOMAIN values
        PROVE  values[j] < v <=> Place(j) <= index - 1
    <3>1. Place(j) \in 1..Len(values)
      BY <1>1, Sorted
    <3>2. CASE Place(j) <= index - 1
      <4>1. Place(j) < index /\ Place(Indexed[index]) >= index
        BY <1>1, <1>4, <3>1, <3>2
      <4>2. values[j] < values[Indexed[index]]
        BY <1>4, <4>1 DEF StatsInv
      <4>3. QED
        BY <3>2, <4>2 DEF v
    <3>3. CASE ~(Place(j) <= index - 1)
      <4>1. Place(Indexed[index]) <= Place(j)
        BY <1>1, <1>4, <3>1, <3>3
      <4>2. values[Indexed[index]] <= values[j]
        BY <1>1, <1>4, <4>1, Sorted
      <4>3. QED
        BY <1>1, <1>4, <3>3, <4>2 DEF v
    <3>4. QED
      BY <3>2, <3>3
  <2>2. QED
    BY <1>3, <2>1
<1>6. {j \in DOMAIN values : values[j] <= values[i]} = {j \in DOMAIN values : Place(j) <= e}
  <2>1. ASSUME NEW j \in DOMAIN values
        PROVE  values[j] <= v <=> Place(j) <= e
    <3>1. Place(j) \in 1..Len(values) /\ values[j] \in Int
      BY <1>1, Sorted
    <3>2. CASE Place(j) <= e
      <4>1. /\ e \in 1..Len(values)
            /\ Indexed[e] \in DOMAIN values /\ Place(Indexed[e]) = e
        BY <1>1, <1>2, Sorted
      <4>2. values[j] <= values[Indexed[e]]
        BY <1>1, <3>2, <4>1, Sorted
      <4>3. values[Indexed[e]] = v
        BY <1>1, <1>2
      <4>4. QED
        BY <3>2, <4>2, <4>3
    <3>3. CASE ~(Place(j) <= e)
      <4>1. /\ e \in Nat /\ e < Len(values) /\ e + 1 \in 1..Len(values)
            /\ e + 1 <= Place(j) /\ index <= e + 1
        <5>1. \A b, l, x, p \in Nat :
                x >= b /\ p <= l /\ ~(p <= x)
                  => x < l /\ x + 1 \in 1..l /\ x + 1 <= p /\ b <= x + 1
          OBVIOUS
        <5>2. Len(values) \in Nat /\ index \in Nat
          BY <1>1
        <5>3. e \in Nat /\ e >= index
          BY <1>2, <5>2
        <5>4. Place(j) \in Nat /\ Place(j) <= Len(values)
          BY <3>1, <5>2
        <5>5. QED
          BY <3>3, <5>1, <5>2, <5>3, <5>4
      <4>2. Indexed[e + 1] \in DOMAIN values /\ Place(Indexed[e + 1]) = e + 1
        BY <1>1, <4>1, Sorted
      <4>3. values[Indexed[e + 1]] <= values[j]
        BY <1>1, <4>1, <4>2, Sorted
      <4>4. v <= values[Indexed[e + 1]]
        BY <1>1, <1>4, <4>1, <4>2, Sorted DEF v
      <4>5. values[Indexed[e + 1]] # v /\ values[Indexed[e + 1]] \in Int
        BY <1>1, <1>2, <4>1, <4>2
      <4>6. QED
        BY <1>4, <3>1, <3>3, <4>3, <4>4, <4>5
    <3>4. QED
      BY <3>2, <3>3
  <2>2. QED
    BY <1>3, <2>1
<1>7. Cardinality({j \in DOMAIN values : Place(j) <= index - 1}) = index - 1
  <2>1. index - 1 \in 0..Len(values)
    BY <1>1
  <2>2. QED
    BY <1>1, <2>1, PlacesCounted
<1>8. Cardinality({j \in DOMAIN values : Place(j) <= e}) = e
  <2>1. e \in 0..Len(values)
    BY <1>1, <1>2
  <2>2. QED
    BY <1>1, <2>1, PlacesCounted
<1>9. RankOf(i) = 1 + (index - 1) + e
  BY <1>5, <1>6, <1>7, <1>8 DEF RankOf
<1>10. QED
  BY <1>1, <1>2, <1>9 DEF e

\* A turn of the loop.
LEMMA RankTiesStep ==
  ASSUME StatsInv, RankTies
  PROVE  StatsInv'
<1> DEFINE e == TieEnd
<1>1. /\ values \in Seq(Int) /\ index \in 1..Len(values)
      /\ Len(values) \in Nat /\ DOMAIN values = 1..Len(values) /\ index \in Nat
      /\ \A k \in DOMAIN values : values[k] \in Int
  BY DEF StatsInv, RankTies
<1>2. /\ e \in index..Len(values)
      /\ \A k \in index..e : values[Indexed[k]] = values[Indexed[index]]
      /\ e < Len(values) => values[Indexed[e + 1]] # values[Indexed[index]]
  BY <1>1, TieFound
<1>3. /\ values' = values /\ index' = e + 1
      /\ ranks' = [i \in DOMAIN values |->
                      IF \E k \in index..e : Indexed[k] = i THEN index + e ELSE ranks[i]]
  BY DEF RankTies
<1>4. \A i \in DOMAIN values : Place(i) \in 1..Len(values) /\ Indexed[Place(i)] = i
  BY <1>1, Sorted
<1>5. ASSUME NEW i \in DOMAIN values, NEW j \in DOMAIN values,
             Place(i) < e + 1, Place(j) >= e + 1
      PROVE  values[i] < values[j]
  <2> HIDE DEF e
  <2>1. /\ e \in 1..Len(values) /\ e + 1 \in 1..Len(values) /\ e < Len(values)
        /\ Place(i) <= e /\ e + 1 <= Place(j) /\ index <= e /\ index <= e + 1
    <3>1. Place(i) \in 1..Len(values) /\ Place(j) \in 1..Len(values)
      BY <1>4
    <3>2. \A l, p, q, x, b \in Nat :
            b >= 1 /\ x >= b /\ x <= l /\ p < x + 1 /\ q >= x + 1 /\ q <= l
              => /\ x \in 1..l /\ x + 1 \in 1..l /\ x < l
                 /\ p <= x /\ x + 1 <= q /\ b <= x /\ b <= x + 1
      OBVIOUS
    <3>3. Len(values) \in Nat /\ index \in Nat /\ index >= 1
      BY <1>1
    <3>4. e \in Nat /\ e >= index /\ e <= Len(values)
      BY <1>2, <3>3
    <3>5. Place(i) \in Nat /\ Place(j) \in Nat /\ Place(j) <= Len(values)
      BY <3>1, <3>3
    <3>6. Place(i) < e + 1 /\ Place(j) >= e + 1
      BY <1>5
    <3> HIDE <1>5
    <3>7. QED
      BY <3>2, <3>3, <3>4, <3>5, <3>6
  <2>2. /\ Indexed[e] \in DOMAIN values /\ Place(Indexed[e]) = e
        /\ Indexed[e + 1] \in DOMAIN values /\ Place(Indexed[e + 1]) = e + 1
    BY <1>1, <2>1, Sorted
  <2>3. values[i] <= values[Indexed[e]] /\ values[Indexed[e + 1]] <= values[j]
    BY <1>1, <2>1, <2>2, Sorted
  <2>4. values[Indexed[e]] <= values[Indexed[e + 1]]
    <3>1. Place(Indexed[e]) <= Place(Indexed[e + 1])
      BY <2>1, <2>2
    <3>2. QED
      BY <1>1, <2>2, <3>1, Sorted
  <2>5. values[Indexed[e]] # values[Indexed[e + 1]]
    BY <1>1, <1>2, <2>1
  <2>6. QED
    BY <1>1, <2>2, <2>3, <2>4, <2>5
<1>6. ASSUME NEW i \in DOMAIN values, Place(i) < e + 1
      PROVE  ranks'[i] = RankOf(i)
  <2> HIDE DEF e
  <2>1. CASE Place(i) < index
    <3>1. ~\E k \in index..e : Indexed[k] = i
      <4>1. ASSUME NEW k \in index..e, Indexed[k] = i
            PROVE  FALSE
        <5>1. k \in 1..Len(values) /\ k >= index
          BY <1>1, <1>2
        <5>2. Place(i) = k
          BY <1>1, <4>1, <5>1, Sorted
        <5>3. QED
          BY <1>1, <2>1, <5>1, <5>2
      <4>2. QED
        BY <4>1
    <3>2. ranks'[i] = ranks[i]
      BY <1>3, <3>1
    <3>3. QED
      BY <2>1, <3>2 DEF StatsInv
  <2>2. CASE ~(Place(i) < index)
    <3>1. Place(i) \in index..e
      BY <1>1, <1>2, <1>4, <1>6, <2>2
    <3>2. ranks'[i] = index + e
      BY <1>3, <1>4, <3>1
    <3>3. index <= Len(values)
      BY <1>1
    <3>4. QED
      BY <3>1, <3>2, <3>3, TieRanked DEF e
  <2>3. QED
    BY <2>1, <2>2
<1>7. DOMAIN ranks' = DOMAIN values
  BY <1>3
<1>8. index' \in 1..(Len(values) + 1)
  BY <1>1, <1>2, <1>3
<1>9. \A i \in DOMAIN values : Place(i)' = Place(i) /\ RankOf(i)' = RankOf(i)
  BY <1>3 DEF Place, RankOf
<1>10. QED
  <2> HIDE DEF e
  <2>1. QED
    BY <1>1, <1>3, <1>5, <1>6, <1>7, <1>8, <1>9 DEF StatsInv

\* The loop keeps the invariant, and the test does not touch it.
LEMMA StatsStep == StatsInv /\ [StatsNext]_statsVars => StatsInv'
<1> SUFFICES ASSUME StatsInv, [StatsNext]_statsVars
             PROVE  StatsInv'
  OBVIOUS
<1>1. CASE RankTies
  BY <1>1, RankTiesStep
<1>2. CASE FisherTest \/ UNCHANGED statsVars
  <2>1. values' = values /\ index' = index /\ ranks' = ranks
    BY <1>2 DEF FisherTest, statsVars
  <2>2. \A i : Place(i)' = Place(i) /\ RankOf(i)' = RankOf(i)
    BY <2>1 DEF Place, RankOf
  <2>3. QED
    BY <2>1, <2>2 DEF StatsInv
<1>3. QED
  BY <1>1, <1>2 DEF StatsNext

\* The invariant of the loop of rankdata().
THEOREM StatsInvariance == StatsSpec => []StatsInv
<1>1. QED
  BY StatsStart, StatsStep, PTL DEF StatsSpec

\* rankdata() returns the average ranks, for lists of any length with ties of
\* any length anywhere in them.
THEOREM RanksAreAverages == StatsSpec => []RanksAverage
<1>1. StatsInv => RanksAverage
  <2> SUFFICES ASSUME StatsInv, index > Len(values), NEW i \in DOMAIN values
               PROVE  ranks[i] = RankOf(i)
    BY DEF RanksAverage, RankOf
  <2>1. values \in Seq(Int) /\ index \in 1..(Len(values) + 1) /\ Len(values) \in Nat
    BY DEF StatsInv
  <2>2. Place(i) \in 1..Len(values)
    BY <2>1, Sorted
  <2>3. Place(i) < index
    BY <2>1, <2>2
  <2>4. QED
    BY <2>3 DEF StatsInv
<1>2. QED
  BY <1>1, StatsInvariance, PTL

-----------------------------------------------------------------------------
(***************************************************************************)
(* StudyStatistics: math.comb() counts subsets.                            *)
(***************************************************************************)

\* The factorials up to n.
FactorialsTo(n) ==
  CHOOSE f \in Stepwise(0, n, Nat, 1, [p \in (0..n) \X Nat |-> p[1] * p[2]]) : TRUE

LEMMA FactorialsExist ==
  ASSUME NEW n \in Nat
  PROVE  \A i \in 0..n :
           /\ FactorialsTo(n)[i] \in Nat
           /\ FactorialsTo(n)[i] = IF i = 0 THEN 1 ELSE i * FactorialsTo(n)[i - 1]
<1> DEFINE next == [p \in (0..n) \X Nat |-> p[1] * p[2]]
           f == FactorialsTo(n)
<1>1. next \in [(0..n) \X Nat -> Nat]
  OBVIOUS
<1> HIDE DEF next
<1>2. Stepwise(0, n, Nat, 1, next) # {}
  BY <1>1, StepByStep
<1>3. f \in Stepwise(0, n, Nat, 1, next)
  BY <1>2 DEF FactorialsTo, next
<1> HIDE DEF f
<1>4. /\ f \in [0..n -> Nat]
      /\ \A i \in 0..n : f[i] = IF i = 0 THEN 1 ELSE next[<<i, f[i - 1]>>]
  BY <1>3 DEF Stepwise
<1>5. ASSUME NEW i \in 0..n, i # 0
      PROVE  next[<<i, f[i - 1]>>] = i * f[i - 1]
  <2>1. i - 1 \in 0..n
    BY <1>5
  <2>2. f[i - 1] \in Nat
    BY <1>4, <2>1
  <2>3. QED
    BY <2>2 DEF next
<1>6. QED
  BY <1>4, <1>5 DEF f

LEMMA FactorialsAgree ==
  ASSUME NEW n \in Nat
  PROVE  \A i \in 0..n : FactorialsTo(n + 1)[i] = FactorialsTo(n)[i]
<1> DEFINE f == FactorialsTo(n)
           g == FactorialsTo(n + 1)
           good == {i \in 0..n : g[i] = f[i]}
<1>1. \A i \in 0..n : f[i] = IF i = 0 THEN 1 ELSE i * f[i - 1]
  BY FactorialsExist
<1>2. \A i \in 0..n : g[i] = IF i = 0 THEN 1 ELSE i * g[i - 1]
  <2>1. n + 1 \in Nat /\ \A i \in 0..n : i \in 0..(n + 1)
    OBVIOUS
  <2>2. QED
    BY <2>1, FactorialsExist
<1> HIDE DEF f, g
<1>3. 0 \in good
  BY <1>1, <1>2
<1>4. ASSUME NEW i \in 0..n, i \in good, i + 1 <= n
      PROVE  i + 1 \in good
  <2>1. i + 1 \in 0..n /\ i + 1 # 0 /\ i + 1 - 1 = i
    BY <1>4
  <2>2. g[i + 1] = (i + 1) * g[i] /\ f[i + 1] = (i + 1) * f[i]
    BY <1>1, <1>2, <2>1
  <2>3. QED
    BY <1>4, <2>1, <2>2
<1> HIDE DEF good
<1>5. \A i \in 0..n : i \in good
  BY <1>3, <1>4, AllPositions
<1>6. QED
  BY <1>5 DEF f, g, good

\* The factorials of Combinatorics are what they are called.
LEMMA Factorials ==
  /\ factorial[0] = 1
  /\ \A n \in Nat : factorial[n + 1] = (n + 1) * factorial[n]
<1> DEFINE F == [n \in Nat |-> FactorialsTo(n)[n]]
<1>1. ASSUME NEW n \in Nat
      PROVE  FactorialsTo(n)[n] = IF n = 0 THEN 1 ELSE n * FactorialsTo(n - 1)[n - 1]
  <2>1. FactorialsTo(n)[n] = IF n = 0 THEN 1 ELSE n * FactorialsTo(n)[n - 1]
    BY FactorialsExist
  <2>2. ASSUME n # 0
        PROVE  FactorialsTo(n)[n - 1] = FactorialsTo(n - 1)[n - 1]
    <3>1. n - 1 \in Nat /\ n - 1 + 1 = n /\ n - 1 \in 0..(n - 1)
      BY <2>2
    <3>2. QED
      BY <3>1, FactorialsAgree
  <2>3. QED
    BY <2>1, <2>2
<1>2. F = [n \in Nat |-> IF n = 0 THEN 1 ELSE n * F[n - 1]]
  <2>1. ASSUME NEW n \in Nat
        PROVE  F[n] = IF n = 0 THEN 1 ELSE n * F[n - 1]
    <3>1. CASE n = 0
      BY <1>1, <3>1
    <3>2. CASE n # 0
      <4>1. n - 1 \in Nat
        BY <3>2
      <4>2. F[n - 1] = FactorialsTo(n - 1)[n - 1] /\ F[n] = FactorialsTo(n)[n]
        BY <4>1
      <4>3. QED
        BY <1>1, <3>2, <4>2
    <3>3. QED
      BY <3>1, <3>2
  <2>2. F = [n \in Nat |-> F[n]]
    OBVIOUS
  <2> HIDE DEF F
  <2>3. QED
    BY <2>1, <2>2
<1> HIDE DEF F
<1>3. factorial = [n \in Nat |-> IF n = 0 THEN 1 ELSE n * factorial[n - 1]]
  BY <1>2 DEF factorial
<1>4. ASSUME NEW n \in Nat
      PROVE  factorial[n] = IF n = 0 THEN 1 ELSE n * factorial[n - 1]
  BY <1>3
<1>5. ASSUME NEW n \in Nat
      PROVE  factorial[n + 1] = (n + 1) * factorial[n]
  <2>1. n + 1 \in Nat /\ n + 1 # 0 /\ n + 1 - 1 = n
    OBVIOUS
  <2>2. QED
    BY <1>4, <2>1
<1>6. QED
  BY <1>4, <1>5

\* None is 0.
LEMMA FactorialType ==
  ASSUME NEW n \in Nat
  PROVE  factorial[n] \in Nat /\ factorial[n] > 0
<1> DEFINE good == {i \in 0..n : factorial[i] \in Nat /\ factorial[i] > 0}
<1>1. 0 \in good
  BY Factorials
<1>2. ASSUME NEW i \in 0..n, i \in good, i + 1 <= n
      PROVE  i + 1 \in good
  <2>1. i + 1 \in 0..n /\ i \in Nat
    BY <1>2
  <2>2. factorial[i + 1] = (i + 1) * factorial[i]
    BY <2>1, Factorials
  <2>3. ASSUME NEW a \in Nat, NEW b \in Nat, b > 0
        PROVE  (a + 1) * b \in Nat /\ (a + 1) * b > 0
    <3>1. a * b \in Nat /\ (a + 1) * b = a * b + b
      OBVIOUS
    <3>2. QED
      BY <2>3, <3>1
  <2>4. QED
    BY <1>2, <2>1, <2>2, <2>3
<1> HIDE DEF good
<1>3. \A i \in 0..n : i \in good
  BY <1>1, <1>2, AllPositions
<1>4. QED
  BY <1>3 DEF good

\* The subsets of k elements.
Ways(S, k) == {s \in SUBSET S : Cardinality(s) = k}

LEMMA WaysFinite ==
  ASSUME NEW S, IsFiniteSet(S), NEW k
  PROVE  IsFiniteSet(Ways(S, k)) /\ Cardinality(Ways(S, k)) \in Nat
<1>1. Ways(S, k) \subseteq SUBSET S
  BY DEF Ways
<1>2. IsFiniteSet(Ways(S, k))
  BY <1>1, FS_SUBSET, FS_Subset
<1>3. QED
  BY <1>2, FS_CardinalityType

\* A subset with k elements has x, or has not.
LEMMA WaysGrow ==
  ASSUME NEW U, IsFiniteSet(U), NEW x, x \notin U, NEW k \in Nat, k > 0
  PROVE  Cardinality(Ways(U \cup {x}, k))
           = Cardinality(Ways(U, k)) + Cardinality(Ways(U, k - 1))
<1> DEFINE with == {s \cup {x} : s \in Ways(U, k - 1)}
           f == [s \in Ways(U, k - 1) |-> s \cup {x}]
<1>1. ASSUME NEW s \in SUBSET U
      PROVE  /\ Cardinality(s \cup {x}) = Cardinality(s) + 1
             /\ Cardinality(s) \in Nat /\ x \notin s
  BY FS_Subset, FS_AddElement, FS_CardinalityType
<1>2. Ways(U \cup {x}, k) = Ways(U, k) \cup with
  <2>1. ASSUME NEW s \in Ways(U \cup {x}, k)
        PROVE  s \in Ways(U, k) \cup with
    <3>1. CASE x \notin s
      BY <3>1 DEF Ways
    <3>2. CASE x \in s
      <4>1. s \ {x} \in SUBSET U /\ (s \ {x}) \cup {x} = s /\ Cardinality(s) = k
        BY <3>2 DEF Ways
      <4>2. Cardinality(s \ {x}) \in Nat /\ k = Cardinality(s \ {x}) + 1
        BY <1>1, <4>1
      <4>3. Cardinality(s \ {x}) = k - 1
        BY <4>2
      <4>4. s \ {x} \in Ways(U, k - 1)
        BY <4>1, <4>3 DEF Ways
      <4>5. QED
        BY <4>1, <4>4
    <3>3. QED
      BY <3>1, <3>2
  <2>2. ASSUME NEW s \in Ways(U, k - 1)
        PROVE  s \cup {x} \in Ways(U \cup {x}, k)
    <3>1. s \in SUBSET U /\ Cardinality(s) = k - 1
      BY DEF Ways
    <3>2. Cardinality(s \cup {x}) = k
      BY <1>1, <3>1
    <3>3. QED
      BY <3>1, <3>2 DEF Ways
  <2>3. Ways(U, k) \subseteq Ways(U \cup {x}, k)
    BY DEF Ways
  <2>4. QED
    BY <2>1, <2>2, <2>3
<1>3. Ways(U, k) \cap with = {}
  BY <1>1 DEF Ways
<1>4. f \in Bijection(Ways(U, k - 1), with)
  <2>1. \A s, t \in Ways(U, k - 1) : s \cup {x} = t \cup {x} => s = t
    BY <1>1 DEF Ways
  <2>2. f \in Injection(Ways(U, k - 1), with)
    BY <2>1 DEF Injection, IsInjective
  <2>3. f \in Surjection(Ways(U, k - 1), with)
    BY DEF Surjection
  <2>4. QED
    BY <2>2, <2>3 DEF Bijection
<1> HIDE DEF with, f
<1>5. /\ IsFiniteSet(Ways(U, k)) /\ Cardinality(Ways(U, k)) \in Nat
      /\ IsFiniteSet(Ways(U, k - 1)) /\ Cardinality(Ways(U, k - 1)) \in Nat
  BY WaysFinite
<1>6. IsFiniteSet(with) /\ Cardinality(with) = Cardinality(Ways(U, k - 1))
  BY <1>4, <1>5, FS_Bijection DEF ExistsBijection
<1>7. Cardinality(Ways(U, k) \cup with)
        = Cardinality(Ways(U, k)) + Cardinality(with) - Cardinality({})
  BY <1>3, <1>5, <1>6, FS_Union
<1>8. Cardinality({}) = 0
  BY FS_EmptySet
<1>9. Cardinality(Ways(U \cup {x}, k))
        = Cardinality(Ways(U, k)) + Cardinality(Ways(U, k - 1)) - 0
  BY <1>2, <1>6, <1>7, <1>8
<1>10. QED
  BY <1>5, <1>9

\* Pascal's rule, as products.
LEMMA Pascal ==
  ASSUME NEW a \in Nat, NEW b \in Nat, NEW k \in Nat, NEW m \in Nat,
         NEW p \in Nat, NEW q \in Nat, NEW r \in Nat,
         a * ((k * p) * q) = r, b * (p * (m * q)) = r
  PROVE  (a + b) * ((k * p) * (m * q)) = (k + m) * r
<1>1. a * ((k * p) * (m * q)) = m * (a * ((k * p) * q))
  OBVIOUS
<1>2. b * ((k * p) * (m * q)) = k * (b * (p * (m * q)))
  OBVIOUS
<1>3. (a + b) * ((k * p) * (m * q)) = a * ((k * p) * (m * q)) + b * ((k * p) * (m * q))
  OBVIOUS
<1>4. QED
  <2>1. (k + m) * r = m * r + k * r
    OBVIOUS
  <2>2. QED
    BY <1>1, <1>2, <1>3, <2>1

\* What n! is made of, in terms of the subsets with k elements of n.
Counted(S, k) ==
  Cardinality(Ways(S, k)) * (factorial[k] * factorial[Cardinality(S) - k])
    = factorial[Cardinality(S)]

LEMMA CountedBy ==
  ASSUME NEW S, NEW k, NEW w, NEW n, NEW f,
         Cardinality(Ways(S, k)) = w, Cardinality(S) = n, factorial[n - k] = f,
         w * (factorial[k] * f) = factorial[n]
  PROVE  Counted(S, k)
BY DEF Counted

\* One element more.
LEMMA CountedGrows ==
  ASSUME NEW U, IsFiniteSet(U), NEW x, x \notin U,
         \A k \in 0..Cardinality(U) : Counted(U, k),
         NEW k \in 0..Cardinality(U \cup {x})
  PROVE  Counted(U \cup {x}, k)
<1> DEFINE T == U \cup {x}
           n == Cardinality(U)
<1>1. /\ n \in Nat /\ IsFiniteSet(T) /\ Cardinality(T) = n + 1
      /\ k \in Nat /\ k <= n + 1
  <2>1. n \in Nat /\ IsFiniteSet(T) /\ Cardinality(T) = n + 1
    BY FS_AddElement, FS_CardinalityType
  <2>2. QED
    BY <2>1
<1>2. \A i \in Nat : factorial[i] \in Nat /\ factorial[i + 1] = (i + 1) * factorial[i]
  BY Factorials, FactorialType
<1>3. factorial[0] = 1
  BY Factorials
<1>4. CASE k = 0
  <2>1. Ways(T, 0) = {{}}
    BY <1>1, FS_Subset, FS_EmptySet DEF Ways
  <2>2. Cardinality({{}}) = 1
    BY FS_Singleton
  <2>3. n + 1 - 0 = n + 1 /\ factorial[n + 1] \in Nat
    BY <1>1, <1>2
  <2>4. 1 * (1 * factorial[n + 1]) = factorial[n + 1]
    BY <2>3
  <2> HIDE DEF T, n
  <2>5. factorial[n + 1 - 0] = factorial[n + 1] /\ Cardinality(Ways(T, 0)) = 1
    BY <2>1, <2>2, <2>3
  <2>6. 1 * (factorial[0] * factorial[n + 1]) = factorial[n + 1]
    BY <1>3, <2>4
  <2>7. Counted(T, 0)
    BY <1>1, <2>5, <2>6, CountedBy
  <2>8. QED
    BY <1>4, <2>7 DEF T
<1>5. CASE k = n + 1
  <2>1. Ways(T, n + 1) = {T}
    <3>1. \A s \in SUBSET T : Cardinality(s) = Cardinality(T) => s = T
      BY <1>1, FS_Subset
    <3>2. QED
      BY <1>1, <3>1 DEF Ways
  <2>2. Cardinality({T}) = 1
    BY FS_Singleton
  <2>3. n + 1 - (n + 1) = 0 /\ factorial[n + 1] \in Nat
    BY <1>1, <1>2
  <2>4. 1 * (factorial[n + 1] * 1) = factorial[n + 1]
    BY <2>3
  <2> HIDE DEF T, n
  <2>5. factorial[n + 1 - (n + 1)] = 1 /\ Cardinality(Ways(T, n + 1)) = 1
    BY <1>3, <2>1, <2>2, <2>3
  <2>6. Counted(T, n + 1)
    BY <1>1, <2>4, <2>5, CountedBy
  <2>7. QED
    BY <1>5, <2>6 DEF T
<1>6. CASE k # 0 /\ k # n + 1
  <2> DEFINE j == k - 1
             m == n - k
             a == Cardinality(Ways(U, k))
             b == Cardinality(Ways(U, j))
  <2>1. /\ j \in Nat /\ m \in Nat /\ k = j + 1 /\ n - k = m /\ n - j = m + 1
        /\ n + 1 - k = m + 1 /\ k + (m + 1) = n + 1
        /\ k \in 0..n /\ j \in 0..n /\ k > 0
    BY <1>1, <1>6
  <2>2. a \in Nat /\ b \in Nat
    BY WaysFinite
  <2>3. Cardinality(Ways(T, k)) = a + b
    BY <1>1, <2>1, WaysGrow
  <2>4. Counted(U, k) /\ Counted(U, j)
    BY <2>1
  <2>5. factorial[k] = k * factorial[j] /\ factorial[m + 1] = (m + 1) * factorial[m]
    BY <1>2, <2>1
  <2> HIDE DEF a, b, T, n, j, m
  <2>6. a * ((k * factorial[j]) * factorial[m]) = factorial[n]
    BY <2>1, <2>4, <2>5 DEF Counted, a, n
  <2>7. b * (factorial[j] * ((m + 1) * factorial[m])) = factorial[n]
    BY <2>1, <2>4, <2>5 DEF Counted, b, n
  <2>8. /\ factorial[j] \in Nat /\ factorial[m] \in Nat /\ factorial[n] \in Nat
        /\ m + 1 \in Nat
    BY <1>1, <1>2, <2>1
  <2>9. (a + b) * ((k * factorial[j]) * ((m + 1) * factorial[m]))
          = (k + (m + 1)) * factorial[n]
    BY <1>1, <2>2, <2>6, <2>7, <2>8, Pascal
  <2>10. (a + b) * (factorial[k] * factorial[m + 1]) = factorial[n + 1]
    BY <1>1, <1>2, <2>1, <2>5, <2>9, Zenon
  <2>11. Counted(T, k)
    BY <1>1, <2>1, <2>3, <2>10, CountedBy
  <2>12. QED
    BY <2>11 DEF T
<1>7. QED
  BY <1>4, <1>5, <1>6

\* There are n! / (k! (n - k)!) subsets of k elements of n.
LEMMA WaysCounted ==
  ASSUME NEW S, IsFiniteSet(S), NEW k \in 0..Cardinality(S)
  PROVE  Counted(S, k)
<1> DEFINE n == Cardinality(S)
           good == {m \in 0..n : \A T \in SUBSET S :
                      Cardinality(T) = m => \A i \in 0..m : Counted(T, i)}
<1>1. n \in Nat
  BY FS_CardinalityType
<1>2. 0 \in good
  <2>1. ASSUME NEW T \in SUBSET S, Cardinality(T) = 0, NEW i \in 0..0
        PROVE  Counted(T, i)
    <3>1. T = {} /\ i = 0
      BY <2>1, FS_Subset, FS_EmptySet
    <3>2. Ways({}, 0) = {{}}
      BY FS_EmptySet DEF Ways
    <3>3. Cardinality({{}}) = 1 /\ Cardinality({}) = 0
      BY FS_Singleton, FS_EmptySet
    <3>4. factorial[0] = 1 /\ 0 - 0 = 0 /\ 1 * (1 * 1) = 1
      BY Factorials
    <3>5. QED
      BY <3>1, <3>2, <3>3, <3>4 DEF Counted
  <2>2. 0 \in 0..n
    BY <1>1
  <2>3. QED
    BY <2>1, <2>2
<1>3. ASSUME NEW m \in 0..n, m \in good, m + 1 <= n
      PROVE  m + 1 \in good
  <2>1. ASSUME NEW T \in SUBSET S, Cardinality(T) = m + 1, NEW i \in 0..(m + 1)
        PROVE  Counted(T, i)
    <3>1. IsFiniteSet(T) /\ T # {}
      BY <1>3, <2>1, FS_Subset, FS_EmptySet
    <3>2. PICK x \in T : TRUE
      BY <3>1
    <3> DEFINE U == T \ {x}
    <3>3. /\ IsFiniteSet(U) /\ Cardinality(U) = m /\ U \in SUBSET S
          /\ x \notin U /\ U \cup {x} = T
      <4>1. IsFiniteSet(U) /\ Cardinality(U) = m + 1 - 1
        BY <2>1, <3>1, FS_RemoveElement
      <4>2. m + 1 - 1 = m
        BY <1>3
      <4>3. QED
        BY <4>1, <4>2
    <3> HIDE DEF U
    <3>4. \A l \in 0..Cardinality(U) : Counted(U, l)
      BY <1>3, <3>3
    <3>5. Counted(U \cup {x}, i)
      BY <2>1, <3>3, <3>4, CountedGrows
    <3>6. QED
      BY <3>3, <3>5
  <2>2. m + 1 \in 0..n
    BY <1>1, <1>3
  <2>3. QED
    BY <2>1, <2>2
<1> HIDE DEF good
<1>4. \A m \in 0..n : m \in good
  BY <1>1, <1>2, <1>3, AllPositions
<1>5. n \in good
  BY <1>1, <1>4
<1>6. QED
  BY <1>5 DEF good

LEMMA Quotient ==
  ASSUME NEW w \in Nat, NEW d \in Nat, d > 0
  PROVE  (w * d) \div d = w
OBVIOUS

\* Comb() counts them.
LEMMA CombCounts ==
  ASSUME NEW S, IsFiniteSet(S), NEW k \in 0..Cardinality(S)
  PROVE  Comb(Cardinality(S), k) = Cardinality(Ways(S, k))
<1> DEFINE n == Cardinality(S)
           w == Cardinality(Ways(S, k))
           d == factorial[k] * factorial[n - k]
<1>1. n \in Nat /\ k \in Nat /\ n - k \in Nat /\ k <= n
  BY FS_CardinalityType
<1>2. w \in Nat
  BY WaysFinite
<1>3. d \in Nat /\ d > 0
  <2>1. /\ factorial[k] \in Nat /\ factorial[n - k] \in Nat
        /\ factorial[k] > 0 /\ factorial[n - k] > 0
    BY <1>1, FactorialType
  <2>2. \A x, y \in Nat : x > 0 /\ y > 0 => x * y \in Nat /\ x * y > 0
    OBVIOUS
  <2>3. QED
    BY <2>1, <2>2
<1>4. w * d = factorial[n]
  BY WaysCounted DEF Counted
<1> HIDE DEF w
<1>5. choose(n, k) = w
  <2>1. choose(n, k) = factorial[n] \div d
    BY DEF choose
  <2> HIDE DEF d, n
  <2>2. QED
    BY <1>2, <1>3, <1>4, <2>1, Quotient
<1>6. QED
  BY <1>1, <1>5 DEF Comb, w

LEMMA CombProduct ==
  ASSUME NEW n \in Nat, NEW k \in 0..n
  PROVE  /\ Comb(n, k) \in Nat /\ Comb(n, k) > 0
         /\ Comb(n, k) * (factorial[k] * factorial[n - k]) = factorial[n]
<1> DEFINE w == Comb(n, k)
           d == factorial[k] * factorial[n - k]
<1>1. IsFiniteSet(1..n) /\ Cardinality(1..n) = n
  BY UpTo
<1>2. w = Cardinality(Ways(1..n, k))
  BY <1>1, CombCounts
<1>3. w \in Nat
  BY <1>1, <1>2, WaysFinite
<1>4. w * d = factorial[n]
  BY <1>1, <1>2, WaysCounted DEF Counted
<1>5. d \in Nat /\ factorial[n] > 0
  <2>1. k \in Nat /\ n - k \in Nat
    OBVIOUS
  <2>2. factorial[k] \in Nat /\ factorial[n - k] \in Nat /\ factorial[n] > 0
    BY <2>1, FactorialType
  <2>3. QED
    BY <2>2
<1>6. w # 0
  <2> HIDE DEF w, d
  <2>1. SUFFICES ASSUME w = 0 PROVE FALSE
    OBVIOUS
  <2>2. w * d = 0
    BY <1>5, <2>1
  <2>3. QED
    BY <1>4, <1>5, <2>2
<1> HIDE DEF w, d
<1>7. QED
  BY <1>3, <1>4, <1>6 DEF w, d

\* The ways to sort a + b + c + d runs into four groups of these sizes.
LEMMA Multinomial ==
  ASSUME NEW a \in Nat, NEW b \in Nat, NEW c \in Nat, NEW d \in Nat
  PROVE  ((Comb(a + c, a) * Comb(b + d, b)) * Comb(a + b + c + d, a + c))
           * ((factorial[a] * factorial[c]) * (factorial[b] * factorial[d]))
             = factorial[a + b + c + d]
<1> DEFINE n == a + b + c + d
           x == Comb(a + c, a)
           y == Comb(b + d, b)
           z == Comb(n, a + c)
<1>1. /\ a + c \in Nat /\ b + d \in Nat /\ n \in Nat
      /\ a \in 0..(a + c) /\ b \in 0..(b + d) /\ a + c \in 0..n
      /\ a + c - a = c /\ b + d - b = d /\ n - (a + c) = b + d
  OBVIOUS
<1>2. /\ x \in Nat /\ x * (factorial[a] * factorial[c]) = factorial[a + c]
      /\ y \in Nat /\ y * (factorial[b] * factorial[d]) = factorial[b + d]
      /\ z \in Nat /\ z * (factorial[a + c] * factorial[b + d]) = factorial[n]
  <2> HIDE DEF n
  <2>1. x \in Nat /\ x * (factorial[a] * factorial[a + c - a]) = factorial[a + c]
    BY <1>1, CombProduct
  <2>2. y \in Nat /\ y * (factorial[b] * factorial[b + d - b]) = factorial[b + d]
    BY <1>1, CombProduct
  <2>3. z \in Nat /\ z * (factorial[a + c] * factorial[n - (a + c)]) = factorial[n]
    BY <1>1, CombProduct
  <2>4. QED
    BY <1>1, <2>1, <2>2, <2>3
<1>3. /\ factorial[a] \in Nat /\ factorial[b] \in Nat
      /\ factorial[c] \in Nat /\ factorial[d] \in Nat
  BY FactorialType
<1> HIDE DEF n, x, y, z
<1>4. \A p, q, u, v \in Nat :
        ((x * y) * z) * ((p * q) * (u * v)) = z * ((x * (p * q)) * (y * (u * v)))
  BY <1>2
<1>5. ((x * y) * z) * ((factorial[a] * factorial[c]) * (factorial[b] * factorial[d]))
        = z * ((x * (factorial[a] * factorial[c])) * (y * (factorial[b] * factorial[d])))
  BY <1>3, <1>4
<1>6. QED
  BY <1>2, <1>5 DEF n, x, y, z

\* A table has the same weight, up to the number of all tables, by rows and by
\* columns.
LEMMA Exchange ==
  ASSUME NEW a \in Nat, NEW b \in Nat, NEW c \in Nat, NEW d \in Nat
  PROVE  (Comb(a + c, a) * Comb(b + d, b)) * Comb(a + b + c + d, a + c)
           = (Comb(a + b, a) * Comb(c + d, c)) * Comb(a + b + c + d, a + b)
<1> DEFINE n == a + b + c + d
           left == (Comb(a + c, a) * Comb(b + d, b)) * Comb(n, a + c)
           right == (Comb(a + b, a) * Comb(c + d, c)) * Comb(n, a + b)
           all == (factorial[a] * factorial[c]) * (factorial[b] * factorial[d])
           swapped == (factorial[a] * factorial[b]) * (factorial[c] * factorial[d])
<1>1. left * all = factorial[n]
  BY Multinomial
<1>2. right * swapped = factorial[n]
  <2>1. a + c + b + d = n
    OBVIOUS
  <2>2. ((Comb(a + b, a) * Comb(c + d, c)) * Comb(a + c + b + d, a + b))
          * ((factorial[a] * factorial[b]) * (factorial[c] * factorial[d]))
            = factorial[a + c + b + d]
    BY Multinomial
  <2> HIDE DEF n
  <2>3. QED
    BY <2>1, <2>2
<1>3. /\ factorial[a] \in Nat /\ factorial[b] \in Nat
      /\ factorial[c] \in Nat /\ factorial[d] \in Nat
      /\ factorial[a] > 0 /\ factorial[b] > 0 /\ factorial[c] > 0 /\ factorial[d] > 0
  BY FactorialType
<1>4. all = swapped /\ all \in Nat /\ all > 0
  <2>1. \A p, q, u, v \in Nat : (p * q) * (u * v) = (p * u) * (q * v)
    OBVIOUS
  <2>2. \A p, q \in Nat : p > 0 /\ q > 0 => p * q \in Nat /\ p * q > 0
    OBVIOUS
  <2>3. /\ factorial[a] * factorial[c] \in Nat /\ factorial[a] * factorial[c] > 0
        /\ factorial[b] * factorial[d] \in Nat /\ factorial[b] * factorial[d] > 0
    BY <1>3, <2>2
  <2>4. all \in Nat /\ all > 0
    BY <2>2, <2>3
  <2>5. QED
    BY <1>3, <2>1, <2>4
<1>5. left \in Nat /\ right \in Nat
  <2>1. /\ a + c \in Nat /\ b + d \in Nat /\ n \in Nat /\ a + b \in Nat /\ c + d \in Nat
        /\ a \in 0..(a + c) /\ b \in 0..(b + d) /\ a + c \in 0..n
        /\ a \in 0..(a + b) /\ c \in 0..(c + d) /\ a + b \in 0..n
    OBVIOUS
  <2> HIDE DEF n
  <2>2. /\ Comb(a + c, a) \in Nat /\ Comb(b + d, b) \in Nat /\ Comb(n, a + c) \in Nat
        /\ Comb(a + b, a) \in Nat /\ Comb(c + d, c) \in Nat /\ Comb(n, a + b) \in Nat
    BY <2>1, CombProduct
  <2>3. \A p, q, u \in Nat : (p * q) * u \in Nat
    OBVIOUS
  <2>4. QED
    BY <2>2, <2>3
<1>6. \A p, q, u \in Nat : u > 0 /\ p * u = q * u => p = q
  OBVIOUS
<1> HIDE DEF left, right, all, swapped
<1>7. left = right
  BY <1>1, <1>2, <1>4, <1>5, <1>6
<1>8. QED
  BY <1>7 DEF left, right

\* The subsets of c elements of which k are in L.
Shared(S, L, c, k) == {s \in Ways(S, c) : Cardinality(s \cap L) = k}

\* Such a subset is k of L and c - k of the rest.
LEMMA SharedWays ==
  ASSUME NEW S, IsFiniteSet(S), NEW L \in SUBSET S,
         NEW k \in Nat, NEW c \in Nat, k <= c
  PROVE  Cardinality(Shared(S, L, c, k))
           = Cardinality(Ways(L, k)) * Cardinality(Ways(S \ L, c - k))
<1> DEFINE shared == Shared(S, L, c, k)
           pairs == Ways(L, k) \X Ways(S \ L, c - k)
           f == [p \in pairs |-> p[1] \cup p[2]]
<1>1. IsFiniteSet(L) /\ IsFiniteSet(S \ L)
  BY FS_Subset
<1>2. ASSUME NEW s \in SUBSET S
      PROVE  /\ Cardinality(s) = Cardinality(s \cap L) + Cardinality(s \ L)
             /\ Cardinality(s \cap L) \in Nat /\ Cardinality(s \ L) \in Nat
  <2>1. IsFiniteSet(s \cap L) /\ IsFiniteSet(s \ L)
    BY <1>1, FS_Subset
  <2>2. (s \cap L) \cup (s \ L) = s /\ (s \cap L) \cap (s \ L) = {}
    OBVIOUS
  <2>3. Cardinality(s) = Cardinality(s \cap L) + Cardinality(s \ L) - Cardinality({})
    BY <2>1, <2>2, FS_Union
  <2>4. Cardinality({}) = 0
    BY FS_EmptySet
  <2>5. Cardinality(s \cap L) \in Nat /\ Cardinality(s \ L) \in Nat
    BY <2>1, FS_CardinalityType
  <2>6. QED
    BY <2>3, <2>4, <2>5
<1> USE DEF Shared
<1>3. ASSUME NEW p \in pairs
      PROVE  /\ f[p] \in shared
             /\ f[p] \cap L = p[1] /\ f[p] \ L = p[2] /\ p = <<p[1], p[2]>>
  <2>1. /\ p[1] \in SUBSET L /\ Cardinality(p[1]) = k
        /\ p[2] \in SUBSET (S \ L) /\ Cardinality(p[2]) = c - k
    BY DEF Ways
  <2>2. f[p] = p[1] \cup p[2] /\ p = <<p[1], p[2]>>
    OBVIOUS
  <2> HIDE DEF f, pairs
  <2>3. f[p] \cap L = p[1] /\ f[p] \ L = p[2] /\ f[p] \in SUBSET S
    BY <2>1, <2>2
  <2>4. Cardinality(f[p]) = k + (c - k)
    BY <1>2, <2>1, <2>3
  <2>5. k + (c - k) = c
    OBVIOUS
  <2>6. QED
    BY <2>1, <2>2, <2>3, <2>4, <2>5 DEF Ways
<1>4. ASSUME NEW s \in shared
      PROVE  <<s \cap L, s \ L>> \in pairs /\ f[<<s \cap L, s \ L>>] = s
  <2>1. s \in SUBSET S /\ Cardinality(s) = c /\ Cardinality(s \cap L) = k
    BY DEF Ways
  <2>2. Cardinality(s \ L) = c - k
    <3>1. \A x, y \in Nat : x = k + y => y = x - k
      OBVIOUS
    <3>2. c = k + Cardinality(s \ L) /\ Cardinality(s \ L) \in Nat
      BY <1>2, <2>1
    <3>3. QED
      BY <3>1, <3>2
  <2>3. <<s \cap L, s \ L>> \in pairs
    BY <2>1, <2>2 DEF Ways
  <2>4. (s \cap L) \cup (s \ L) = s
    OBVIOUS
  <2>5. QED
    BY <2>3, <2>4
<1>5. f \in Bijection(pairs, shared)
  <2>1. f \in [pairs -> shared]
    BY <1>3
  <2> HIDE DEF f, pairs, shared
  <2>2. ASSUME NEW p \in pairs, NEW q \in pairs, f[p] = f[q]
        PROVE  p = q
    <3>1. p = <<f[p] \cap L, f[p] \ L>>
      <4>1. f[p] \cap L = p[1] /\ f[p] \ L = p[2] /\ p = <<p[1], p[2]>>
        BY <1>3
      <4>2. QED
        BY <4>1, Zenon
    <3>2. q = <<f[q] \cap L, f[q] \ L>>
      <4>1. f[q] \cap L = q[1] /\ f[q] \ L = q[2] /\ q = <<q[1], q[2]>>
        BY <1>3
      <4>2. QED
        BY <4>1, Zenon
    <3>3. QED
      BY <2>2, <3>1, <3>2, Zenon
  <2>3. \A s \in shared : \E p \in pairs : f[p] = s
    BY <1>4
  <2>4. QED
    BY <2>1, <2>2, <2>3 DEF Bijection, Injection, Surjection, IsInjective
<1>6. IsFiniteSet(Ways(L, k)) /\ IsFiniteSet(Ways(S \ L, c - k))
  BY <1>1, WaysFinite
<1>7. /\ IsFiniteSet(pairs)
      /\ Cardinality(pairs) = Cardinality(Ways(L, k)) * Cardinality(Ways(S \ L, c - k))
  BY <1>6, FS_Product
<1>8. Cardinality(shared) = Cardinality(pairs)
  BY <1>5, <1>7, FS_Bijection DEF ExistsBijection
<1>9. QED
  BY <1>7, <1>8

-----------------------------------------------------------------------------
(***************************************************************************)
(* StudyStatistics: fisher_two_sided().                                    *)
(***************************************************************************)

\* The margins of a table, and FisherExact of a table and a sum.
Row(t) == t[1] + t[2]
Col(t) == t[1] + t[3]
All(t) == t[1] + t[2] + t[3] + t[4]
Left(t) == 1..Row(t)
Draws(t) == {s \in SUBSET (1..All(t)) : Cardinality(s) = Col(t)}
Like(t, k) == Cardinality({s \in Draws(t) : Cardinality(s \cap Left(t)) = k})
Exact(t, sum) ==
  sum * Cardinality(Draws(t)) =
    Comb(All(t), Cardinality(Left(t)))
      * Cardinality({s \in Draws(t) : Like(t, Cardinality(s \cap Left(t))) <= Like(t, t[1])})

AllTables == Nat \X Nat \X Nat \X Nat

LEMMA Margins ==
  ASSUME NEW t \in AllTables
  PROVE  /\ t[1] \in Nat /\ Row(t) \in Nat /\ Col(t) \in Nat /\ All(t) \in Nat
         /\ Row(t) <= All(t) /\ Col(t) <= All(t)
         /\ t[1] <= Row(t) /\ t[1] <= Col(t) /\ Row(t) + Col(t) <= All(t) + t[1]
<1>1. t[1] \in Nat /\ t[2] \in Nat /\ t[3] \in Nat /\ t[4] \in Nat
  BY DEF AllTables
<1>2. QED
  BY <1>1 DEF Row, Col, All

\* The numbers that some table with these margins has.
LEMMA Supported ==
  ASSUME NEW t \in AllTables
  PROVE  LET lower == Lower(Row(t), Col(t), All(t))  upper == Upper(Row(t), Col(t))
         IN /\ lower \in Nat /\ upper \in Nat /\ lower <= upper
            /\ t[1] \in lower..upper
            /\ \A k \in Nat : k \in lower..upper <=>
                 k <= Row(t) /\ k <= Col(t) /\ Row(t) + Col(t) <= All(t) + k
<1> DEFINE r == Row(t)
           c == Col(t)
           n == All(t)
           lower == Lower(r, c, n)
           upper == Upper(r, c)
<1>1. /\ t[1] \in Nat /\ r \in Nat /\ c \in Nat /\ n \in Nat
      /\ t[1] <= r /\ t[1] <= c /\ r + c <= n + t[1] /\ r <= n /\ c <= n
  BY Margins
<1> HIDE DEF r, c, n
<1>2. upper = IF r <= c THEN r ELSE c
  BY <1>1 DEF Upper, Min
<1>3. lower = IF r - (n - c) <= 0 THEN 0 ELSE r - (n - c)
  BY <1>1 DEF Lower, Max
<1> HIDE DEF lower, upper
<1>4. lower \in Nat /\ upper \in Nat /\ lower <= t[1] /\ t[1] <= upper
  BY <1>1, <1>2, <1>3
<1>5. \A k \in Nat : k \in lower..upper <=> k <= r /\ k <= c /\ r + c <= n + k
  BY <1>1, <1>2, <1>3
<1>6. QED
  BY <1>1, <1>4, <1>5 DEF lower, upper, r, c, n

\* Of every draw, the number of those in the first group is one of them.
LEMMA DrawnSupported ==
  ASSUME NEW t \in AllTables, NEW s \in Draws(t)
  PROVE  Cardinality(s \cap Left(t)) \in Lower(Row(t), Col(t), All(t))..Upper(Row(t), Col(t))
<1> DEFINE k == Cardinality(s \cap Left(t))
           r == Row(t)
           c == Col(t)
           n == All(t)
<1>1. r \in Nat /\ c \in Nat /\ n \in Nat /\ r <= n
  BY Margins
<1>2. /\ IsFiniteSet(1..n) /\ Cardinality(1..n) = n
      /\ IsFiniteSet(Left(t)) /\ Cardinality(Left(t)) = r
  BY <1>1, UpTo DEF Left
<1>3. s \in SUBSET (1..n) /\ IsFiniteSet(s) /\ Cardinality(s) = c
  BY <1>2, FS_Subset DEF Draws
<1>4. k \in Nat /\ k <= c /\ k <= r
  BY <1>2, <1>3, FS_Subset, FS_CardinalityType
<1>5. r + c <= n + k
  <2>1. Cardinality(s \cup Left(t)) = c + r - Cardinality(s \cap Left(t))
    BY <1>2, <1>3, FS_Union
  <2>2. s \cup Left(t) \in SUBSET (1..n)
    <3>1. \A i \in 1..r : i \in 1..n
      BY <1>1
    <3>2. QED
      BY <1>3, <3>1 DEF Left
  <2>3. Cardinality(s \cup Left(t)) <= n
    BY <1>2, <2>2, FS_Subset
  <2> HIDE DEF r, c, n
  <2>4. QED
    BY <1>1, <1>4, <2>1, <2>3
<1>6. QED
  BY <1>4, <1>5, Supported

\* The weight of a table counts the draws that have it.
LEMMA WeightCounts ==
  ASSUME NEW t \in AllTables,
         NEW k \in Lower(Row(t), Col(t), All(t))..Upper(Row(t), Col(t))
  PROVE  /\ Weight(k, Row(t), Col(t), All(t)) \in Nat
         /\ Like(t, k) \in Nat
         /\ Weight(k, Row(t), Col(t), All(t)) * Cardinality(Draws(t))
              = Like(t, k) * Comb(All(t), Row(t))
<1> DEFINE r == Row(t)
           c == Col(t)
           n == All(t)
           d == n - r - c + k
<1>1. r \in Nat /\ c \in Nat /\ n \in Nat /\ r <= n /\ c <= n
  BY Margins
<1>2. k \in Nat /\ k <= r /\ k <= c /\ r + c <= n + k
  BY Supported
<1>3. /\ IsFiniteSet(1..n) /\ Cardinality(1..n) = n
      /\ IsFiniteSet(Left(t)) /\ Cardinality(Left(t)) = r
      /\ Left(t) \in SUBSET (1..n)
  BY <1>1, UpTo DEF Left
<1>4. IsFiniteSet((1..n) \ Left(t)) /\ Cardinality((1..n) \ Left(t)) = n - r
  <2>1. (1..n) \cap Left(t) = Left(t)
    BY <1>3
  <2>2. /\ IsFiniteSet((1..n) \ Left(t))
        /\ Cardinality((1..n) \ Left(t))
             = Cardinality(1..n) - Cardinality((1..n) \cap Left(t))
    BY <1>3, FS_Difference
  <2>3. QED
    BY <1>3, <2>1, <2>2, Zenon
<1>5. Draws(t) = Ways(1..n, c)
  BY DEF Draws, Ways
<1> HIDE DEF r, c, n
<1>6. /\ k \in 0..r /\ c - k \in 0..(n - r) /\ c \in 0..n
      /\ k \in 0..c /\ r - k \in 0..(n - c) /\ n - r \in Nat /\ n - c \in Nat
  BY <1>1, <1>2
<1>7. Like(t, k) = Comb(r, k) * Comb(n - r, c - k)
  <2>1. Like(t, k) = Cardinality(Ways(Left(t), k)) * Cardinality(Ways((1..n) \ Left(t), c - k))
    <3>1. Like(t, k) = Cardinality(Shared(1..n, Left(t), c, k))
      BY <1>5, Zenon DEF Like, Shared
    <3>2. Cardinality(Shared(1..n, Left(t), c, k))
            = Cardinality(Ways(Left(t), k)) * Cardinality(Ways((1..n) \ Left(t), c - k))
      BY <1>1, <1>2, <1>3, SharedWays
    <3>3. QED
      BY <3>1, <3>2, Zenon
  <2>2. Comb(r, k) = Cardinality(Ways(Left(t), k))
    BY <1>3, <1>6, CombCounts
  <2>3. Comb(n - r, c - k) = Cardinality(Ways((1..n) \ Left(t), c - k))
    BY <1>4, <1>6, CombCounts
  <2>4. QED
    BY <2>1, <2>2, <2>3
<1>8. Cardinality(Draws(t)) = Comb(n, c)
  BY <1>3, <1>5, <1>6, CombCounts
<1>9. /\ Comb(r, k) \in Nat /\ Comb(n - r, c - k) \in Nat
      /\ Comb(c, k) \in Nat /\ Comb(n - c, r - k) \in Nat
  BY <1>1, <1>6, CombProduct
<1>10. (Comb(c, k) * Comb(n - c, r - k)) * Comb(n, c)
         = (Comb(r, k) * Comb(n - r, c - k)) * Comb(n, r)
  <2>1. /\ r - k \in Nat /\ c - k \in Nat /\ d \in Nat
        /\ k + (c - k) = c /\ (r - k) + d = n - c /\ k + (r - k) + (c - k) + d = n
        /\ k + (r - k) = r /\ (c - k) + d = n - r
    BY <1>1, <1>2
  <2> HIDE DEF d
  <2>2. (Comb(k + (c - k), k) * Comb((r - k) + d, r - k))
            * Comb(k + (r - k) + (c - k) + d, k + (c - k))
          = (Comb(k + (r - k), k) * Comb((c - k) + d, c - k))
              * Comb(k + (r - k) + (c - k) + d, k + (r - k))
    BY <1>2, <2>1, Exchange
  <2>3. QED
    BY <2>1, <2>2
<1>11. QED
  BY <1>7, <1>8, <1>9, <1>10 DEF Weight, r, c, n

LEMMA Monotone ==
  ASSUME NEW p \in Nat, NEW q \in Nat, NEW u \in Nat, u > 0
  PROVE  p <= q <=> p * u <= q * u
<1>1. ASSUME p <= q
      PROVE  p * u <= q * u
  <2>1. q - p \in Nat /\ q = p + (q - p)
    BY <1>1
  <2>2. q * u = p * u + (q - p) * u /\ (q - p) * u \in Nat
    BY <2>1
  <2>3. QED
    BY <2>2
<1>2. ASSUME ~(p <= q)
      PROVE  ~(p * u <= q * u)
  <2>1. p - q - 1 \in Nat
    BY <1>2
  <2>2. p * u = q * u + u + (p - q - 1) * u /\ (p - q - 1) * u \in Nat /\ q * u \in Nat
    BY <2>1
  <2>3. QED
    BY <2>2
<1>3. QED
  BY <1>1, <1>2

\* A table is no more probable than another if as few draws have it.
LEMMA AsLikely ==
  ASSUME NEW w \in Nat, NEW v \in Nat, NEW l \in Nat, NEW m \in Nat,
         NEW d \in Nat, NEW e \in Nat, d > 0, e > 0,
         w * d = l * e, v * d = m * e
  PROVE  w <= v <=> l <= m
<1>1. w <= v <=> w * d <= v * d
  BY Monotone
<1>2. l <= m <=> l * e <= m * e
  BY Monotone
<1>3. QED
  BY <1>1, <1>2

\* The sum of fisher_two_sided(), up to each turn.
Term(t, x) ==
  IF Weight(x, Row(t), Col(t), All(t)) <= Weight(t[1], Row(t), Col(t), All(t))
  THEN Weight(x, Row(t), Col(t), All(t)) ELSE 0

Sums(t) ==
  LET lower == Lower(Row(t), Col(t), All(t))
      sum[x \in lower..Upper(Row(t), Col(t))] ==
        IF x = lower THEN Term(t, x) ELSE sum[x - 1] + Term(t, x)
  IN sum

LEMMA SumsExist ==
  ASSUME NEW t \in AllTables
  PROVE  LET lower == Lower(Row(t), Col(t), All(t))  upper == Upper(Row(t), Col(t))
         IN \A x \in lower..upper :
              Sums(t)[x] = IF x = lower THEN Term(t, x) ELSE Sums(t)[x - 1] + Term(t, x)
<1> DEFINE lower == Lower(Row(t), Col(t), All(t))
           upper == Upper(Row(t), Col(t))
           next == [p \in (lower..upper) \X Nat |-> p[2] + Term(t, p[1])]
<1>1. lower \in Nat /\ upper \in Nat /\ lower <= upper /\ t[1] \in lower..upper
  BY Supported
<1>2. \A x \in lower..upper : Term(t, x) \in Nat
  BY <1>1, WeightCounts DEF Term
<1> HIDE DEF lower, upper
<1>3. next \in [(lower..upper) \X Nat -> Nat]
  BY <1>2
<1>4. Term(t, lower) \in Nat
  BY <1>1, <1>2
<1> HIDE DEF next
<1>5. Stepwise(lower, upper, Nat, Term(t, lower), next) # {}
  BY <1>1, <1>3, <1>4, StepByStep
<1>6. PICK f \in [lower..upper -> Nat] :
        \A x \in lower..upper :
          f[x] = IF x = lower THEN Term(t, lower) ELSE next[<<x, f[x - 1]>>]
  BY <1>5 DEF Stepwise
<1>7. ASSUME NEW x \in lower..upper
      PROVE  f[x] = IF x = lower THEN Term(t, x) ELSE f[x - 1] + Term(t, x)
  <2>1. CASE x = lower
    BY <1>6, <2>1
  <2>2. CASE x # lower
    <3>1. x - 1 \in lower..upper
      BY <1>1, <2>2
    <3>2. f[x - 1] \in Nat
      BY <3>1
    <3>3. next[<<x, f[x - 1]>>] = f[x - 1] + Term(t, x)
      BY <3>2 DEF next
    <3>4. QED
      BY <1>6, <2>2, <3>3
  <2>3. QED
    BY <2>1, <2>2
<1>8. f = [x \in lower..upper |-> IF x = lower THEN Term(t, x) ELSE f[x - 1] + Term(t, x)]
  BY <1>7
<1>9. Sums(t) = [x \in lower..upper |->
                   IF x = lower THEN Term(t, x) ELSE Sums(t)[x - 1] + Term(t, x)]
  BY <1>8 DEF Sums, lower, upper
<1>10. \A x \in lower..upper :
         Sums(t)[x] = IF x = lower THEN Term(t, x) ELSE Sums(t)[x - 1] + Term(t, x)
  BY <1>9
<1>11. QED
  BY <1>10 DEF lower, upper

\* TwoSided() is that sum.
LEMMA TwoSidedSum == \A t : TwoSided(t) = Sums(t)[Upper(Row(t), Col(t))]
BY DEF TwoSided, Sums, Term, Row, Col, All

\* The draws that are no more probable than the table, up to x of the first
\* group; those with x of it.
Counts(t, s) == Cardinality(s \cap Left(t))
UpToCount(t, x) == {s \in Draws(t) : Counts(t, s) <= x /\ Like(t, Counts(t, s)) <= Like(t, t[1])}
AtCount(t, x) == {s \in Draws(t) : Counts(t, s) = x /\ Like(t, Counts(t, s)) <= Like(t, t[1])}

LEMMA DrawsFinite ==
  ASSUME NEW t \in AllTables
  PROVE  /\ IsFiniteSet(Draws(t))
         /\ Cardinality(Draws(t)) \in Nat /\ Cardinality(Draws(t)) > 0
         /\ Comb(All(t), Row(t)) \in Nat /\ Comb(All(t), Row(t)) > 0
<1>1. /\ Row(t) \in 0..All(t) /\ Col(t) \in 0..All(t) /\ All(t) \in Nat
  BY Margins
<1>2. IsFiniteSet(1..All(t)) /\ Cardinality(1..All(t)) = All(t)
  BY <1>1, UpTo
<1>3. Draws(t) = Ways(1..All(t), Col(t))
  BY DEF Draws, Ways
<1>4. IsFiniteSet(Draws(t)) /\ Cardinality(Draws(t)) = Comb(All(t), Col(t))
  BY <1>1, <1>2, <1>3, WaysFinite, CombCounts
<1>5. QED
  BY <1>1, <1>4, CombProduct

\* A term of the sum counts the draws with x of the first group, if these are
\* no more probable than the table.
LEMMA TermCounts ==
  ASSUME NEW t \in AllTables,
         NEW x \in Lower(Row(t), Col(t), All(t))..Upper(Row(t), Col(t))
  PROVE  /\ Term(t, x) \in Nat
         /\ Term(t, x) * Cardinality(Draws(t))
              = Comb(All(t), Row(t)) * Cardinality(AtCount(t, x))
<1> DEFINE w == Weight(x, Row(t), Col(t), All(t))
           v == Weight(t[1], Row(t), Col(t), All(t))
           l == Like(t, x)
           m == Like(t, t[1])
           d == Cardinality(Draws(t))
           e == Comb(All(t), Row(t))
<1>1. d \in Nat /\ d > 0 /\ e \in Nat /\ e > 0
  BY DrawsFinite
<1>2. t[1] \in Lower(Row(t), Col(t), All(t))..Upper(Row(t), Col(t))
  BY Supported
<1>3. /\ w \in Nat /\ l \in Nat /\ w * d = l * e
      /\ v \in Nat /\ m \in Nat /\ v * d = m * e
  BY <1>2, WeightCounts
<1>4. Term(t, x) = IF w <= v THEN w ELSE 0
  BY DEF Term
<1>5. AtCount(t, x) = IF l <= m THEN {s \in Draws(t) : Cardinality(s \cap Left(t)) = x} ELSE {}
  <2>1. \A s \in Draws(t) : s \in AtCount(t, x) <=> Counts(t, s) = x /\ l <= m
    BY DEF AtCount
  <2>2. AtCount(t, x) \subseteq Draws(t)
    BY DEF AtCount
  <2> HIDE DEF l, m
  <2>3. QED
    BY <2>1, <2>2 DEF Counts
<1>6. Cardinality(AtCount(t, x)) = IF l <= m THEN l ELSE 0
  BY <1>5, FS_EmptySet DEF Like
<1> HIDE DEF w, v, l, m, d, e
<1>7. w <= v <=> l <= m
  BY <1>1, <1>3, AsLikely
<1>8. l * e = e * l /\ 0 * d = 0 /\ e * 0 = 0
  BY <1>1, <1>3
<1>9. QED
  BY <1>3, <1>4, <1>6, <1>7, <1>8 DEF d, e

\* What the sum has come to is the number of draws so far.
LEMMA SumCounts ==
  ASSUME NEW t \in AllTables,
         NEW x \in Lower(Row(t), Col(t), All(t))..Upper(Row(t), Col(t))
  PROVE  /\ Sums(t)[x] \in Nat
         /\ Sums(t)[x] * Cardinality(Draws(t))
              = Comb(All(t), Row(t)) * Cardinality(UpToCount(t, x))
<1> DEFINE lower == Lower(Row(t), Col(t), All(t))
           upper == Upper(Row(t), Col(t))
           d == Cardinality(Draws(t))
           e == Comb(All(t), Row(t))
           good == {y \in lower..upper :
                      /\ Sums(t)[y] \in Nat
                      /\ Sums(t)[y] * d = e * Cardinality(UpToCount(t, y))}
<1>1. lower \in Nat /\ upper \in Nat /\ lower <= upper
  BY Supported
<1>2. d \in Nat /\ e \in Nat /\ IsFiniteSet(Draws(t))
  BY DrawsFinite
<1>3. \A y \in lower..upper :
        /\ Term(t, y) \in Nat
        /\ Term(t, y) * d = e * Cardinality(AtCount(t, y))
  BY TermCounts
<1>4. \A y \in lower..upper :
        Sums(t)[y] = IF y = lower THEN Term(t, y) ELSE Sums(t)[y - 1] + Term(t, y)
  BY SumsExist
<1>5. \A s \in Draws(t) : Counts(t, s) \in lower..upper
  BY DrawnSupported DEF Counts
<1>6. ASSUME NEW y
      PROVE  /\ IsFiniteSet(UpToCount(t, y)) /\ Cardinality(UpToCount(t, y)) \in Nat
             /\ IsFiniteSet(AtCount(t, y)) /\ Cardinality(AtCount(t, y)) \in Nat
  <2>1. UpToCount(t, y) \in SUBSET Draws(t) /\ AtCount(t, y) \in SUBSET Draws(t)
    BY DEF UpToCount, AtCount
  <2>2. IsFiniteSet(UpToCount(t, y)) /\ IsFiniteSet(AtCount(t, y))
    BY <1>2, <2>1, FS_Subset
  <2>3. QED
    BY <2>2, FS_CardinalityType
<1> HIDE DEF lower, upper, d, e
<1>7. lower \in good
  <2>1. \A s \in Draws(t) : Counts(t, s) <= lower <=> Counts(t, s) = lower
    BY <1>1, <1>5
  <2>2. UpToCount(t, lower) = AtCount(t, lower)
    BY <2>1 DEF UpToCount, AtCount
  <2>3. lower \in lower..upper
    BY <1>1
  <2>4. Sums(t)[lower] = Term(t, lower)
    BY <1>4, <2>3
  <2>5. QED
    BY <1>3, <2>2, <2>3, <2>4
<1>8. ASSUME NEW y \in lower..upper, y \in good, y + 1 <= upper
      PROVE  y + 1 \in good
  <2>1. /\ y + 1 \in lower..upper /\ y \in Nat /\ y + 1 # lower /\ y + 1 - 1 = y
    BY <1>1, <1>8
  <2>2. Sums(t)[y + 1] = Sums(t)[y] + Term(t, y + 1)
    BY <1>4, <2>1
  <2>3. UpToCount(t, y + 1) = UpToCount(t, y) \cup AtCount(t, y + 1)
    <3>1. \A s \in Draws(t) :
            Counts(t, s) <= y + 1 <=> Counts(t, s) <= y \/ Counts(t, s) = y + 1
      BY <1>1, <1>5, <2>1
    <3>2. QED
      BY <3>1 DEF UpToCount, AtCount
  <2>4. UpToCount(t, y) \cap AtCount(t, y + 1) = {}
    <3>1. \A s \in Draws(t) : ~(Counts(t, s) <= y /\ Counts(t, s) = y + 1)
      BY <1>1, <1>5, <2>1
    <3>2. QED
      BY <3>1 DEF UpToCount, AtCount
  <2> DEFINE p == Cardinality(UpToCount(t, y))
             q == Cardinality(AtCount(t, y + 1))
             a == Sums(t)[y]
             b == Term(t, y + 1)
  <2>5. Cardinality(UpToCount(t, y + 1)) = p + q
    <3>1. Cardinality(UpToCount(t, y) \cup AtCount(t, y + 1)) = p + q - Cardinality({})
      BY <1>6, <2>4, FS_Union
    <3>2. Cardinality({}) = 0 /\ p \in Nat /\ q \in Nat
      BY <1>6, FS_EmptySet
    <3> HIDE DEF p, q
    <3>3. Cardinality(UpToCount(t, y + 1)) = p + q - 0
      BY <2>3, <3>1, <3>2, Zenon
    <3>4. QED
      BY <3>2, <3>3
  <2>6. /\ p \in Nat /\ q \in Nat /\ a \in Nat /\ b \in Nat
        /\ a * d = e * p /\ b * d = e * q
    BY <1>3, <1>6, <1>8, <2>1
  <2> HIDE DEF p, q, a, b
  <2>7. (a + b) * d = e * (p + q) /\ a + b \in Nat
    BY <1>2, <2>6
  <2> USE DEF a, b
  <2>8. QED
    BY <2>1, <2>2, <2>5, <2>7
<1> HIDE DEF good
<1>9. \A y \in lower..upper : y \in good
  BY <1>1, <1>7, <1>8, AllPositions
<1>10. QED
  BY <1>9 DEF good, lower, upper, d, e

\* fisher_two_sided() of every table is what the draws say.
LEMMA TwoSidedExact ==
  ASSUME NEW t \in AllTables
  PROVE  Exact(t, TwoSided(t))
<1> DEFINE upper == Upper(Row(t), Col(t))
<1>1. upper \in Lower(Row(t), Col(t), All(t))..upper
  BY Supported
<1>2. TwoSided(t) = Sums(t)[upper]
  BY TwoSidedSum
<1>3. Sums(t)[upper] * Cardinality(Draws(t))
        = Comb(All(t), Row(t)) * Cardinality(UpToCount(t, upper))
  BY <1>1, SumCounts
<1>4. UpToCount(t, upper)
        = {s \in Draws(t) : Like(t, Cardinality(s \cap Left(t))) <= Like(t, t[1])}
  <2>1. \A s \in Draws(t) : Counts(t, s) <= upper
    <3>1. upper \in Nat /\ Lower(Row(t), Col(t), All(t)) \in Nat
      BY Supported
    <3>2. \A s \in Draws(t) : Counts(t, s) \in Lower(Row(t), Col(t), All(t))..upper
      BY DrawnSupported DEF Counts
    <3> HIDE DEF upper
    <3>3. QED
      BY <3>1, <3>2
  <2> HIDE DEF upper
  <2>2. QED
    BY <2>1 DEF UpToCount, Counts
<1>5. Cardinality(Left(t)) = Row(t)
  BY Margins, UpTo DEF Left
<1>6. QED
  BY <1>2, <1>3, <1>4, <1>5, Zenon DEF Exact

\* Of no runs there is one draw.
LEMMA NoTableExact == Exact(NoTable, 1)
<1>1. NoTable \in AllTables
  BY DEF NoTable, AllTables
<1>2. Row(NoTable) = 0 /\ Col(NoTable) = 0 /\ All(NoTable) = 0 /\ NoTable[1] = 0
  BY DEF NoTable, Row, Col, All
<1>3. Lower(0, 0, 0) = 0 /\ Upper(0, 0) = 0
  BY Supported DEF Lower, Upper, Max, Min
<1>4. Comb(0, 0) = 1
  <2>1. 0 \in 0..0 /\ 0 - 0 = 0 /\ 0 \in Nat
    OBVIOUS
  <2>2. Comb(0, 0) \in Nat /\ Comb(0, 0) * (factorial[0] * factorial[0]) = factorial[0]
    BY <2>1, CombProduct
  <2>3. QED
    BY <2>2, Factorials
<1>5. Weight(0, 0, 0, 0) = 1
  <2>1. 0 - 0 = 0 /\ 1 * 1 = 1
    OBVIOUS
  <2>2. QED
    BY <1>4, <2>1 DEF Weight
<1>6. Term(NoTable, 0) = 1
  BY <1>2, <1>5 DEF Term
<1>7. Sums(NoTable)[0] = 1
  <2>1. \A x \in 0..0 :
          Sums(NoTable)[x]
            = IF x = 0 THEN Term(NoTable, x) ELSE Sums(NoTable)[x - 1] + Term(NoTable, x)
    BY <1>1, <1>2, <1>3, SumsExist
  <2>2. QED
    BY <1>6, <2>1
<1>8. TwoSided(NoTable) = 1
  BY <1>2, <1>3, <1>7, TwoSidedSum
<1>9. QED
  BY <1>1, <1>8, TwoSidedExact

\* The test is exact of every table that was asked for.
FisherInv ==
  /\ table \in AllTables
  /\ tail # -1 => Exact(table, tail)

LEMMA FisherStart == StatsInit => FisherInv
<1> SUFFICES ASSUME StatsInit
             PROVE  FisherInv
  OBVIOUS
<1>1. CASE table = NoTable /\ tail = 1
  <2>1. NoTable \in AllTables
    BY DEF NoTable, AllTables
  <2>2. QED
    BY <1>1, <2>1, NoTableExact DEF FisherInv
<1>2. CASE table \in Tables /\ tail = -1
  BY <1>2, StatsAssumption DEF FisherInv, AllTables
<1>3. QED
  BY <1>1, <1>2 DEF StatsInit

LEMMA FisherStep == FisherInv /\ [StatsNext]_statsVars => FisherInv'
<1> SUFFICES ASSUME FisherInv, [StatsNext]_statsVars
             PROVE  FisherInv'
  OBVIOUS
<1>1. CASE RankTies
  <2>1. UNCHANGED <<table, tail>>
    BY <1>1 DEF RankTies
  <2>2. QED
    BY <2>1 DEF FisherInv
<1>2. CASE FisherTest
  <2>1. table' = table /\ tail' = TwoSided(table)
    BY <1>2 DEF FisherTest
  <2>2. Exact(table, TwoSided(table))
    BY TwoSidedExact DEF FisherInv
  <2>3. QED
    BY <2>1, <2>2 DEF FisherInv
<1>3. CASE UNCHANGED statsVars
  BY <1>3 DEF statsVars, FisherInv
<1>4. QED
  BY <1>1, <1>2, <1>3 DEF StatsNext

\* fisher_two_sided() is Fisher's exact test: of tables of any size its sum is
\* the share of the ways to choose the runs that pass which are no more
\* probable than what was observed.
THEOREM FisherIsExact == StatsSpec => []FisherExact
<1>1. FisherInv => FisherExact
  BY DEF FisherInv, FisherExact, Exact, Like, Draws, Left, Row, Col, All
<1>2. StatsSpec => []FisherInv
  BY FisherStart, FisherStep, PTL DEF StatsSpec
<1>3. QED
  BY <1>1, <1>2, PTL

-----------------------------------------------------------------------------
(***************************************************************************)
(* SourceText: the loop of find_matching_brace and its reference, defined. *)
(***************************************************************************)

\* The states of the loop of find_matching_brace.
ScanState == [mode : Modes, depth : Int, skip : 0..1]

\* A turn goes from state to state.
LEMMA ScanStepType ==
  ASSUME NEW s \in ScanState, NEW c, NEW n
  PROVE  ScanStep(s, c, n) \in ScanState
<1>1. s.mode \in Modes /\ s.depth \in Int /\ s.skip \in 0..1
  BY DEF ScanState
<1>2. ModeAfter(s.mode, c, n) \in Modes
  <2>1. CASE s.mode = "code"
    BY <2>1 DEF ModeAfter, Modes
  <2>2. CASE s.mode # "code"
    BY <1>1, <2>2 DEF ModeAfter, Modes
  <2>3. QED
    BY <2>1, <2>2
<1>3. DepthAfter(s.mode, c, s.depth) \in Int
  BY <1>1 DEF DepthAfter
<1>4. Width(s.mode, c, n) - 1 \in 0..1
  BY DEF Width
<1>5. QED
  BY <1>1, <1>2, <1>3, <1>4 DEF ScanStep, ScanState

\* The scan is what its recursion says.
LEMMA Scanned ==
  ASSUME NEW text \in Seq(Lexemes), NEW open \in 1..Len(text)
  PROVE  /\ Scan(text, open) \in [open..Len(text) -> ScanState]
         /\ Scan(text, open)[open] = ScanStart
         /\ \A i \in open..Len(text) : i # open =>
              Scan(text, open)[i] = ScanStep(Scan(text, open)[i - 1], text[i - 1], text[i])
<1> DEFINE b == Len(text)
           E(f) == f = [i \in open..b |->
             IF i = open THEN ScanStart ELSE ScanStep(f[i - 1], text[i - 1], text[i])]
           next == [z \in (open..b) \X ScanState |-> ScanStep(z[2], text[z[1] - 1], text[z[1]])]
<1>1. open \in Nat /\ b \in Nat /\ open <= b
  OBVIOUS
<1>2. ScanStart \in ScanState
  BY DEF ScanStart, ScanState, Modes
<1>3. next \in [(open..b) \X ScanState -> ScanState]
  <2>1. ASSUME NEW z \in (open..b) \X ScanState
        PROVE  ScanStep(z[2], text[z[1] - 1], text[z[1]]) \in ScanState
    BY ScanStepType
  <2>2. QED
    BY <2>1
<1>4. PICK f \in [open..b -> ScanState] :
        \A i \in open..b : f[i] = IF i = open THEN ScanStart ELSE next[<<i, f[i - 1]>>]
  <2> HIDE DEF next, b
  <2>1. Stepwise(open, b, ScanState, ScanStart, next) # {}
    BY <1>1, <1>2, <1>3, StepByStep
  <2>2. QED
    BY <2>1 DEF Stepwise
<1>5. \A i \in open..b : i # open => i - 1 \in open..b /\ f[i - 1] \in ScanState
  BY <1>1
<1>6. ASSUME NEW i \in open..b, i # open
      PROVE  f[i] = ScanStep(f[i - 1], text[i - 1], text[i])
  <2>1. <<i, f[i - 1]>> \in (open..b) \X ScanState
    BY <1>5, <1>6
  <2>2. next[<<i, f[i - 1]>>] = ScanStep(f[i - 1], text[i - 1], text[i])
    BY <2>1
  <2>3. QED
    BY <1>4, <1>6, <2>2
<1>7. E(f)
  <2> HIDE DEF next
  <2>1. \A i \in open..b : f[i] = IF i = open THEN ScanStart
                                  ELSE ScanStep(f[i - 1], text[i - 1], text[i])
    BY <1>4, <1>6
  <2>2. QED
    BY <2>1
<1>8. Scan(text, open) = CHOOSE g : E(g)
  BY Zenon DEF Scan
<1> DEFINE s == Scan(text, open)
<1> HIDE DEF E
<1>9. E(s)
  BY <1>7, <1>8, Zenon
<1> HIDE DEF s
<1>10. s = [i \in open..b |->
             IF i = open THEN ScanStart ELSE ScanStep(s[i - 1], text[i - 1], text[i])]
  BY <1>9, Zenon DEF E
<1>11. s[open] = ScanStart
  BY <1>1, <1>10
<1>12. \A i \in open..b : i # open => s[i] = ScanStep(s[i - 1], text[i - 1], text[i])
  BY <1>10
<1>13. \A i \in open..b : s[i] \in ScanState
  <2> DEFINE good == {i \in open..b : s[i] \in ScanState}
  <2>1. open \in good
    BY <1>1, <1>2, <1>11
  <2>2. ASSUME NEW i \in open..b, i \in good, i + 1 <= b
        PROVE  i + 1 \in good
    <3>1. i + 1 \in open..b /\ i + 1 # open /\ i + 1 - 1 = i
      BY <1>1, <2>2
    <3>2. s[i + 1] = ScanStep(s[i], text[i], text[i + 1])
      BY <1>12, <3>1
    <3>3. QED
      BY <2>2, <3>1, <3>2, ScanStepType
  <2> HIDE DEF good
  <2>3. \A i \in open..b : i \in good
    BY <1>1, <2>1, <2>2, AllPositions
  <2>4. QED
    BY <2>3 DEF good
<1>14. s \in [open..b -> ScanState]
  BY <1>10, <1>13
<1>15. QED
  BY <1>11, <1>12, <1>14 DEF s

\* Where a region may end first, it ends.
LEMMA RegionEnds ==
  ASSUME NEW text \in Seq(Lexemes), NEW p \in 1..Len(text)
  PROVE  /\ RegionEnd(text, p) \in p..Len(text)
         /\ p < Len(text) => RegionEnd(text, p) > p
         /\ \A q \in (p + 1)..Len(text) : Ends(text, p, q) => RegionEnd(text, p) <= q
         /\ RegionEnd(text, p) < Len(text) => Ends(text, p, RegionEnd(text, p))
<1> DEFINE ends == {q \in (p + 1)..Len(text) : Ends(text, p, q)}
<1>1. Len(text) \in Nat /\ p \in Nat /\ p <= Len(text)
  OBVIOUS
<1>2. CASE ends = {}
  <2>1. RegionEnd(text, p) = Len(text)
    BY <1>2 DEF RegionEnd
  <2>2. QED
    BY <1>1, <1>2, <2>1
<1>3. CASE ends # {}
  <2>1. RegionEnd(text, p) = Min(ends)
    BY <1>3 DEF RegionEnd
  <2>2. Min(ends) \in ends /\ \A j \in ends : Min(ends) <= j
    <3>1. ends \in SUBSET Nat
      BY <1>1
    <3>2. QED
      BY <1>3, <3>1, LeastOf
  <2>3. QED
    BY <1>1, <2>1, <2>2
<1>4. QED
  BY <1>2, <1>3

\* How far comments and literals reach is what its recursion says.
LEMMA Reached ==
  ASSUME NEW text \in Seq(Lexemes), NEW from \in 1..Len(text)
  PROVE  /\ Reach(text, from)[from] = ReachStep(text, from, 0)
         /\ \A i \in from..Len(text) :
              /\ Reach(text, from)[i] \in Nat
              /\ i # from => Reach(text, from)[i] = ReachStep(text, i, Reach(text, from)[i - 1])
<1> DEFINE b == Len(text)
           E(f) == f = [i \in from..b |->
                          ReachStep(text, i, IF i = from THEN 0 ELSE f[i - 1])]
           next == [z \in (from..b) \X Nat |-> ReachStep(text, z[1], z[2])]
<1>1. from \in Nat /\ b \in Nat /\ from <= b
  OBVIOUS
<1>2. ASSUME NEW i \in from..b, NEW r \in Nat
      PROVE  ReachStep(text, i, r) \in Nat
  <2>1. RegionEnd(text, i) \in i..b /\ i \in 1..b
    BY RegionEnds
  <2>2. QED
    BY <1>1, <2>1 DEF ReachStep
<1>3. next \in [(from..b) \X Nat -> Nat]
  BY <1>2
<1>4. PICK f \in [from..b -> Nat] :
        \A i \in from..b :
          f[i] = IF i = from THEN ReachStep(text, from, 0) ELSE next[<<i, f[i - 1]>>]
  <2>1. ReachStep(text, from, 0) \in Nat
    BY <1>1, <1>2
  <2> HIDE DEF next, b
  <2>2. Stepwise(from, b, Nat, ReachStep(text, from, 0), next) # {}
    BY <1>1, <1>3, <2>1, StepByStep
  <2>3. QED
    BY <2>2 DEF Stepwise
<1>5. \A i \in from..b : i # from => i - 1 \in from..b /\ f[i - 1] \in Nat
  BY <1>1
<1>6. ASSUME NEW i \in from..b
      PROVE  f[i] = ReachStep(text, i, IF i = from THEN 0 ELSE f[i - 1])
  <2>1. CASE i = from
    BY <1>4, <2>1
  <2>2. CASE i # from
    <3>1. <<i, f[i - 1]>> \in (from..b) \X Nat
      BY <1>5, <2>2
    <3>2. next[<<i, f[i - 1]>>] = ReachStep(text, i, f[i - 1])
      BY <3>1
    <3>3. QED
      BY <1>4, <2>2, <3>2
  <2>3. QED
    BY <2>1, <2>2
<1>7. E(f)
  BY <1>6
<1>8. Reach(text, from) = CHOOSE g : E(g)
  BY Zenon DEF Reach
<1> DEFINE s == Reach(text, from)
<1> HIDE DEF E
<1>9. E(s)
  BY <1>7, <1>8, Zenon
<1> HIDE DEF s
<1>10. s = [i \in from..b |-> ReachStep(text, i, IF i = from THEN 0 ELSE s[i - 1])]
  BY <1>9, Zenon DEF E
<1>11. s[from] = ReachStep(text, from, 0)
  BY <1>1, <1>10
<1>12. \A i \in from..b : i # from => s[i] = ReachStep(text, i, s[i - 1])
  BY <1>10
<1>13. \A i \in from..b : s[i] \in Nat
  <2> DEFINE good == {i \in from..b : s[i] \in Nat}
  <2>1. from \in good
    BY <1>1, <1>2, <1>11
  <2>2. ASSUME NEW i \in from..b, i \in good, i + 1 <= b
        PROVE  i + 1 \in good
    <3>1. i + 1 \in from..b /\ i + 1 # from /\ i + 1 - 1 = i
      BY <1>1, <2>2
    <3>2. s[i + 1] = ReachStep(text, i + 1, s[i])
      BY <1>12, <3>1
    <3>3. QED
      BY <1>2, <2>2, <3>1, <3>2
  <2> HIDE DEF good
  <2>3. \A i \in from..b : i \in good
    BY <1>1, <2>1, <2>2, AllPositions
  <2>4. QED
    BY <2>3 DEF good
<1>14. QED
  BY <1>11, <1>12, <1>13 DEF s

-----------------------------------------------------------------------------
(***************************************************************************)
(* SourceText: find_matching_brace.                                        *)
(***************************************************************************)

\* Behind a backslash there is one more of them, behind anything else none.
LEMMA BackslashesCounted ==
  ASSUME NEW text \in Seq(Lexemes), NEW p \in 1..Len(text), text[p] \in {"dquote", "'"},
         NEW q \in (p + 1)..Len(text)
  PROVE  /\ Backslashes(text, p, q) \in Nat
         /\ Backslashes(text, p, p + 1) = 0
         /\ text[q] = "\\" => Backslashes(text, p, q + 1) = Backslashes(text, p, q) + 1
         /\ text[q] # "\\" => Backslashes(text, p, q + 1) = 0
<1> DEFINE others(k) == {j \in p..(k - 1) : text[j] # "\\"}
<1>1. /\ Len(text) \in Nat /\ p \in Nat /\ q \in Nat /\ p < q /\ q <= Len(text) /\ p >= 1
      /\ text[p] # "\\"
  OBVIOUS
<1>2. ASSUME NEW k \in (p + 1)..(Len(text) + 1)
      PROVE  /\ Max(others(k)) \in others(k)
             /\ \A j \in others(k) : j <= Max(others(k))
  <2>1. k - 1 \in Nat /\ others(k) \in SUBSET (1..(k - 1)) /\ p \in others(k)
    BY <1>1
  <2> HIDE DEF others
  <2>2. QED
    BY <2>1, GreatestOf
<1>3. \A k : Backslashes(text, p, k) = k - 1 - Max(others(k))
  BY DEF Backslashes
<1>4. p + 1 \in (p + 1)..(Len(text) + 1) /\ q \in (p + 1)..(Len(text) + 1)
      /\ q + 1 \in (p + 1)..(Len(text) + 1)
  BY <1>1
<1>5. Backslashes(text, p, q) \in Nat
  <2>1. Max(others(q)) \in p..(q - 1)
    BY <1>2, <1>4
  <2> HIDE DEF others
  <2>2. QED
    BY <1>1, <1>3, <2>1
<1>6. Backslashes(text, p, p + 1) = 0
  <2>1. Max(others(p + 1)) \in others(p + 1)
    <3> HIDE DEF others
    <3>1. QED
      BY <1>2, <1>4
  <2>2. Max(others(p + 1)) \in p..(p + 1 - 1)
    BY <2>1
  <2> HIDE DEF others
  <2>3. QED
    BY <1>1, <1>3, <2>2
<1>7. ASSUME text[q] = "\\"
      PROVE  Backslashes(text, p, q + 1) = Backslashes(text, p, q) + 1
  <2>1. others(q + 1) = others(q)
    BY <1>1, <1>7
  <2>2. Max(others(q)) \in p..(q - 1)
    BY <1>2, <1>4
  <2> HIDE DEF others
  <2>3. QED
    BY <1>1, <1>3, <2>1, <2>2
<1>8. ASSUME text[q] # "\\"
      PROVE  Backslashes(text, p, q + 1) = 0
  <2>1. q \in others(q + 1)
    BY <1>1, <1>8
  <2>2. Max(others(q + 1)) \in others(q + 1) /\ q <= Max(others(q + 1))
    <3> HIDE DEF others
    <3>1. QED
      BY <1>2, <1>4, <2>1
  <2>3. Max(others(q + 1)) \in p..(q + 1 - 1)
    BY <2>2
  <2> HIDE DEF others
  <2>4. QED
    BY <1>1, <1>3, <2>2, <2>3
<1>9. QED
  BY <1>5, <1>6, <1>7, <1>8

\* The state of the loop at i, inside of the comment or literal that starts at p.
Within(text, p, i, s) ==
  \/ /\ text[p] = "dquote" /\ s.mode = "string"
     /\ s.skip = Backslashes(text, p, i) % 2
  \/ /\ text[p] = "'" /\ s.mode = "char"
     /\ s.skip = Backslashes(text, p, i) % 2
  \/ /\ text[p] = "/" /\ text[p + 1] = "/" /\ s.mode = "line_comment"
     /\ s.skip = IF i = p + 1 THEN 1 ELSE 0
  \/ /\ text[p] = "/" /\ text[p + 1] = "*" /\ s.mode = "block_comment"
     /\ s.skip = IF i = p + 1 THEN 1 ELSE 0
     /\ i > p + 2 => ~(text[i - 1] = "*" /\ text[i] = "/")
  \/ /\ text[p] = "/" /\ text[p + 1] = "*" /\ s.mode = "code" /\ s.skip = 1
     /\ i > p + 2 /\ text[i - 1] = "*" /\ text[i] = "/"

\* A comment or literal is entered where it starts.
LEMMA Entered ==
  ASSUME NEW text \in Seq(Lexemes), NEW p \in 1..Len(text), p < Len(text),
         Starts(text, p), NEW s \in ScanState, s.mode = "code", s.skip = 0
  PROVE  /\ Within(text, p, p + 1, ScanStep(s, text[p], text[p + 1]))
         /\ ScanStep(s, text[p], text[p + 1]).depth = s.depth
<1> DEFINE t == ScanStep(s, text[p], text[p + 1])
<1>1. p \in Nat /\ Len(text) \in Nat /\ p + 1 \in 1..Len(text)
  OBVIOUS
<1>2. /\ t.mode = ModeAfter("code", text[p], text[p + 1])
      /\ t.depth = DepthAfter("code", text[p], s.depth)
      /\ t.skip = Width("code", text[p], text[p + 1]) - 1
  BY DEF ScanStep
<1> HIDE DEF t
<1>3. CASE text[p] \in {"dquote", "'"}
  <2>1. Backslashes(text, p, p + 1) = 0
    BY <1>1, <1>3, BackslashesCounted
  <2>2. t.skip = 0 /\ t.depth = s.depth
    BY <1>2, <1>3 DEF Width, DepthAfter
  <2>3. t.mode = IF text[p] = "dquote" THEN "string" ELSE "char"
    BY <1>2, <1>3 DEF ModeAfter
  <2>4. QED
    BY <1>3, <2>1, <2>2, <2>3 DEF Within, t
<1>4. CASE text[p] = "/" /\ text[p + 1] \in {"/", "*"}
  <2>1. t.skip = 1 /\ t.depth = s.depth
    BY <1>2, <1>4 DEF Width, DepthAfter
  <2>2. t.mode = IF text[p + 1] = "/" THEN "line_comment" ELSE "block_comment"
    BY <1>2, <1>4 DEF ModeAfter
  <2>3. ~(p + 1 > p + 2)
    BY <1>1
  <2>4. QED
    BY <1>4, <2>1, <2>2, <2>3 DEF Within, t
<1>5. QED
  BY <1>3, <1>4 DEF Starts

\* In a literal: the loop leaves it just where it ends.
LEMMA LiteralStep ==
  ASSUME NEW text \in Seq(Lexemes), NEW p \in 1..Len(text), NEW i \in (p + 1)..Len(text),
         i < Len(text), NEW s \in ScanState,
         \/ text[p] = "dquote" /\ s.mode = "string"
         \/ text[p] = "'" /\ s.mode = "char",
         s.skip = Backslashes(text, p, i) % 2
  PROVE  LET t == ScanStep(s, text[i], text[i + 1]) IN
         /\ Ends(text, p, i) => t.mode = "code" /\ t.skip = 0
         /\ ~Ends(text, p, i) => Within(text, p, i + 1, t)
         /\ t.depth = s.depth
<1> DEFINE t == ScanStep(s, text[i], text[i + 1])
           k == Backslashes(text, p, i)
           l == Backslashes(text, p, i + 1)
<1>1. /\ text[p] \in {"dquote", "'"} /\ s.mode # "code" /\ s.skip \in 0..1
      /\ s.mode \notin {"line_comment", "block_comment"}
  BY DEF ScanState
<1>2. /\ k \in Nat
      /\ text[i] = "\\" => l = k + 1
      /\ text[i] # "\\" => l = 0
  BY <1>1, BackslashesCounted
<1>3. Ends(text, p, i) <=> text[i] = text[p] /\ s.skip = 0
  <2>1. text[p] # "/"
    BY <1>1
  <2>2. Ends(text, p, i) <=> text[i] = text[p] /\ Backslashes(text, p, i) % 2 = 0
    BY <2>1 DEF Ends
  <2>3. QED
    BY <2>2
<1> HIDE DEF k, l
<1>4. CASE s.skip = 1
  <2>1. t.mode = s.mode /\ t.skip = 0 /\ t.depth = s.depth
    BY <1>4 DEF ScanStep
  <2>2. l % 2 = 0
    <3>1. k % 2 = 1
      BY <1>4 DEF k
    <3>2. QED
      BY <1>2, <3>1
  <2> HIDE DEF t
  <2>3. Within(text, p, i + 1, t)
    BY <2>1, <2>2 DEF Within, l
  <2>4. QED
    BY <1>3, <1>4, <2>1, <2>3 DEF t
<1>5. CASE s.skip = 0
  <2>1. /\ t.mode = ModeAfter(s.mode, text[i], text[i + 1])
        /\ t.depth = DepthAfter(s.mode, text[i], s.depth)
        /\ t.skip = Width(s.mode, text[i], text[i + 1]) - 1
    BY <1>5 DEF ScanStep
  <2>2. t.depth = s.depth
    BY <1>1, <2>1 DEF DepthAfter
  <2>3. k % 2 = 0
    BY <1>5 DEF k
  <2>4. CASE text[i] = text[p]
    <3>1. t.mode = "code"
      BY <1>1, <2>1, <2>4 DEF ModeAfter
    <3>2. t.skip = 0
      BY <1>1, <2>1, <2>4 DEF Width
    <3>3. QED
      BY <1>3, <1>5, <2>2, <2>4, <3>1, <3>2
  <2>5. CASE text[i] # text[p]
    <3>1. t.mode = s.mode
      BY <1>1, <2>1, <2>5 DEF ModeAfter
    <3>2. t.skip = l % 2
      <4>1. CASE text[i] = "\\"
        <5>1. t.skip = 1
          BY <1>1, <2>1, <4>1 DEF Width
        <5>2. QED
          BY <1>2, <2>3, <4>1, <5>1
      <4>2. CASE text[i] # "\\"
        <5>1. t.skip = 0
          BY <1>1, <2>1, <4>2 DEF Width
        <5>2. QED
          BY <1>2, <4>2, <5>1
      <4>3. QED
        BY <4>1, <4>2
    <3> HIDE DEF t
    <3>3. Within(text, p, i + 1, t)
      BY <3>1, <3>2 DEF Within, l
    <3>4. QED
      BY <1>3, <2>2, <2>5, <3>3 DEF t
  <2>6. QED
    BY <2>4, <2>5
<1>6. QED
  BY <1>1, <1>4, <1>5

\* In a comment: the loop leaves it just where it ends.
LEMMA CommentStep ==
  ASSUME NEW text \in Seq(Lexemes), NEW p \in 1..Len(text), NEW i \in (p + 1)..Len(text),
         i < Len(text), NEW s \in ScanState,
         text[p] = "/", Within(text, p, i, s)
  PROVE  LET t == ScanStep(s, text[i], text[i + 1]) IN
         /\ Ends(text, p, i) => t.mode = "code" /\ t.skip = 0
         /\ ~Ends(text, p, i) => Within(text, p, i + 1, t)
         /\ t.depth = s.depth
<1> DEFINE t == ScanStep(s, text[i], text[i + 1])
<1>1. /\ p \in Nat /\ i \in Nat /\ i > p /\ i + 1 > p + 1 /\ i + 1 - 1 = i
      /\ s.skip \in 0..1
  BY DEF ScanState
<1>2. ASSUME s.skip = 1
      PROVE  t.mode = s.mode /\ t.skip = 0 /\ t.depth = s.depth
  BY <1>2 DEF ScanStep
<1>3. ASSUME s.skip = 0
      PROVE  /\ t.mode = ModeAfter(s.mode, text[i], text[i + 1])
             /\ t.depth = DepthAfter(s.mode, text[i], s.depth)
             /\ t.skip = Width(s.mode, text[i], text[i + 1]) - 1
  BY <1>3 DEF ScanStep
<1> HIDE DEF t
<1>4. CASE text[p + 1] = "/" /\ s.mode = "line_comment"
           /\ s.skip = IF i = p + 1 THEN 1 ELSE 0
  <2>1. Ends(text, p, i) <=> text[i] = "\n"
    BY <1>4 DEF Ends
  <2>2. CASE i = p + 1
    <3>1. t.mode = "line_comment" /\ t.skip = 0 /\ t.depth = s.depth
      BY <1>2, <1>4, <2>2
    <3>2. text[i] # "\n" /\ i + 1 # p + 1
      BY <1>1, <1>4, <2>2
    <3>3. Within(text, p, i + 1, t)
      BY <1>4, <3>1, <3>2 DEF Within
    <3>4. QED
      BY <2>1, <3>1, <3>2, <3>3 DEF t
  <2>3. CASE i # p + 1
    <3>1. t.skip = 0 /\ t.depth = s.depth
      BY <1>3, <1>4, <2>3 DEF Width, DepthAfter
    <3>2. t.mode = IF text[i] = "\n" THEN "code" ELSE "line_comment"
      BY <1>3, <1>4, <2>3 DEF ModeAfter
    <3>3. text[i] # "\n" => Within(text, p, i + 1, t)
      BY <1>1, <1>4, <3>1, <3>2 DEF Within
    <3>4. QED
      BY <2>1, <3>1, <3>2, <3>3 DEF t
  <2>4. QED
    BY <2>2, <2>3
<1>5. CASE text[p + 1] = "*" /\ s.mode = "block_comment"
           /\ s.skip = (IF i = p + 1 THEN 1 ELSE 0)
           /\ (i > p + 2 => ~(text[i - 1] = "*" /\ text[i] = "/"))
  <2>1. ~Ends(text, p, i)
    BY <1>5 DEF Ends
  <2>2. CASE i = p + 1
    <3>1. t.mode = "block_comment" /\ t.skip = 0 /\ t.depth = s.depth
      BY <1>2, <1>5, <2>2
    <3>2. i + 1 # p + 1 /\ ~(i + 1 > p + 2)
      BY <1>1, <2>2
    <3>3. Within(text, p, i + 1, t)
      BY <1>5, <3>1, <3>2 DEF Within
    <3>4. QED
      BY <2>1, <3>1, <3>3 DEF t
  <2>3. CASE i # p + 1
    <3>1. t.depth = s.depth
      BY <1>3, <1>5, <2>3 DEF DepthAfter
    <3>2. i + 1 # p + 1 /\ i + 1 > p + 2
      BY <1>1, <2>3
    <3>3. CASE text[i] = "*" /\ text[i + 1] = "/"
      <4>1. t.mode = "code" /\ t.skip = 1
        BY <1>3, <1>5, <2>3, <3>3 DEF ModeAfter, Width
      <4>2. Within(text, p, i + 1, t)
        BY <1>1, <1>5, <3>2, <3>3, <4>1 DEF Within
      <4>3. QED
        BY <2>1, <3>1, <4>2 DEF t
    <3>4. CASE ~(text[i] = "*" /\ text[i + 1] = "/")
      <4>1. t.mode = "block_comment"
        BY <1>3, <1>5, <2>3, <3>4 DEF ModeAfter
      <4>2. t.skip = 0
        BY <1>3, <1>5, <2>3, <3>4 DEF Width
      <4>3. Within(text, p, i + 1, t)
        BY <1>1, <1>5, <3>2, <3>4, <4>1, <4>2 DEF Within
      <4>4. QED
        BY <2>1, <3>1, <4>3 DEF t
    <3>5. QED
      BY <3>3, <3>4
  <2>4. QED
    BY <2>2, <2>3
<1>6. CASE text[p + 1] = "*" /\ s.mode = "code" /\ s.skip = 1
           /\ i > p + 2 /\ text[i - 1] = "*" /\ text[i] = "/"
  <2>1. Ends(text, p, i)
    BY <1>6 DEF Ends
  <2>2. t.mode = "code" /\ t.skip = 0 /\ t.depth = s.depth
    BY <1>2, <1>6
  <2>3. QED
    BY <2>1, <2>2 DEF t
<1>7. QED
  BY <1>4, <1>5, <1>6 DEF Within

\* How many characters c of the code come before i.
Before(text, from, c, i) ==
  Cardinality({j \in Code(text, from) : j < i /\ text[j] = c})

\* One more, if c is at i and i is code.
LEMMA BeforeCounts ==
  ASSUME NEW text \in Seq(Lexemes), NEW from \in 1..Len(text), NEW c,
         NEW i \in from..Len(text)
  PROVE  /\ Before(text, from, c, from) = 0
         /\ Before(text, from, c, i) \in Nat
         /\ Before(text, from, c, i + 1) = Before(text, from, c, i) +
              IF i \in Code(text, from) /\ text[i] = c THEN 1 ELSE 0
<1> DEFINE code == Code(text, from)
           hits(k) == {j \in code : j < k /\ text[j] = c}
<1>1. Len(text) \in Nat /\ from \in Nat /\ i \in Nat /\ code \subseteq from..Len(text)
  BY DEF Code
<1>2. IsFiniteSet(hits(i)) /\ Cardinality(hits(i)) \in Nat
  <2>1. from \in Int /\ Len(text) \in Int
    BY <1>1
  <2>2. IsFiniteSet(from..Len(text))
    BY <2>1, FS_Interval
  <2>3. hits(i) \subseteq from..Len(text)
    BY <1>1
  <2> HIDE DEF hits
  <2>4. IsFiniteSet(hits(i))
    BY <2>2, <2>3, FS_Subset
  <2>5. QED
    BY <2>4, FS_CardinalityType
<1>3. Before(text, from, c, from) = 0
  <2>1. hits(from) = {}
    BY <1>1
  <2>2. Before(text, from, c, from) = Cardinality(hits(from))
    BY DEF Before
  <2>3. QED
    BY <2>1, <2>2, FS_EmptySet
<1>4. /\ Before(text, from, c, i) = Cardinality(hits(i))
      /\ Before(text, from, c, i + 1) = Cardinality(hits(i + 1))
  BY DEF Before
<1>5. CASE i \in code /\ text[i] = c
  <2>1. hits(i + 1) = hits(i) \cup {i} /\ i \notin hits(i)
    BY <1>1, <1>5
  <2> HIDE DEF hits
  <2>2. Cardinality(hits(i + 1)) = Cardinality(hits(i)) + 1
    BY <1>2, <2>1, FS_AddElement
  <2>3. QED
    BY <1>2, <1>3, <1>4, <1>5, <2>2
<1>6. CASE ~(i \in code /\ text[i] = c)
  <2>1. hits(i + 1) = hits(i)
    BY <1>1, <1>6
  <2> HIDE DEF hits
  <2>2. QED
    BY <1>2, <1>3, <1>4, <1>6, <2>1
<1>7. QED
  BY <1>5, <1>6

\* How far the comment or literal reaches that the position before i is in.
Behind(text, from, i) == IF i = from THEN 0 ELSE Reach(text, from)[i - 1]

\* The scan and the reference at i: the depth is that of the code before, and
\* the loop is in a comment or a literal just when i is in one.
Agree(text, from, i) ==
  LET s == Scan(text, from)[i] IN
  /\ s.depth = Before(text, from, "lbrace", i) - Before(text, from, "rbrace", i)
  /\ \/ s.mode = "code" /\ s.skip = 0 /\ Behind(text, from, i) < i
     \/ \E p \in from..(i - 1) :
          /\ Starts(text, p) /\ Within(text, p, i, s)
          /\ Behind(text, from, i) = RegionEnd(text, p) /\ RegionEnd(text, p) >= i

\* Scan and reference go on together.
LEMMA AgreeStep ==
  ASSUME NEW text \in Seq(Lexemes), NEW from \in 1..Len(text),
         NEW i \in from..Len(text), i < Len(text), Agree(text, from, i)
  PROVE  Agree(text, from, i + 1)
<1> DEFINE s == Scan(text, from)[i]
           t == Scan(text, from)[i + 1]
           r == Reach(text, from)[i]
           lefts(k)  == Before(text, from, "lbrace", k)
           rights(k) == Before(text, from, "rbrace", k)
<1>1. /\ Len(text) \in Nat /\ from \in Nat /\ i \in Nat /\ i \in 1..Len(text) /\ from >= 1
      /\ i + 1 \in from..Len(text) /\ i + 1 # from /\ i + 1 - 1 = i
  OBVIOUS
<1>2. s \in ScanState /\ t = ScanStep(s, text[i], text[i + 1])
  <2> DEFINE scan == Scan(text, from)
  <2>1. /\ scan \in [from..Len(text) -> ScanState]
        /\ \A k \in from..Len(text) :
             k # from => scan[k] = ScanStep(scan[k - 1], text[k - 1], text[k])
    BY Scanned
  <2> HIDE DEF scan
  <2>2. scan[i] \in ScanState /\ scan[i + 1] = ScanStep(scan[i], text[i], text[i + 1])
    BY <1>1, <2>1
  <2>3. QED
    BY <2>2 DEF scan
<1>3. r = ReachStep(text, i, Behind(text, from, i)) /\ Behind(text, from, i + 1) = r
  BY <1>1, Reached DEF Behind
<1>4. i \in Code(text, from) <=> r = 0
  BY DEF Code
<1>5. /\ lefts(i) \in Nat /\ rights(i) \in Nat
      /\ lefts(i + 1) = lefts(i) + IF r = 0 /\ text[i] = "lbrace" THEN 1 ELSE 0
      /\ rights(i + 1) = rights(i) + IF r = 0 /\ text[i] = "rbrace" THEN 1 ELSE 0
  BY <1>4, BeforeCounts
<1>6. s.depth = lefts(i) - rights(i)
  BY DEF Agree
<1>7. SUFFICES /\ t.depth = lefts(i + 1) - rights(i + 1)
               /\ \/ t.mode = "code" /\ t.skip = 0 /\ r < i + 1
                  \/ \E p \in from..i :
                       /\ Starts(text, p) /\ Within(text, p, i + 1, t)
                       /\ r = RegionEnd(text, p) /\ RegionEnd(text, p) >= i + 1
  BY <1>1, <1>3 DEF Agree
<1> HIDE DEF s, t, r, lefts, rights
<1>8. CASE s.mode = "code" /\ s.skip = 0 /\ Behind(text, from, i) < i
  <2>1. ~(Behind(text, from, i) >= i)
    <3>1. Behind(text, from, i) \in Nat
      BY <1>1, Reached DEF Behind
    <3>2. QED
      BY <1>1, <1>8, <3>1
  <2>2. r = IF Starts(text, i) THEN RegionEnd(text, i) ELSE 0
    BY <1>3, <2>1 DEF ReachStep
  <2>3. CASE Starts(text, i)
    <3>1. RegionEnd(text, i) \in i..Len(text) /\ RegionEnd(text, i) > i
      BY <1>1, RegionEnds
    <3>2. r = RegionEnd(text, i) /\ r >= i + 1 /\ r # 0
      BY <1>1, <2>2, <2>3, <3>1
    <3>3. Within(text, i, i + 1, t) /\ t.depth = s.depth
      BY <1>1, <1>2, <1>8, <2>3, Entered
    <3>4. i \in from..i
      BY <1>1
    <3>5. QED
      BY <1>5, <1>6, <2>3, <3>2, <3>3, <3>4
  <2>4. CASE ~Starts(text, i)
    <3>1. r = 0 /\ r < i + 1
      BY <1>1, <2>2, <2>4
    <3>2. /\ text[i] # "dquote" /\ text[i] # "'"
          /\ ~(text[i] = "/" /\ text[i + 1] \in {"/", "*"})
      BY <1>1, <2>4 DEF Starts
    <3>3. /\ t.mode = ModeAfter("code", text[i], text[i + 1])
          /\ t.depth = DepthAfter("code", text[i], s.depth)
          /\ t.skip = Width("code", text[i], text[i + 1]) - 1
      BY <1>2, <1>8 DEF ScanStep
    <3>4. t.mode = "code"
      BY <3>2, <3>3 DEF ModeAfter
    <3>5. t.skip = 0
      BY <3>2, <3>3 DEF Width
    <3>6. t.depth = lefts(i + 1) - rights(i + 1)
      <4>1. CASE text[i] = "lbrace"
        <5>1. t.depth = s.depth + 1
          BY <3>3, <4>1 DEF DepthAfter
        <5>2. QED
          BY <1>5, <1>6, <3>1, <4>1, <5>1
      <4>2. CASE text[i] = "rbrace"
        <5>1. t.depth = s.depth - 1
          BY <3>3, <4>2 DEF DepthAfter
        <5>2. QED
          BY <1>5, <1>6, <3>1, <4>2, <5>1
      <4>3. CASE text[i] \notin {"lbrace", "rbrace"}
        <5>1. t.depth = s.depth
          BY <3>3, <4>3 DEF DepthAfter
        <5>2. QED
          BY <1>5, <1>6, <4>3, <5>1
      <4>4. QED
        BY <4>1, <4>2, <4>3
    <3>7. QED
      BY <3>1, <3>4, <3>5, <3>6
  <2>5. QED
    BY <2>3, <2>4
<1>9. ASSUME NEW p \in from..(i - 1),
             Starts(text, p), Within(text, p, i, s),
             Behind(text, from, i) = RegionEnd(text, p), RegionEnd(text, p) >= i
      PROVE  /\ t.depth = lefts(i + 1) - rights(i + 1)
             /\ \/ t.mode = "code" /\ t.skip = 0 /\ r < i + 1
                \/ \E q \in from..i :
                     /\ Starts(text, q) /\ Within(text, q, i + 1, t)
                     /\ r = RegionEnd(text, q) /\ RegionEnd(text, q) >= i + 1
  <2>1. p \in 1..Len(text) /\ i \in (p + 1)..Len(text) /\ p \in from..i
    BY <1>1
  <2>2. r = RegionEnd(text, p) /\ r # 0
    BY <1>1, <1>3, <1>9 DEF ReachStep
  <2>3. /\ r \in p..Len(text)
        /\ Ends(text, p, i) => r <= i
        /\ r < Len(text) => Ends(text, p, r)
    BY <2>1, <2>2, RegionEnds
  <2>4. /\ Ends(text, p, i) => t.mode = "code" /\ t.skip = 0
        /\ ~Ends(text, p, i) => Within(text, p, i + 1, t)
        /\ t.depth = s.depth
    <3>1. CASE text[p] = "/"
      BY <1>2, <1>9, <2>1, <3>1, CommentStep
    <3>2. CASE text[p] # "/"
      <4>1. /\ \/ text[p] = "dquote" /\ s.mode = "string"
               \/ text[p] = "'" /\ s.mode = "char"
            /\ s.skip = Backslashes(text, p, i) % 2
        BY <1>9, <3>2 DEF Within
      <4>2. QED
        BY <1>2, <2>1, <4>1, LiteralStep
    <3>3. QED
      BY <3>1, <3>2
  <2>5. t.depth = lefts(i + 1) - rights(i + 1)
    BY <1>5, <1>6, <2>2, <2>4
  <2>6. CASE Ends(text, p, i)
    <3>1. r < i + 1
      BY <1>1, <2>3, <2>6
    <3>2. QED
      BY <2>4, <2>5, <2>6, <3>1
  <2>7. CASE ~Ends(text, p, i)
    <3>1. r # i
      BY <2>3, <2>7
    <3>2. r >= i + 1
      BY <1>1, <1>9, <2>2, <2>3, <3>1
    <3>3. QED
      BY <1>9, <2>1, <2>2, <2>4, <2>5, <2>7, <3>2
  <2>8. QED
    BY <2>6, <2>7
<1>10. QED
  BY <1>8, <1>9 DEF Agree, s

\* Scan and reference agree everywhere.
LEMMA AlwaysAgree ==
  ASSUME NEW text \in Seq(Lexemes), NEW from \in 1..Len(text)
  PROVE  \A i \in from..Len(text) : Agree(text, from, i)
<1> DEFINE good == {i \in from..Len(text) : Agree(text, from, i)}
<1>1. from \in Nat /\ Len(text) \in Nat /\ from <= Len(text) /\ from > 0
      /\ from \in from..Len(text)
  OBVIOUS
<1>2. from \in good
  <2>1. Scan(text, from)[from] = ScanStart
    BY Scanned
  <2>2. Before(text, from, "lbrace", from) = 0 /\ Before(text, from, "rbrace", from) = 0
    BY <1>1, BeforeCounts
  <2>3. Agree(text, from, from)
    BY <1>1, <2>1, <2>2 DEF Agree, Behind, ScanStart
  <2>4. QED
    BY <1>1, <2>3
<1>3. ASSUME NEW i \in from..Len(text), i \in good, i + 1 <= Len(text)
      PROVE  i + 1 \in good
  <2>1. i < Len(text) /\ i + 1 \in from..Len(text)
    BY <1>1, <1>3
  <2>2. Agree(text, from, i + 1)
    BY <1>3, <2>1, AgreeStep
  <2>3. QED
    BY <2>1, <2>2
<1> HIDE DEF good
<1>4. \A i \in from..Len(text) : i \in good
  BY <1>1, <1>2, <1>3, AllPositions
<1>5. QED
  BY <1>4 DEF good

\* find_matching_brace finds the brace of the reference, in every text.
LEMMA BraceFound ==
  ASSUME NEW text \in Seq(Lexemes), NEW open \in 1..Len(text)
  PROVE  FindMatchingBrace(text, open) = MatchingBrace(text, open)
<1> DEFINE scan == Scan(text, open)
           code == Code(text, open)
           closing == {i \in open..Len(text) :
             text[i] = "rbrace" /\ scan[i] = [mode |-> "code", depth |-> 1, skip |-> 0]}
           count(c, i) == Cardinality({j \in code : j <= i /\ text[j] = c})
           balanced == {i \in code :
             text[i] = "rbrace" /\ count("lbrace", i) = count("rbrace", i)}
<1>1. open \in Nat /\ Len(text) \in Nat /\ code \subseteq open..Len(text)
  BY DEF Code
<1>2. ASSUME NEW i \in open..Len(text), text[i] = "rbrace"
      PROVE  scan[i] = [mode |-> "code", depth |-> 1, skip |-> 0]
               <=> i \in code /\ count("lbrace", i) = count("rbrace", i)
  <2> DEFINE s == scan[i]
             lefts == Before(text, open, "lbrace", i)
             rights == Before(text, open, "rbrace", i)
  <2>1. Agree(text, open, i)
    BY AlwaysAgree
  <2>2. s \in ScanState
    BY Scanned
  <2>3. i \in code <=> Reach(text, open)[i] = 0
    BY DEF Code
  <2>4. Reach(text, open)[i] = ReachStep(text, i, Behind(text, open, i))
    BY <1>1, Reached DEF Behind
  <2>5. ~Starts(text, i)
    BY <1>2 DEF Starts
  <2>6. s.depth = lefts - rights /\ lefts \in Nat /\ rights \in Nat
    BY <2>1, BeforeCounts DEF Agree
  <2>7. i \in code <=> s.mode = "code" /\ s.skip = 0
    <3>1. CASE s.mode = "code" /\ s.skip = 0 /\ Behind(text, open, i) < i
      <4>1. Behind(text, open, i) \in Nat
        BY <1>1, Reached DEF Behind
      <4>2. ~(Behind(text, open, i) >= i)
        BY <1>1, <3>1, <4>1
      <4>3. QED
        BY <2>3, <2>4, <2>5, <3>1, <4>2 DEF ReachStep
    <3>2. ASSUME NEW p \in open..(i - 1), Within(text, p, i, s),
                 Behind(text, open, i) = RegionEnd(text, p), RegionEnd(text, p) >= i
          PROVE  i \notin code /\ ~(s.mode = "code" /\ s.skip = 0)
      <4>1. i # 0
        BY <1>1
      <4>2. RegionEnd(text, p) # 0
        BY <1>1, <3>2
      <4>3. ~(s.mode = "code" /\ s.skip = 0)
        <5> HIDE DEF s
        <5>1. QED
          BY <3>2 DEF Within
      <4>4. QED
        BY <2>3, <2>4, <3>2, <4>2, <4>3 DEF ReachStep
    <3>3. QED
      BY <2>1, <3>1, <3>2 DEF Agree
  <2>8. i \in code => count("lbrace", i) = lefts /\ count("rbrace", i) = rights + 1
    <3>1. \A c : count(c, i) = Before(text, open, c, i + 1)
      <4>1. ASSUME NEW c
            PROVE  {j \in code : j <= i /\ text[j] = c} = {j \in code : j < i + 1 /\ text[j] = c}
        BY <1>1
      <4>2. QED
        BY <4>1 DEF Before
    <3>2. /\ Before(text, open, "lbrace", i + 1) =
               lefts + IF i \in code /\ text[i] = "lbrace" THEN 1 ELSE 0
          /\ Before(text, open, "rbrace", i + 1) =
               rights + IF i \in code /\ text[i] = "rbrace" THEN 1 ELSE 0
      BY BeforeCounts
    <3> HIDE DEF code, count, lefts, rights
    <3>3. QED
      BY <1>2, <2>6, <3>1, <3>2
  <2>9. s = [mode |-> "code", depth |-> 1, skip |-> 0]
          <=> s.mode = "code" /\ s.depth = 1 /\ s.skip = 0
    <3> HIDE DEF s
    <3>1. QED
      BY <2>2 DEF ScanState
  <2> HIDE DEF s, code, count, lefts, rights
  <2>10. i \in code => (count("lbrace", i) = count("rbrace", i) <=> s.depth = 1)
    BY <2>6, <2>8
  <2>11. QED
    BY <2>7, <2>9, <2>10 DEF s
<1>3. closing = balanced
  <2> HIDE DEF scan, count
  <2>1. QED
    BY <1>1, <1>2
<1>4. FindMatchingBrace(text, open) = IF closing = {} THEN 0 ELSE Min(closing)
  BY DEF FindMatchingBrace
<1>5. MatchingBrace(text, open) = IF balanced = {} THEN 0 ELSE Min(balanced)
  BY DEF MatchingBrace
<1>6. QED
  <2> HIDE DEF closing, balanced
  <2>1. QED
    BY <1>3, <1>4, <1>5

-----------------------------------------------------------------------------
\* The place of a class in a text.

\* First is the first one there is.
LEMMA Found ==
  ASSUME NEW text \in Seq(Lexemes), NEW l, NEW from \in Nat
  PROVE  LET f == First(text, l, from) IN
         \/ f = 0 /\ \A i \in from..Len(text) : text[i] # l
         \/ f \in from..Len(text) /\ text[f] = l /\ \A i \in from..Len(text) : text[i] = l => f <= i
<1> DEFINE hits == {i \in from..Len(text) : text[i] = l}
<1>1. Len(text) \in Nat /\ hits \in SUBSET Nat
  OBVIOUS
<1>2. First(text, l, from) = IF hits # {} THEN Min(hits) ELSE 0
  BY DEF First, SelectInSubSeq
<1>3. CASE hits = {}
  BY <1>2, <1>3
<1>4. CASE hits # {}
  <2> HIDE DEF hits
  <2>1. First(text, l, from) \in hits /\ \A j \in hits : First(text, l, from) <= j
    BY <1>1, <1>2, <1>4, LeastOf
  <2>2. QED
    BY <2>1 DEF hits
<1>5. QED
  BY <1>3, <1>4

\* The brace found is one of the text, at or after the one asked for.
LEMMA BraceInside ==
  ASSUME NEW text \in Seq(Lexemes), NEW open \in 1..Len(text), NEW f,
         f = FindMatchingBrace(text, open), f # 0
  PROVE  f \in open..Len(text) /\ text[f] = "rbrace"
<1> DEFINE scan == Scan(text, open)
           closing == {i \in open..Len(text) :
             text[i] = "rbrace" /\ scan[i] = [mode |-> "code", depth |-> 1, skip |-> 0]}
<1>1. FindMatchingBrace(text, open) = IF closing = {} THEN 0 ELSE Min(closing)
  BY DEF FindMatchingBrace
<1>2. closing \in SUBSET Nat /\ \A i \in closing : i \in open..Len(text) /\ text[i] = "rbrace"
  OBVIOUS
<1> HIDE DEF closing
<1>3. f \in closing
  BY <1>1, <1>2, LeastOf
<1>4. QED
  BY <1>2, <1>3

\* A span that is found is a part of the text.
LEMMA SpanInside ==
  ASSUME NEW text \in Seq(Lexemes), LocateClassSpan(text) # NoSpan
  PROVE  \E first, last \in 1..Len(text) : LocateClassSpan(text) = <<first, last>>
<1> DEFINE start == First(text, "class", 1)
           open  == First(text, "lbrace", start + 1)
           close == IF start = 0 \/ open = 0 THEN 0 ELSE FindMatchingBrace(text, open)
           semi  == First(text, "semicolon", close)
<1>1. /\ close # 0
      /\ LocateClassSpan(text) = <<start, IF semi # 0 THEN semi ELSE close>>
  BY Zenon DEF LocateClassSpan
<1>2. start # 0 /\ open # 0 /\ close = FindMatchingBrace(text, open)
  BY <1>1
<1>3. start \in 1..Len(text)
  <2> HIDE DEF start
  <2>1. start = 0 \/ start \in 1..Len(text)
    BY Found DEF start
  <2>2. QED
    BY <1>2, <2>1
<1> HIDE DEF start
<1>4. open \in 1..Len(text)
  <2>1. start + 1 \in Nat
    BY <1>3
  <2>2. open \in (start + 1)..Len(text)
    BY <1>2, <2>1, Found
  <2>3. QED
    BY <1>3, <2>2
<1> HIDE DEF open
<1>5. close \in 1..Len(text)
  <2> HIDE DEF close
  <2>1. close \in open..Len(text)
    BY <1>1, <1>2, <1>4, BraceInside
  <2>2. QED
    BY <1>4, <2>1
<1> HIDE DEF close
<1>6. semi = 0 \/ semi \in 1..Len(text)
  <2>1. close \in Nat
    BY <1>5
  <2>2. semi = 0 \/ semi \in close..Len(text)
    BY <2>1, Found
  <2>3. QED
    BY <1>5, <2>2
<1> HIDE DEF semi
<1>7. QED
  BY <1>1, <1>3, <1>5, <1>6

\* Where a text has another as its part, d characters in.
PartAt(text, part, d) ==
  /\ d + Len(part) <= Len(text)
  /\ \A i \in 1..Len(part) : text[d + i] = part[i]

\* The loop sees nothing of the text but what it has gone over.
LEMMA ScanShifted ==
  ASSUME NEW text \in Seq(Lexemes), NEW part \in Seq(Lexemes), NEW d \in Nat,
         PartAt(text, part, d), NEW open \in 1..Len(part)
  PROVE  \A i \in open..Len(part) : Scan(text, d + open)[d + i] = Scan(part, open)[i]
<1> DEFINE long == Scan(text, d + open)
           short == Scan(part, open)
           good == {i \in open..Len(part) : long[d + i] = short[i]}
<1>1. /\ open \in Nat /\ Len(part) \in Nat /\ Len(text) \in Nat
      /\ open <= Len(part) /\ d + open \in 1..Len(text)
  BY DEF PartAt
<1>2. /\ long[d + open] = ScanStart
      /\ \A i \in (d + open)..Len(text) : i # d + open =>
           long[i] = ScanStep(long[i - 1], text[i - 1], text[i])
  BY <1>1, Scanned
<1>3. /\ short[open] = ScanStart
      /\ \A i \in open..Len(part) : i # open =>
           short[i] = ScanStep(short[i - 1], part[i - 1], part[i])
  BY Scanned
<1> HIDE DEF long, short
<1>4. open \in good
  BY <1>1, <1>2, <1>3
<1>5. ASSUME NEW i \in open..Len(part), i \in good, i + 1 <= Len(part)
      PROVE  i + 1 \in good
  <2>1. /\ i + 1 \in open..Len(part) /\ i + 1 # open /\ i + 1 - 1 = i
        /\ i \in 1..Len(part) /\ i + 1 \in 1..Len(part)
    BY <1>1, <1>5
  <2>2. /\ d + (i + 1) \in (d + open)..Len(text) /\ d + (i + 1) # d + open
        /\ d + (i + 1) - 1 = d + i
    <3>1. d + Len(part) <= Len(text)
      BY DEF PartAt
    <3>2. i \in open..Len(part) /\ i + 1 <= Len(part)
      BY <1>5
    <3> HIDE DEF good
    <3>3. QED
      BY <1>1, <3>1, <3>2
  <2>3. text[d + i] = part[i] /\ text[d + (i + 1)] = part[i + 1]
    BY <2>1 DEF PartAt
  <2>4. long[d + (i + 1)] = ScanStep(long[d + i], text[d + i], text[d + (i + 1)])
    BY <1>2, <2>2
  <2>5. short[i + 1] = ScanStep(short[i], part[i], part[i + 1])
    BY <1>3, <2>1
  <2>6. QED
    BY <1>5, <2>1, <2>3, <2>4, <2>5
<1> HIDE DEF good
<1>6. \A i \in open..Len(part) : i \in good
  BY <1>1, <1>4, <1>5, AllPositions
<1>7. QED
  BY <1>6 DEF good, long, short

\* So a brace closed within a part is closed there in the text.
LEMMA BraceShifted ==
  ASSUME NEW text \in Seq(Lexemes), NEW part \in Seq(Lexemes), NEW d \in Nat,
         PartAt(text, part, d), NEW open \in 1..Len(part),
         FindMatchingBrace(part, open) # 0
  PROVE  FindMatchingBrace(text, d + open) = d + FindMatchingBrace(part, open)
<1> DEFINE done == [mode |-> "code", depth |-> 1, skip |-> 0]
           short == {i \in open..Len(part) :
             part[i] = "rbrace" /\ Scan(part, open)[i] = done}
           long == {i \in (d + open)..Len(text) :
             text[i] = "rbrace" /\ Scan(text, d + open)[i] = done}
           f == FindMatchingBrace(part, open)
<1>1. /\ open \in Nat /\ Len(part) \in Nat /\ Len(text) \in Nat /\ d + Len(part) <= Len(text)
      /\ d + open \in 1..Len(text)
  BY DEF PartAt
<1>2. short # {} /\ f = Min(short)
  BY Zenon DEF FindMatchingBrace
<1>3. f \in short /\ \A j \in short : f <= j
  <2>1. short \in SUBSET Nat
    OBVIOUS
  <2> HIDE DEF short, f
  <2>2. QED
    BY <1>2, <2>1, LeastOf
<1> HIDE DEF done, f
<1>4. \A i \in open..Len(part) : d + i \in long <=> i \in short
  <2> SUFFICES ASSUME NEW i \in open..Len(part)
               PROVE  d + i \in long <=> i \in short
    OBVIOUS
  <2>1. text[d + i] = part[i] /\ d + i \in (d + open)..Len(text)
    BY <1>1 DEF PartAt
  <2>2. Scan(text, d + open)[d + i] = Scan(part, open)[i]
    BY ScanShifted
  <2>3. QED
    BY <2>1, <2>2
<1>5. f \in open..Len(part)
  BY <1>3
<1>6. long \in SUBSET ((d + open)..Len(text))
  OBVIOUS
<1> HIDE DEF short
<1>7. FindMatchingBrace(text, d + open) = IF long = {} THEN 0 ELSE Min(long)
  BY Zenon DEF FindMatchingBrace, done
<1> HIDE DEF long
<1>8. d + f \in long
  BY <1>3, <1>4, <1>5
<1>9. Min(long) \in long /\ Min(long) <= d + f
  <2>1. long \in SUBSET Nat
    BY <1>1, <1>6
  <2>2. QED
    BY <1>8, <2>1, LeastOf
<1>10. Min(long) >= d + f
  <2>1. Min(long) \in (d + open)..Len(text)
    BY <1>6, <1>9
  <2>2. Min(long) - d \in open..Len(part) /\ d + (Min(long) - d) = Min(long)
    BY <1>1, <1>5, <1>9, <2>1
  <2>3. Min(long) - d \in short
    BY <1>4, <1>9, <2>2
  <2>4. f <= Min(long) - d
    BY <1>3, <2>3
  <2>5. QED
    BY <1>1, <1>5, <2>1, <2>4
<1>11. Min(long) = d + f
  <2> DEFINE least == Min(long)
  <2>1. least \in (d + open)..Len(text)
    BY <1>6, <1>9
  <2>2. least <= d + f /\ least >= d + f
    BY <1>9, <1>10
  <2> HIDE DEF least
  <2>3. least = d + f
    BY <1>1, <1>5, <2>1, <2>2
  <2>4. QED
    BY <2>3 DEF least
<1>12. QED
  BY <1>7, <1>8, <1>11 DEF f

\* Where a complete class stands in a text, it is what is located.
LEMMA ClassLocated ==
  ASSUME NEW text \in Seq(Lexemes), NEW c \in Seq(Lexemes), NEW d \in Nat,
         Complete(c), PartAt(text, c, d), LocateClassSpan(text) # NoSpan
  PROVE  LocateClassSpan(text) = <<d + 1, d + Len(c)>>
<1> DEFINE start == First(text, "class", 1)
           open  == First(text, "lbrace", start + 1)
           close == IF start = 0 \/ open = 0 THEN 0 ELSE FindMatchingBrace(text, open)
           semi  == First(text, "semicolon", close)
<1>1. /\ close # 0 /\ First(text, "class", start + 1) = 0
      /\ LocateClassSpan(text) = <<start, IF semi # 0 THEN semi ELSE close>>
  BY Zenon DEF LocateClassSpan
<1>2. start # 0 /\ open # 0 /\ close = FindMatchingBrace(text, open)
  BY <1>1
<1>3. /\ Len(c) \in Nat /\ Len(text) \in Nat /\ Len(c) > 3 /\ d + Len(c) <= Len(text)
      /\ c[1] = "class" /\ c[2] = "lbrace" /\ c[Len(c)] = "semicolon"
      /\ MatchingBrace(c, 2) = Len(c) - 1
  BY DEF Complete, PartAt
<1>4. text[d + 1] = "class" /\ text[d + 2] = "lbrace" /\ text[d + Len(c)] = "semicolon"
  <2>1. 1 \in 1..Len(c) /\ 2 \in 1..Len(c) /\ Len(c) \in 1..Len(c)
    BY <1>3
  <2>2. text[d + 1] = c[1] /\ text[d + 2] = c[2] /\ text[d + Len(c)] = c[Len(c)]
    BY <2>1 DEF PartAt
  <2>3. QED
    BY <1>3, <2>2
<1>5. start = d + 1
  <2> DEFINE again == First(text, "class", start + 1)
  <2>1. start \in 1..Len(text) /\ \A i \in 1..Len(text) : text[i] = "class" => start <= i
    <3> HIDE DEF start
    <3>1. \/ start = 0
          \/ start \in 1..Len(text) /\ \A i \in 1..Len(text) : text[i] = "class" => start <= i
      BY Found DEF start
    <3>2. QED
      BY <1>2, <3>1
  <2> HIDE DEF start
  <2>2. start <= d + 1
    <3>1. d + 1 \in 1..Len(text)
      BY <1>3
    <3>2. QED
      BY <1>4, <2>1, <3>1
  <2>3. start + 1 \in Nat /\ again = 0
    BY <1>1, <2>1
  <2>4. \A i \in (start + 1)..Len(text) : text[i] # "class"
    <3>1. ~(0 \in (start + 1)..Len(text))
      BY <2>1
    <3> HIDE DEF again
    <3>2. \/ \A i \in (start + 1)..Len(text) : text[i] # "class"
          \/ again \in (start + 1)..Len(text)
      BY <2>3, Found DEF again
    <3>3. QED
      BY <2>3, <3>1, <3>2
  <2>5. ~(d + 1 \in (start + 1)..Len(text))
    BY <1>4, <2>4
  <2>6. QED
    BY <1>3, <2>1, <2>2, <2>5
<1> HIDE DEF start
<1>6. open = d + 2
  <2>1. start + 1 = d + 2 /\ d + 2 \in (d + 2)..Len(text) /\ d + 2 \in Nat
    BY <1>3, <1>5
  <2> HIDE DEF open
  <2>2. /\ open \in (d + 2)..Len(text)
        /\ \A i \in (d + 2)..Len(text) : text[i] = "lbrace" => open <= i
    BY <1>2, <2>1, Found DEF open
  <2>3. open <= d + 2
    BY <1>4, <2>1, <2>2
  <2>4. QED
    BY <1>3, <2>2, <2>3
<1> HIDE DEF open
<1>7. close = d + (Len(c) - 1)
  <2>1. 2 \in 1..Len(c) /\ Len(c) - 1 # 0
    BY <1>3
  <2>2. FindMatchingBrace(c, 2) = Len(c) - 1
    BY <1>3, <2>1, BraceFound
  <2>3. FindMatchingBrace(text, d + 2) = d + FindMatchingBrace(c, 2)
    BY <2>1, <2>2, BraceShifted
  <2> HIDE DEF close
  <2>4. QED
    BY <1>2, <1>6, <2>2, <2>3
<1> HIDE DEF close
<1>8. semi = d + Len(c)
  <2>1. /\ close \in Nat /\ close..Len(text) = (d + (Len(c) - 1))..Len(text)
        /\ d + Len(c) \in close..Len(text)
    BY <1>3, <1>7
  <2> HIDE DEF semi
  <2>2. /\ semi \in close..Len(text) /\ text[semi] = "semicolon"
        /\ \A i \in close..Len(text) : text[i] = "semicolon" => semi <= i
    <3>1. \/ semi = 0 /\ \A i \in close..Len(text) : text[i] # "semicolon"
          \/ /\ semi \in close..Len(text) /\ text[semi] = "semicolon"
             /\ \A i \in close..Len(text) : text[i] = "semicolon" => semi <= i
      BY <2>1, Found DEF semi
    <3>2. QED
      BY <1>4, <2>1, <3>1
  <2>3. semi <= d + Len(c)
    BY <1>4, <2>1, <2>2
  <2>4. text[close] = "rbrace"
    <3>1. d + 2 \in 1..Len(text)
      BY <1>3
    <3>2. QED
      BY <1>1, <1>2, <1>6, <3>1, BraceInside
  <2>5. semi # close
    BY <2>2, <2>4
  <2>6. semi \in Int /\ semi >= d + (Len(c) - 1)
    BY <1>3, <1>7, <2>1, <2>2
  <2>7. QED
    BY <1>3, <1>7, <2>3, <2>5, <2>6
<1> HIDE DEF semi
<1>9. d + Len(c) # 0
  BY <1>3
<1>10. QED
  BY <1>1, <1>5, <1>8, <1>9

\* The parts of a text put together of two.
LEMMA PartsCut ==
  ASSUME NEW s \in Seq(Lexemes), NEW t \in Seq(Lexemes)
  PROVE  /\ s \o t \in Seq(Lexemes) /\ Len(s) \in Nat /\ Len(t) \in Nat
         /\ Cut(s \o t, 1, Len(s)) = s
         /\ Cut(s \o t, Len(s) + 1, Len(s) + Len(t)) = t
         /\ Len(s \o t) = Len(s) + Len(t)
         /\ \A i \in 1..Len(s) : (s \o t)[i] = s[i]
         /\ \A i \in 1..Len(t) : (s \o t)[Len(s) + i] = t[i]
BY DEF Cut

\* A part is what is cut out there.
LEMMA PartIsCut ==
  ASSUME NEW text \in Seq(Lexemes), NEW part \in Seq(Lexemes), NEW d \in Nat,
         PartAt(text, part, d)
  PROVE  Cut(text, d + 1, d + Len(part)) = part
<1> DEFINE n == Len(part)
           cut == Cut(text, d + 1, d + n)
<1>1. n \in Nat /\ d + n <= Len(text) /\ \A i \in 1..n : text[d + i] = part[i] /\ part[i] \in Lexemes
  BY DEF PartAt
<1>2. \A i \in (d + 1)..(d + n) : text[i] \in Lexemes
  BY <1>1
<1>3. (d + n) - (d + 1) + 1 = n /\ d + 1 \in Int /\ d + n \in Int /\ (d + 1 <= d + n <=> n # 0)
  BY <1>1
<1>4. /\ cut \in Seq(Lexemes) /\ Len(cut) = n
      /\ \A i \in 1..n : cut[i] = text[d + 1 + i - 1]
  BY <1>1, <1>2, <1>3, SubSeqProperties DEF Cut
<1>5. \A i \in 1..n : cut[i] = part[i]
  <2>1. \A i \in 1..n : d + 1 + i - 1 = d + i
    BY <1>1
  <2>2. QED
    BY <1>1, <1>4, <2>1
<1>6. QED
  BY <1>4, <1>5, SeqEqual

\* A text of two.
LEMMA PairAppended ==
  ASSUME NEW x \in Lexemes, NEW y \in Lexemes
  PROVE  Append(<<x>>, y) = <<x, y>>
<1> DEFINE s == Append(<<x>>, y)
           t == <<x, y>>
<1>1. <<x>> \in Seq(Lexemes) /\ Len(<<x>>) = 1 /\ <<x>>[1] = x
  OBVIOUS
<1>2. s \in Seq(Lexemes) /\ Len(s) = 2 /\ s[1] = x /\ s[2] = y
  BY <1>1
<1>3. t \in Seq(Lexemes) /\ Len(t) = 2 /\ t[1] = x /\ t[2] = y
  OBVIOUS
<1> HIDE DEF s, t
<1>4. \A i \in 1..Len(s) : i = 1 \/ i = 2
  BY <1>2
<1>5. \A i \in 1..Len(s) : s[i] = t[i]
  BY <1>2, <1>3, <1>4
<1>6. s = t
  BY <1>2, <1>3, <1>5, SeqEqual
<1>7. QED
  BY <1>6 DEF s, t

\* Three parts, one way or the other.
LEMMA Joined ==
  ASSUME NEW s \in Seq(Lexemes), NEW t \in Seq(Lexemes), NEW u \in Seq(Lexemes)
  PROVE  (s \o t) \o u = s \o (t \o u)
BY ConcatAssociative

\* What is appended to the second part is appended to both.
LEMMA Appended ==
  ASSUME NEW s \in Seq(Lexemes), NEW t \in Seq(Lexemes), NEW e \in Lexemes
  PROVE  Append(s \o t, e) = s \o Append(t, e)
<1>1. s \o t \in Seq(Lexemes) /\ <<e>> \in Seq(Lexemes)
  OBVIOUS
<1>2. Append(s \o t, e) = (s \o t) \o <<e>>
  BY <1>1
<1>3. Append(t, e) = t \o <<e>>
  OBVIOUS
<1>4. (s \o t) \o <<e>> = s \o (t \o <<e>>)
  BY <1>1, Joined
<1>5. QED
  BY <1>2, <1>3, <1>4

\* What is put in the place of a class that is there leaves the rest alone.
LEMMA ClassSpliced ==
  ASSUME NEW b \in Seq(Lexemes), NEW c \in Seq(Lexemes), NEW a \in Seq(Lexemes),
         NEW g \in Seq(Lexemes),
         Complete(c), LocateClassSpan(b \o c \o a) # NoSpan
  PROVE  Splice(b \o c \o a, LocateClassSpan(b \o c \o a), g) = b \o g \o a
<1> DEFINE text == b \o c \o a
<1>1. /\ Len(b) \in Nat /\ Len(c) \in Nat /\ Len(a) \in Nat
      /\ b \o c \in Seq(Lexemes) /\ c \o a \in Seq(Lexemes) /\ text \in Seq(Lexemes)
  OBVIOUS
<1>2. text = b \o (c \o a)
  OBVIOUS
<1>3. /\ Len(b \o c) = Len(b) + Len(c)
      /\ Len(text) = Len(b) + Len(c) + Len(a)
  BY <1>1
<1>4. PartAt(text, c, Len(b))
  BY <1>1, <1>3 DEF PartAt
<1>5. LocateClassSpan(text) = <<Len(b) + 1, Len(b) + Len(c)>>
  BY <1>1, <1>4, ClassLocated
<1>6. Cut(text, 1, Len(b)) = b
  <2>1. Cut(b \o (c \o a), 1, Len(b)) = b
    BY <1>1, PartsCut
  <2>2. QED
    BY <1>2, <2>1
<1>7. Cut(text, Len(b) + Len(c) + 1, Len(text)) = a
  <2>1. Cut((b \o c) \o a, Len(b \o c) + 1, Len(b \o c) + Len(a)) = a
    BY <1>1, PartsCut
  <2>2. QED
    BY <1>3, <2>1
<1> HIDE DEF text
<1> DEFINE span == LocateClassSpan(text)
<1>8. span[1] - 1 = Len(b) /\ span[2] + 1 = Len(b) + Len(c) + 1
  <2> HIDE DEF span
  <2>1. span = <<Len(b) + 1, Len(b) + Len(c)>>
    BY <1>5 DEF span
  <2>2. span[1] = Len(b) + 1 /\ span[2] = Len(b) + Len(c)
    BY <2>1
  <2>3. QED
    BY <1>1, <2>2
<1> HIDE DEF span
<1>9. Splice(text, span, g) = b \o g \o a
  BY <1>6, <1>7, <1>8, Zenon DEF Splice
<1>10. QED
  BY <1>9 DEF span, text

-----------------------------------------------------------------------------
\* The scaffold of a class.

\* The states of the loop of strip_inline_callable_bodies.
StripState == [output : Seq(Lexemes \cup {"unclosed"}), index : Nat]

\* A turn goes from state to state.
LEMMA StripStepType ==
  ASSUME NEW text \in Seq(Lexemes), NEW i \in 1..Len(text), NEW s \in StripState
  PROVE  StripStep(text, i, s) \in StripState
<1> DEFINE close == FindMatchingBrace(text, i)
<1>1. s.output \in Seq(Lexemes \cup {"unclosed"}) /\ s.index \in Nat
  BY DEF StripState
<1>2. text[i] \in Lexemes /\ Len(text) + 1 \in Nat /\ i + 1 \in Nat
  OBVIOUS
<1>3. close # 0 => close + 1 \in Nat
  <2> HIDE DEF close
  <2>1. close # 0 => close \in i..Len(text)
    BY BraceInside DEF close
  <2>2. QED
    BY <2>1
<1> HIDE DEF close
<1>4. CASE s.index > i
  BY <1>4 DEF StripStep
<1>5. CASE ~(s.index > i) /\ (text[i] # "lbrace" \/ ~IsBody(text, i))
  <2>1. StripStep(text, i, s) = [output |-> Append(s.output, text[i]), index |-> i + 1]
    BY <1>5 DEF StripStep
  <2>2. Append(s.output, text[i]) \in Seq(Lexemes \cup {"unclosed"})
    BY <1>1, <1>2
  <2>3. QED
    BY <1>2, <2>1, <2>2 DEF StripState
<1>6. CASE ~(s.index > i) /\ ~(text[i] # "lbrace" \/ ~IsBody(text, i))
  <2>1. StripStep(text, i, s) =
          IF close = 0 THEN [output |-> Unclosed, index |-> Len(text) + 1]
          ELSE [output |-> Append(s.output, "semicolon"), index |-> close + 1]
    BY <1>6, Zenon DEF StripStep, close
  <2>2. Unclosed \in Seq(Lexemes \cup {"unclosed"})
    BY DEF Unclosed
  <2>3. Append(s.output, "semicolon") \in Seq(Lexemes \cup {"unclosed"})
    BY <1>1 DEF Lexemes
  <2>4. QED
    BY <1>2, <1>3, <2>1, <2>2, <2>3 DEF StripState
<1>7. QED
  BY <1>4, <1>5, <1>6

\* The loop is what its recursion says.
LEMMA Stripped ==
  ASSUME NEW text \in Seq(Lexemes)
  PROVE  /\ Strip(text)[0] = StripStart
         /\ \A i \in 1..Len(text) : Strip(text)[i] = StripStep(text, i, Strip(text)[i - 1])
<1> DEFINE b == Len(text)
           E(f) == f = [i \in 0..b |->
             IF i = 0 THEN StripStart ELSE StripStep(text, i, f[i - 1])]
           next == [z \in (0..b) \X StripState |->
             IF z[1] = 0 THEN StripStart ELSE StripStep(text, z[1], z[2])]
<1>1. b \in Nat /\ 0 \in Nat
  OBVIOUS
<1>2. StripStart \in StripState
  BY DEF StripStart, StripState
<1>3. next \in [(0..b) \X StripState -> StripState]
  <2>1. ASSUME NEW z \in (0..b) \X StripState
        PROVE  (IF z[1] = 0 THEN StripStart ELSE StripStep(text, z[1], z[2])) \in StripState
    <3>1. z[2] \in StripState /\ (z[1] # 0 => z[1] \in 1..Len(text))
      OBVIOUS
    <3>2. QED
      BY <1>2, <3>1, StripStepType
  <2>2. QED
    BY <2>1
<1>4. PICK f \in [0..b -> StripState] :
        \A i \in 0..b : f[i] = IF i = 0 THEN StripStart ELSE next[<<i, f[i - 1]>>]
  <2> HIDE DEF next, b
  <2>1. Stepwise(0, b, StripState, StripStart, next) # {}
    BY <1>1, <1>2, <1>3, StepByStep
  <2>2. QED
    BY <2>1 DEF Stepwise
<1>5. ASSUME NEW i \in 0..b, i # 0
      PROVE  f[i] = StripStep(text, i, f[i - 1])
  <2>1. i - 1 \in 0..b /\ f[i - 1] \in StripState
    BY <1>1, <1>5
  <2>2. next[<<i, f[i - 1]>>] = StripStep(text, i, f[i - 1])
    BY <1>5, <2>1
  <2>3. QED
    BY <1>4, <1>5, <2>2
<1>6. E(f)
  <2> HIDE DEF next
  <2>1. \A i \in 0..b : f[i] = IF i = 0 THEN StripStart ELSE StripStep(text, i, f[i - 1])
    BY <1>4, <1>5
  <2>2. QED
    BY <2>1
<1>7. Strip(text) = CHOOSE g : E(g)
  BY Zenon DEF Strip
<1> DEFINE s == Strip(text)
<1> HIDE DEF E
<1>8. E(s)
  BY <1>6, <1>7, Zenon
<1> HIDE DEF s
<1>9. s = [i \in 0..b |-> IF i = 0 THEN StripStart ELSE StripStep(text, i, s[i - 1])]
  BY <1>8, Zenon DEF E
<1>10. s[0] = StripStart
  BY <1>1, <1>9
<1>11. \A i \in 1..b : s[i] = StripStep(text, i, s[i - 1])
  BY <1>1, <1>9
<1>12. QED
  BY <1>10, <1>11 DEF s

\* The loop has done with the first i and copied or left out all of them.
DoneWith(text, i, output) == Strip(text)[i] = [output |-> output, index |-> i + 1]

\* What has no brace is copied.
LEMMA Copied ==
  ASSUME NEW text \in Seq(Lexemes), NEW part \in Seq(Lexemes), NEW d \in Nat,
         NEW output \in Seq(Lexemes),
         PartAt(text, part, d), DoneWith(text, d, output),
         \A i \in 1..Len(part) : part[i] # "lbrace"
  PROVE  DoneWith(text, d + Len(part), output \o part)
<1> DEFINE good == {k \in 0..Len(part) : DoneWith(text, d + k, output \o SubSeq(part, 1, k))}
<1>1. Len(part) \in Nat /\ Len(text) \in Nat /\ d + Len(part) <= Len(text)
  BY DEF PartAt
<1>2. 0 \in good
  <2>1. output \o SubSeq(part, 1, 0) = output
    OBVIOUS
  <2>2. d + 0 = d /\ 0 \in 0..Len(part)
    BY <1>1
  <2>3. DoneWith(text, d + 0, output \o SubSeq(part, 1, 0))
    BY <2>1, <2>2
  <2>4. QED
    BY <2>2, <2>3
<1>3. ASSUME NEW k \in 0..Len(part), k \in good, k + 1 <= Len(part)
      PROVE  k + 1 \in good
  <2> DEFINE o == output \o SubSeq(part, 1, k)
             i == d + (k + 1)
  <2>1. DoneWith(text, d + k, o) /\ k + 1 \in 1..Len(part)
    BY <1>1, <1>3
  <2>2. i \in 1..Len(text) /\ i - 1 = d + k /\ d + k + 1 = i /\ ~(i > i) /\ i \in Nat
    <3> HIDE DEF good
    <3>1. QED
      BY <1>1, <1>3
  <2>3. text[i] = part[k + 1] /\ text[i] # "lbrace"
    BY <2>1 DEF PartAt
  <2>4. Append(o, part[k + 1]) = output \o SubSeq(part, 1, k + 1)
    <3> DEFINE p == SubSeq(part, 1, k)
    <3>1. p \in Seq(Lexemes) /\ part[k + 1] \in Lexemes
      BY <2>1
    <3>2. SubSeq(part, 1, k + 1) = Append(p, part[k + 1])
      BY <2>1
    <3> HIDE DEF p
    <3>3. Append(output \o p, part[k + 1]) = output \o Append(p, part[k + 1])
      BY <3>1, Appended
    <3>4. QED
      BY <3>2, <3>3 DEF p
  <2> HIDE DEF o, i
  <2>5. Strip(text)[i - 1] = [output |-> o, index |-> i]
    BY <2>1, <2>2 DEF DoneWith
  <2>6. Strip(text)[i] = StripStep(text, i, Strip(text)[i - 1])
    BY <2>2, Stripped
  <2>7. Strip(text)[i] = [output |-> Append(o, text[i]), index |-> i + 1]
    BY <2>2, <2>3, <2>5, <2>6 DEF StripStep
  <2>8. DoneWith(text, i, output \o SubSeq(part, 1, k + 1))
    BY <2>3, <2>4, <2>7 DEF DoneWith
  <2>9. QED
    BY <1>1, <1>3, <2>1, <2>8 DEF i
<1> HIDE DEF good
<1>4. \A k \in 0..Len(part) : k \in good
  BY <1>1, <1>2, <1>3, AllPositions
<1>5. DoneWith(text, d + Len(part), output \o SubSeq(part, 1, Len(part)))
  BY <1>1, <1>4 DEF good
<1>6. SubSeq(part, 1, Len(part)) = part
  OBVIOUS
<1>7. QED
  BY <1>5, <1>6

\* A body is left out.
LEMMA BodySkipped ==
  ASSUME NEW text \in Seq(Lexemes), NEW i \in 1..Len(text), NEW output \in Seq(Lexemes),
         DoneWith(text, i - 1, output), text[i] = "lbrace", IsBody(text, i),
         NEW close, close = FindMatchingBrace(text, i), close # 0
  PROVE  DoneWith(text, close, Append(output, "semicolon"))
<1> DEFINE done == [output |-> Append(output, "semicolon"), index |-> close + 1]
           good == {j \in i..close : Strip(text)[j] = done}
<1>1. i \in Nat /\ close \in i..Len(text) /\ close \in Nat /\ i <= close
  BY BraceInside
<1>2. i \in good
  <2>1. Strip(text)[i - 1] = [output |-> output, index |-> i]
    BY <1>1 DEF DoneWith
  <2>2. Strip(text)[i] = StripStep(text, i, Strip(text)[i - 1])
    BY Stripped
  <2>3. Strip(text)[i] = done
    BY <1>1, <2>1, <2>2 DEF StripStep
  <2>4. QED
    BY <1>1, <2>3
<1>3. ASSUME NEW j \in i..close, j \in good, j + 1 <= close
      PROVE  j + 1 \in good
  <2>1. /\ j + 1 \in 1..Len(text) /\ j + 1 \in i..close /\ j + 1 - 1 = j /\ close + 1 > j + 1
    <3> HIDE DEF good
    <3>1. QED
      BY <1>1, <1>3
  <2>2. Strip(text)[j] = done
    BY <1>3
  <2>3. Strip(text)[j + 1] = StripStep(text, j + 1, Strip(text)[j])
    BY <2>1, Stripped
  <2>4. Strip(text)[j + 1] = done
    BY <2>1, <2>2, <2>3 DEF StripStep
  <2>5. QED
    BY <2>1, <2>4
<1> HIDE DEF good
<1>4. \A j \in i..close : j \in good
  BY <1>1, <1>2, <1>3, AllPositions
<1>5. close \in i..close
  BY <1>1
<1>6. Strip(text)[close] = done
  BY <1>4, <1>5 DEF good
<1>7. QED
  BY <1>6 DEF DoneWith

\* A part of a part is a part.
LEMMA PartOfPart ==
  ASSUME NEW s \in Seq(Lexemes), NEW t \in Seq(Lexemes), NEW u \in Seq(Lexemes),
         NEW p \in Seq(Lexemes), NEW d \in Nat, PartAt(t, p, d)
  PROVE  PartAt(s \o t \o u, p, Len(s) + d)
<1> DEFINE whole == s \o t \o u
<1>1. Len(s) \in Nat /\ Len(t) \in Nat /\ Len(u) \in Nat /\ Len(p) \in Nat
  OBVIOUS
<1>2. d + Len(p) <= Len(t) /\ \A i \in 1..Len(p) : t[d + i] = p[i]
  BY DEF PartAt
<1>3. Len(whole) = Len(s) + Len(t) + Len(u)
  BY <1>1
<1>4. ASSUME NEW i \in 1..Len(p)
      PROVE  whole[Len(s) + d + i] = p[i]
  <2>1. d + i \in 1..Len(t) /\ Len(s) + d + i = Len(s) + (d + i)
    BY <1>1, <1>2
  <2>2. s \o t \in Seq(Lexemes) /\ Len(s \o t) = Len(s) + Len(t)
    OBVIOUS
  <2>3. (s \o t)[Len(s) + (d + i)] = t[d + i]
    BY <2>1, PartsCut
  <2>4. Len(s) + (d + i) \in 1..Len(s \o t)
    BY <1>1, <2>1, <2>2
  <2>5. whole[Len(s) + (d + i)] = (s \o t)[Len(s) + (d + i)]
    BY <2>2, <2>4, PartsCut
  <2>6. QED
    BY <1>2, <2>1, <2>3, <2>5
<1> HIDE DEF whole
<1>5. Len(s) + d + Len(p) <= Len(whole)
  BY <1>1, <1>2, <1>3
<1>6. QED
  BY <1>4, <1>5 DEF PartAt, whole

\* FlattenSeq puts the texts together one by one, and each is a part then.
Grows(f, texts) ==
  /\ f \in [0..Len(texts) -> Seq(Lexemes)] /\ f[0] = <<>>
  /\ \A k \in 1..Len(texts) : f[k] = f[k - 1] \o texts[k]

LEMMA Flattened ==
  ASSUME NEW texts \in Seq(Seq(Lexemes))
  PROVE  \E f : Grows(f, texts) /\ FlattenSeq(texts) = f[Len(texts)]
<1> DEFINE n == Len(texts)
           next == [z \in (0..n) \X Seq(Lexemes) |->
             IF z[1] = 0 THEN <<>> ELSE z[2] \o texts[z[1]]]
<1>1. n \in Nat /\ 0 \in Nat /\ <<>> \in Seq(Lexemes)
  OBVIOUS
<1>2. next \in [(0..n) \X Seq(Lexemes) -> Seq(Lexemes)]
  <2>1. ASSUME NEW z \in (0..n) \X Seq(Lexemes)
        PROVE  (IF z[1] = 0 THEN <<>> ELSE z[2] \o texts[z[1]]) \in Seq(Lexemes)
    <3>1. CASE z[1] = 0
      BY <1>1, <3>1
    <3>2. CASE z[1] # 0
      <4>1. texts[z[1]] \in Seq(Lexemes) /\ z[2] \in Seq(Lexemes)
        BY <3>2
      <4>2. QED
        BY <3>2, <4>1
    <3>3. QED
      BY <3>1, <3>2
  <2>2. QED
    BY <2>1
<1>3. PICK f \in [0..n -> Seq(Lexemes)] :
        \A i \in 0..n : f[i] = IF i = 0 THEN <<>> ELSE next[<<i, f[i - 1]>>]
  <2> HIDE DEF next, n
  <2>1. Stepwise(0, n, Seq(Lexemes), <<>>, next) # {}
    BY <1>1, <1>2, StepByStep
  <2>2. QED
    BY <2>1 DEF Stepwise
<1>4. f[0] = <<>>
  <2> HIDE DEF next, n
  <2>1. 0 \in 0..n
    BY <1>1
  <2>2. QED
    BY <1>3, <2>1
<1>5. ASSUME NEW k \in 1..n
      PROVE  f[k] = f[k - 1] \o texts[k]
  <2>1. k - 1 \in 0..n /\ k \in 0..n /\ k # 0
    <3> HIDE DEF next, n
    <3>1. QED
      BY <1>1
  <2>2. f[k - 1] \in Seq(Lexemes)
    <3> HIDE DEF next, n
    <3>1. QED
      BY <1>3, <2>1
  <2> DEFINE s == f[k - 1]
  <2>3. next[<<k, s>>] = s \o texts[k]
    <3> HIDE DEF s
    <3>1. <<k, s>> \in (0..n) \X Seq(Lexemes)
      BY <2>1, <2>2 DEF s
    <3>2. QED
      BY <2>1, <3>1
  <2> HIDE DEF s, next
  <2>4. f[k] = next[<<k, s>>]
    BY <1>3, <2>1 DEF s
  <2>5. QED
    BY <2>3, <2>4 DEF s
<1>6. Grows(f, texts)
  BY <1>4, <1>5 DEF Grows
<1>7. CASE n = 0
  <2>1. texts = <<>>
    BY <1>7
  <2>2. FlattenSeq(texts) = texts
    BY <1>7 DEF FlattenSeq
  <2>3. QED
    BY <1>4, <1>6, <1>7, <2>1, <2>2
<1>8. CASE n # 0
  <2> DEFINE E(g) == g = [i \in 1..n |-> IF i = 1 THEN texts[i] ELSE g[i - 1] \o texts[i]]
             g == CHOOSE g : E(g)
             h == [i \in 1..n |-> f[i]]
  <2>1. FlattenSeq(texts) = g[n]
    BY <1>8, Zenon DEF FlattenSeq
  <2>2. ASSUME NEW i \in 1..n
        PROVE  h[i] = IF i = 1 THEN texts[i] ELSE h[i - 1] \o texts[i]
    <3>1. CASE i = 1
      <4>1. 1 - 1 = 0 /\ 1 \in 1..n
        BY <3>1
      <4>2. f[1] = f[1 - 1] \o texts[1]
        BY <1>5, <4>1
      <4>3. texts[1] \in Seq(Lexemes)
        BY <4>1
      <4>4. <<>> \o texts[1] = texts[1]
        BY <4>3, ConcatEmptySeq
      <4>5. h[1] = texts[1]
        BY <1>4, <4>1, <4>2, <4>4
      <4>6. QED
        BY <3>1, <4>5
    <3>2. CASE i # 1
      <4>1. i - 1 \in 1..n
        BY <3>2
      <4>2. QED
        BY <1>5, <3>2, <4>1
    <3>3. QED
      BY <3>1, <3>2
  <2>3. E(h)
    BY <2>2
  <2> HIDE DEF E
  <2>4. E(g)
    BY <2>3, Zenon
  <2> HIDE DEF g
  <2>5. /\ DOMAIN g = 1..n
        /\ \A i \in 1..n : g[i] = IF i = 1 THEN texts[i] ELSE g[i - 1] \o texts[i]
    <3>1. g = [i \in 1..n |-> IF i = 1 THEN texts[i] ELSE g[i - 1] \o texts[i]]
      BY <2>4, Zenon DEF E
    <3>2. QED
      BY <3>1
  <2> DEFINE good == {i \in 1..n : g[i] = h[i]}
  <2> HIDE DEF h, n
  <2>6. 1 \in good
    <3>1. 1 \in 1..n
      BY <1>1, <1>8
    <3>2. g[1] = texts[1]
      BY <2>5, <3>1
    <3>3. h[1] = texts[1]
      BY <2>2, <3>1
    <3>4. QED
      BY <3>1, <3>2, <3>3
  <2>7. ASSUME NEW i \in 1..n, i \in good, i + 1 <= n
        PROVE  i + 1 \in good
    <3> DEFINE j == i + 1
    <3>1. j \in 1..n /\ j # 1 /\ j - 1 = i
      <4> HIDE DEF good
      <4>1. QED
        BY <1>1, <2>7
    <3> HIDE DEF j
    <3>2. g[j] = g[j - 1] \o texts[j]
      BY <2>5, <3>1
    <3>3. h[j] = h[j - 1] \o texts[j]
      BY <2>2, <3>1
    <3>4. j \in good
      BY <2>7, <3>1, <3>2, <3>3
    <3>5. QED
      BY <3>4 DEF j
  <2> HIDE DEF good
  <2>8. \A i \in 1..n : i \in good
    BY <1>1, <2>6, <2>7, AllPositions
  <2>9. n \in 1..n
    BY <1>1, <1>8
  <2>10. g[n] = f[n]
    BY <2>8, <2>9 DEF good, h
  <2>11. FlattenSeq(texts) = f[n]
    BY <2>1, <2>10 DEF g, n
  <2>12. QED
    BY <1>6, <2>11 DEF n
<1>9. QED
  BY <1>7, <1>8

LEMMA PartsGrow ==
  ASSUME NEW texts \in Seq(Seq(Lexemes)), NEW f, Grows(f, texts)
  PROVE  \A k \in 1..Len(texts) : PartAt(f[Len(texts)], texts[k], Len(f[k - 1]))
<1> DEFINE n == Len(texts)
           good == {m \in 0..n : \A k \in 1..m : PartAt(f[m], texts[k], Len(f[k - 1]))}
<1>1. n \in Nat
  OBVIOUS
<1>2. 0 \in good
  BY <1>1
<1>3. ASSUME NEW m \in 0..n, m \in good, m + 1 <= n
      PROVE  m + 1 \in good
  <2> DEFINE s == f[m]
             t == texts[m + 1]
  <2>1. m + 1 \in 1..n /\ m + 1 - 1 = m
    BY <1>1, <1>3
  <2>2. f[m + 1] = s \o t /\ s \in Seq(Lexemes) /\ t \in Seq(Lexemes)
    <3>1. \A k \in 1..n : f[k] = f[k - 1] \o texts[k]
      BY DEF Grows
    <3> DEFINE k == m + 1
    <3>2. f[k] = f[m] \o texts[k]
      <4>1. k \in 1..n /\ k - 1 = m
        BY <2>1
      <4> HIDE DEF k
      <4>2. f[k] = f[k - 1] \o texts[k]
        BY <3>1, <4>1
      <4>3. QED
        BY <4>1, <4>2
    <3>3. m \in 0..n
      OBVIOUS
    <3>4. f[m] \in Seq(Lexemes)
      <4> DEFINE X == Seq(Lexemes)
      <4>1. f \in [0..n -> X]
        BY DEF Grows
      <4> HIDE DEF X, n
      <4>2. f[m] \in X
        BY <3>3, <4>1
      <4>3. QED
        BY <4>2 DEF X
    <3>5. texts[m + 1] \in Seq(Lexemes)
      BY <2>1
    <3>6. QED
      BY <3>2, <3>4, <3>5
  <2> HIDE DEF s, t
  <2>3. ASSUME NEW k \in 1..(m + 1)
        PROVE  PartAt(s \o t, texts[k], Len(f[k - 1]))
    <3> DEFINE d == Len(f[k - 1])
    <3>1. k \in 1..n /\ k - 1 \in 0..n
      BY <2>1
    <3>2. d \in Nat /\ texts[k] \in Seq(Lexemes)
      BY <3>1 DEF Grows
    <3>3. CASE k = m + 1
      <4>1. texts[k] = t /\ d = Len(s)
        BY <2>1, <3>3 DEF s, t
      <4>2. QED
        BY <2>2, <4>1 DEF PartAt
    <3>4. CASE k # m + 1
      <4>1. k \in 1..m
        BY <2>1, <3>4
      <4>2. PartAt(s, texts[k], d)
        BY <1>3, <4>1 DEF s
      <4> HIDE DEF d
      <4>3. PartAt(<<>> \o s \o t, texts[k], Len(<<>>) + d)
        <5>1. <<>> \in Seq(Lexemes)
          OBVIOUS
        <5>2. QED
          BY <2>2, <3>2, <4>2, <5>1, PartOfPart
      <4>4. <<>> \o s \o t = s \o t /\ Len(<<>>) + d = d
        BY <2>2, <3>2
      <4>5. QED
        BY <4>3, <4>4 DEF d
    <3>5. QED
      BY <3>3, <3>4
  <2>4. \A k \in 1..(m + 1) : PartAt(f[m + 1], texts[k], Len(f[k - 1]))
    BY <2>2, <2>3
  <2>5. m + 1 \in 0..n
    BY <1>1, <2>1
  <2>6. QED
    BY <2>4, <2>5
<1> HIDE DEF good
<1>4. \A m \in 0..n : m \in good
  BY <1>1, <1>2, <1>3, AllPositions
<1>5. n \in good
  BY <1>1, <1>4
<1>6. QED
  BY <1>5 DEF good

\* The qualifiers of plain headers.
LEMMA QualifiersInOrder ==
  ASSUME NEW q \in {<<>>, <<"const">>, <<"noexcept">>, <<"const", "noexcept">>,
                    <<"const", "override">>}
  PROVE  /\ \A j \in 1..Len(q) : q[j] \in DOMAIN Qualifiers /\ q[j] # "if"
         /\ \A j, l \in 1..Len(q) : j < l => Qualifiers[q[j]] < Qualifiers[q[l]]
<1>1. /\ DOMAIN Qualifiers = {"const", "noexcept", "override", "final"}
      /\ Qualifiers["const"] = 1 /\ Qualifiers["noexcept"] = 2 /\ Qualifiers["override"] = 3
  BY DEF Qualifiers
<1>2. ASSUME NEW a \in {"const", "noexcept"}, q = <<a>>
      PROVE  /\ \A j \in 1..Len(q) : q[j] \in DOMAIN Qualifiers /\ q[j] # "if"
             /\ \A j, l \in 1..Len(q) : j < l => Qualifiers[q[j]] < Qualifiers[q[l]]
  <2>1. Len(q) = 1 /\ q[1] = a
    BY <1>2
  <2>2. \A j \in 1..Len(q) : j = 1
    BY <2>1
  <2>3. \A j, l \in 1..Len(q) : ~(j < l)
    BY <2>2
  <2>4. QED
    BY <1>1, <2>1, <2>2, <2>3
<1>3. ASSUME NEW b \in {"noexcept", "override"}, q = <<"const", b>>
      PROVE  /\ \A j \in 1..Len(q) : q[j] \in DOMAIN Qualifiers /\ q[j] # "if"
             /\ \A j, l \in 1..Len(q) : j < l => Qualifiers[q[j]] < Qualifiers[q[l]]
  <2>1. Len(q) = 2 /\ q[1] = "const" /\ q[2] = b
    BY <1>3
  <2>2. \A j \in 1..Len(q) : j = 1 \/ j = 2
    BY <2>1
  <2>3. \A j, l \in 1..Len(q) : j < l => j = 1 /\ l = 2
    BY <2>2
  <2>4. Qualifiers["const"] < Qualifiers[b]
    BY <1>1
  <2>5. QED
    BY <1>1, <2>1, <2>2, <2>3, <2>4
<1>4. CASE q = <<>>
  <2>1. \A j \in 1..Len(q) : FALSE
    BY <1>4
  <2>2. QED
    BY <2>1
<1>5. QED
  BY <1>2, <1>3, <1>4

\* The brace behind a plain header starts a body.
LEMMA HeaderRead ==
  ASSUME NEW text \in Seq(Lexemes), NEW h \in Seq(Lexemes), NEW d \in Nat,
         PartAt(text, h, d), NEW k \in DOMAIN h, h[k] = "sig",
         Cut(h, k + 1, Len(h)) \in {<<>>, <<"const">>, <<"noexcept">>,
           <<"const", "noexcept">>, <<"const", "override">>}
  PROVE  IsBody(text, d + Len(h) + 1)
<1> DEFINE q == Cut(h, k + 1, Len(h))
           i == d + Len(h) + 1
<1>1. k \in 1..Len(h) /\ Len(h) \in Nat /\ k \in Nat /\ k <= Len(h)
  OBVIOUS
<1>2. Len(q) = Len(h) - k /\ \A j \in 1..Len(q) : q[j] = h[k + j]
  <2> DEFINE n == Len(h)
  <2>1. k + 1 \in 1..(n + 1) /\ n \in 0..Len(h)
    BY <1>1
  <2>2. /\ Len(q) = n - (k + 1) + 1
        /\ \A j \in 1..(n - (k + 1) + 1) : q[j] = h[(k + 1) + j - 1]
    BY <2>1 DEF Cut
  <2> HIDE DEF q
  <2>3. Len(q) = n - k /\ \A j \in 1..(n - k) : (k + 1) + j - 1 = k + j
    BY <1>1, <2>2
  <2>4. QED
    BY <1>1, <2>2, <2>3
<1>3. /\ \A j \in 1..Len(q) : q[j] \in DOMAIN Qualifiers /\ q[j] # "if"
      /\ \A j, l \in 1..Len(q) : j < l => Qualifiers[q[j]] < Qualifiers[q[l]]
  <2> HIDE DEF q
  <2>1. q \in {<<>>, <<"const">>, <<"noexcept">>, <<"const", "noexcept">>,
               <<"const", "override">>}
    BY DEF q
  <2>2. QED
    BY <2>1, QualifiersInOrder
<1> HIDE DEF q
<1>4. text[d + k] = "sig" /\ d + k \in 1..(i - 1)
  <2>1. text[d + k] = h[k]
    BY <1>1 DEF PartAt
  <2>2. QED
    BY <1>1, <2>1
<1>5. ASSUME NEW j \in (d + k + 1)..(i - 1)
      PROVE  j - (d + k) \in 1..Len(q) /\ text[j] = q[j - (d + k)]
  <2>1. j - (d + k) \in 1..Len(q) /\ j - d \in 1..Len(h)
    <3> DEFINE n == Len(h)
    <3>1. j \in (d + k + 1)..(d + n) /\ n \in Nat /\ k \in Nat /\ k <= n
      BY <1>1
    <3> HIDE DEF n
    <3>2. j - (d + k) \in 1..(n - k) /\ j - d \in 1..n
      <4>1. j >= d + k + 1 /\ j <= d + n /\ j \in Nat
        BY <3>1
      <4>2. \A x, y, l \in Nat :
              y >= d + l + 1 /\ y <= d + x => y - (d + l) \in 1..(x - l) /\ y - d \in 1..x
        OBVIOUS
      <4>3. QED
        BY <3>1, <4>1, <4>2
    <3>3. QED
      BY <1>2, <3>2 DEF n
  <2>2. k + (j - (d + k)) = j - d /\ d + (j - d) = j
    BY <1>1
  <2>3. q[j - (d + k)] = h[j - d]
    BY <1>2, <2>1, <2>2
  <2>4. text[d + (j - d)] = h[j - d]
    BY <2>1 DEF PartAt
  <2>5. QED
    BY <2>1, <2>2, <2>3, <2>4
<1>6. \A j \in (d + k + 1)..(i - 1) : text[j] \in DOMAIN Qualifiers /\ text[j] # "if"
  BY <1>3, <1>5
<1>7. ASSUME NEW j \in (d + k + 1)..(i - 1), NEW l \in (d + k + 1)..(i - 1), j < l
      PROVE  Qualifiers[text[j]] < Qualifiers[text[l]]
  <2>1. j - (d + k) < l - (d + k)
    BY <1>1, <1>7
  <2>2. QED
    BY <1>3, <1>5, <2>1
<1>8. text[i - 1] # "if"
  <2>1. i - 1 = d + k \/ i - 1 \in (d + k + 1)..(i - 1)
    <3>1. \A n, l \in Nat :
            l <= n => (d + n + 1) - 1 = d + l \/ (d + n + 1) - 1 \in (d + l + 1)..((d + n + 1) - 1)
      OBVIOUS
    <3>2. QED
      BY <1>1, <3>1
  <2> HIDE DEF i
  <2>2. QED
    BY <1>4, <1>6, <2>1
<1> HIDE DEF i
<1>9. LooksCallable(text, i)
  BY <1>4, <1>6, <1>7 DEF LooksCallable
<1>10. QED
  BY <1>8, <1>9 DEF IsBody, i

\* Of a member its declaration comes through.
LEMMA MemberStripped ==
  ASSUME NEW text \in Seq(Lexemes), NEW m \in Members, Plain(m), NEW d \in Nat,
         PartAt(text, Render(m), d), NEW output \in Seq(Lexemes), DoneWith(text, d, output)
  PROVE  /\ DoneWith(text, d + Len(Render(m)), output \o Declare(m))
         /\ output \o Declare(m) \in Seq(Lexemes)
<1> DEFINE h == m.header
           r == Render(m)
           end == <<"semicolon">>
           body == Body(m)
<1>1. /\ h \in Seq(Lexemes) /\ m.body \in Seq(Lexemes)
      /\ m.kind \in {"field", "callable"}
      /\ m.kind = "callable" => MatchingBrace(body, 1) = Len(body)
  BY DEF Members
<1>2. /\ end \in Seq(Lexemes) /\ Len(end) = 1 /\ end[1] = "semicolon"
      /\ <<"lbrace">> \in Seq(Lexemes) /\ <<"rbrace">> \in Seq(Lexemes)
  BY DEF Lexemes
<1>3. /\ body \in Seq(Lexemes) /\ Len(body) = Len(m.body) + 2 /\ body[1] = "lbrace"
      /\ Len(body) \in Nat
  BY <1>1, <1>2 DEF Body
<1>4. Declare(m) = h \o end /\ output \o h \in Seq(Lexemes) /\ h \o end \in Seq(Lexemes)
  BY <1>1, <1>2 DEF Declare
<1>5. output \o (h \o end) = (output \o h) \o end /\ output \o Declare(m) \in Seq(Lexemes)
  <2>1. h \in Seq(Lexemes) /\ end \in Seq(Lexemes)
    BY <1>1, <1>2
  <2> HIDE DEF end, h
  <2>2. output \o (h \o end) = (output \o h) \o end
    BY <2>1, Joined
  <2>3. output \o Declare(m) = (output \o h) \o end
    BY <1>4, <2>2
  <2>4. output \o h \in Seq(Lexemes)
    BY <1>4
  <2>5. (output \o h) \o end \in Seq(Lexemes)
    BY <2>1, <2>4
  <2>6. QED
    BY <2>2, <2>3, <2>5
<1> HIDE DEF h, r, end, body
<1>6. \A i \in 1..Len(h) : h[i] # "lbrace"
  BY DEF Plain, Contains, h
<1>7. Len(h) \in Nat /\ Len(text) \in Nat
  BY <1>1
<1>8. ASSUME NEW e \in Seq(Lexemes), r = h \o e
      PROVE  /\ PartAt(text, h, d) /\ PartAt(text, e, d + Len(h))
             /\ Len(r) = Len(h) + Len(e)
             /\ DoneWith(text, d + Len(h), output \o h)
  <2>1. Len(r) = Len(h) + Len(e) /\ Len(e) \in Nat
    BY <1>1, <1>8
  <2>2. d + Len(r) <= Len(text) /\ \A i \in 1..Len(r) : text[d + i] = r[i]
    BY DEF PartAt, r
  <2>3. \A i \in 1..Len(h) : r[i] = h[i] /\ i \in 1..Len(r)
    BY <1>1, <1>7, <1>8, <2>1
  <2>4. \A i \in 1..Len(e) : r[Len(h) + i] = e[i] /\ Len(h) + i \in 1..Len(r)
    BY <1>1, <1>7, <1>8, <2>1
  <2>5. PartAt(text, h, d)
    BY <1>7, <2>1, <2>2, <2>3 DEF PartAt
  <2>6. PartAt(text, e, d + Len(h))
    <3>1. \A i \in 1..Len(e) : text[d + Len(h) + i] = e[i]
      <4>1. \A i \in 1..Len(e) : d + Len(h) + i = d + (Len(h) + i)
        BY <1>7
      <4>2. QED
        BY <2>2, <2>4, <4>1
    <3>2. QED
      BY <1>7, <2>1, <2>2, <3>1 DEF PartAt
  <2>7. DoneWith(text, d + Len(h), output \o h)
    BY <1>1, <1>6, <2>5, Copied
  <2>8. QED
    BY <2>1, <2>5, <2>6, <2>7
<1>9. CASE m.kind # "callable"
  <2>1. r = h \o end
    BY <1>9 DEF Render, r, h, end
  <2>2. /\ PartAt(text, end, d + Len(h)) /\ Len(r) = Len(h) + 1
        /\ DoneWith(text, d + Len(h), output \o h)
    BY <1>2, <1>8, <2>1
  <2>3. \A i \in 1..Len(end) : end[i] # "lbrace"
    BY <1>2
  <2>4. d + Len(h) \in Nat /\ d + Len(r) = d + Len(h) + Len(end)
    BY <1>2, <1>7, <2>2
  <2>5. DoneWith(text, d + Len(h) + Len(end), (output \o h) \o end)
    BY <1>2, <1>4, <2>2, <2>3, <2>4, Copied
  <2>6. QED
    BY <1>4, <1>5, <2>4, <2>5 DEF r
<1>10. CASE m.kind = "callable"
  <2> DEFINE n == Len(h)
             l == Len(body)
             i == d + n + 1
             close == d + n + l
  <2>1. r = h \o body
    BY <1>10 DEF Render, r, h, body
  <2>2. /\ PartAt(text, h, d) /\ PartAt(text, body, d + n) /\ Len(r) = n + l
        /\ DoneWith(text, d + n, output \o h)
    BY <1>3, <1>8, <2>1
  <2>3. n \in Nat /\ l \in Nat /\ l > 0 /\ d + n + l <= Len(text)
    <3>1. l > 0
      <4>1. Len(m.body) \in Nat
        BY <1>1
      <4>2. QED
        BY <1>3, <4>1
    <3>2. d + n + l <= Len(text)
      BY <2>2 DEF PartAt
    <3>3. QED
      BY <1>3, <1>7, <3>1, <3>2
  <2> HIDE DEF n, l
  <2>4. /\ d + n \in Nat /\ i - 1 = d + n /\ 1 \in 1..l /\ i \in 1..Len(text)
        /\ close # 0 /\ d + Len(r) = close
    BY <1>7, <2>2, <2>3
  <2>5. text[i] = "lbrace"
    BY <1>3, <2>2, <2>4 DEF PartAt, l
  <2>6. IsBody(text, i)
    <3>1. PICK k \in DOMAIN h : h[k] = "sig" /\ Cut(h, k + 1, Len(h)) \in
            {<<>>, <<"const">>, <<"noexcept">>, <<"const", "noexcept">>,
             <<"const", "override">>}
      BY <1>10, Zenon DEF Plain, h
    <3>2. QED
      BY <1>1, <2>2, <3>1, HeaderRead DEF n
  <2>7. FindMatchingBrace(body, 1) = l
    BY <1>1, <1>3, <1>10, <2>4, BraceFound DEF l
  <2>8. close = FindMatchingBrace(text, i)
    <3>1. FindMatchingBrace(body, 1) # 0
      BY <2>3, <2>7
    <3>2. FindMatchingBrace(text, d + n + 1) = d + n + FindMatchingBrace(body, 1)
      BY <1>3, <2>2, <2>4, <3>1, BraceShifted DEF l
    <3>3. QED
      BY <2>7, <3>2
  <2> HIDE DEF i, close
  <2>9. DoneWith(text, i - 1, output \o h)
    BY <2>2, <2>4
  <2>10. DoneWith(text, close, Append(output \o h, "semicolon"))
    BY <1>4, <2>4, <2>5, <2>6, <2>8, <2>9, BodySkipped
  <2>11. Append(output \o h, "semicolon") = (output \o h) \o end
    BY <1>4 DEF end
  <2>12. QED
    BY <1>4, <1>5, <2>4, <2>10, <2>11 DEF r
<1>11. QED
  BY <1>9, <1>10

\* The class of a source, member by member.
LEMMA ClassStripped ==
  ASSUME NEW s \in Sources, \A k \in DOMAIN s.members : Plain(s.members[k])
  PROVE  StripInlineCallableBodies(ClassText(s)) = ClassOf(s.members, Declare)
<1> DEFINE ms == s.members
           n == Len(ms)
           whole == [k \in DOMAIN ms |-> Render(ms[k])]
           decl == [k \in DOMAIN ms |-> Declare(ms[k])]
           head == <<"class", "lbrace">>
           end == <<"rbrace", "semicolon">>
           text == ClassText(s)
<1>1. ms \in Seq(Members) /\ text \in Seq(Lexemes)
  BY TextAssumption
<1> HIDE DEF ms
<1>2. n \in Nat /\ DOMAIN ms = 1..n /\ \A k \in 1..n : ms[k] \in Members /\ Plain(ms[k])
  <2>1. \A k \in DOMAIN ms : Plain(ms[k])
    BY DEF ms
  <2>2. QED
    BY <1>1, <2>1
<1>3. \A m \in Members : Render(m) \in Seq(Lexemes) /\ Declare(m) \in Seq(Lexemes)
  <2> SUFFICES ASSUME NEW m \in Members
               PROVE  Render(m) \in Seq(Lexemes) /\ Declare(m) \in Seq(Lexemes)
    OBVIOUS
  <2>1. m.header \in Seq(Lexemes) /\ m.body \in Seq(Lexemes)
    BY DEF Members
  <2>2. <<"semicolon">> \in Seq(Lexemes) /\ <<"lbrace">> \in Seq(Lexemes) /\ <<"rbrace">> \in Seq(Lexemes)
    BY DEF Lexemes
  <2>3. QED
    BY <2>1, <2>2 DEF Render, Declare, Body
<1>4. /\ whole \in Seq(Seq(Lexemes)) /\ Len(whole) = n /\ \A k \in 1..n : whole[k] = Render(ms[k])
      /\ decl \in Seq(Seq(Lexemes)) /\ Len(decl) = n /\ \A k \in 1..n : decl[k] = Declare(ms[k])
  <2> HIDE DEF n
  <2>1. whole = [k \in 1..n |-> Render(ms[k])] /\ decl = [k \in 1..n |-> Declare(ms[k])]
    BY <1>2
  <2>2. \A k \in 1..n : Render(ms[k]) \in Seq(Lexemes) /\ Declare(ms[k]) \in Seq(Lexemes)
    BY <1>2, <1>3
  <2> DEFINE X == Seq(Lexemes)
  <2> HIDE DEF X, whole, decl
  <2>3. whole \in Seq(X) /\ Len(whole) = n
    BY <1>2, <2>1, <2>2 DEF X
  <2>4. decl \in Seq(X) /\ Len(decl) = n
    BY <1>2, <2>1, <2>2 DEF X
  <2>5. QED
    BY <2>1, <2>3, <2>4 DEF X
<1>5. /\ head \in Seq(Lexemes) /\ Len(head) = 2 /\ end \in Seq(Lexemes) /\ Len(end) = 2
      /\ head[1] = "class" /\ head[2] = "lbrace" /\ end[1] = "rbrace" /\ end[2] = "semicolon"
  BY DEF Lexemes
<1> HIDE DEF n
<1>6. PICK f : Grows(f, whole) /\ FlattenSeq(whole) = f[n]
  <2> HIDE DEF whole
  <2>1. \E f : Grows(f, whole) /\ FlattenSeq(whole) = f[Len(whole)]
    BY <1>4, Flattened
  <2>2. QED
    BY <1>4, <2>1
<1>7. PICK g : Grows(g, decl) /\ FlattenSeq(decl) = g[n]
  <2> HIDE DEF decl
  <2>1. \E g : Grows(g, decl) /\ FlattenSeq(decl) = g[Len(decl)]
    BY <1>4, Flattened
  <2>2. QED
    BY <1>4, <2>1
<1>8. text = head \o f[n] \o end /\ ClassOf(s.members, Declare) = head \o g[n] \o end
  <2>1. text = head \o FlattenSeq(whole) \o end
    BY Zenon DEF ClassText, ClassOf, ms
  <2>2. ClassOf(s.members, Declare) = head \o FlattenSeq(decl) \o end
    BY Zenon DEF ClassOf, ms
  <2> HIDE DEF whole, decl, head, end, text
  <2>3. QED
    BY <1>6, <1>7, <2>1, <2>2
<1> HIDE DEF whole, decl, head, end, text
<1>9. /\ f \in [0..n -> Seq(Lexemes)] /\ f[0] = <<>>
      /\ \A k \in 1..n : f[k] = f[k - 1] \o Render(ms[k])
      /\ g \in [0..n -> Seq(Lexemes)] /\ g[0] = <<>>
      /\ \A k \in 1..n : g[k] = g[k - 1] \o Declare(ms[k])
  BY <1>4, <1>6, <1>7 DEF Grows
<1>10. \A k \in 0..n : f[k] \in Seq(Lexemes) /\ g[k] \in Seq(Lexemes)
  <2> DEFINE X == Seq(Lexemes)
  <2>1. f \in [0..n -> X] /\ g \in [0..n -> X]
    BY <1>9
  <2> HIDE DEF X
  <2>2. \A k \in 0..n : f[k] \in X /\ g[k] \in X
    BY <2>1
  <2>3. QED
    BY <2>2 DEF X
<1>11. f[n] \in Seq(Lexemes) /\ g[n] \in Seq(Lexemes)
  <2>1. n \in 0..n
    BY <1>2
  <2>2. QED
    BY <1>10, <2>1
<1>12. \A k \in 1..n : PartAt(text, Render(ms[k]), 2 + Len(f[k - 1]))
  <2> SUFFICES ASSUME NEW k \in 1..n
               PROVE  PartAt(text, Render(ms[k]), 2 + Len(f[k - 1]))
    OBVIOUS
  <2>1. PartAt(f[n], Render(ms[k]), Len(f[k - 1]))
    BY <1>4, <1>6, PartsGrow
  <2>2. k - 1 \in 0..n
    BY <1>2
  <2>3. Len(f[k - 1]) \in Nat /\ Render(ms[k]) \in Seq(Lexemes)
    BY <1>2, <1>3, <1>10, <2>2
  <2>4. PartAt(head \o f[n] \o end, Render(ms[k]), Len(head) + Len(f[k - 1]))
    BY <1>5, <1>11, <2>1, <2>3, PartOfPart
  <2>5. QED
    BY <1>5, <1>8, <2>4
<1> DEFINE mid == f[n]
<1> HIDE DEF mid
<1>13. /\ mid \in Seq(Lexemes) /\ Len(mid) \in Nat
       /\ head \o mid \in Seq(Lexemes) /\ Len(head \o mid) = 2 + Len(mid)
       /\ text = (head \o mid) \o end /\ Len(text) = 2 + Len(mid) + 2
  <2>1. mid \in Seq(Lexemes) /\ text = (head \o mid) \o end
    BY <1>8, <1>11 DEF mid
  <2>2. Len(mid) \in Nat /\ head \o mid \in Seq(Lexemes) /\ Len(head \o mid) = 2 + Len(mid)
    <3>1. head \in Seq(Lexemes) /\ mid \in Seq(Lexemes) /\ Len(head) = 2
      BY <1>5, <2>1
    <3>2. /\ head \o mid \in Seq(Lexemes) /\ Len(mid) \in Nat
          /\ Len(head \o mid) = Len(head) + Len(mid)
      BY <3>1, PartsCut
    <3>3. QED
      BY <3>1, <3>2
  <2> DEFINE front == head \o mid
  <2>3. Len((head \o mid) \o end) = Len(head \o mid) + Len(end)
    <3>1. front \in Seq(Lexemes) /\ end \in Seq(Lexemes)
      BY <1>5, <2>2
    <3> HIDE DEF front
    <3>2. Len(front \o end) = Len(front) + Len(end)
      BY <3>1, PartsCut
    <3>3. QED
      BY <3>2 DEF front
  <2>4. QED
    BY <1>5, <2>1, <2>2, <2>3
<1>14. text[1] = "class" /\ text[2] = "lbrace"
  <2>1. /\ 1 \in 1..Len(head) /\ 2 \in 1..Len(head)
        /\ 1 \in 1..Len(head \o mid) /\ 2 \in 1..Len(head \o mid)
    BY <1>5, <1>13
  <2>2. (head \o mid)[1] = head[1] /\ (head \o mid)[2] = head[2]
    BY <1>5, <1>13, <2>1, PartsCut
  <2>3. text[1] = (head \o mid)[1] /\ text[2] = (head \o mid)[2]
    BY <1>5, <1>13, <2>1, PartsCut
  <2>4. QED
    BY <1>5, <2>2, <2>3
<1>15. PartAt(text, end, 2 + Len(mid))
  <2>1. \A i \in 1..Len(end) : text[Len(head \o mid) + i] = end[i]
    BY <1>5, <1>13, PartsCut
  <2>2. QED
    BY <1>5, <1>13, <2>1 DEF PartAt
<1>16. DoneWith(text, 2, head)
  <2>1. 1 \in 1..Len(text) /\ 2 \in 1..Len(text)
    BY <1>13
  <2>2. Strip(text)[1] = StripStep(text, 1, StripStart)
    <3>1. 1 - 1 = 0
      OBVIOUS
    <3>2. Strip(text)[1] = StripStep(text, 1, Strip(text)[1 - 1])
      BY <1>1, <2>1, Stripped
    <3>3. QED
      BY <1>1, <3>1, <3>2, Stripped
  <2>3. Strip(text)[1] = [output |-> <<"class">>, index |-> 2]
    BY <1>14, <2>2 DEF StripStep, StripStart
  <2>4. Strip(text)[2] = StripStep(text, 2, Strip(text)[1])
    <3>1. 2 - 1 = 1
      OBVIOUS
    <3>2. Strip(text)[2] = StripStep(text, 2, Strip(text)[2 - 1])
      BY <1>1, <2>1, Stripped
    <3>3. QED
      BY <3>1, <3>2
  <2>5. ~IsBody(text, 2)
    <3>1. \A j \in 1..(2 - 1) : j = 1
      OBVIOUS
    <3>2. ~LooksCallable(text, 2)
      BY <1>14, <3>1 DEF LooksCallable
    <3>3. QED
      BY <3>2 DEF IsBody
  <2>6. Strip(text)[2] = [output |-> Append(<<"class">>, "lbrace"), index |-> 3]
    BY <1>14, <2>3, <2>4, <2>5 DEF StripStep
  <2>7. Append(<<"class">>, "lbrace") = head
    <3>1. "class" \in Lexemes /\ "lbrace" \in Lexemes
      BY DEF Lexemes
    <3>2. QED
      BY <3>1, PairAppended DEF head
  <2>8. QED
    BY <2>6, <2>7 DEF DoneWith
<1> DEFINE good == {k \in 0..n : DoneWith(text, 2 + Len(f[k]), head \o g[k])}
<1>17. 0 \in good
  <2>1. 2 + Len(f[0]) = 2
    BY <1>9
  <2>2. head \o g[0] = head
    BY <1>5, <1>9
  <2>3. DoneWith(text, 2 + Len(f[0]), head \o g[0])
    BY <1>16, <2>1, <2>2
  <2>4. QED
    BY <1>2, <2>3
<1>18. ASSUME NEW k \in 0..n, k \in good, k + 1 <= n
       PROVE  k + 1 \in good
  <2> DEFINE j == k + 1
             r == Render(ms[j])
  <2>1. j \in 1..n /\ j - 1 = k /\ j \in 0..n
    <3> HIDE DEF good
    <3>1. QED
      BY <1>2, <1>18
  <2>2. DoneWith(text, 2 + Len(f[k]), head \o g[k])
    BY <1>18
  <2> HIDE DEF j, good
  <2>3. /\ f[k] \in Seq(Lexemes) /\ g[k] \in Seq(Lexemes) /\ head \o g[k] \in Seq(Lexemes)
        /\ 2 + Len(f[k]) \in Nat
    BY <1>5, <1>10
  <2>4. ms[j] \in Members /\ Plain(ms[j]) /\ r \in Seq(Lexemes) /\ Declare(ms[j]) \in Seq(Lexemes)
    BY <1>2, <1>3, <2>1
  <2>5. PartAt(text, Render(ms[j]), 2 + Len(f[k]))
    BY <1>12, <2>1
  <2>6. DoneWith(text, 2 + Len(f[k]) + Len(r), (head \o g[k]) \o Declare(ms[j]))
    BY <1>1, <2>2, <2>3, <2>4, <2>5, MemberStripped
  <2>7. f[j] = f[k] \o r /\ g[j] = g[k] \o Declare(ms[j])
    <3>1. f[j] = f[j - 1] \o r /\ g[j] = g[j - 1] \o Declare(ms[j])
      BY <1>9, <2>1
    <3>2. QED
      BY <2>1, <3>1
  <2> DEFINE fk == f[k]
             gk == g[k]
             dj == Declare(ms[j])
  <2>8. 2 + Len(f[k]) + Len(r) = 2 + Len(f[j])
    <3>1. fk \in Seq(Lexemes) /\ r \in Seq(Lexemes)
      BY <2>3, <2>4
    <3>2. f[j] = fk \o r
      BY <2>7
    <3> HIDE DEF fk, r
    <3>3. Len(fk \o r) = Len(fk) + Len(r) /\ Len(fk) \in Nat /\ Len(r) \in Nat
      BY <3>1, PartsCut
    <3>4. 2 + Len(fk) + Len(r) = 2 + Len(fk \o r)
      BY <3>3
    <3>5. QED
      BY <3>2, <3>4 DEF fk
  <2>9. (head \o g[k]) \o Declare(ms[j]) = head \o g[j]
    <3>1. gk \in Seq(Lexemes) /\ dj \in Seq(Lexemes) /\ g[j] = gk \o dj
      BY <2>3, <2>4, <2>7
    <3> HIDE DEF gk, dj
    <3>2. (head \o gk) \o dj = head \o (gk \o dj)
      BY <1>5, <3>1, Joined
    <3>3. QED
      BY <3>1, <3>2 DEF gk, dj
  <2>10. DoneWith(text, 2 + Len(f[j]), head \o g[j])
    BY <2>6, <2>8, <2>9
  <2>11. QED
    BY <2>1, <2>10 DEF good, j
<1> HIDE DEF good
<1>19. \A k \in 0..n : k \in good
  <2>1. 0 \in Nat
    OBVIOUS
  <2>2. QED
    BY <1>2, <1>17, <1>18, <2>1, AllPositions
<1>20. DoneWith(text, 2 + Len(mid), head \o g[n])
  <2>1. n \in 0..n
    BY <1>2
  <2>2. QED
    BY <1>19, <2>1 DEF good, mid
<1>21. DoneWith(text, 2 + Len(mid) + Len(end), (head \o g[n]) \o end)
  <2>1. \A i \in 1..Len(end) : end[i] # "lbrace"
    <3>1. \A i \in 1..Len(end) : i = 1 \/ i = 2
      BY <1>5
    <3>2. QED
      BY <1>5, <3>1
  <2>2. head \o g[n] \in Seq(Lexemes) /\ 2 + Len(mid) \in Nat
    BY <1>5, <1>11, <1>13, PartsCut
  <2>3. QED
    BY <1>1, <1>5, <1>15, <1>20, <2>1, <2>2, Copied
<1>22. Strip(text)[Len(text)].output = (head \o g[n]) \o end
  <2>1. 2 + Len(mid) + Len(end) = Len(text)
    BY <1>5, <1>13
  <2>2. Strip(text)[Len(text)] = [output |-> (head \o g[n]) \o end, index |-> Len(text) + 1]
    BY <1>21, <2>1 DEF DoneWith
  <2>3. QED
    BY <2>2
<1>23. QED
  BY <1>8, <1>22 DEF StripInlineCallableBodies, text

-----------------------------------------------------------------------------
\* What the file holds when the texts ts were put into it.
Current(s, ts) == IF ts = <<>> THEN ClassText(s) ELSE Last(ts)

Held(s, ts) == s.before \o Current(s, ts) \o s.after

AllComplete(ts) == \A k \in DOMAIN ts : Complete(ts[k])

\* The inductive invariant: what evaluate() saved is what was there before its
\* own replacement, so that the texts left by calls that were killed and what
\* is restored always fit together; the scaffold is of the file at HEAD.
TextInv ==
  /\ source \in Sources
  /\ file \in Seq(Lexemes) /\ before \in Seq(Lexemes)
  /\ splices \in Seq(Responses)
  /\ AllComplete(splices) => file = Held(source, splices)
  /\ at = "replaced" =>
       /\ splices # <<>>
       /\ AllComplete(Front(splices)) => before = Held(source, Front(splices))
  /\ at = "new" => file = TextOf(source)
  /\ ScaffoldIsInterface

\* The text in a file with complete classes only is one.
LEMMA CurrentClass ==
  ASSUME NEW s \in Sources, NEW ts \in Seq(Responses), AllComplete(ts)
  PROVE  /\ Complete(Current(s, ts)) /\ Current(s, ts) \in Seq(Lexemes)
         /\ s.before \in Seq(Lexemes) /\ s.after \in Seq(Lexemes)
<1>1. CASE ts = <<>>
  BY <1>1, TextAssumption DEF Current
<1>2. CASE ts # <<>>
  <2>1. Len(ts) \in DOMAIN ts /\ ts[Len(ts)] \in Responses
    BY <1>2
  <2>2. QED
    BY <1>2, <2>1, TextAssumption DEF Current, AllComplete, Last
<1>3. QED
  BY <1>1, <1>2

LEMMA TextStart == TextInit => TextInv
<1> SUFFICES ASSUME TextInit
             PROVE  TextInv
  OBVIOUS
<1>1. source \in Sources /\ file = TextOf(source) /\ before = <<>> /\ at = "new" /\ splices = <<>>
  BY DEF TextInit
<1>2. /\ source.before \in Seq(Lexemes) /\ source.after \in Seq(Lexemes)
      /\ ClassText(source) \in Seq(Lexemes)
  BY <1>1, TextAssumption
<1>3. file \in Seq(Lexemes)
  BY <1>1, <1>2 DEF TextOf
<1>4. before \in Seq(Lexemes) /\ splices \in Seq(Responses)
  BY <1>1
<1>5. file = Held(source, splices)
  BY <1>1 DEF Held, Current, TextOf
<1>6. QED
  BY <1>1, <1>3, <1>4, <1>5 DEF TextInv, ScaffoldIsInterface

\* prepare() finds the class of the source and keeps its declarations.
LEMMA PreparedScaffold ==
  ASSUME TextInv, PrepareText
  PROVE  TextInv'
<1> DEFINE b == source.before
           c == ClassText(source)
           a == source.after
           span == LocateClassSpan(file)
           stripped == StripInlineCallableBodies(Cut(file, span[1], span[2]))
<1>1. /\ source \in Sources /\ file = b \o c \o a
      /\ UNCHANGED <<source, file, before, splices>>
  BY DEF TextInv, PrepareText, TextOf
<1>2. /\ b \in Seq(Lexemes) /\ c \in Seq(Lexemes) /\ a \in Seq(Lexemes) /\ Complete(c)
  BY <1>1, TextAssumption
<1>3. /\ \/ at' = "raised"
         \/ span # NoSpan /\ at' = "idle" /\ scaffold' = stripped
  BY Zenon DEF PrepareText
<1>4. CASE at' = "raised"
  BY <1>1, <1>4 DEF TextInv, ScaffoldIsInterface
<1>5. CASE span # NoSpan /\ at' = "idle" /\ scaffold' = stripped
  <2> HIDE DEF a, b, c
  <2>1. /\ PartAt(file, c, Len(b)) /\ file \in Seq(Lexemes) /\ Len(b) \in Nat
        /\ Cut(file, Len(b) + 1, Len(b) + Len(c)) = c
    <3>1. /\ b \o c \in Seq(Lexemes) /\ c \o a \in Seq(Lexemes)
          /\ Len(b \o c) = Len(b) + Len(c) /\ Len(c \o a) = Len(c) + Len(a)
          /\ Len(b) \in Nat /\ Len(c) \in Nat /\ Len(a) \in Nat
          /\ \A i \in 1..Len(c) : (b \o c)[Len(b) + i] = c[i]
      BY <1>2, PartsCut
    <3>2. /\ (b \o c) \o a \in Seq(Lexemes)
          /\ Len((b \o c) \o a) = Len(b) + Len(c) + Len(a)
          /\ \A i \in 1..Len(b \o c) : ((b \o c) \o a)[i] = (b \o c)[i]
      BY <1>2, <3>1, PartsCut
    <3>3. \A i \in 1..Len(c) : Len(b) + i \in 1..Len(b \o c)
      BY <3>1
    <3>4. PartAt(file, c, Len(b))
      BY <1>1, <3>1, <3>2, <3>3 DEF PartAt
    <3>5. Cut(file, Len(b) + 1, Len(b) + Len(c)) = c
      BY <1>1, <1>2, <3>1, <3>2, <3>4, PartIsCut
    <3>6. QED
      BY <1>1, <3>1, <3>2, <3>4, <3>5
  <2>2. LocateClassSpan(file) = <<Len(b) + 1, Len(b) + Len(c)>>
    BY <1>2, <1>5, <2>1, ClassLocated
  <2>3. stripped = StripInlineCallableBodies(c)
    <3>1. span[1] = Len(b) + 1 /\ span[2] = Len(b) + Len(c)
      BY <2>2
    <3>2. QED
      BY <2>1, <3>1
  <2> HIDE DEF span, stripped
  <2>4. (\A k \in DOMAIN source.members : Plain(source.members[k]))
          => scaffold' = ClassOf(source.members, Declare)
    BY <1>1, <1>5, <2>3, ClassStripped DEF c
  <2>5. ScaffoldIsInterface'
    BY <1>1, <2>4 DEF ScaffoldIsInterface
  <2>6. QED
    BY <1>1, <1>5, <2>5 DEF TextInv
<1>6. QED
  BY <1>3, <1>4, <1>5

\* evaluate() puts a class into the file.
LEMMA ReplacedClass ==
  ASSUME NEW g \in Responses, TextInv, ReplaceClass(g)
  PROVE  TextInv'
<1> DEFINE span == LocateClassSpan(file)
<1>1. /\ source \in Sources /\ file \in Seq(Lexemes) /\ splices \in Seq(Responses)
      /\ g \in Seq(Lexemes) /\ before' = file /\ source' = source /\ at = "idle"
  BY TextAssumption DEF TextInv, ReplaceClass
<1>2. CASE span = NoSpan
  <2>1. file' = file /\ at' = at /\ splices' = splices /\ scaffold' = scaffold
    BY <1>2 DEF ReplaceClass
  <2>2. QED
    BY <1>1, <2>1 DEF TextInv, ScaffoldIsInterface
<1>3. CASE span # NoSpan
  <2>1. file' = Splice(file, span, g) /\ at' = "replaced" /\ splices' = Append(splices, g)
    BY <1>3 DEF ReplaceClass
  <2> HIDE DEF span
  <2>2. file' \in Seq(Lexemes)
    <3>1. PICK first, last \in 1..Len(file) : span = <<first, last>>
      BY <1>1, <1>3, SpanInside DEF span
    <3>2. /\ first - 1 \in 0..Len(file) /\ last + 1 \in 1..(Len(file) + 1)
          /\ Len(file) \in Nat
      BY <1>1, <3>1
    <3>3. SubSeq(file, 1, first - 1) \in Seq(Lexemes)
      BY <1>1, <3>2
    <3>4. SubSeq(file, last + 1, Len(file)) \in Seq(Lexemes)
      BY <1>1, <3>2
    <3>5. file' = SubSeq(file, 1, first - 1) \o g \o SubSeq(file, last + 1, Len(file))
      BY <2>1, <3>1 DEF Splice, Cut
    <3>6. QED
      BY <1>1, <3>3, <3>4, <3>5
  <2>3. /\ splices' \in Seq(Responses) /\ splices' # <<>>
        /\ Front(splices') = splices /\ Last(splices') = g
    BY <1>1, <2>1 DEF Front, Last
  <2>4. AllComplete(splices') => AllComplete(splices)
    <3>1. \A k \in DOMAIN splices : k \in DOMAIN splices' /\ splices'[k] = splices[k]
      BY <1>1, <2>1
    <3>2. QED
      BY <3>1 DEF AllComplete
  <2>5. AllComplete(splices) => file' = Held(source, splices')
    <3> SUFFICES ASSUME AllComplete(splices)
                 PROVE  file' = Held(source, splices')
      OBVIOUS
    <3> DEFINE c == Current(source, splices)
    <3>1. file = source.before \o c \o source.after
      BY DEF TextInv, Held
    <3>2. /\ Complete(c) /\ c \in Seq(Lexemes)
          /\ source.before \in Seq(Lexemes) /\ source.after \in Seq(Lexemes)
      BY <1>1, CurrentClass
    <3> DEFINE b == source.before
               a == source.after
    <3> HIDE DEF a, b, c
    <3>3. Splice(file, LocateClassSpan(file), g) = b \o g \o a
      <4>1. file = b \o c \o a /\ b \in Seq(Lexemes) /\ a \in Seq(Lexemes)
        BY <3>1, <3>2 DEF a, b
      <4>2. LocateClassSpan(file) # NoSpan
        BY <1>3 DEF span
      <4>3. file \in Seq(Lexemes) /\ g \in Seq(Lexemes) /\ c \in Seq(Lexemes) /\ Complete(c)
        BY <1>1, <3>2
      <4>4. LocateClassSpan(b \o c \o a) # NoSpan
        BY <4>1, <4>2
      <4>5. Splice(b \o c \o a, LocateClassSpan(b \o c \o a), g) = b \o g \o a
        BY <4>1, <4>3, <4>4, ClassSpliced
      <4>6. QED
        BY <4>1, <4>5
    <3> USE DEF a, b
    <3>4. QED
      BY <2>1, <2>3, <3>3 DEF Held, Current, span
  <2>6. AllComplete(splices) => before' = Held(source, splices)
    BY <1>1 DEF TextInv
  <2>7. ScaffoldIsInterface'
    <3>1. scaffold' = scaffold /\ ScaffoldIsInterface
      BY DEF ReplaceClass, TextInv
    <3>2. QED
      BY <1>1, <3>1 DEF ScaffoldIsInterface
  <2>8. QED
    BY <1>1, <2>1, <2>2, <2>3, <2>4, <2>5, <2>6, <2>7 DEF TextInv
<1>4. QED
  BY <1>2, <1>3

LEMMA TextStep == TextInv /\ [TextNext]_textVars => TextInv'
<1> SUFFICES ASSUME TextInv, [TextNext]_textVars
             PROVE  TextInv'
  OBVIOUS
<1>1. CASE PrepareText
  BY <1>1, PreparedScaffold
<1>2. ASSUME NEW g \in Responses, ReplaceClass(g)
      PROVE  TextInv'
  BY <1>2, ReplacedClass
<1>3. CASE RestoreText
  <2>1. /\ file' = before /\ at' = "idle" /\ splices' = Front(splices)
        /\ UNCHANGED <<source, before, scaffold>> /\ at = "replaced"
    BY <1>3 DEF RestoreText
  <2>2. Front(splices) \in Seq(Responses)
    BY <2>1 DEF TextInv, Front
  <2>3. ScaffoldIsInterface'
    BY <2>1 DEF TextInv, ScaffoldIsInterface
  <2>4. QED
    BY <2>1, <2>2, <2>3 DEF TextInv
<1>4. CASE DieText
  BY <1>4 DEF DieText, TextInv, ScaffoldIsInterface
<1>5. CASE UNCHANGED textVars
  BY <1>5 DEF textVars, TextInv, ScaffoldIsInterface
<1>6. QED
  BY <1>1, <1>2, <1>3, <1>4, <1>5 DEF TextNext

\* The invariant of the replacements of a class, for any source, texts and
\* number of calls of evaluate(), stopped anywhere.
THEOREM TextInvariance == SourceSpec => []TextInv
<1>1. QED
  BY TextStart, TextStep, PTL DEF SourceSpec

\* find_matching_brace finds the brace that closes, outside of comments and
\* literals, in every text the file may hold.
THEOREM BracesAreMatched == SourceSpec => []BracesMatched
<1>1. TextInv => BracesMatched
  <2>1. ASSUME TextInv, NEW i \in DOMAIN file
        PROVE  FindMatchingBrace(file, i) = MatchingBrace(file, i)
    <3>1. file \in Seq(Lexemes) /\ i \in 1..Len(file)
      BY <2>1 DEF TextInv
    <3>2. QED
      BY <3>1, BraceFound
  <2>2. QED
    BY <2>1 DEF BracesMatched
<1>2. QED
  BY <1>1, TextInvariance, PTL

\* Only the class is ever replaced, also behind calls that were killed.
THEOREM ClassAloneIsReplaced == SourceSpec => []OnlyClassReplaced
<1>1. TextInv => OnlyClassReplaced
  BY DEF TextInv, OnlyClassReplaced, AllComplete, Held, Current
<1>2. QED
  BY <1>1, TextInvariance, PTL

\* The scaffold is the interface: of a class with headers that are known every
\* declaration and no body is given to the regeneration.
THEOREM ScaffoldsAreInterfaces == SourceSpec => []ScaffoldIsInterface
<1>1. TextInv => ScaffoldIsInterface
  BY DEF TextInv
<1>2. QED
  BY <1>1, TextInvariance, PTL
=============================================================================
