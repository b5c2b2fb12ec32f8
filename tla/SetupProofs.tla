---------------------------- MODULE SetupProofs ----------------------------
(***************************************************************************)
(* Proofs about Catalog and Configure, for every list of targets, every    *)
(* report and every repository.                                            *)
(*                                                                         *)
(* What the merge makes of a list of entries, however long, is a fold.  Its *)
(* value is known in closed form (of every field the first value), so it   *)
(* is enough that the closed form satisfies the equation of the fold and   *)
(* that only one function does: a smallest set of positions on which two   *)
(* functions differ cannot exist.                                          *)
(***************************************************************************)
EXTENDS Configure, WellFoundedInduction, TLAPS

\* The drafts of these targets are written, and those of targets that are not
\* adopted are gone.
Written(done) ==
  /\ \A t \in done : drafts[t] = [is |-> "json", record |-> Rec(t)]
  /\ \A t \in Targets \ Adopted : drafts[t].is # "json"

\* What bootstrap_batch_catalog.py has done at each point of a run.
BootInv ==
  /\ boot.at = "stale" => boot.todo = Adopted
  /\ boot.at = "write" => boot.todo \subseteq Adopted /\ Written(Adopted \ boot.todo)
  /\ boot.at = "readiness" => catalog = Adopted /\ Written(Adopted)
  /\ DraftsAreCatalog

\* What is said of a target that is done.
RowTrue(t) ==
  /\ rows[t] = "ready" =>
       conf.probe /\ t \in conf.written /\ final[t].is = "json" /\ final[t].enabled
  /\ rows[t] = "unprobed" =>
       ~conf.probe /\ t \in conf.written /\ final[t].is = "json" /\ ~final[t].enabled
  /\ t \in conf.written => ~Blocked(drafts[t].record, scan[t])
  /\ rows[t] # "none" <=>
       t \in conf.selected /\ drafts[t].is = "json" /\ t \notin conf.todo

\* What configure_execution.py has done at each point of a run: it runs alone,
\* the rows there are belong to the targets that are done, and the target it is
\* at may be written.
ConfInv ==
  conf.at # "idle" =>
    /\ BootIdle
    /\ conf.at = "report" => conf.todo = {}
    /\ \A t \in Targets : RowTrue(t)
    /\ conf.at \in {"probe", "write"} =>
         /\ conf.todo # {}
         /\ Current \in conf.selected /\ drafts[Current].is = "json"
         /\ ~Blocked(drafts[Current].record, scan[Current])
         /\ final[Current].is # "none" => conf.force

SetupIInv == ConfigureTypeOK /\ BootInv /\ ConfInv

-----------------------------------------------------------------------------
\* The first value of a field at these positions of a list of entries.
FirstAt(entries, s, f) ==
  LET given == {i \in s : Updates(entries[i])[f] # NoValue} IN
  IF given = {} THEN NoValue ELSE Updates(entries[Min(given)])[f]

FirstRecord(entries, s) == [f \in DOMAIN Blank |-> FirstAt(entries, s, f)]

\* g goes through a set of positions as FoldLeft does in Merged.
IsFold(entries, g) ==
  g = [s \in SUBSET DOMAIN entries |->
         IF s = {} THEN Blank
         ELSE Merge(g[s \ {Max(s)}], Updates(entries[Max(s)]))]

\* A set of numbers has a least one.
LEMMA MinInSet ==
  ASSUME NEW S \in SUBSET Nat, S # {}
  PROVE  Min(S) \in S /\ \A j \in S : Min(S) <= j
<1>1. PICK i \in S : \A j \in S : <<j, i>> \notin OpToRel(<, Nat)
  BY NatLessThanWellFounded, WFMin
<1>2. ASSUME NEW j \in S
      PROVE  i <= j
  <2>1. i \in Nat /\ j \in Nat
    OBVIOUS
  <2>2. ~(j < i)
    BY <1>1, <2>1 DEF OpToRel
  <2>3. QED
    BY <2>1, <2>2
<1>3. QED
  BY <1>2 DEF Min

\* A bounded set of numbers has a greatest one.
LEMMA MaxInSet ==
  ASSUME NEW n \in Nat, NEW S \in SUBSET (1..n), S # {}
  PROVE  Max(S) \in S /\ \A j \in S : j <= Max(S)
<1> DEFINE gaps == {n - i : i \in S}
<1>1. gaps \in SUBSET Nat /\ gaps # {}
  <2>1. \A i \in S : n - i \in Nat
    OBVIOUS
  <2>2. QED
    BY <2>1
<1>2. Min(gaps) \in gaps /\ \A j \in gaps : Min(gaps) <= j
  BY <1>1, MinInSet
<1>3. PICK m \in S : Min(gaps) = n - m
  BY <1>2
<1>4. ASSUME NEW j \in S
      PROVE  m >= j
  <2>1. n - m <= n - j
    BY <1>2, <1>3
  <2>2. m \in Nat /\ j \in Nat
    OBVIOUS
  <2>3. QED
    BY <2>1, <2>2
<1>5. Max(S) \in S /\ \A j \in S : Max(S) >= j
  BY <1>4 DEF Max
<1>6. \A j \in S : j \in Nat
  OBVIOUS
<1>7. QED
  BY <1>5, <1>6

\* The closed form satisfies the equation: behind the positions before it, the
\* last one only gives the fields that have no value yet.
LEMMA FirstSatisfies ==
  ASSUME NEW n \in Nat, NEW entries, DOMAIN entries = 1..n,
         NEW s \in SUBSET (1..n), s # {}
  PROVE  FirstRecord(entries, s) =
           Merge(FirstRecord(entries, s \ {Max(s)}), Updates(entries[Max(s)]))
<1> DEFINE x == Max(s)
           r == s \ {x}
           U(i) == Updates(entries[i])
           Given(p, f) == {i \in p : U(i)[f] # NoValue}
<1>1. x \in s /\ \A j \in s : j <= x
  BY MaxInSet
<1>2. ASSUME NEW f
      PROVE  FirstAt(entries, s, f) =
               IF FirstAt(entries, r, f) = NoValue THEN U(x)[f] ELSE FirstAt(entries, r, f)
  <2> HIDE DEF x
  <2>1. \A p \in SUBSET s :
          FirstAt(entries, p, f) =
            IF Given(p, f) = {} THEN NoValue ELSE U(Min(Given(p, f)))[f]
    BY DEF FirstAt
  <2>2. r \in SUBSET s /\ s \in SUBSET s
    OBVIOUS
  <2> HIDE DEF U
  <2>3. CASE Given(r, f) = {}
    <3>1. FirstAt(entries, r, f) = NoValue
      BY <2>1, <2>2, <2>3
    <3>2. CASE U(x)[f] = NoValue
      <4>1. Given(s, f) = {}
        BY <2>3, <3>2
      <4>2. QED
        BY <2>1, <2>2, <3>1, <3>2, <4>1
    <3>3. CASE U(x)[f] # NoValue
      <4>1. Given(s, f) = {x}
        BY <1>1, <2>3, <3>3
      <4>2. Min({x}) = x
        <5>1. {x} \in SUBSET Nat /\ {x} # {}
          BY <1>1
        <5>2. QED
          BY <5>1, MinInSet
      <4>3. QED
        BY <2>1, <2>2, <3>1, <4>1, <4>2
    <3>4. QED
      BY <3>2, <3>3
  <2>4. CASE Given(r, f) # {}
    <3> DEFINE g == Given(r, f)
               h == Given(s, f)
    <3>1. g \subseteq h /\ h \subseteq g \cup {x} /\ g \in SUBSET Nat /\ h \in SUBSET Nat
      <4>1. s \subseteq Nat
        OBVIOUS
      <4>2. g \subseteq s /\ h \subseteq s /\ g \subseteq h /\ h \subseteq g \cup {x}
        OBVIOUS
      <4>3. QED
        BY <4>1, <4>2
    <3>2. g # {} /\ h # {}
      BY <2>4, <3>1
    <3>3. /\ Min(g) \in g /\ \A j \in g : Min(g) <= j
          /\ Min(h) \in h /\ \A j \in h : Min(h) <= j
      BY <3>1, <3>2, MinInSet
    <3>4. Min(g) \in s /\ Min(g) <= x
      BY <1>1, <3>3
    <3>5. Min(g) = Min(h)
      <4> HIDE DEF g, h
      <4>1. Min(h) <= Min(g)
        BY <3>1, <3>3
      <4>2. Min(g) <= Min(h)
        BY <3>1, <3>3, <3>4
      <4>3. Min(g) \in Nat /\ Min(h) \in Nat
        BY <3>1, <3>3
      <4>4. QED
        BY <4>1, <4>2, <4>3
    <3>6. U(Min(g))[f] # NoValue
      BY <3>3
    <3>7. QED
      BY <2>1, <2>2, <3>2, <3>5, <3>6
  <2>5. QED
    BY <2>3, <2>4
<1>3. QED
  BY <1>2 DEF FirstRecord, Merge

\* There is a function that goes through the positions as FoldLeft does.
LEMMA FirstIsFold ==
  ASSUME NEW n \in Nat, NEW entries, DOMAIN entries = 1..n
  PROVE  IsFold(entries, [s \in SUBSET DOMAIN entries |-> FirstRecord(entries, s)])
<1> DEFINE w == [s \in SUBSET DOMAIN entries |-> FirstRecord(entries, s)]
<1>1. FirstRecord(entries, {}) = Blank
  BY DEF FirstRecord, FirstAt, Blank
<1>2. ASSUME NEW s \in SUBSET DOMAIN entries, s # {}
      PROVE  w[s] = Merge(w[s \ {Max(s)}], Updates(entries[Max(s)]))
  BY <1>2, FirstSatisfies
<1>3. ASSUME NEW s \in SUBSET DOMAIN entries
      PROVE  w[s] = IF s = {} THEN Blank
                    ELSE Merge(w[s \ {Max(s)}], Updates(entries[Max(s)]))
  BY <1>1, <1>2
<1>4. QED
  BY <1>3, Zenon DEF IsFold

\* And only one.
LEMMA FoldIsUnique ==
  ASSUME NEW n \in Nat, NEW entries, DOMAIN entries = 1..n,
         NEW g, NEW h, IsFold(entries, g), IsFold(entries, h),
         NEW s \in SUBSET (1..n)
  PROVE  g[s] = h[s]
<1> DEFINE Differ == {m \in 0..n : \E p \in SUBSET (1..m) : g[p] # h[p]}
<1>1. SUFFICES ASSUME g[s] # h[s]
               PROVE  FALSE
  OBVIOUS
<1>2. n \in Differ /\ Differ \in SUBSET Nat
  BY <1>1
<1>3. PICK m \in Differ : \A j \in Differ : m <= j
  BY <1>2, MinInSet
<1>4. PICK p \in SUBSET (1..m) : g[p] # h[p]
  BY <1>3
<1>5. m \in 0..n /\ p \in SUBSET (1..n)
  BY <1>3
<1>6. /\ g[p] = IF p = {} THEN Blank ELSE Merge(g[p \ {Max(p)}], Updates(entries[Max(p)]))
      /\ h[p] = IF p = {} THEN Blank ELSE Merge(h[p \ {Max(p)}], Updates(entries[Max(p)]))
  BY <1>5, Zenon DEF IsFold
<1>7. p # {} /\ g[p \ {Max(p)}] # h[p \ {Max(p)}]
  BY <1>4, <1>6
<1>8. Max(p) \in p /\ \A j \in p : j <= Max(p)
  BY <1>5, <1>7, MaxInSet
<1>9. m - 1 \in 0..n /\ p \ {Max(p)} \in SUBSET (1..(m - 1))
  <2>1. m \in Nat /\ Max(p) \in 1..m
    <3>1. m \in Nat
      BY <1>5
    <3>2. QED
      BY <1>4, <1>8, <3>1
  <2>2. m - 1 \in 0..n
    <3>1. m # 0
      BY <2>1
    <3>2. QED
      BY <1>5, <3>1
  <2>3. ASSUME NEW j \in p \ {Max(p)}
        PROVE  j \in 1..(m - 1)
    <3>1. j \in 1..m /\ j <= Max(p) /\ j # Max(p)
      BY <1>4, <1>8
    <3>2. QED
      BY <2>1, <3>1
  <2>4. QED
    BY <2>2, <2>3
<1>10. m - 1 \in Differ
  BY <1>7, <1>9
<1>11. QED
  BY <1>3, <1>5, <1>10

\* merge_record() over all the entries on a target: of each field the first value
\* any entry has.
LEMMA MergedIsFirst ==
  ASSUME NEW S, NEW entries \in Seq(S)
  PROVE  Merged(entries) = [f \in DOMAIN Blank |-> FirstOf(entries, f)]
<1> DEFINE D == DOMAIN entries
           g == CHOOSE g : IsFold(entries, g)
<1>1. Len(entries) \in Nat /\ D = 1..Len(entries)
  OBVIOUS
<1>2. IsFold(entries, g)
  BY <1>1, FirstIsFold
<1>3. Merged(entries) = g[D]
  BY Zenon DEF Merged, FoldLeft, MapThenFoldSet, IsFold
<1>4. g[D] = [s \in SUBSET D |-> FirstRecord(entries, s)][D]
  <2> HIDE DEF g
  <2>1. D \in SUBSET (1..Len(entries))
    BY <1>1
  <2>2. IsFold(entries, [s \in SUBSET D |-> FirstRecord(entries, s)])
    BY <1>1, FirstIsFold
  <2> DEFINE w == [s \in SUBSET D |-> FirstRecord(entries, s)]
  <2> HIDE DEF w
  <2>3. IsFold(entries, w)
    BY <2>2 DEF w
  <2>4. g[D] = w[D]
    BY <1>1, <1>2, <2>1, <2>3, FoldIsUnique
  <2>5. QED
    BY <2>4 DEF w
<1>5. g[D] = FirstRecord(entries, D)
  BY <1>4
<1>6. QED
  BY <1>3, <1>5 DEF FirstRecord, FirstAt, FirstOf

-----------------------------------------------------------------------------
\* What parse_report() makes of an entry has the fields of a record.
LEMMA UpdatesTyped ==
  ASSUME NEW e \in Entry
  PROVE  Updates(e) \in Record
<1>1. /\ e.status \in {NoValue, "adopted", "excluded"}
      /\ e.granularity \in {NoValue, "class_span", "module_files", "other"}
      /\ e.sources \in {NoValue, "there", "gone"} /\ e.names \in {NoValue, "listed"}
      /\ e.count \in {NoValue, "given"}
  BY DEF Entry
<1>2. Strip(e.filterCell) \in {NoValue, "pattern", "stray"}
  BY DEF Strip
<1>3. QED
  BY <1>1, <1>2 DEF Updates, Record

\* So has what is merged of a list of them.
LEMMA RecordTyped ==
  ASSUME NEW entries \in Seq(Entry)
  PROVE  /\ RecordOf(entries) \in Record
         /\ \A f \in DOMAIN Blank : RecordOf(entries)[f] = Decided(entries, f)
<1> DEFINE Given(f) == {i \in DOMAIN entries : Updates(entries[i])[f] # NoValue}
<1>1. ASSUME NEW f
      PROVE  FirstOf(entries, f) = NoValue \/ \E u \in Record : FirstOf(entries, f) = u[f]
  <2>1. CASE Given(f) = {}
    BY <2>1 DEF FirstOf
  <2>2. CASE Given(f) # {}
    <3>1. Given(f) \in SUBSET Nat /\ Given(f) \subseteq DOMAIN entries
      OBVIOUS
    <3>2. Min(Given(f)) \in Given(f)
      BY <2>2, <3>1, MinInSet
    <3>3. Updates(entries[Min(Given(f))]) \in Record
      <4>1. entries[Min(Given(f))] \in Entry
        BY <3>1, <3>2
      <4>2. QED
        BY <4>1, UpdatesTyped
    <3>4. FirstOf(entries, f) = Updates(entries[Min(Given(f))])[f]
      BY <2>2 DEF FirstOf
    <3>5. QED
      BY <3>3, <3>4
  <2>3. QED
    BY <2>1, <2>2
<1>2. Merged(entries) = [f \in DOMAIN Blank |-> FirstOf(entries, f)]
  BY MergedIsFirst
<1>3. DOMAIN Blank = {"status", "granularity", "sources", "names", "filter", "count"}
  BY DEF Blank
<1>4. /\ FirstOf(entries, "status") \in {NoValue, "adopted", "excluded"}
      /\ FirstOf(entries, "granularity") \in {NoValue, "class_span", "module_files", "other"}
      /\ FirstOf(entries, "sources") \in {NoValue, "there", "gone"}
      /\ FirstOf(entries, "names") \in {NoValue, "listed"}
      /\ FirstOf(entries, "filter") \in {NoValue, "joined", "pattern", "stray"}
      /\ FirstOf(entries, "count") \in {NoValue, "given"}
  BY <1>1 DEF Record
<1>5. Merged(entries) \in Record
  BY <1>2, <1>3, <1>4 DEF Record
<1>6. RecordOf(entries) \in Record
  BY <1>5 DEF RecordOf, NormalizeRecord, Record
<1>7. ASSUME NEW f \in DOMAIN Blank
      PROVE  RecordOf(entries)[f] = Decided(entries, f)
  BY <1>2, <1>3, <1>7 DEF RecordOf, NormalizeRecord, Decided
<1>8. QED
  BY <1>6, <1>7

\* The record of a target is that of the entries the reports have on it.
LEMMA RecOfReports ==
  ASSUME CatalogTypeOK, NEW t \in Targets
  PROVE  /\ reports[t] \in Seq(Entry)
         /\ Rec(t) = RecordOf(reports[t])
         /\ Rec(t) \in Record
<1>1. reports[t] \in Contents[t] /\ reports[t] \in UNION {Contents[u] : u \in Targets}
  BY DEF CatalogTypeOK, Selections
<1>2. reports[t] \in Seq(Entry)
  BY <1>1, CatalogAssumption DEF CatalogAssumption
<1>3. Rec(t) = RecordOf(reports[t])
  BY <1>1 DEF Rec, Records
<1>4. QED
  BY <1>2, <1>3, RecordTyped

\* The target a loop takes next is one of those that are left.
LEMMA EarliestIn ==
  ASSUME NEW S \in SUBSET Targets, S # {}
  PROVE  Earliest(S) \in S
<1> DEFINE places == {i \in DOMAIN Order : Order[i] \in S}
<1>1. Order \in Seq(STRING) /\ Targets = {Order[i] : i \in DOMAIN Order}
  BY CatalogAssumption DEF CatalogAssumption, Targets, ToSet
<1>2. places # {} /\ places \in SUBSET Nat
  BY <1>1
<1>3. Min(places) \in places
  BY <1>2, MinInSet
<1>4. QED
  BY <1>3 DEF Earliest

\* A file that was cut short, or that is not there, is a draft.
LEMMA BlankIsRecord == Blank \in Record
BY DEF Blank, Record

-----------------------------------------------------------------------------
\* The steps of bootstrap_batch_catalog.py keep its variables typed.
LEMMA CatalogTypeStep ==
  ASSUME CatalogTypeOK, CatalogNext
  PROVE  CatalogTypeOK'
<1> USE DEF CatalogTypeOK
<1>1. /\ Adopted \subseteq Targets
      /\ NoDraft \in Draft /\ [NoDraft EXCEPT !.is = "torn"] \in Draft
  BY BlankIsRecord DEF Adopted, NoDraft, Draft
<1>2. ASSUME NEW t \in Targets, EditReport(t)
      PROVE  CatalogTypeOK'
  <2>1. PICK entries \in Contents[t] : reports' = [reports EXCEPT ![t] = entries]
    BY <1>2 DEF EditReport
  <2>2. reports' \in Selections(Contents)
    BY <2>1 DEF Selections
  <2>3. QED
    BY <1>2, <2>2 DEF EditReport
<1>3. CASE BootStart
  BY <1>1, <1>3 DEF BootStart
<1>4. CASE RemoveStale
  BY <1>1, <1>4 DEF RemoveStale
<1>5. CASE WriteDraft
  <2> DEFINE t == Earliest(boot.todo)
  <2>1. t \in Targets
    BY <1>5, EarliestIn DEF WriteDraft
  <2>2. [is |-> "json", record |-> Rec(t)] \in Draft
    BY <2>1, RecOfReports DEF Draft
  <2>3. drafts' = [drafts EXCEPT ![t] = [is |-> "json", record |-> Rec(t)]]
    BY <1>5 DEF WriteDraft
  <2>4. drafts' \in [Targets -> Draft]
    BY <2>2, <2>3
  <2>5. boot' \in [at : {"idle", "stale", "write", "readiness"}, todo : SUBSET Targets,
                   current : BOOLEAN]
    BY <1>5 DEF WriteDraft
  <2>6. QED
    BY <1>5, <2>4, <2>5 DEF WriteDraft
<1>6. CASE WriteCatalog \/ BootEnds
  BY <1>1, <1>6 DEF WriteCatalog, BootEnds
<1>7. CASE BootStops
  <2>1. drafts' \in [Targets -> Draft]
    BY <1>1, <1>7 DEF BootStops
  <2>2. QED
    BY <1>7, <2>1 DEF BootStops
<1>8. QED
  BY <1>2, <1>3, <1>4, <1>5, <1>6, <1>7 DEF CatalogNext, BootProgress

\* What was written of the drafts depends on reports and drafts alone.
LEMMA SameFiles ==
  ASSUME UNCHANGED <<reports, drafts>>
  PROVE  /\ Adopted' = Adopted
         /\ \A done : Written(done)' <=> Written(done)
         /\ \A t : Rec(t)' = Rec(t)
BY DEF Adopted, Known, Rec, Written

\* At each point of a run the drafts are those of the targets that are done.
LEMMA BootStep ==
  ASSUME CatalogTypeOK, BootInv, CatalogNext
  PROVE  BootInv'
<1> USE DEF BootInv
<1>1. Adopted \subseteq Targets
  BY DEF Adopted
<1>2. ASSUME BootIdle', ~boot'.current
      PROVE  BootInv'
  BY <1>2 DEF BootIdle, DraftsAreCatalog
<1>3. ASSUME NEW t \in Targets, EditReport(t)
      PROVE  BootInv'
  BY <1>2, <1>3 DEF EditReport, BootIdle, CatalogTypeOK
<1>4. CASE BootStart
  BY <1>4, SameFiles DEF BootStart, BootIdle, DraftsAreCatalog
<1>5. CASE RemoveStale
  <2>1. /\ boot.at = "stale" /\ boot' = [boot EXCEPT !.at = "write"]
        /\ reports' = reports
        /\ drafts' = [t \in Targets |-> IF Stale(t) THEN NoDraft ELSE drafts[t]]
    BY <1>5 DEF RemoveStale
  <2>2. Adopted' = Adopted
    BY <2>1 DEF Adopted, Known, Rec
  <2>3. boot'.at = "write" /\ boot'.todo = Adopted
    BY <2>1 DEF CatalogTypeOK
  <2>4. \A t \in Targets \ Adopted : drafts'[t].is # "json"
    BY <2>1 DEF Stale, NoDraft
  <2>5. Written(Adopted \ boot.todo)'
    BY <2>2, <2>3, <2>4 DEF Written
  <2>6. QED
    BY <2>2, <2>3, <2>5 DEF BootIdle, DraftsAreCatalog
<1>6. CASE WriteDraft
  <2> DEFINE t == Earliest(boot.todo)
  <2>1. /\ boot.at = "write" /\ boot.todo # {} /\ reports' = reports
        /\ drafts' = [drafts EXCEPT ![t] = [is |-> "json", record |-> Rec(t)]]
        /\ boot' = [boot EXCEPT !.todo = boot.todo \ {t}]
    BY <1>6 DEF WriteDraft
  <2>2. t \in boot.todo /\ t \in Adopted
    BY <1>1, <2>1, EarliestIn
  <2>3. Adopted' = Adopted /\ \A u : Rec(u)' = Rec(u)
    BY <2>1 DEF Adopted, Known, Rec
  <2>4. boot'.at = "write" /\ boot'.todo = boot.todo \ {t}
    BY <2>1 DEF CatalogTypeOK
  <2> HIDE DEF t
  <2>5. \A u \in Targets : drafts'[u] = IF u = t THEN [is |-> "json", record |-> Rec(t)]
                                       ELSE drafts[u]
    BY <2>1 DEF CatalogTypeOK
  <2>6. Written(Adopted \ boot.todo)
    BY <2>1
  <2>7. Written(Adopted \ boot.todo)'
    BY <1>1, <2>2, <2>3, <2>4, <2>5, <2>6 DEF Written
  <2>8. QED
    BY <2>1, <2>3, <2>4, <2>7 DEF BootIdle, DraftsAreCatalog
<1>7. CASE WriteCatalog
  <2>1. /\ boot.at = "write" /\ boot.todo = {} /\ UNCHANGED <<reports, drafts>>
        /\ catalog' = Adopted /\ boot'.at = "readiness"
    BY <1>7 DEF WriteCatalog, CatalogTypeOK
  <2>2. Written(Adopted)
    BY <2>1
  <2>3. QED
    BY <2>1, <2>2, SameFiles DEF BootIdle, DraftsAreCatalog
<1>8. CASE BootEnds
  <2>1. /\ boot.at = "readiness" /\ UNCHANGED <<reports, drafts, catalog>>
        /\ boot'.at = "idle"
    BY <1>8 DEF BootEnds, CatalogTypeOK
  <2>2. catalog = Adopted /\ Written(Adopted)
    BY <2>1
  <2>3. QED
    BY <2>1, <2>2, SameFiles DEF Written, DraftsAreCatalog
<1>9. CASE BootStops
  BY <1>2, <1>9 DEF BootStops, BootIdle
<1>10. QED
  BY <1>3, <1>4, <1>5, <1>6, <1>7, <1>8, <1>9 DEF CatalogNext, BootProgress

-----------------------------------------------------------------------------
ConfTypeOK ==
  /\ scan \in Selections(Scans)
  /\ tree \in {"head", "other"}
  /\ final \in [Targets -> Final]
  /\ conf \in [at : {"idle", "load", "probe", "write", "report"}, probe : BOOLEAN,
               force : BOOLEAN, selected : SUBSET Targets, todo : SUBSET Targets,
               written : SUBSET Targets, tried : SUBSET Stages, passed : SUBSET Stages, head : BOOLEAN]
  /\ conf.passed \subseteq conf.tried
  /\ rows \in [Targets -> {"none", "blocked", "unprobed", "ready"}]

\* The target at hand is one of those of the catalog.
LEMMA CurrentIsTarget ==
  ASSUME ConfTypeOK, conf.todo # {}
  PROVE  Current \in conf.todo /\ Current \in Targets
BY EarliestIn DEF ConfTypeOK, Current

\* What is written of a target is a final configuration.
LEMMA FinalTyped ==
  ASSUME ConfTypeOK, NEW r
  PROVE  LET on == conf.probe /\ BaselineOk IN
         [is |-> "json", enabled |-> on, sources |-> HasSources(r),
          ran |-> on /\ Filter(r, scan[Current]) # "stray", head |-> on /\ conf.head]
           \in Final
<1> DEFINE on == conf.probe /\ BaselineOk
           ran == on /\ Filter(r, scan[Current]) # "stray"
           head == on /\ conf.head
           sources == HasSources(r)
<1>1. on \in BOOLEAN /\ ran \in BOOLEAN /\ head \in BOOLEAN
  BY DEF ConfTypeOK
<1>2. sources \in BOOLEAN
  BY DEF HasSources
<1> HIDE DEF on, ran, head, sources
<1>3. [is |-> "json", enabled |-> on, sources |-> sources, ran |-> ran, head |-> head]
        \in Final
  BY <1>1, <1>2 DEF Final
<1>4. QED
  BY <1>3 DEF on, ran, head, sources

\* The end of a target leaves a run that goes on with the others.
LEMMA DoneTyped ==
  ASSUME ConfTypeOK, conf.todo # {},
         NEW status \in {"blocked", "unprobed", "ready"},
         NEW written \in SUBSET Targets, Done(status, written)
  PROVE  /\ rows' = [rows EXCEPT ![Current] = status]
         /\ conf' = [at |-> "load", probe |-> conf.probe, force |-> conf.force,
                     selected |-> conf.selected, todo |-> conf.todo \ {Current},
                     written |-> written, tried |-> {}, passed |-> {}, head |-> FALSE]
         /\ scan' = scan /\ tree' = tree /\ final' \in [Targets -> Final] => ConfTypeOK'
<1>1. Current \in Targets
  BY CurrentIsTarget
<1>2. /\ rows' = [rows EXCEPT ![Current] = status]
      /\ conf' = [at |-> "load", probe |-> conf.probe, force |-> conf.force,
                  selected |-> conf.selected, todo |-> conf.todo \ {Current},
                  written |-> written, tried |-> {}, passed |-> {}, head |-> FALSE]
  BY DEF Done, NoConf
<1>3. scan' = scan /\ tree' = tree /\ final' \in [Targets -> Final] => ConfTypeOK'
  BY <1>1, <1>2 DEF ConfTypeOK
<1>4. QED
  BY <1>2, <1>3

\* The steps of configure_execution.py keep its variables typed.
LEMMA ConfTypeStep ==
  ASSUME ConfTypeOK, ConfInv, [SetupNext]_setupVars
  PROVE  ConfTypeOK'
<1>1. Stopped => /\ conf' = NoConf /\ rows' = [t \in Targets |-> "none"]
  BY DEF Stopped
<1>2. /\ NoConf.passed \subseteq NoConf.tried
      /\ NoConf \in [at : {"idle", "load", "probe", "write", "report"}, probe : BOOLEAN,
               force : BOOLEAN, selected : SUBSET Targets, todo : SUBSET Targets,
               written : SUBSET Targets, tried : SUBSET Stages, passed : SUBSET Stages, head : BOOLEAN]
  BY DEF NoConf
<1>3. ASSUME UNCHANGED confVars
      PROVE  ConfTypeOK'
  BY <1>3 DEF confVars, ConfTypeOK
<1>4. ASSUME NEW selected \in (SUBSET Targets) \ {{}}, NEW probe \in BOOLEAN,
             NEW force \in BOOLEAN, ConfigureStart(selected, probe, force)
      PROVE  ConfTypeOK'
  BY <1>4 DEF ConfigureStart, ConfTypeOK, NoConf
<1>5. CASE ConfigureSkips
  BY <1>5 DEF ConfigureSkips, ConfTypeOK
<1>6. CASE ConfigureBlocks
  <2>1. /\ conf.todo # {} /\ Done("blocked", conf.written)
        /\ UNCHANGED <<scan, tree, final>>
    BY <1>6 DEF ConfigureBlocks, Loaded
  <2>2. final' \in [Targets -> Final] /\ conf.written \in SUBSET Targets
    BY <2>1 DEF ConfTypeOK
  <2>3. QED
    BY <2>1, <2>2, DoneTyped
<1>7. CASE ConfigureTarget
  <2> DEFINE point == IF conf.probe THEN "probe" ELSE "write"
             clean == tree = "head"
  <2>1. /\ UNCHANGED <<scan, tree, final, rows>>
        /\ conf' = [conf EXCEPT !.at = point, !.head = clean]
    BY <1>7 DEF ConfigureTarget
  <2>2. point \in {"probe", "write"} /\ clean \in BOOLEAN
    OBVIOUS
  <2> HIDE DEF point, clean
  <2>3. QED
    BY <2>1, <2>2 DEF ConfTypeOK
<1>8. ASSUME NEW s \in Stages, NEW passed \in BOOLEAN, ProbeStage(s, passed)
      PROVE  ConfTypeOK'
  BY <1>8 DEF ProbeStage, ConfTypeOK
<1>9. CASE WriteFinal
  <2>1. conf.todo # {}
    BY <1>9 DEF WriteFinal, Writing, ConfInv
  <2> DEFINE r == drafts[Current].record
             on == conf.probe /\ BaselineOk
             status == IF ~conf.probe THEN "unprobed" ELSE IF on THEN "ready" ELSE "blocked"
             new == [is |-> "json", enabled |-> on, sources |-> HasSources(r),
                     ran |-> on /\ Filter(r, scan[Current]) # "stray",
                     head |-> on /\ conf.head]
  <2>2. /\ final' = [final EXCEPT ![Current] = new]
        /\ Done(status, conf.written \cup {Current})
        /\ UNCHANGED <<scan, tree>>
    BY <1>9 DEF WriteFinal
  <2>3. new \in Final /\ status \in {"blocked", "unprobed", "ready"}
    BY FinalTyped
  <2> HIDE DEF new, status
  <2>4. final' \in [Targets -> Final] /\ conf.written \cup {Current} \in SUBSET Targets
    BY <2>1, <2>2, <2>3, CurrentIsTarget DEF ConfTypeOK
  <2>5. QED
    BY <2>1, <2>2, <2>3, <2>4, DoneTyped
<1>10. CASE WriteReport
  BY <1>10 DEF WriteReport, ConfTypeOK
<1>11. CASE ConfigureEnds \/ LoadRaises
  BY <1>1, <1>2, <1>11 DEF ConfigureEnds, LoadRaises, ConfTypeOK
<1>12. CASE ConfigureStops
  <2>1. [NoFinal EXCEPT !.is = "torn"] \in Final
    BY DEF NoFinal, Final
  <2>2. final' \in [Targets -> Final]
    BY <1>12, <2>1 DEF ConfigureStops, ConfTypeOK
  <2>3. QED
    BY <1>1, <1>2, <1>12, <2>2 DEF ConfigureStops, ConfTypeOK
<1>13. CASE CheckoutChanges
  BY <1>13 DEF CheckoutChanges, ConfTypeOK
<1>14. QED
  BY <1>3, <1>4, <1>5, <1>6, <1>7, <1>8, <1>9, <1>10, <1>11, <1>12, <1>13
     DEF SetupNext, ConfigureProgress, setupVars

\* The rows say what the files hold, target by target.
LEMMA ConfStep ==
  ASSUME CatalogTypeOK, ConfTypeOK, ConfInv, [SetupNext]_setupVars
  PROVE  ConfInv'
<1>1. ASSUME conf'.at = "idle"
      PROVE  ConfInv'
  BY <1>1 DEF ConfInv
<1>2. CASE conf.at = "idle" /\ CatalogNext /\ UNCHANGED confVars
  BY <1>1, <1>2 DEF confVars
<1>3. ASSUME NEW selected \in (SUBSET Targets) \ {{}}, NEW probe \in BOOLEAN,
             NEW force \in BOOLEAN, ConfigureStart(selected, probe, force)
      PROVE  ConfInv'
  <2>1. /\ conf'.at = "load" /\ conf'.selected = selected
        /\ conf'.todo = {t \in Targets : drafts[t].is # "none"} /\ conf'.written = {}
        /\ \A t \in Targets : rows'[t] = "none"
        /\ UNCHANGED catalogVars /\ BootIdle
    BY <1>3 DEF ConfigureStart, SetupIdle, NoConf
  <2>2. QED
    BY <2>1 DEF ConfInv, RowTrue, BootIdle, catalogVars
<1>4. ASSUME conf.at # "idle"
      PROVE  BootIdle /\ \A t \in Targets : RowTrue(t)
  BY <1>4 DEF ConfInv, RowTrue
\* What all steps have in common that are done with the target at hand.
<1>5. ASSUME UNCHANGED catalogVars, conf.at # "idle", NEW c \in Targets,
             conf'.at = "load", conf'.selected = conf.selected,
             conf'.todo = conf.todo \ {c}, conf'.probe = conf.probe, scan' = scan,
             conf'.written \ {c} = conf.written \ {c},
             \A t \in Targets \ {c} : rows'[t] = rows[t] /\ final'[t] = final[t],
             RowTrue(c)'
      PROVE  ConfInv'
  <2>1. \A t \in Targets : RowTrue(t)'
    BY <1>4, <1>5 DEF RowTrue, catalogVars
  <2>2. BootIdle'
    BY <1>4, <1>5 DEF BootIdle, catalogVars
  <2>3. QED
    BY <1>5, <2>1, <2>2 DEF ConfInv, RowTrue
<1>6. ASSUME conf.todo # {}
      PROVE  \E c \in Targets : c = Current /\ c \in conf.todo
  BY <1>6, CurrentIsTarget
<1>7. CASE ConfigureSkips
  <2>1. /\ conf.at = "load" /\ conf.todo # {} /\ Current \notin conf.selected
        /\ UNCHANGED catalogVars /\ UNCHANGED <<rows, final, scan>>
        /\ conf' = [conf EXCEPT !.todo = conf.todo \ {Current}]
    BY <1>7 DEF ConfigureSkips, Loaded
  <2>2. PICK c \in Targets : c = Current /\ c \in conf.todo
    BY <1>6, <2>1
  <2>3. /\ conf'.at = "load" /\ conf'.selected = conf.selected
        /\ conf'.todo = conf.todo \ {c}
        /\ conf'.probe = conf.probe /\ conf'.written = conf.written
    BY <2>1, <2>2 DEF ConfTypeOK
  <2>4. RowTrue(c)
    BY <1>4, <2>1
  <2>5. RowTrue(c)'
    BY <2>1, <2>2, <2>3, <2>4 DEF RowTrue, catalogVars
  <2>6. QED
    BY <1>5, <2>1, <2>3, <2>5
<1>8. CASE ConfigureBlocks
  <2>1. /\ conf.at = "load" /\ conf.todo # {} /\ Current \in conf.selected
        /\ drafts[Current].is = "json" /\ Done("blocked", conf.written)
        /\ UNCHANGED catalogVars /\ final' = final /\ scan' = scan
    BY <1>8 DEF ConfigureBlocks, Loaded
  <2>2. PICK c \in Targets : c = Current /\ c \in conf.todo
    BY <1>6, <2>1
  <2>3. /\ rows' = [rows EXCEPT ![c] = "blocked"]
        /\ conf'.at = "load" /\ conf'.selected = conf.selected
        /\ conf'.todo = conf.todo \ {c}
        /\ conf'.probe = conf.probe /\ conf'.written = conf.written
    <3>1. conf.written \in SUBSET Targets
      BY DEF ConfTypeOK
    <3>2. QED
      BY <2>1, <2>2, <3>1, DoneTyped
  <2>4. /\ \A t \in Targets \ {c} : rows'[t] = rows[t]
        /\ rows'[c] = "blocked"
    BY <2>3 DEF ConfTypeOK
  <2>5. RowTrue(c)'
    BY <1>4, <2>1, <2>2, <2>3, <2>4 DEF RowTrue, catalogVars
  <2>6. QED
    BY <1>5, <2>1, <2>3, <2>4, <2>5
<1>9. CASE ConfigureTarget
  <2>1. /\ conf.at = "load" /\ conf.todo # {} /\ Current \in conf.selected
        /\ drafts[Current].is = "json" /\ ~Kept /\ ~CurrentBlocked
        /\ UNCHANGED <<catalogVars, rows, final, scan>>
        /\ conf' = [conf EXCEPT !.at = IF conf.probe THEN "probe" ELSE "write",
                                !.head = tree = "head"]
    BY <1>9 DEF ConfigureTarget, Loaded
  <2>2. /\ conf'.at \in {"probe", "write"} /\ conf'.selected = conf.selected
        /\ conf'.todo = conf.todo /\ conf'.force = conf.force
        /\ conf'.probe = conf.probe /\ conf'.written = conf.written
    BY <2>1 DEF ConfTypeOK
  <2>3. Current' = Current
    BY <2>2 DEF Current
  <2>4. /\ final[Current].is # "none" => conf.force
        /\ ~Blocked(drafts[Current].record, scan[Current])
    BY <2>1 DEF Kept, CurrentBlocked
  <2>5. \A t \in Targets : RowTrue(t)'
    BY <1>4, <2>1, <2>2 DEF RowTrue, catalogVars
  <2>6. BootIdle'
    BY <1>4, <2>1 DEF BootIdle, catalogVars
  <2>7. QED
    BY <2>1, <2>2, <2>3, <2>4, <2>5, <2>6 DEF ConfInv, catalogVars
<1>10. ASSUME NEW s \in Stages, NEW passed \in BOOLEAN, ProbeStage(s, passed)
       PROVE  ConfInv'
  <2>1. /\ conf.at = "probe" /\ UNCHANGED <<catalogVars, rows, final, scan>>
        /\ conf'.at = conf.at /\ conf'.selected = conf.selected
        /\ conf'.todo = conf.todo /\ conf'.force = conf.force
        /\ conf'.probe = conf.probe /\ conf'.written = conf.written
    BY <1>10 DEF ProbeStage, ConfTypeOK
  <2>2. Current' = Current
    BY <2>1 DEF Current
  <2>3. QED
    BY <2>1, <2>2 DEF ConfInv, RowTrue, BootIdle, catalogVars
<1>11. CASE WriteFinal
  <2> DEFINE on == conf.probe /\ BaselineOk
             status == IF ~conf.probe THEN "unprobed" ELSE IF on THEN "ready" ELSE "blocked"
  <2>1. /\ conf.at \in {"probe", "write"} /\ Done(status, conf.written \cup {Current})
        /\ UNCHANGED catalogVars /\ scan' = scan
        /\ \E new : /\ final' = [final EXCEPT ![Current] = new]
                    /\ new.is = "json" /\ new.enabled = on
    <3> DEFINE r == drafts[Current].record
               new == [is |-> "json", enabled |-> on, sources |-> HasSources(r),
                       ran |-> on /\ Filter(r, scan[Current]) # "stray",
                       head |-> on /\ conf.head]
    <3>1. /\ conf.at \in {"probe", "write"} /\ Done(status, conf.written \cup {Current})
          /\ UNCHANGED catalogVars /\ scan' = scan
      BY <1>11 DEF WriteFinal, Writing
    <3>2. final' = [final EXCEPT ![Current] = new]
      BY <1>11 DEF WriteFinal
    <3>3. new.is = "json" /\ new.enabled = on
      OBVIOUS
    <3> HIDE DEF new, status, on
    <3>4. QED
      BY <3>1, <3>2, <3>3
  <2>2. /\ conf.todo # {} /\ Current \in conf.selected /\ drafts[Current].is = "json"
        /\ ~Blocked(drafts[Current].record, scan[Current])
    BY <2>1 DEF ConfInv
  <2>3. PICK c \in Targets : c = Current /\ c \in conf.todo
    BY <1>6, <2>2
  <2>4. status \in {"blocked", "unprobed", "ready"}
    OBVIOUS
  <2>5. /\ rows' = [rows EXCEPT ![c] = status]
        /\ conf'.at = "load" /\ conf'.selected = conf.selected
        /\ conf'.todo = conf.todo \ {c}
        /\ conf'.probe = conf.probe /\ conf'.written = conf.written \cup {c}
    <3> HIDE DEF status
    <3>1. conf.written \cup {Current} \in SUBSET Targets
      BY <2>3 DEF ConfTypeOK
    <3>2. QED
      BY <2>1, <2>2, <2>3, <2>4, <3>1, DoneTyped
  <2>6. /\ \A t \in Targets \ {c} : rows'[t] = rows[t] /\ final'[t] = final[t]
        /\ rows'[c] = status /\ final'[c].is = "json" /\ final'[c].enabled = on
    <3> HIDE DEF status, on
    <3>1. QED
      BY <2>1, <2>3, <2>5 DEF ConfTypeOK
  <2>7. /\ status = "ready" => on /\ conf.probe
        /\ status = "unprobed" => ~on /\ ~conf.probe
        /\ status # "none"
    OBVIOUS
  <2>8. RowTrue(c)'
    <3> HIDE DEF status, on
    <3>1. /\ c \in conf'.selected /\ drafts'[c].is = "json" /\ c \notin conf'.todo
          /\ conf'.probe = conf.probe /\ c \in conf'.written
          /\ ~Blocked(drafts'[c].record, scan'[c])
      BY <2>1, <2>2, <2>3, <2>5 DEF catalogVars
    <3>2. QED
      BY <2>6, <2>7, <3>1 DEF RowTrue
  <2>9. QED
    BY <1>5, <2>1, <2>5, <2>6, <2>8
<1>12. CASE WriteReport
  <2>1. /\ conf.at = "load" /\ conf.todo = {}
        /\ UNCHANGED <<catalogVars, rows, final, scan>>
        /\ conf'.at = "report" /\ conf'.selected = conf.selected /\ conf'.todo = conf.todo
        /\ conf'.probe = conf.probe /\ conf'.written = conf.written
    BY <1>12 DEF WriteReport, ConfTypeOK
  <2>2. QED
    BY <2>1 DEF ConfInv, RowTrue, BootIdle, catalogVars
<1>13. CASE ConfigureEnds \/ LoadRaises \/ ConfigureStops
  BY <1>1, <1>13 DEF ConfigureEnds, LoadRaises, ConfigureStops, Stopped, NoConf
<1>14. CASE CheckoutChanges
  BY <1>1, <1>14 DEF CheckoutChanges, SetupIdle
<1>15. CASE UNCHANGED setupVars
  <2>1. UNCHANGED <<boot, drafts, conf, rows, final, scan>>
    BY <1>15 DEF setupVars, catalogVars, confVars
  <2>2. QED
    BY <2>1 DEF ConfInv, RowTrue, BootIdle, Current
<1>16. QED
  BY <1>2, <1>3, <1>7, <1>8, <1>9, <1>10, <1>11, <1>12, <1>13, <1>14, <1>15
     DEF SetupNext, ConfigureProgress

-----------------------------------------------------------------------------
\* The inductive invariant holds before either script was run.
LEMMA SetupInitInv == ConfigureInit => SetupIInv
<1> SUFFICES ASSUME ConfigureInit PROVE SetupIInv
  OBVIOUS
<1>1. CatalogTypeOK /\ BootInv
  BY BlankIsRecord
     DEF ConfigureInit, CatalogInit, CatalogTypeOK, BootInv, DraftsAreCatalog, NoDraft, Draft
<1>2. ConfTypeOK /\ ConfInv
  BY DEF ConfigureInit, ConfTypeOK, ConfInv, NoConf, NoFinal, Final
<1>3. QED
  BY <1>1, <1>2 DEF SetupIInv, ConfigureTypeOK, ConfTypeOK

\* Every step of either script, and what happens between them, keeps it.
LEMMA SetupNextInv == SetupIInv /\ [SetupNext]_setupVars => SetupIInv'
<1> SUFFICES ASSUME SetupIInv, [SetupNext]_setupVars PROVE SetupIInv'
  OBVIOUS
<1>1. CatalogTypeOK /\ BootInv /\ ConfTypeOK /\ ConfInv
  BY DEF SetupIInv, ConfigureTypeOK, ConfTypeOK
<1>2. ConfTypeOK' /\ ConfInv'
  BY <1>1, ConfTypeStep, ConfStep
<1>3. CASE CatalogNext
  <2>1. CatalogTypeOK' /\ BootInv'
    BY <1>1, <1>3, CatalogTypeStep, BootStep
  <2>2. QED
    BY <1>2, <2>1 DEF SetupIInv, ConfigureTypeOK, ConfTypeOK
<1>4. CASE UNCHANGED catalogVars
  <2>1. CatalogTypeOK' /\ BootInv'
    BY <1>1, <1>4
       DEF catalogVars, CatalogTypeOK, BootInv, Written, DraftsAreCatalog, BootIdle,
           Adopted, Known, Rec
  <2>2. QED
    BY <1>2, <2>1 DEF SetupIInv, ConfigureTypeOK, ConfTypeOK
<1>5. QED
  BY <1>3, <1>4
     DEF SetupNext, ConfigureProgress, ConfigureStart, ConfigureSkips, ConfigureBlocks,
         ConfigureTarget, ProbeStage, WriteFinal, WriteReport, ConfigureEnds, LoadRaises,
         ConfigureStops, CheckoutChanges, setupVars

\* The inductive invariant holds in every state the two scripts can reach.
THEOREM SetupInvariance == SetupSpec => []SetupIInv
BY SetupInitInv, SetupNextInv, PTL DEF SetupSpec

\* Every variable of the two scripts keeps its type: whatever the reports say, a
\* draft holds a record.
THEOREM SetupTypeCorrect == SetupSpec => []ConfigureTypeOK
<1>1. SetupIInv => ConfigureTypeOK
  BY DEF SetupIInv
<1>2. QED
  BY <1>1, SetupInvariance, PTL

\* After a run of bootstrap_batch_catalog.py that ended the drafts are the catalog,
\* whatever earlier runs were stopped at.
THEOREM DraftsAreTheCatalog == SetupSpec => []DraftsAreCatalog
<1>1. SetupIInv => DraftsAreCatalog
  BY DEF SetupIInv, BootInv
<1>2. QED
  BY <1>1, SetupInvariance, PTL

\* Of every field of a draft the first value that any report has decides, for
\* reports of any length.
THEOREM FirstValueDecides == SetupSpec => []FirstDecides
<1>1. ASSUME SetupIInv, boot.at = "readiness", NEW t \in Targets
      PROVE  /\ t \in catalog <=> Known(t) /\ FirstOf(reports[t], "status") # "excluded"
             /\ t \in catalog =>
                  \A f \in DOMAIN Blank : drafts[t].record[f] = Decided(reports[t], f)
  <2>1. CatalogTypeOK /\ catalog = Adopted /\ Written(Adopted)
    BY <1>1 DEF SetupIInv, ConfigureTypeOK, BootInv
  <2>2. \A f \in DOMAIN Blank : Rec(t)[f] = Decided(reports[t], f)
    BY <2>1, RecOfReports, RecordTyped
  <2>3. "status" \in DOMAIN Blank
    BY DEF Blank
  <2>4. t \in catalog <=> Known(t) /\ FirstOf(reports[t], "status") # "excluded"
    <3>1. Rec(t)["status"] = FirstOf(reports[t], "status")
      BY <2>2, <2>3 DEF Decided
    <3>2. QED
      BY <2>1, <3>1 DEF Adopted
  <2>5. ASSUME t \in catalog
        PROVE  drafts[t].record = Rec(t)
    <3>1. drafts[t] = [is |-> "json", record |-> Rec(t)]
      BY <2>1, <2>5, Zenon DEF Written
    <3>2. QED
      BY <3>1
  <2>6. QED
    <3>1. ASSUME t \in catalog, NEW f \in DOMAIN Blank
          PROVE  drafts[t].record[f] = Decided(reports[t], f)
      BY <2>2, <2>5, <3>1
    <3>2. QED
      BY <2>4, <3>1
<1>2. SetupIInv => FirstDecides
  BY <1>1, Zenon DEF FirstDecides
<1>3. QED
  BY <1>2, SetupInvariance, PTL

\* When the report of configure_execution.py is written it is true of the files:
\* a target is ready by what this run wrote, and not by an enabled configuration
\* of an earlier run that it keeps.
THEOREM ReportIsTrue == SetupSpec => []ReportTrue
<1>1. SetupIInv => ReportTrue
  BY DEF SetupIInv, ConfInv, RowTrue, ReportTrue
<1>2. QED
  BY <1>1, SetupInvariance, PTL

\* A final configuration is only replaced with --force, and only one of a target
\* that was selected.
THEOREM ConfigurationsAreKept == SetupSpec => UnforcedKept
<1>1. ASSUME SetupIInv, [SetupNext]_setupVars, NEW t \in Targets,
             final[t].is # "none", final'[t] # final[t]
      PROVE  conf.force /\ t \in conf.selected
  <2>1. ConfTypeOK /\ ConfInv /\ final' # final
    BY <1>1 DEF SetupIInv, ConfigureTypeOK, ConfTypeOK
  <2>2. ASSUME Writing, NEW new, final' = [final EXCEPT ![Current] = new]
        PROVE  conf.force /\ t \in conf.selected
    <3>1. conf.at \in {"probe", "write"} /\ t = Current
      BY <1>1, <2>1, <2>2 DEF Writing, ConfTypeOK
    <3>2. QED
      BY <1>1, <2>1, <3>1 DEF ConfInv
  <2>3. CASE WriteFinal
    BY <2>2, <2>3 DEF WriteFinal
  <2>4. CASE ConfigureStops
    BY <2>1, <2>2, <2>4 DEF ConfigureStops
  <2>5. QED
    BY <1>1, <2>1, <2>3, <2>4
       DEF SetupNext, ConfigureProgress, ConfigureStart, ConfigureSkips, ConfigureBlocks,
           ConfigureTarget, ProbeStage, WriteReport, ConfigureEnds, LoadRaises,
           CheckoutChanges, setupVars, confVars
<1>2. SetupIInv /\ [SetupNext]_setupVars =>
        [\A t \in Targets :
           final[t].is # "none" /\ final'[t] # final[t] =>
             conf.force /\ t \in conf.selected]_setupVars
  BY <1>1
<1>3. QED
  BY <1>2, SetupInvariance, PTL DEF SetupSpec, UnforcedKept
=============================================================================
