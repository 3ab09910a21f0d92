-------------------------- MODULE MarketData_proofs -------------------------
(***************************************************************************)
(* The evidence directory for any range, venue, page size, processes and   *)
(* faults: what is on disk loads again, and a complete walk holds every    *)
(* candle of the range that was published all along.                       *)
(*                                                                         *)
(* Every piece of evidence, on disk or held by a process, is a Walk: it is *)
(* well formed and covers the range from its next boundary up (Covers), so *)
(* that completeness needs no induction over pages.  Chain says why one    *)
(* collector never finds two walks before the first checkpoint: whatever   *)
(* it holds extends every snapshot on disk.                                *)
(*                                                                         *)
(* The second part is about the frame made of those candles                *)
(* (CandleQuality), for any sequence of bars: no row changes when more     *)
(* bars complete, entry signals stand on real bars and a warm-up, and the  *)
(* walk-forward runner accepts the quality surface.                        *)
(***************************************************************************)
EXTENDS CandleCollection, CandleQuality, FiniteSetTheorems, SequenceTheorems, WellFoundedInduction, TLAPS


\* The candles that are on the venue all along.
Permanent == (0..End - 1) \ Missing

Values == {0, 1}
Row == (0..End - 1) \X Values

\* Evidence by its fields.
Evidence == [pages : Seq(Pages), next : 0..End, complete : BOOLEAN]

Times(rows) == {Time(r) : r \in rows}

\* What a walk has seen: only published candles, and from its boundary up all
\* that were there all along.
Covers(e, published) ==
    /\ \A r \in Rows(e) : r \in Row /\ Time(r) \in published
    /\ \A t \in Permanent : e.next <= t => t \in Times(Rows(e))
    /\ e.complete => \A t \in Permanent : Start <= t => t \in Times(Rows(e))

\* Evidence of one walk.
Walked(e, published) == e \in Evidence /\ WalksBack(e) /\ Covers(e, published)

\* An answer that the walk can go on with.
Fits(e, rows, published) ==
    /\ rows \subseteq Row /\ \A r \in rows : Time(r) \in published
    /\ rows # {} => Oldest(rows) < e.next
    /\ \A t \in Permanent : t < e.next /\ (rows = {} \/ Oldest(rows) <= t) => t \in Times(rows)

Collecting == {"fetch", "page", "snapshot", "checkpoint"}

\* The venue only ever publishes.
Venue ==
    /\ Permanent \subseteq Published /\ Published \subseteq 0..End - 1
    /\ \A t \in Published : venue[t] \in Values
    /\ loaded \in BOOLEAN

\* The pages of a walk are in a set of page files.
Durable(e, pages) == \A k \in 1..Len(e.pages) : e.pages[k].rows \in pages

\* The directory holds walks whose pages are there.
Directory ==
    /\ disk \in [pages : SUBSET SUBSET Row, snapshots : SUBSET Evidence, checkpoint : {NoEvidence} \cup Evidence,
                 temporary : BOOLEAN]
    /\ \A e \in disk.snapshots : Walked(e, Published) /\ e.pages # <<>> /\ Durable(e, disk.pages)
    /\ disk.checkpoint = NoEvidence \/ disk.checkpoint \in disk.snapshots

\* A process goes on from what is on disk.
Holding ==
    /\ pc \in [Procs -> {"off", "idle"} \cup Collecting]
    /\ ev \in [Procs -> Evidence] /\ page \in [Procs -> SUBSET Row] /\ attempt \in [Procs -> 0..Attempts - 1]
    /\ \A p \in Procs :
          /\ ev[p] = NewEvidence \/ ev[p] \in disk.snapshots
          /\ ~ev[p].complete
          /\ pc[p] \in {"page", "snapshot", "checkpoint"} => Fits(ev[p], page[p], Published)
          /\ pc[p] \in {"snapshot", "checkpoint"} => page[p] \in disk.pages
          /\ pc[p] = "checkpoint" => Advanced(ev[p], page[p]) \in disk.snapshots

\* Everything on disk is a step of the one walk that e is the latest of.
Latest(e, snapshots) == \A other \in snapshots : Extends(e, other)

\* Before the first checkpoint one collector leaves one walk.
Chain ==
    Alone /\ disk.checkpoint = NoEvidence =>
        /\ disk.snapshots = {} \/ \E tip \in disk.snapshots : Latest(tip, disk.snapshots)
        /\ \A p \in Procs : /\ pc[p] \in {"fetch", "page", "snapshot"} => Latest(ev[p], disk.snapshots)
                            /\ pc[p] = "checkpoint" => Latest(Advanced(ev[p], page[p]), disk.snapshots)

Inv == Venue /\ Directory /\ Holding /\ Chain

-----------------------------------------------------------------------------
\* Numbers and rows

\* What the assumption says of the constants.
LEMMA Constants ==
    /\ Start \in Nat /\ End \in Nat /\ PageSize \in Nat /\ Attempts \in Nat \ {0}
    /\ Start <= End /\ PageSize > 1 /\ 0 \in 0..Attempts - 1
    /\ Missing \subseteq 0..End - 1 /\ Permanent \subseteq 0..End - 1
BY CollectionAssumption DEF Permanent

\* A set of numbers that is not empty has a smallest element, its minimum.
LEMMA MinimumOf ==
    ASSUME NEW S \in SUBSET Nat, S # {}
    PROVE  Min(S) \in S /\ \A y \in S : Min(S) <= y
<1> DEFINE below == {ss \in Nat \X Nat : ss[1] < ss[2]}
<1>1. PICK x \in S : \A y \in S : <<y, x>> \notin below
  <2>1. IsWellFoundedOn(below, Nat)
    BY NatLessThanWellFounded DEF OpToRel
  <2> HIDE DEF below
  <2>2. QED
    BY <2>1, WFMin
<1>2. \A y \in S : x <= y
  <2>1. ASSUME NEW y \in S, y < x PROVE <<y, x>> \in below
    BY <2>1
  <2> HIDE DEF below
  <2>2. \A y \in S : ~(y < x)
    BY <1>1, <2>1
  <2>3. QED
    BY <2>2
<1>3. QED
  BY <1>2 DEF Min

\* A set of numbers below a bound that is not empty has a largest element.
LEMMA LargestOf ==
    ASSUME NEW n \in Nat, NEW S \in SUBSET (0..n), S # {}
    PROVE  \E m \in S : \A y \in S : y <= m
<1> DEFINE T == {n - k : k \in S}
<1>1. T \in SUBSET Nat /\ T # {}
  <2>1. PICK k \in S : TRUE
    OBVIOUS
  <2>2. n - k \in T
    OBVIOUS
  <2>3. \A j \in S : n - j \in Nat
    OBVIOUS
  <2>4. QED
    BY <2>2, <2>3
<1>2. Min(T) \in T /\ \A y \in T : Min(T) <= y
  BY <1>1, MinimumOf
<1>3. PICK m \in S : Min(T) = n - m
  BY <1>2
<1>4. ASSUME NEW y \in S PROVE y <= m
  <2>1. n - y \in T
    OBVIOUS
  <2>2. n - m <= n - y
    BY <1>2, <1>3, <2>1
  <2>3. QED
    BY <2>2
<1>5. QED
  BY <1>4

\* The oldest row of a page.
LEMMA OldestRow ==
    ASSUME NEW rows \in SUBSET Row
    PROVE  /\ rows = {} => Oldest(rows) = -1
           /\ rows # {} => /\ Oldest(rows) \in 0..End - 1 /\ Oldest(rows) \in Times(rows)
                           /\ \A r \in rows : Oldest(rows) <= Time(r)
           /\ Times(rows) \subseteq 0..End - 1
<1>1. Times(rows) \in SUBSET (0..End - 1)
  BY DEF Times, Row, Time
<1>2. ASSUME rows # {}
      PROVE  /\ Oldest(rows) \in 0..End - 1 /\ Oldest(rows) \in Times(rows)
             /\ \A r \in rows : Oldest(rows) <= Time(r)
  <2>1. Times(rows) # {} /\ \A r \in rows : Time(r) \in Times(rows)
    BY <1>2 DEF Times
  <2>2. Times(rows) \in SUBSET Nat
    BY <1>1, Constants
  <2>3. Oldest(rows) = Min(Times(rows))
    BY <1>2 DEF Oldest, Times
  <2>4. QED
    BY <1>1, <2>1, <2>2, <2>3, MinimumOf
<1>3. rows = {} => Oldest(rows) = -1
  BY DEF Oldest, None
<1>4. QED
  BY <1>1, <1>2, <1>3

\* The rows of an answer are published, and none between the oldest of them and
\* the boundary is left out (fetch_page).
LEMMA AnswerComplete ==
    ASSUME Venue, NEW to \in 0..End
    PROVE  /\ Answer(to) \in SUBSET Row /\ \A r \in Answer(to) : Time(r) \in Published
           /\ \A t \in Published :
                 t < to /\ (Answer(to) = {} \/ Oldest(Answer(to)) <= t) => t \in Times(Answer(to))
<1> DEFINE before == {t \in Published : t < to \/ (mode.inclusive /\ t = to)}
           above(u) == {w \in before : w > u}
           rows == Answer(to)
<1>1. rows = {<<t, venue[t]>> : t \in {u \in before : Cardinality(above(u)) < PageSize}}
  BY DEF Answer
<1>2. before \in SUBSET (0..End - 1) /\ \A t \in before : t \in Published /\ <<t, venue[t]>> \in Row
  BY DEF Venue, Row
<1>3. \A r \in rows : r \in Row /\ Time(r) \in before /\ Cardinality(above(Time(r))) < PageSize
  <2>1. ASSUME NEW r \in rows PROVE r \in Row /\ Time(r) \in before /\ Cardinality(above(Time(r))) < PageSize
    <3>1. PICK t \in before : r = <<t, venue[t]>> /\ Cardinality(above(t)) < PageSize
      BY <1>1, <2>1
    <3>2. Time(r) = t
      BY <3>1 DEF Time
    <3>3. QED
      BY <1>2, <3>1, <3>2
  <2>2. QED
    BY <2>1
<1>4. \A t \in before : Cardinality(above(t)) < PageSize => t \in Times(rows)
  <2>1. ASSUME NEW t \in before, Cardinality(above(t)) < PageSize PROVE t \in Times(rows)
    <3>1. <<t, venue[t]>> \in rows
      BY <1>1, <2>1
    <3>2. Time(<<t, venue[t]>>) = t
      BY DEF Time
    <3>3. QED
      BY <3>1, <3>2 DEF Times
  <2>2. QED
    BY <2>1
<1>5. IsFiniteSet(before)
  <2>1. End - 1 \in Int
    BY Constants
  <2>2. IsFiniteSet(0..End - 1)
    BY <2>1, FS_Interval
  <2>3. QED
    BY <1>2, <2>2, FS_Subset
<1> HIDE DEF before, rows
<1>6. ASSUME NEW t \in before, rows = {} PROVE FALSE
  <2>1. before \in SUBSET (0..End) /\ End \in Nat
    BY <1>2, Constants
  <2>2. PICK m \in before : \A w \in before : w <= m
    BY <1>6, <2>1, LargestOf
  <2>3. above(m) = {}
    <3>1. before \in SUBSET Int
      BY <1>2
    <3>2. \A w \in before : ~(w > m)
      BY <2>2, <3>1
    <3>3. QED
      BY <3>2
  <2>4. Cardinality(above(m)) < PageSize
    BY <2>3, FS_EmptySet, Constants
  <2>5. QED
    BY <1>4, <1>6, <2>2, <2>4 DEF Times
<1>7. ASSUME NEW t \in before, rows # {}, Oldest(rows) <= t PROVE t \in Times(rows)
  <2>1. rows \in SUBSET Row
    BY <1>3
  <2>2. Oldest(rows) \in Times(rows) /\ Oldest(rows) \in 0..End - 1
    BY <1>7, <2>1, OldestRow
  <2>3. PICK r \in rows : Oldest(rows) = Time(r)
    BY <2>2 DEF Times
  <2>4. Cardinality(above(Oldest(rows))) < PageSize
    BY <1>3, <2>3
  <2>5. above(t) \subseteq above(Oldest(rows))
    <3>1. before \in SUBSET Int /\ Oldest(rows) \in Int
      BY <1>2, <2>2
    <3>2. \A w \in before : w > t => w > Oldest(rows)
      BY <1>7, <3>1
    <3>3. QED
      BY <3>2
  <2>6. IsFiniteSet(above(Oldest(rows)))
    BY <1>5, FS_Subset
  <2>7. /\ Cardinality(above(t)) <= Cardinality(above(Oldest(rows)))
        /\ Cardinality(above(t)) \in Nat /\ Cardinality(above(Oldest(rows))) \in Nat
    BY <2>5, <2>6, FS_Subset, FS_CardinalityType
  <2>8. QED
    BY <1>4, <2>4, <2>7, Constants
<1>8. \A t \in Published : t < to => t \in before
  BY DEF before
<1>9. rows = Answer(to)
  BY DEF rows
<1>10. QED
  BY <1>2, <1>3, <1>6, <1>7, <1>8, <1>9

-----------------------------------------------------------------------------
\* A walk and its next page

\* The page a walk adds, and its fields.
Page(e, rows) == [rows |-> rows, request |-> e.next, oldest |-> Oldest(rows)]

\* The fields of that page.
LEMMA PageFields ==
    \A e, rows : Page(e, rows).rows = rows /\ Page(e, rows).request = e.next /\ Page(e, rows).oldest = Oldest(rows)
BY DEF Page

\* The pages of a walk with one more.
LEMMA AdvancedPages ==
    ASSUME NEW e \in Evidence, NEW rows \in SUBSET Row
    PROVE  /\ Len(e.pages) \in Nat
           /\ Len(Advanced(e, rows).pages) = Len(e.pages) + 1
           /\ \A k \in 1..Len(e.pages) : Advanced(e, rows).pages[k] = e.pages[k]
           /\ Advanced(e, rows).pages[Len(e.pages) + 1] = Page(e, rows)
           /\ Advanced(e, rows).next = NextTo(rows, e.next)
           /\ Advanced(e, rows).complete <=> (rows = {} \/ Oldest(rows) < Start)
           /\ Advanced(e, rows) \in Evidence /\ Advanced(e, rows).pages # <<>>
<1>1. e.pages \in Seq(Pages) /\ e.next \in 0..End
  BY DEF Evidence
<1>2. Page(e, rows) \in Pages
  <2>1. rows \subseteq (0..End) \X {0, 1}
    BY Constants DEF Row, Values
  <2>2. Oldest(rows) \in -1..End
    BY OldestRow, Constants
  <2>3. QED
    BY <1>1, <2>1, <2>2 DEF Page, Pages
<1> DEFINE ps == Append(e.pages, Page(e, rows))
<1>3. /\ ps \in Seq(Pages) /\ Len(ps) = Len(e.pages) + 1
      /\ \A k \in 1..Len(e.pages) : ps[k] = e.pages[k]
      /\ ps[Len(e.pages) + 1] = Page(e, rows)
      /\ Len(e.pages) \in Nat
  BY <1>1, <1>2
<1>4. Advanced(e, rows) = [pages |-> ps, next |-> NextTo(rows, e.next), complete |-> rows = {} \/ Oldest(rows) < Start]
  BY DEF Advanced, Page
<1>5. NextTo(rows, e.next) \in 0..End
  BY <1>1, OldestRow, Constants DEF NextTo
<1>6. (rows = {} \/ Oldest(rows) < Start) \in BOOLEAN
  OBVIOUS
<1> HIDE DEF ps
<1>7. Advanced(e, rows) \in Evidence
  BY <1>3, <1>4, <1>5, <1>6 DEF Evidence
<1>8. ps # <<>>
  BY <1>3
<1>9. Advanced(e, rows).complete <=> (rows = {} \/ Oldest(rows) < Start)
  BY DEF Advanced
<1>10. Advanced(e, rows).pages = ps /\ Advanced(e, rows).next = NextTo(rows, e.next)
  BY <1>4
<1>11. QED
  BY <1>3, <1>7, <1>8, <1>9, <1>10

\* The rows of a walk with one more page.
LEMMA AdvancedRows ==
    ASSUME NEW e \in Evidence, NEW rows \in SUBSET Row
    PROVE  Rows(Advanced(e, rows)) = Rows(e) \cup rows
<1> DEFINE a == Advanced(e, rows)
<1>1. /\ Len(e.pages) \in Nat /\ Len(a.pages) = Len(e.pages) + 1
      /\ \A k \in 1..Len(e.pages) : a.pages[k] = e.pages[k]
      /\ a.pages[Len(e.pages) + 1].rows = rows
  BY AdvancedPages, PageFields
<1> HIDE DEF a
<1>2. 1..Len(a.pages) = (1..Len(e.pages)) \cup {Len(e.pages) + 1}
  BY <1>1
<1>3. Rows(a) \subseteq Rows(e) \cup rows
  <2>1. ASSUME NEW k \in 1..Len(a.pages) PROVE a.pages[k].rows \subseteq Rows(e) \cup rows
    <3>1. CASE k \in 1..Len(e.pages)
      BY <1>1, <3>1 DEF Rows
    <3>2. CASE k = Len(e.pages) + 1
      BY <1>1, <3>2
    <3>3. QED
      BY <1>2, <3>1, <3>2
  <2>2. QED
    BY <2>1 DEF Rows
<1>4. Rows(e) \subseteq Rows(a)
  <2>1. ASSUME NEW k \in 1..Len(e.pages) PROVE e.pages[k].rows \subseteq Rows(a)
    <3>1. a.pages[k].rows = e.pages[k].rows /\ k \in 1..Len(a.pages)
      BY <1>1, <1>2
    <3>2. QED
      BY <3>1 DEF Rows
  <2>2. QED
    BY <2>1 DEF Rows
<1>5. rows \subseteq Rows(a)
  <2>1. Len(e.pages) + 1 \in 1..Len(a.pages)
    BY <1>1
  <2>2. QED
    BY <1>1, <2>1 DEF Rows
<1>6. QED
  BY <1>3, <1>4, <1>5 DEF a

\* The checks of _validate_pagination_state, one page at a time.
Chained(e) ==
    \A k \in 1..Len(e.pages) :
        /\ e.pages[k].request = IF k = 1 THEN End ELSE e.pages[k - 1].oldest
        /\ e.pages[k].rows = {} => k = Len(e.pages) /\ e.complete
        /\ e.pages[k].rows # {} =>
              /\ e.pages[k].oldest < e.pages[k].request
              /\ e.pages[k].oldest < Start => k = Len(e.pages) /\ e.complete
Ended(e) ==
    LET n == Len(e.pages)
    IN  /\ e.complete => n > 0
        /\ e.next = IF n = 0 THEN End
                    ELSE IF e.pages[n].rows = {} THEN e.pages[n].request ELSE e.pages[n].oldest
        /\ e.complete /\ e.pages[n].rows # {} => e.pages[n].oldest < Start

\* WalksBack by its two parts.
LEMMA WalksBackParts == \A e : WalksBack(e) <=> Chained(e) /\ Ended(e)
BY DEF WalksBack, Chained, Ended

\* A walk that goes on with the next answer is a walk (persist_raw_page).
LEMMA AdvancedWalks ==
    ASSUME NEW published, NEW e, Walked(e, published), ~e.complete, NEW rows, Fits(e, rows, published)
    PROVE  Walked(Advanced(e, rows), published)
<1> DEFINE a == Advanced(e, rows)
           n == Len(e.pages)
<1>1. e \in Evidence /\ Chained(e) /\ Ended(e) /\ Covers(e, published)
  BY WalksBackParts DEF Walked
<1>2. rows \in SUBSET Row /\ e.next \in 0..End
  BY <1>1 DEF Fits, Evidence
<1>3. /\ n \in Nat /\ Len(a.pages) = n + 1
      /\ \A k \in 1..n : a.pages[k] = e.pages[k]
      /\ a.pages[n + 1] = Page(e, rows)
      /\ a.next = NextTo(rows, e.next)
      /\ a.complete <=> (rows = {} \/ Oldest(rows) < Start)
      /\ a \in Evidence
  BY <1>1, <1>2, AdvancedPages
<1>4. Rows(a) = Rows(e) \cup rows
  BY <1>1, <1>2, AdvancedRows
<1>5. Page(e, rows).rows = rows /\ Page(e, rows).request = e.next /\ Page(e, rows).oldest = Oldest(rows)
  BY PageFields
<1> HIDE DEF a
<1>6. Chained(a)
  <2>1. ASSUME NEW k \in 1..n
        PROVE  /\ a.pages[k].request = IF k = 1 THEN End ELSE a.pages[k - 1].oldest
               /\ a.pages[k].rows # {} /\ a.pages[k].oldest < a.pages[k].request /\ ~(a.pages[k].oldest < Start)
    <3>1. a.pages[k] = e.pages[k] /\ (k # 1 => a.pages[k - 1] = e.pages[k - 1])
      BY <1>3
    <3>2. QED
      BY <1>1, <3>1 DEF Chained
  <2>2. /\ a.pages[n + 1].request = IF n + 1 = 1 THEN End ELSE a.pages[n + 1 - 1].oldest
        /\ a.pages[n + 1].rows = {} => a.complete
        /\ a.pages[n + 1].rows # {} =>
              /\ a.pages[n + 1].oldest < a.pages[n + 1].request
              /\ a.pages[n + 1].oldest < Start => a.complete
    <3>1. e.next = IF n = 0 THEN End ELSE a.pages[n].oldest
      <4>1. CASE n = 0
        BY <1>1, <4>1 DEF Ended
      <4>2. CASE n # 0
        <5>1. n \in 1..n
          BY <1>3, <4>2
        <5>2. e.pages[n].rows # {}
          BY <1>1, <5>1 DEF Chained
        <5>3. QED
          BY <1>1, <1>3, <4>2, <5>1, <5>2 DEF Ended
      <4>3. QED
        BY <4>1, <4>2
    <3>2. n + 1 - 1 = n /\ (n + 1 = 1 <=> n = 0)
      BY <1>3
    <3>3. rows # {} => Oldest(rows) < e.next
      BY DEF Fits
    <3>4. QED
      BY <1>3, <1>5, <3>1, <3>2, <3>3
  <2>3. 1..Len(a.pages) = 1..n \cup {n + 1}
    BY <1>3
  <2>4. QED
    BY <1>3, <2>1, <2>2, <2>3 DEF Chained
<1>7. Ended(a)
  <2>1. n + 1 > 0 /\ n + 1 # 0
    BY <1>3
  <2>2. QED
    BY <1>3, <1>5, <2>1 DEF Ended, NextTo
<1>8. Covers(a, published)
  <2>1. \A r \in Rows(a) : r \in Row /\ Time(r) \in published
    BY <1>1, <1>4 DEF Covers, Fits
  <2>2. ASSUME NEW t \in Permanent, a.next <= t \/ (a.complete /\ Start <= t) PROVE t \in Times(Rows(a))
    <3>1. t \in Int /\ e.next \in Int
      BY <1>2, Constants
    <3>2. Times(Rows(e)) \subseteq Times(Rows(a)) /\ Times(rows) \subseteq Times(Rows(a))
      BY <1>4 DEF Times
    <3>3. CASE e.next <= t
      BY <1>1, <3>2, <3>3 DEF Covers
    <3>4. CASE t < e.next
      <4>1. rows = {} \/ Oldest(rows) <= t
        <5>1. SUFFICES ASSUME rows # {} PROVE Oldest(rows) <= t
          OBVIOUS
        <5>2. Oldest(rows) \in Int /\ Start \in Int
          BY <1>2, <5>1, OldestRow, Constants
        <5>3. a.next = Oldest(rows)
          BY <1>3, <5>1 DEF NextTo
        <5>4. QED
          BY <1>3, <2>2, <3>1, <5>1, <5>2, <5>3
      <4>2. QED
        BY <3>2, <3>4, <4>1 DEF Fits
    <3>5. QED
      BY <3>1, <3>3, <3>4
  <2>3. /\ \A t \in Permanent : a.next <= t => t \in Times(Rows(a))
        /\ a.complete => \A t \in Permanent : Start <= t => t \in Times(Rows(a))
    BY <2>2
  <2>4. QED
    BY <2>1, <2>3 DEF Covers
<1>9. QED
  BY <1>3, <1>6, <1>7, <1>8, WalksBackParts DEF Walked, a

\* An empty walk is a walk (_new_collection_evidence).
LEMMA NewWalks ==
    /\ \A published : Walked(NewEvidence, published)
    /\ ~NewEvidence.complete /\ NewEvidence.pages = <<>>
    /\ NewEvidence # NoEvidence
<1>1. NewEvidence = [pages |-> <<>>, next |-> End, complete |-> FALSE]
  BY DEF NewEvidence
<1>2. /\ NewEvidence.pages = <<>> /\ NewEvidence.next = End /\ NewEvidence.complete = FALSE
      /\ Len(NewEvidence.pages) = 0
  BY <1>1
<1>3. NewEvidence \in Evidence
  <2>1. <<>> \in Seq(Pages) /\ End \in 0..End
    BY Constants
  <2>2. QED
    BY <1>1, <2>1 DEF Evidence
<1>4. Chained(NewEvidence) /\ Ended(NewEvidence)
  BY <1>2 DEF Chained, Ended
<1>5. Rows(NewEvidence) = {}
  BY <1>2 DEF Rows
<1>6. \A t \in Permanent : ~(End <= t)
  BY Constants
<1>7. \A published : Covers(NewEvidence, published)
  BY <1>2, <1>5, <1>6 DEF Covers
<1>8. NewEvidence # NoEvidence
  <2>1. NoEvidence.next = -1
    BY DEF NoEvidence, None
  <2>2. QED
    BY <1>2, <2>1, Constants
<1>9. QED
  BY <1>2, <1>3, <1>4, <1>7, <1>8, WalksBackParts DEF Walked

\* A walk with one more page extends the walk and all it extends
\* (_is_snapshot_prefix).
LEMMA AdvancedExtends ==
    ASSUME NEW e \in Evidence, ~e.complete, NEW rows \in SUBSET Row, NEW other \in Evidence, Extends(e, other)
    PROVE  Extends(Advanced(e, rows), other)
<1> DEFINE a == Advanced(e, rows)
           n == Len(e.pages)
<1>1. /\ n \in Nat /\ Len(a.pages) = n + 1
      /\ \A k \in 1..n : a.pages[k] = e.pages[k]
      /\ a.pages[n + 1].request = e.next
      /\ a.pages \in Seq(Pages) /\ e.pages \in Seq(Pages)
  BY AdvancedPages, PageFields DEF Evidence
<1>2. Len(other.pages) \in Nat /\ other.pages \in Seq(Pages)
  BY DEF Evidence
<1> HIDE DEF a
<1>3. ASSUME NEW m \in Nat, m <= n PROVE SubSeq(a.pages, 1, m) = SubSeq(e.pages, 1, m)
  <2>1. \A k \in 1..m : k \in 1..n
    BY <1>1, <1>3
  <2>2. \A k \in 1..m : a.pages[k] = e.pages[k]
    BY <1>1, <2>1
  <2>3. SubSeq(a.pages, 1, m) = [k \in 1..m |-> a.pages[k]] /\ SubSeq(e.pages, 1, m) = [k \in 1..m |-> e.pages[k]]
    BY <1>1, <1>3
  <2>4. QED
    BY <2>2, <2>3
<1>4. CASE other = e
  <2>1. SubSeq(e.pages, 1, n) = e.pages
    BY <1>1
  <2>2. SubSeq(a.pages, 1, n) = e.pages
    BY <1>1, <1>3, <2>1
  <2>3. QED
    BY <1>1, <1>4, <2>2 DEF Extends, a
<1>5. CASE other # e
  <2>1. /\ Len(other.pages) < n /\ other.pages = SubSeq(e.pages, 1, Len(other.pages)) /\ ~other.complete
        /\ other.next = e.pages[Len(other.pages) + 1].request
    BY <1>5 DEF Extends
  <2>2. other.pages = SubSeq(a.pages, 1, Len(other.pages))
    BY <1>1, <1>2, <1>3, <2>1
  <2>3. a.pages[Len(other.pages) + 1] = e.pages[Len(other.pages) + 1]
    <3>1. Len(other.pages) + 1 \in 1..n
      BY <1>1, <1>2, <2>1
    <3>2. QED
      BY <1>1, <3>1
  <2>4. Len(other.pages) < Len(a.pages)
    BY <1>1, <1>2, <2>1
  <2>5. QED
    BY <2>1, <2>2, <2>3, <2>4 DEF Extends, a
<1>6. QED
  BY <1>4, <1>5

-----------------------------------------------------------------------------
\* What a call finds on disk

\* Every snapshot is a candidate.
LEMMA AllCandidates == Inv => Candidates = disk.snapshots
BY DEF Inv, Directory, Candidates, Valid, Walked, Durable

\* A walk extends only shorter walks and itself.
LEMMA ExtendsShorter ==
    ASSUME NEW e \in Evidence, NEW other \in Evidence, Extends(e, other)
    PROVE  /\ Len(e.pages) \in Nat /\ Len(other.pages) \in Nat /\ Len(other.pages) <= Len(e.pages)
           /\ Len(e.pages) <= Len(other.pages) => e = other
<1>1. Len(e.pages) \in Nat /\ Len(other.pages) \in Nat
  BY DEF Evidence
<1>2. QED
  BY <1>1 DEF Extends

\* The latest walk is the tip that is loaded (_recover_uncheckpointed_evidence).
LEMMA LatestIsTip ==
    ASSUME Inv, NEW tip \in disk.snapshots, Latest(tip, disk.snapshots)
    PROVE  Tips = {tip}
<1>1. \A e \in disk.snapshots : e \in Evidence
  BY DEF Inv, Directory, Walked
<1>2. \A e \in disk.snapshots : Len(e.pages) <= Len(tip.pages) /\ (Len(tip.pages) <= Len(e.pages) => tip = e)
  BY <1>1, ExtendsShorter DEF Latest
<1>3. Candidates = disk.snapshots
  BY AllCandidates
<1>4. QED
  BY <1>2, <1>3 DEF Tips

\* What load_collection_evidence returns: nothing, or a walk on disk, and for
\* one collector before the first checkpoint the latest.
LEMMA LoadedEvidence ==
    ASSUME Inv, ~Refused
    PROVE  /\ LoadEvidence = NewEvidence \/ LoadEvidence \in disk.snapshots
           /\ Alone /\ disk.checkpoint = NoEvidence => Latest(LoadEvidence, disk.snapshots)
<1>1. Candidates = disk.snapshots
  BY AllCandidates
<1>2. CASE disk.checkpoint # NoEvidence
  BY <1>2 DEF Inv, Directory, LoadEvidence
<1>3. CASE disk.checkpoint = NoEvidence /\ disk.snapshots = {}
  BY <1>1, <1>3 DEF LoadEvidence, Latest
<1>4. CASE disk.checkpoint = NoEvidence /\ disk.snapshots # {}
  <2>1. LoadEvidence = CHOOSE tip \in Tips : TRUE
    BY <1>1, <1>4 DEF LoadEvidence
  <2>2. Tips # {} /\ Tips \subseteq disk.snapshots
    BY <1>1, <1>4 DEF Refused, Ambiguous, Tips
  <2>3. LoadEvidence \in Tips
    BY <2>1, <2>2
  <2>4. ASSUME Alone PROVE Latest(LoadEvidence, disk.snapshots)
    <3>1. PICK tip \in disk.snapshots : Latest(tip, disk.snapshots)
      BY <1>4, <2>4 DEF Inv, Chain
    <3>2. QED
      BY <2>3, <3>1, LatestIsTip
  <2>5. QED
    BY <2>2, <2>3, <2>4
<1>5. QED
  BY <1>2, <1>3, <1>4

-----------------------------------------------------------------------------
\* What the invariant says

\* The directory loads but for the two exceptions.
LEMMA InvResumable == Inv => Resumable
<1> SUFFICES ASSUME Inv, Refused
             PROVE  /\ disk.checkpoint = NoEvidence
                    /\ (mode.strict /\ disk.temporary) \/ (~Alone /\ Ambiguous)
  BY DEF Resumable
<1>1. Candidates = disk.snapshots
  BY AllCandidates
<1>2. disk.checkpoint = NoEvidence
  <2>1. SUFFICES ASSUME disk.checkpoint # NoEvidence PROVE FALSE
    OBVIOUS
  <2>2. disk.checkpoint \in disk.snapshots
    BY <2>1 DEF Inv, Directory
  <2>3. disk.checkpoint \in Candidates
    BY <1>1, <2>2
  <2>4. QED
    BY <2>1, <2>2, <2>3 DEF Refused, Candidates
<1>3. ASSUME Alone, Ambiguous PROVE FALSE
  <2>1. disk.snapshots # {}
    BY <1>1, <1>3 DEF Ambiguous
  <2>2. PICK tip \in disk.snapshots : Latest(tip, disk.snapshots)
    BY <1>2, <1>3, <2>1 DEF Inv, Chain
  <2>3. Tips = {tip}
    BY <2>2, LatestIsTip
  <2>4. QED
    BY <1>1, <1>3, <2>2, <2>3 DEF Ambiguous, Latest
<1>4. (mode.strict /\ disk.temporary) \/ Ambiguous
  BY <1>1, <1>2 DEF Refused, PaperRefuses
<1>5. QED
  BY <1>2, <1>3, <1>4

\* Complete evidence holds what was on the venue all along.
LEMMA InvNothingLost == Inv => NothingLost
<1> DEFINE e == disk.checkpoint
<1> SUFFICES ASSUME Inv, e.complete
             PROVE  /\ (Published \ Missing) \cap (Start..End - 1) \subseteq Frame(e)
                    /\ Frame(e) \subseteq Published
  BY DEF NothingLost
<1>1. Covers(e, Published)
  <2>1. e # NoEvidence
    BY DEF NoEvidence
  <2>2. QED
    BY <2>1 DEF Inv, Directory, Walked
<1> HIDE DEF e
<1>2. Frame(e) \subseteq Published
  BY <1>1 DEF Covers, Frame, InRange
<1>3. ASSUME NEW t \in Published \ Missing, t \in Start..End - 1 PROVE t \in Frame(e)
  <2>1. t \in Permanent
    BY <1>3 DEF Inv, Venue, Permanent
  <2>2. t \in Times(Rows(e))
    BY <1>1, <1>3, <2>1, Constants DEF Covers, e
  <2>3. PICK r \in Rows(e) : Time(r) = t
    BY <2>2 DEF Times
  <2>4. r \in InRange(Rows(e))
    BY <1>3, <2>3, Constants DEF InRange
  <2>5. QED
    BY <2>3, <2>4 DEF Frame
<1>4. QED
  BY <1>2, <1>3

\* The types.
LEMMA InvTypeOK == Inv => TypeOK
<1> SUFFICES ASSUME Inv PROVE TypeOK
  OBVIOUS
<1>1. Published \subseteq 0..End
  BY Constants DEF Inv, Venue
<1>2. \A p \in Procs : /\ pc[p] \in {"off", "idle", "fetch", "page", "snapshot", "checkpoint"}
                       /\ ev[p].pages \in Seq(Pages) /\ ev[p].next \in 0..End
                       /\ attempt[p] \in 0..Attempts - 1
  BY DEF Inv, Holding, Collecting, Evidence
<1>3. disk.temporary \in BOOLEAN
  BY DEF Inv, Directory
<1>4. QED
  BY <1>1, <1>2, <1>3 DEF Inv, Venue, Values, TypeOK

-----------------------------------------------------------------------------
\* The initial states

\* An empty directory and nobody collecting.
LEMMA InitInv == Init => Inv
<1> SUFFICES ASSUME Init PROVE Inv
  OBVIOUS
<1>1. Published = (0..End - 1) \ Missing
  BY DEF Init, Published
<1>2. Venue
  BY <1>1, Constants DEF Init, Venue, Permanent, Values, Published
<1>3. disk.snapshots = {} /\ disk.checkpoint = NoEvidence
  BY DEF Init
<1>4. Directory
  BY <1>3 DEF Init, Directory
<1>5. Holding
  <2>1. NewEvidence \in Evidence /\ ~NewEvidence.complete
    BY NewWalks DEF Walked
  <2>2. pc \in [Procs -> {"off", "idle"} \cup Collecting]
    BY DEF Init
  <2>3. ev \in [Procs -> Evidence] /\ page \in [Procs -> SUBSET Row] /\ attempt \in [Procs -> 0..Attempts - 1]
    BY <2>1, Constants DEF Init
  <2>4. \A p \in Procs : ev[p] = NewEvidence /\ pc[p] \in {"off", "idle"}
    BY DEF Init
  <2>5. QED
    BY <2>1, <2>2, <2>3, <2>4 DEF Holding
<1>6. Chain
  <2>1. \A p \in Procs : pc[p] \in {"off", "idle"}
    BY DEF Init
  <2>2. QED
    BY <1>3, <2>1 DEF Chain
<1>7. QED
  BY <1>2, <1>4, <1>5, <1>6 DEF Inv

-----------------------------------------------------------------------------
\* The steps

\* A walk covers what it covered when more is published.
LEMMA CoversLasts ==
    ASSUME NEW before, NEW after, before \subseteq after
    PROVE  /\ \A e : Walked(e, before) => Walked(e, after)
           /\ \A e, rows : Fits(e, rows, before) => Fits(e, rows, after)
<1>1. \A e : Walked(e, before) => Walked(e, after)
  BY DEF Walked, Covers
<1>2. \A e, rows : Fits(e, rows, before) => Fits(e, rows, after)
  BY DEF Fits
<1>3. QED
  BY <1>1, <1>2

\* Publish and Change: the venue publishes, or the newest candle trades.
LEMMA VenueStep ==
    ASSUME Inv, Publish \/ Change
    PROVE  Inv'
<1>1. UNCHANGED <<mode, disk, pc, ev, page, attempt, loaded>>
  BY DEF Publish, Change
<1>2. Published \subseteq Published' /\ Venue'
  <2>1. CASE Publish
    <3>1. PICK t \in Missing \ Published :
             venue' = [u \in Published \cup {t} |-> IF u = t THEN 0 ELSE venue[u]]
      BY <2>1 DEF Publish
    <3>2. Published' = Published \cup {t}
      BY <3>1 DEF Published
    <3>3. \A u \in Published' : venue'[u] \in Values
      BY <3>1, <3>2 DEF Inv, Venue, Values
    <3>4. t \in 0..End - 1
      BY Constants
    <3>5. QED
      BY <1>1, <3>2, <3>3, <3>4 DEF Inv, Venue
  <2>2. CASE Change
    <3>1. venue' = [venue EXCEPT ![Newest] = 1 - @]
      BY <2>2 DEF Change
    <3>2. Published' = Published
      BY <3>1 DEF Published
    <3>3. ASSUME NEW u \in Published' PROVE venue'[u] \in Values
      <4>1. u \in DOMAIN venue /\ venue[u] \in {0, 1}
        BY <3>2, <3>3 DEF Inv, Venue, Values, Published
      <4>2. venue'[u] = IF u = Newest THEN 1 - venue[u] ELSE venue[u]
        BY <3>1, <4>1
      <4>3. QED
        BY <4>1, <4>2 DEF Values
    <3>4. QED
      BY <1>1, <3>2, <3>3 DEF Inv, Venue
  <2>3. QED
    BY <2>1, <2>2
<1>3. /\ \A e : Walked(e, Published) => Walked(e, Published')
      /\ \A e, rows : Fits(e, rows, Published) => Fits(e, rows, Published')
  BY <1>2, CoversLasts
<1>4. Directory'
  BY <1>1, <1>3 DEF Inv, Directory
<1>5. Holding'
  BY <1>1, <1>3 DEF Inv, Holding
<1>6. Chain'
  BY <1>1 DEF Inv, Chain, Alone
<1>7. QED
  BY <1>2, <1>4, <1>5, <1>6 DEF Inv

\* What a step of a process leaves alone.
LEMMA GotoOne ==
    ASSUME Inv, NEW p \in Procs, NEW label, NEW e, NEW rows, NEW n, Goto(p, label, e, rows, n)
    PROVE  /\ pc'[p] = label /\ ev'[p] = e /\ page'[p] = rows /\ attempt'[p] = n
           /\ \A q \in Procs \ {p} : /\ pc'[q] = pc[q] /\ ev'[q] = ev[q]
                                     /\ page'[q] = page[q] /\ attempt'[q] = attempt[q]
BY DEF Inv, Holding, Goto

\* A process goes on, while the directory only grows.
LEMMA ProcessMoves ==
    ASSUME Inv, NEW p \in Procs, NEW label \in {"off", "idle"} \cup Collecting, NEW e \in Evidence,
           NEW rows \in SUBSET Row, NEW n \in 0..Attempts - 1, Goto(p, label, e, rows, n),
           UNCHANGED venue, disk.snapshots \subseteq disk'.snapshots, disk.pages \subseteq disk'.pages,
           e = NewEvidence \/ e \in disk'.snapshots, ~e.complete,
           label \in {"page", "snapshot", "checkpoint"} => Fits(e, rows, Published),
           label \in {"snapshot", "checkpoint"} => rows \in disk'.pages,
           label = "checkpoint" => Advanced(e, rows) \in disk'.snapshots
    PROVE  Holding'
<1>1. /\ pc' \in [Procs -> {"off", "idle"} \cup Collecting]
      /\ ev' \in [Procs -> Evidence] /\ page' \in [Procs -> SUBSET Row] /\ attempt' \in [Procs -> 0..Attempts - 1]
  BY DEF Inv, Holding, Goto
<1>2. /\ pc'[p] = label /\ ev'[p] = e /\ page'[p] = rows
      /\ \A q \in Procs \ {p} : pc'[q] = pc[q] /\ ev'[q] = ev[q] /\ page'[q] = page[q]
  BY GotoOne
<1>3. Published' = Published
  BY DEF Published
<1>4. ASSUME NEW q \in Procs
      PROVE  /\ ev'[q] = NewEvidence \/ ev'[q] \in disk'.snapshots
             /\ ~ev'[q].complete
             /\ pc'[q] \in {"page", "snapshot", "checkpoint"} => Fits(ev'[q], page'[q], Published)
             /\ pc'[q] \in {"snapshot", "checkpoint"} => page'[q] \in disk'.pages
             /\ pc'[q] = "checkpoint" => Advanced(ev'[q], page'[q]) \in disk'.snapshots
  <2>1. CASE q = p
    BY <1>2, <2>1
  <2>2. CASE q # p
    <3>1. pc'[q] = pc[q] /\ ev'[q] = ev[q] /\ page'[q] = page[q]
      BY <1>2, <2>2
    <3>2. QED
      BY <3>1 DEF Inv, Holding
  <2>3. QED
    BY <2>1, <2>2
<1>5. QED
  BY <1>1, <1>3, <1>4 DEF Holding

\* What a process may hold at a step, given the page files and the checkpoint.
MayHold(label, e, rows, n, pages, checkpoint) ==
    /\ label \in {"idle"} \cup Collecting /\ e \in Evidence /\ rows \in SUBSET Row /\ n \in 0..Attempts - 1
    /\ e = NewEvidence \/ e \in disk.snapshots
    /\ ~e.complete
    /\ label \in {"page", "snapshot", "checkpoint"} => Fits(e, rows, Published)
    /\ label \in {"snapshot", "checkpoint"} => rows \in pages
    /\ label = "checkpoint" => Advanced(e, rows) \in disk.snapshots
    /\ Alone /\ disk.checkpoint = NoEvidence /\ checkpoint = NoEvidence =>
         /\ label \in {"fetch", "page", "snapshot"} => Latest(e, disk.snapshots)
         /\ label = "checkpoint" => Latest(Advanced(e, rows), disk.snapshots)

\* A process goes on and writes no snapshot.
LEMMA NoSnapshot ==
    ASSUME Inv, NEW p \in Procs, pc[p] # "off", NEW label, NEW e, NEW rows, NEW n, Goto(p, label, e, rows, n),
           UNCHANGED venue, loaded' \in BOOLEAN,
           NEW pages \in SUBSET SUBSET Row, NEW checkpoint \in disk.snapshots \cup {disk.checkpoint},
           NEW temporary \in BOOLEAN, disk.pages \subseteq pages,
           disk' = [pages |-> pages, snapshots |-> disk.snapshots, checkpoint |-> checkpoint, temporary |-> temporary],
           MayHold(label, e, rows, n, pages, checkpoint)
    PROVE  Inv'
<1>1. /\ disk'.pages = pages /\ disk'.snapshots = disk.snapshots /\ disk'.checkpoint = checkpoint
      /\ disk'.temporary = temporary
  OBVIOUS
<1>2. /\ pc'[p] = label /\ ev'[p] = e /\ page'[p] = rows
      /\ \A q \in Procs \ {p} : pc'[q] = pc[q] /\ ev'[q] = ev[q] /\ page'[q] = page[q]
  BY GotoOne
<1>3. Published' = Published
  BY DEF Published
<1>4. Venue'
  BY <1>3 DEF Inv, Venue
<1>5. Directory'
  <2>1. disk.snapshots \in SUBSET Evidence /\ checkpoint \in {NoEvidence} \cup Evidence
    BY DEF Inv, Directory
  <2>2. \A w \in disk.snapshots : Walked(w, Published) /\ w.pages # <<>> /\ Durable(w, pages)
    BY DEF Inv, Directory, Durable
  <2>3. checkpoint = NoEvidence \/ checkpoint \in disk.snapshots
    BY DEF Inv, Directory
  <2>4. QED
    BY <1>1, <1>3, <2>1, <2>2, <2>3 DEF Directory
<1>6. Holding'
  BY <1>1, ProcessMoves DEF MayHold
<1>7. Chain'
  <2>1. SUFFICES ASSUME Alone', checkpoint = NoEvidence
                 PROVE  /\ disk.snapshots = {} \/ \E tip \in disk.snapshots : Latest(tip, disk.snapshots)
                        /\ \A q \in Procs :
                              /\ pc'[q] \in {"fetch", "page", "snapshot"} => Latest(ev'[q], disk.snapshots)
                              /\ pc'[q] = "checkpoint" => Latest(Advanced(ev'[q], page'[q]), disk.snapshots)
    BY <1>1 DEF Chain
  <2>2. Alone
    BY <1>2, <2>1 DEF Alone, Collecting, MayHold
  <2>3. disk.checkpoint = NoEvidence
    <3>1. ASSUME checkpoint \in disk.snapshots PROVE FALSE
      <4>1. NoEvidence \in Evidence
        BY <2>1, <3>1 DEF Inv, Directory
      <4>2. NoEvidence.next = -1
        BY DEF NoEvidence, None
      <4>3. QED
        BY <4>1, <4>2 DEF Evidence
    <3>2. QED
      BY <2>1, <3>1
  <2>4. QED
    BY <1>2, <2>1, <2>2, <2>3 DEF Inv, Chain, MayHold
<1>8. QED
  BY <1>4, <1>5, <1>6, <1>7 DEF Inv

\* What a process that collects holds.
LEMMA Holds ==
    ASSUME Inv, NEW p \in Procs
    PROVE  /\ ev[p] \in Evidence /\ Walked(ev[p], Published) /\ ~ev[p].complete
           /\ ev[p] = NewEvidence \/ ev[p] \in disk.snapshots
           /\ page[p] \in SUBSET Row /\ attempt[p] \in 0..Attempts - 1
BY NewWalks DEF Inv, Holding, Directory

\* The directory by its fields.
LEMMA DiskFields ==
    ASSUME Inv
    PROVE  /\ disk = [pages |-> disk.pages, snapshots |-> disk.snapshots, checkpoint |-> disk.checkpoint,
                      temporary |-> disk.temporary]
           /\ disk.pages \in SUBSET SUBSET Row /\ disk.temporary \in BOOLEAN
           /\ disk.snapshots \in SUBSET Evidence
           /\ \A e \in disk.snapshots \cup {NewEvidence} : e \in Evidence
BY NewWalks DEF Inv, Directory, Walked

\* A call ends, and may leave a temporary file behind.
LEMMA LeaveStep ==
    ASSUME Inv, NEW p \in Procs, pc[p] # "off", Leave(p), UNCHANGED venue, loaded' \in BOOLEAN,
           NEW checkpoint \in disk.snapshots \cup {disk.checkpoint}, NEW temporary \in BOOLEAN,
           disk' = [pages |-> disk.pages, snapshots |-> disk.snapshots, checkpoint |-> checkpoint,
                    temporary |-> temporary]
    PROVE  Inv'
<1>1. NewEvidence \in Evidence /\ ~NewEvidence.complete
  BY NewWalks DEF Walked
<1>2. Goto(p, "idle", NewEvidence, {}, 0) /\ 0 \in 0..Attempts - 1 /\ {} \in SUBSET Row
  BY Constants DEF Leave
<1>3. disk.pages \in SUBSET SUBSET Row
  BY DiskFields
<1>4. MayHold("idle", NewEvidence, {}, 0, disk.pages, checkpoint)
  BY <1>1, <1>2 DEF MayHold
<1>5. QED
  BY <1>2, <1>3, <1>4, NoSnapshot

\* A call goes on with its next page, or returns a frame or raises.
LEMMA WalkStep ==
    ASSUME Inv, NEW p \in Procs, pc[p] # "off", NEW e \in disk.snapshots \cup {NewEvidence}, Walk(p, e), UNCHANGED venue,
           NEW checkpoint \in disk.snapshots \cup {disk.checkpoint},
           disk' = [pages |-> disk.pages, snapshots |-> disk.snapshots, checkpoint |-> checkpoint,
                    temporary |-> disk.temporary],
           Alone /\ disk.checkpoint = NoEvidence /\ checkpoint = NoEvidence => Latest(e, disk.snapshots)
    PROVE  Inv'
<1>1. disk.pages \in SUBSET SUBSET Row /\ disk.temporary \in BOOLEAN /\ e \in Evidence
  BY DiskFields
<1>2. loaded' \in BOOLEAN
  BY DEF Walk, Inv, Venue
<1>3. CASE ~e.complete /\ Goto(p, "fetch", e, {}, 0)
  <2>1. 0 \in 0..Attempts - 1 /\ {} \in SUBSET Row /\ "fetch" \in Collecting
    BY Constants DEF Collecting
  <2>2. MayHold("fetch", e, {}, 0, disk.pages, checkpoint)
    BY <1>1, <1>3, <2>1 DEF MayHold
  <2>3. QED
    BY <1>1, <1>2, <1>3, <2>2, NoSnapshot
<1>4. CASE Leave(p)
  BY <1>1, <1>2, <1>4, LeaveStep
<1>5. QED
  BY <1>3, <1>4 DEF Walk

\* Call: load what is on disk, return it when it is complete.
LEMMA CallStep ==
    ASSUME Inv, NEW p \in Procs, Call(p)
    PROVE  Inv'
<1>1. pc[p] = "idle" /\ ~Refused /\ Walk(p, LoadEvidence) /\ UNCHANGED venue /\ disk' = disk
  BY DEF Call
<1>2. LoadEvidence \in disk.snapshots \cup {NewEvidence}
  BY <1>1, LoadedEvidence
<1>3. Alone /\ disk.checkpoint = NoEvidence => Latest(LoadEvidence, disk.snapshots)
  BY <1>1, LoadedEvidence
<1>4. disk' = [pages |-> disk.pages, snapshots |-> disk.snapshots, checkpoint |-> disk.checkpoint,
               temporary |-> disk.temporary]
  BY <1>1, DiskFields
<1>5. QED
  BY <1>1, <1>2, <1>3, <1>4, WalkStep

\* FetchPage: an answer, which ends the call when it does not move backward.
LEMMA FetchStep ==
    ASSUME Inv, NEW p \in Procs, FetchPage(p)
    PROVE  Inv'
<1> DEFINE rows == Answer(ev[p].next)
<1>1. pc[p] = "fetch" /\ UNCHANGED <<venue, disk, loaded>>
  BY DEF FetchPage
<1>2. disk.temporary \in BOOLEAN /\ disk.pages \in SUBSET SUBSET Row /\ loaded' \in BOOLEAN
  BY <1>1, DiskFields DEF Inv, Venue
<1>3. disk' = [pages |-> disk.pages, snapshots |-> disk.snapshots, checkpoint |-> disk.checkpoint,
               temporary |-> disk.temporary]
  BY <1>1, DiskFields
<1>4. /\ ev[p] \in Evidence /\ ~ev[p].complete /\ (ev[p] = NewEvidence \/ ev[p] \in disk.snapshots)
      /\ ev[p].next \in 0..End
  BY Holds DEF Evidence
<1>5. /\ rows \in SUBSET Row /\ \A r \in rows : Time(r) \in Published
      /\ \A t \in Published : t < ev[p].next /\ (rows = {} \/ Oldest(rows) <= t) => t \in Times(rows)
  BY <1>4, AnswerComplete DEF Inv
<1>6. CASE Leave(p)
  BY <1>1, <1>2, <1>3, <1>6, LeaveStep
<1>7. CASE ~(rows # {} /\ Oldest(rows) >= ev[p].next) /\ Goto(p, "page", ev[p], rows, 0)
  <2>1. rows # {} => Oldest(rows) < ev[p].next
    BY <1>4, <1>5, <1>7, OldestRow
  <2>2. Permanent \subseteq Published
    BY DEF Inv, Venue
  <2> HIDE DEF rows
  <2>3. Fits(ev[p], rows, Published)
    BY <1>5, <2>1, <2>2 DEF Fits
  <2>4. 0 \in 0..Attempts - 1 /\ "page" \in Collecting
    BY Constants DEF Collecting
  <2>5. Alone /\ disk.checkpoint = NoEvidence => Latest(ev[p], disk.snapshots)
    BY <1>1 DEF Inv, Chain
  <2>6. MayHold("page", ev[p], rows, 0, disk.pages, disk.checkpoint)
    BY <1>4, <1>5, <2>3, <2>4, <2>5 DEF MayHold
  <2>7. QED
    BY <1>1, <1>2, <1>3, <1>7, <2>6, NoSnapshot
<1>8. QED
  BY <1>6, <1>7 DEF FetchPage

\* FetchFails: one more attempt, or the end of the call.
LEMMA FetchFailsStep ==
    ASSUME Inv, NEW p \in Procs, FetchFails(p)
    PROVE  Inv'
<1>1. pc[p] = "fetch" /\ UNCHANGED <<venue, disk, loaded>>
  BY DEF FetchFails
<1>2. disk.temporary \in BOOLEAN /\ disk.pages \in SUBSET SUBSET Row /\ loaded' \in BOOLEAN
  BY <1>1, DiskFields DEF Inv, Venue
<1>3. disk' = [pages |-> disk.pages, snapshots |-> disk.snapshots, checkpoint |-> disk.checkpoint,
               temporary |-> disk.temporary]
  BY <1>1, DiskFields
<1>4. /\ ev[p] \in Evidence /\ ~ev[p].complete /\ (ev[p] = NewEvidence \/ ev[p] \in disk.snapshots)
      /\ attempt[p] \in 0..Attempts - 1
  BY Holds
<1>5. CASE Leave(p)
  BY <1>1, <1>2, <1>3, <1>5, LeaveStep
<1>6. CASE attempt[p] + 1 # Attempts /\ Goto(p, "fetch", ev[p], {}, attempt[p] + 1)
  <2>1. attempt[p] + 1 \in 0..Attempts - 1
    BY <1>4, <1>6, Constants
  <2>2. {} \in SUBSET Row /\ "fetch" \in Collecting
    BY DEF Collecting
  <2>3. Alone /\ disk.checkpoint = NoEvidence => Latest(ev[p], disk.snapshots)
    BY <1>1 DEF Inv, Chain
  <2>4. MayHold("fetch", ev[p], {}, attempt[p] + 1, disk.pages, disk.checkpoint)
    BY <1>4, <2>1, <2>2, <2>3 DEF MayHold
  <2>5. QED
    BY <1>1, <1>2, <1>3, <1>6, <2>4, NoSnapshot
<1>7. QED
  BY <1>5, <1>6 DEF FetchFails

\* A step that changes only the label of a process.
LEMMA LabelOnly ==
    ASSUME Inv, NEW p \in Procs, NEW label, pc' = [pc EXCEPT ![p] = label], UNCHANGED <<ev, page, attempt>>
    PROVE  Goto(p, label, ev[p], page[p], attempt[p])
BY DEF Inv, Holding, Goto

\* WritePage: the page is durable.
LEMMA WritePageStep ==
    ASSUME Inv, NEW p \in Procs, WritePage(p)
    PROVE  Inv'
<1>1. /\ pc[p] = "page" /\ disk' = [disk EXCEPT !.pages = @ \cup {page[p]}]
      /\ pc' = [pc EXCEPT ![p] = "snapshot"] /\ UNCHANGED <<venue, ev, page, attempt, loaded>>
  BY DEF WritePage
<1> DEFINE pages == disk.pages \cup {page[p]}
<1>2. /\ ev[p] \in Evidence /\ ~ev[p].complete /\ (ev[p] = NewEvidence \/ ev[p] \in disk.snapshots)
      /\ page[p] \in SUBSET Row /\ attempt[p] \in 0..Attempts - 1
  BY Holds
<1>3. /\ pages \in SUBSET SUBSET Row /\ disk.pages \subseteq pages /\ page[p] \in pages
      /\ disk.temporary \in BOOLEAN /\ loaded' \in BOOLEAN
  BY <1>1, <1>2, DiskFields DEF Inv, Venue
<1>4. disk' = [pages |-> pages, snapshots |-> disk.snapshots, checkpoint |-> disk.checkpoint,
               temporary |-> disk.temporary]
  BY <1>1, DiskFields
<1>5. Goto(p, "snapshot", ev[p], page[p], attempt[p])
  BY <1>1, LabelOnly
<1>6. Fits(ev[p], page[p], Published)
  BY <1>1 DEF Inv, Holding
<1>7. Alone /\ disk.checkpoint = NoEvidence => Latest(ev[p], disk.snapshots)
  BY <1>1 DEF Inv, Chain
<1>8. "snapshot" \in Collecting
  BY DEF Collecting
<1> HIDE DEF pages
<1>9. MayHold("snapshot", ev[p], page[p], attempt[p], pages, disk.checkpoint)
  BY <1>2, <1>3, <1>6, <1>7, <1>8 DEF MayHold
<1>10. QED
  BY <1>1, <1>3, <1>4, <1>5, <1>9, NoSnapshot

\* WriteCheckpoint: the checkpoint names the snapshot, and the walk goes on.
LEMMA WriteCheckpointStep ==
    ASSUME Inv, NEW p \in Procs, WriteCheckpoint(p)
    PROVE  Inv'
<1> DEFINE a == Advanced(ev[p], page[p])
<1>1. /\ pc[p] = "checkpoint" /\ disk' = [disk EXCEPT !.checkpoint = a] /\ Walk(p, a) /\ UNCHANGED venue
  BY DEF WriteCheckpoint
<1>2. a \in disk.snapshots
  BY <1>1 DEF Inv, Holding
<1>3. disk' = [pages |-> disk.pages, snapshots |-> disk.snapshots, checkpoint |-> a, temporary |-> disk.temporary]
  BY <1>1, DiskFields
<1>4. a # NoEvidence
  <2>1. a \in Evidence
    BY <1>2, DiskFields
  <2>2. NoEvidence.next = -1
    BY DEF NoEvidence, None
  <2> HIDE DEF a
  <2>3. a.next >= 0
    BY <2>1 DEF Evidence
  <2>4. QED
    BY <2>2, <2>3
<1> HIDE DEF a
<1>5. QED
  BY <1>1, <1>2, <1>3, <1>4, WalkStep

\* WriteSnapshot: the walk with its new page is on disk.
LEMMA WriteSnapshotStep ==
    ASSUME Inv, NEW p \in Procs, WriteSnapshot(p)
    PROVE  Inv'
<1> DEFINE a == Advanced(ev[p], page[p])
           snapshots == disk.snapshots \cup {a}
<1>1. /\ pc[p] = "snapshot" /\ disk' = [disk EXCEPT !.snapshots = @ \cup {a}]
      /\ pc' = [pc EXCEPT ![p] = "checkpoint"] /\ UNCHANGED <<venue, ev, page, attempt, loaded>>
  BY DEF WriteSnapshot
<1>2. /\ ev[p] \in Evidence /\ Walked(ev[p], Published) /\ ~ev[p].complete
      /\ ev[p] = NewEvidence \/ ev[p] \in disk.snapshots
      /\ page[p] \in SUBSET Row /\ attempt[p] \in 0..Attempts - 1
  BY Holds
<1>3. Fits(ev[p], page[p], Published) /\ page[p] \in disk.pages
  BY <1>1 DEF Inv, Holding
<1>4. Walked(a, Published) /\ a \in Evidence /\ a.pages # <<>>
  BY <1>2, <1>3, AdvancedWalks, AdvancedPages
<1>5. Durable(a, disk.pages)
  <2>1. /\ Len(ev[p].pages) \in Nat /\ Len(a.pages) = Len(ev[p].pages) + 1
        /\ \A k \in 1..Len(ev[p].pages) : a.pages[k] = ev[p].pages[k]
        /\ a.pages[Len(ev[p].pages) + 1].rows = page[p]
    BY <1>2, AdvancedPages, PageFields
  <2>2. Durable(ev[p], disk.pages)
    <3>1. CASE ev[p] = NewEvidence
      BY <3>1, NewWalks DEF Durable
    <3>2. CASE ev[p] \in disk.snapshots
      BY <3>2 DEF Inv, Directory
    <3>3. QED
      BY <1>2, <3>1, <3>2
  <2> HIDE DEF a
  <2>3. \A k \in 1..Len(a.pages) : k \in 1..Len(ev[p].pages) \/ k = Len(ev[p].pages) + 1
    BY <2>1
  <2>4. QED
    BY <1>3, <2>1, <2>2, <2>3 DEF Durable
<1>6. /\ disk'.pages = disk.pages /\ disk'.snapshots = snapshots /\ disk'.checkpoint = disk.checkpoint
      /\ disk' = [pages |-> disk.pages, snapshots |-> snapshots, checkpoint |-> disk.checkpoint,
                  temporary |-> disk.temporary]
  BY <1>1, DiskFields
<1>7. Published' = Published
  BY <1>1 DEF Published
<1>8. Venue'
  BY <1>1, <1>7 DEF Inv, Venue
<1> HIDE DEF a
<1>9. Directory'
  <2>1. /\ snapshots \in SUBSET Evidence /\ disk.temporary \in BOOLEAN /\ disk.pages \in SUBSET SUBSET Row
        /\ disk.checkpoint \in {NoEvidence} \cup Evidence
    BY <1>4, DiskFields DEF Inv, Directory
  <2>2. \A w \in snapshots : Walked(w, Published) /\ w.pages # <<>> /\ Durable(w, disk.pages)
    BY <1>4, <1>5 DEF Inv, Directory
  <2>3. disk.checkpoint = NoEvidence \/ disk.checkpoint \in snapshots
    BY DEF Inv, Directory
  <2> HIDE DEF snapshots
  <2>4. QED
    BY <1>6, <1>7, <2>1, <2>2, <2>3 DEF Directory
<1>10. Goto(p, "checkpoint", ev[p], page[p], attempt[p])
  BY <1>1, LabelOnly
<1>11. Holding'
  <2>1. a \in snapshots /\ disk.snapshots \subseteq snapshots /\ a = Advanced(ev[p], page[p])
    BY DEF a
  <2>2. "checkpoint" \in {"off", "idle"} \cup Collecting
    BY DEF Collecting
  <2> HIDE DEF snapshots
  <2>3. QED
    BY <1>1, <1>2, <1>3, <1>6, <1>10, <2>1, <2>2, ProcessMoves
<1>12. Chain'
  <2>1. SUFFICES ASSUME Alone', disk.checkpoint = NoEvidence
                 PROVE  /\ snapshots = {} \/ \E tip \in snapshots : Latest(tip, snapshots)
                        /\ \A q \in Procs :
                              /\ pc'[q] \in {"fetch", "page", "snapshot"} => Latest(ev'[q], snapshots)
                              /\ pc'[q] = "checkpoint" => Latest(Advanced(ev'[q], page'[q]), snapshots)
    BY <1>6 DEF Chain
  <2>2. /\ pc'[p] = "checkpoint" /\ ev'[p] = ev[p] /\ page'[p] = page[p]
        /\ \A q \in Procs \ {p} : pc'[q] = pc[q] /\ ev'[q] = ev[q] /\ page'[q] = page[q]
    BY <1>10, GotoOne
  <2>3. Alone /\ \A q \in Procs \ {p} : pc'[q] = "off"
    BY <1>1, <2>1, <2>2 DEF Alone
  <2>4. Latest(ev[p], disk.snapshots)
    BY <1>1, <2>1, <2>3 DEF Inv, Chain
  <2>5. Latest(a, snapshots)
    <3>1. ASSUME NEW other \in disk.snapshots PROVE Extends(a, other)
      <4>1. other \in Evidence /\ Extends(ev[p], other)
        BY <2>4, DiskFields DEF Latest
      <4>2. QED
        BY <1>2, <4>1, AdvancedExtends DEF a
    <3>2. Extends(a, a)
      BY DEF Extends
    <3>3. QED
      BY <3>1, <3>2 DEF Latest
  <2>6. a = Advanced(ev[p], page[p])
    BY DEF a
  <2>7. QED
    BY <2>2, <2>3, <2>5, <2>6
<1>13. QED
  BY <1>8, <1>9, <1>11, <1>12 DEF Inv

\* WriteFails: the temporary file is removed.
LEMMA WriteFailsStep ==
    ASSUME Inv, NEW p \in Procs, WriteFails(p)
    PROVE  Inv'
<1>1. pc[p] # "off" /\ Leave(p) /\ UNCHANGED <<venue, disk, loaded>>
  BY DEF WriteFails, Writing
<1>2. disk' = [pages |-> disk.pages, snapshots |-> disk.snapshots, checkpoint |-> disk.checkpoint,
               temporary |-> disk.temporary]
  BY <1>1, DiskFields
<1>3. loaded' \in BOOLEAN /\ disk.temporary \in BOOLEAN
  BY <1>1, DiskFields DEF Inv, Venue
<1>4. QED
  BY <1>1, <1>2, <1>3, LeaveStep

\* Kill: a temporary file may stay.
LEMMA KillStep ==
    ASSUME Inv, NEW p \in Procs, Kill(p)
    PROVE  Inv'
<1>1. pc[p] # "off" /\ Leave(p) /\ UNCHANGED <<venue, loaded>>
  BY DEF Kill
<1>2. PICK left \in {FALSE, Writing(p)} : disk' = [disk EXCEPT !.temporary = @ \/ left]
  BY DEF Kill
<1> DEFINE temporary == disk.temporary \/ left
<1>3. disk' = [pages |-> disk.pages, snapshots |-> disk.snapshots, checkpoint |-> disk.checkpoint,
               temporary |-> temporary]
  BY <1>2, DiskFields
<1>4. loaded' \in BOOLEAN /\ temporary \in BOOLEAN
  BY <1>1 DEF Inv, Venue
<1> HIDE DEF temporary
<1>5. QED
  BY <1>1, <1>3, <1>4, LeaveStep

-----------------------------------------------------------------------------
\* The theorems

\* Every step keeps the invariant.
LEMMA NextInv == Inv /\ [Next]_vars => Inv'
<1> SUFFICES ASSUME Inv, [Next]_vars PROVE Inv'
  OBVIOUS
<1>1. CASE Publish \/ Change
  BY <1>1, VenueStep
<1>2. ASSUME NEW p \in Procs, Step(p) PROVE Inv'
  BY <1>2, CallStep, FetchStep, WritePageStep, WriteSnapshotStep, WriteCheckpointStep DEF Step
<1>3. ASSUME NEW p \in Procs, Fault(p) PROVE Inv'
  BY <1>3, FetchFailsStep, WriteFailsStep, KillStep DEF Fault
<1>4. CASE UNCHANGED vars
  BY <1>4 DEF vars, Inv, Venue, Directory, Holding, Chain, Alone, Published
<1>5. QED
  BY <1>1, <1>2, <1>3, <1>4 DEF Next

\* The invariant of the evidence directory and its collectors.
THEOREM InvHolds == Spec => []Inv
BY InitInv, NextInv, PTL DEF Spec

\* Whatever is killed, fails or runs beside it, what is on disk loads again, but
\* for a temporary file before the first checkpoint and two collectors' walks
\* (persist_raw_page, load_collection_evidence).
THEOREM ResumableHolds == Spec => []Resumable
BY InvResumable, InvHolds, PTL

\* A complete walk holds every candle of the range that was published all along
\* and none that was not, for any venue and page size (collect_evidence_range).
THEOREM NothingLostHolds == Spec => []NothingLost
BY InvNothingLost, InvHolds, PTL

\* What is on disk is sound, types included.
THEOREM EvidenceSoundHolds == Spec => []EvidenceSound
<1>1. Inv => EvidenceSound
  BY InvTypeOK, InvResumable, InvNothingLost DEF EvidenceSound
<1>2. QED
  BY <1>1, InvHolds, PTL

-----------------------------------------------------------------------------
\* The frame the strategy reads (CandleQuality)

Kinds == {"ok", "flat", "spike", "bad", "none"}

\* Raw candles by what they need.
Raw(raw) == raw \in Seq(Bars)

\* What a raw bar and its slot are.
LEMMA RawBars ==
    ASSUME NEW raw, Raw(raw)
    PROVE  /\ Len(raw) \in Nat
           /\ \A t \in 1..Len(raw) : raw[t].kind \in Kinds
BY DEF Raw, Kinds, Bars, Absent

\* A slot is in the frame if it lies between two bars that are present.
LEMMA Indexed ==
    ASSUME NEW raw, Raw(raw)
    PROVE  /\ Index(raw) \subseteq 1..Len(raw)
           /\ \A t \in Int : t \in Index(raw) <=>
                 \E a, b \in 1..Len(raw) : a <= t /\ t <= b /\ raw[a].kind # "none" /\ raw[b].kind # "none"
<1> DEFINE P == Present(raw)
<1>1. Len(raw) \in Nat /\ P \in SUBSET Nat /\ P \in SUBSET (0..Len(raw)) /\ P \subseteq 1..Len(raw)
  BY RawBars DEF Present
<1>2. CASE P = {}
  <2>1. Index(raw) = {}
    BY <1>2 DEF Index
  <2>2. QED
    BY <1>2, <2>1 DEF Present
<1>3. CASE P # {}
  <2>1. Index(raw) = Min(P)..Max(P)
    BY <1>3 DEF Index
  <2>2. Min(P) \in P /\ \A y \in P : Min(P) <= y
    BY <1>1, <1>3, MinimumOf
  <2>3. Max(P) \in P /\ \A y \in P : y <= Max(P)
    <3>1. PICK m \in P : \A y \in P : y <= m
      BY <1>1, <1>3, LargestOf
    <3> HIDE DEF P
    <3>2. \A y \in P : m >= y
      BY <1>1, <3>1
    <3>3. Max(P) \in P /\ \A y \in P : Max(P) >= y
      BY <3>2 DEF Max
    <3>4. QED
      BY <1>1, <3>3
  <2>4. \A t \in 1..Len(raw) : t \in P <=> raw[t].kind # "none"
    BY DEF Present
  <2> DEFINE low == Min(P)
             high == Max(P)
  <2>5. /\ low \in 1..Len(raw) /\ high \in 1..Len(raw) /\ raw[low].kind # "none" /\ raw[high].kind # "none"
        /\ \A t \in 1..Len(raw) : raw[t].kind # "none" => low <= t /\ t <= high
        /\ Index(raw) = low..high
    BY <1>1, <2>1, <2>2, <2>3, <2>4
  <2> HIDE DEF P, low, high
  <2>6. ASSUME NEW t \in Int
        PROVE  t \in Index(raw) <=>
                 \E a, b \in 1..Len(raw) : a <= t /\ t <= b /\ raw[a].kind # "none" /\ raw[b].kind # "none"
    <3>1. t \in Index(raw) <=> low <= t /\ t <= high
      BY <1>1, <2>5
    <3>2. ASSUME NEW a \in 1..Len(raw), NEW b \in 1..Len(raw), a <= t, t <= b,
                 raw[a].kind # "none", raw[b].kind # "none"
          PROVE  low <= t /\ t <= high
      BY <1>1, <2>5, <3>2
    <3>3. QED
      BY <2>5, <3>1, <3>2
  <2>7. QED
    BY <1>1, <2>5, <2>6
<1>4. QED
  BY <1>2, <1>3

\* An absent slot of the frame has neighbours in the frame.
LEMMA Neighbours ==
    ASSUME NEW raw, Raw(raw), NEW t \in Index(raw), raw[t].kind = "none"
    PROVE  t - 1 \in Index(raw) /\ t + 1 \in Index(raw)
<1>1. t \in Int /\ Len(raw) \in Nat
  BY Indexed, RawBars
<1>2. PICK a, b \in 1..Len(raw) : a <= t /\ t <= b /\ raw[a].kind # "none" /\ raw[b].kind # "none"
  BY <1>1, Indexed
<1>3. a < t /\ t < b
  BY <1>1, <1>2
<1>4. QED
  BY <1>1, <1>2, <1>3, Indexed

\* Between two slots of the frame lie slots of the frame.
LEMMA Convex ==
    ASSUME NEW raw, Raw(raw), NEW s \in Index(raw), NEW t \in Index(raw), NEW u \in Int, s <= u, u <= t
    PROVE  u \in Index(raw)
<1>1. s \in Int /\ t \in Int /\ Len(raw) \in Nat
  BY Indexed, RawBars
<1>2. PICK a \in 1..Len(raw) : a <= s /\ raw[a].kind # "none"
  BY <1>1, Indexed
<1>3. PICK b \in 1..Len(raw) : t <= b /\ raw[b].kind # "none"
  BY <1>1, Indexed
<1>4. QED
  BY <1>1, <1>2, <1>3, Indexed

-----------------------------------------------------------------------------
\* Segments

\* The ends of segments before a slot.
Ends(raw, t) == {u \in Index(raw) : u < t /\ EndsSegment(raw, u)}

\* They are counted by the segment of the slot.
LEMMA SegmentCount ==
    ASSUME NEW raw, Raw(raw), NEW t \in Int
    PROVE  SegmentId(raw, t) = Cardinality(Ends(raw, t)) /\ IsFiniteSet(Ends(raw, t))
<1>1. SegmentId(raw, t) = Cardinality(Ends(raw, t))
  BY DEF SegmentId, Ends
<1>2. Ends(raw, t) \subseteq 1..Len(raw) /\ IsFiniteSet(1..Len(raw))
  BY Indexed, RawBars, FS_Interval DEF Ends
<1>3. QED
  BY <1>1, <1>2, FS_Subset

\* A segment goes on from slot to slot unless the first of them ends it.
LEMMA NextSegment ==
    ASSUME NEW raw, Raw(raw), NEW t \in Index(raw)
    PROVE  /\ SegmentId(raw, t) \in Nat
           /\ SegmentId(raw, t + 1) = SegmentId(raw, t) + (IF EndsSegment(raw, t) THEN 1 ELSE 0)
<1>1. t \in Int
  BY Indexed
<1>2. Ends(raw, t + 1) = IF EndsSegment(raw, t) THEN Ends(raw, t) \cup {t} ELSE Ends(raw, t)
  BY <1>1, Indexed DEF Ends
<1>3. t \notin Ends(raw, t)
  BY <1>1 DEF Ends
<1>4. Cardinality(Ends(raw, t)) \in Nat
  BY <1>1, SegmentCount, FS_CardinalityType
<1>5. /\ SegmentId(raw, t) = Cardinality(Ends(raw, t))
      /\ SegmentId(raw, t + 1) = Cardinality(Ends(raw, t + 1))
  <2>1. t + 1 \in Int
    BY <1>1
  <2>2. QED
    BY <1>1, <2>1, SegmentCount
<1>6. CASE EndsSegment(raw, t)
  <2>1. Cardinality(Ends(raw, t) \cup {t}) = Cardinality(Ends(raw, t)) + 1
    BY <1>1, <1>3, SegmentCount, FS_AddElement
  <2>2. QED
    BY <1>2, <1>4, <1>5, <1>6, <2>1
<1>7. CASE ~EndsSegment(raw, t)
  BY <1>2, <1>4, <1>5, <1>7
<1>8. QED
  BY <1>6, <1>7

\* Slots before and after the end of a segment are in different ones.
LEMMA Separated ==
    ASSUME NEW raw, Raw(raw), NEW s \in Index(raw), NEW t \in Index(raw),
           NEW e \in Int, s <= e, e < t, EndsSegment(raw, e)
    PROVE  SegmentId(raw, s) # SegmentId(raw, t)
<1>1. s \in Int /\ t \in Int
  BY Indexed
<1>2. e \in Index(raw)
  BY <1>1, Convex
<1>3. e \in Ends(raw, t) /\ e \notin Ends(raw, s) /\ Ends(raw, s) \in SUBSET Ends(raw, t)
  BY <1>1, <1>2, Indexed DEF Ends
<1>4. Cardinality(Ends(raw, s)) # Cardinality(Ends(raw, t))
  BY <1>1, <1>3, SegmentCount, FS_Subset
<1>5. QED
  BY <1>1, <1>4, SegmentCount

-----------------------------------------------------------------------------
\* Nothing looks ahead

\* One more bar changes nothing about a slot of the frame and those before it.
LEMMA SlotsFinal ==
    ASSUME NEW raw, Raw(raw), NEW bar \in Bars, NEW t \in Index(raw)
    PROVE  LET more == Append(raw, bar)
           IN  /\ Raw(more) /\ t \in Index(more)
               /\ \A u \in Int : u <= t => (u \in Index(more) <=> u \in Index(raw))
               /\ more[t] = raw[t]
               /\ Filled(more, t) = Filled(raw, t)
               /\ EndsSegment(more, t) = EndsSegment(raw, t)
<1> DEFINE more == Append(raw, bar)
<1> DEFINE n == Len(raw)
<1>1. /\ Raw(more) /\ n \in Nat /\ Len(more) = n + 1
      /\ \A u \in 1..n : more[u] = raw[u]
  BY RawBars DEF Raw
<1>2. t \in 1..n
  BY Indexed
<1> HIDE DEF more, n
<1>3. PICK a, b \in 1..n : a <= t /\ t <= b /\ raw[a].kind # "none" /\ raw[b].kind # "none"
  BY <1>1, <1>2, Indexed DEF n
<1>4. \A u \in Int : u <= t => (u \in Index(more) <=> u \in Index(raw))
  <2> TAKE u \in Int
  <2> HAVE u <= t
  <2>1. u \in Index(raw) <=> \E c \in 1..n : c <= u /\ raw[c].kind # "none"
    BY <1>1, <1>2, <1>3, Indexed DEF n
  <2>2. u \in Index(more) <=> \E c \in 1..n : c <= u /\ more[c].kind # "none"
    <3>1. u \in Index(more) <=>
            \E c, d \in 1..n + 1 : c <= u /\ u <= d /\ more[c].kind # "none" /\ more[d].kind # "none"
      <4>1. Raw(more) /\ Len(more) = n + 1
        BY <1>1
      <4>2. u \in Index(more) <=>
              \E c, d \in 1..Len(more) : c <= u /\ u <= d /\ more[c].kind # "none" /\ more[d].kind # "none"
        BY <4>1, Indexed
      <4>3. QED
        BY <4>1, <4>2
    <3>2. b \in 1..n + 1 /\ u <= b /\ more[b].kind # "none"
      BY <1>1, <1>2, <1>3
    <3>3. \A c \in 1..n + 1 : c <= u => c \in 1..n
      BY <1>1, <1>2
    <3>4. 1..n \subseteq 1..n + 1
      BY <1>1
    <3>5. QED
      BY <3>1, <3>2, <3>3, <3>4
  <2>3. QED
    BY <1>1, <2>1, <2>2
<1>5. t \in Index(more)
  BY <1>2, <1>4
<1>6. raw[t].kind = "none" => t - 1 \in 1..n /\ t + 1 \in 1..n
  BY <1>1, <1>2, <1>3
<1>7. Filled(more, t) = Filled(raw, t)
  BY <1>1, <1>2, <1>6 DEF Filled
<1>8. EndsSegment(more, t) = EndsSegment(raw, t)
  BY <1>1, <1>2, <1>6, <1>7 DEF EndsSegment
<1>9. QED
  BY <1>1, <1>2, <1>4, <1>5, <1>7, <1>8 DEF more

\* A row of the frame is final (canonicalize_ohlcv, compute_trend_indicators and
\* evaluate_entry read only the row and those before it).
LEMMA RowsFinal ==
    ASSUME NEW raw, Raw(raw), NEW bar \in Bars, NEW t \in Index(raw)
    PROVE  Canonicalize(Append(raw, bar))[t] = Canonicalize(raw)[t]
<1> DEFINE more == Append(raw, bar)
           old == Index(raw)
<1> HIDE DEF more, old
<1>1. /\ t \in old /\ old \subseteq Int /\ Raw(more)
      /\ \A u \in old : /\ more[u] = raw[u] /\ Filled(more, u) = Filled(raw, u)
                        /\ EndsSegment(more, u) = EndsSegment(raw, u)
  BY Indexed, SlotsFinal DEF more, old
<1>2. \A u \in old, v \in Int : v <= u => (v \in Index(more) <=> v \in old)
  BY SlotsFinal DEF more, old
<1>3. \A u \in old : SegmentId(more, u) = SegmentId(raw, u)
  <2> TAKE u \in old
  <2>1. Index(more) \subseteq Int
    BY <1>1, Indexed
  <2>2. Ends(more, u) = Ends(raw, u)
    BY <1>1, <1>2, <2>1 DEF Ends, old
  <2>3. QED
    BY <1>1, <2>2, SegmentCount
<1>4. \A u \in old, v \in Int : v <= u => (v \in Segment(more, u) <=> v \in Segment(raw, u))
  BY <1>1, <1>2, <1>3 DEF Segment, old
<1>5. \A u \in old :
         /\ HasValues(more, u) = HasValues(raw, u)
         /\ Contaminated(more, u) = Contaminated(raw, u)
  BY <1>1 DEF HasValues, Contaminated
<1>6. \A u \in old : Close(more, u) = Close(raw, u) /\ High(more, u) = High(raw, u)
  <2> TAKE u \in old
  <2>1. Filled(raw, u) => u - 1 \in old
    BY <1>1, Neighbours DEF Filled, old
  <2>2. Close(more, u) = Close(raw, u)
    BY <1>1, <2>1 DEF Close
  <2>3. QED
    BY <1>1, <2>2 DEF High
<1>7. EntryDataValid(more, t) = EntryDataValid(raw, t)
  <2>1. \A u \in Segment(raw, t) \cup Segment(more, t) : u \in Int
    BY <1>1, Indexed DEF Segment
  <2>2. \A u \in Segment(raw, t) : u \in old
    BY DEF Segment, old
  <2>3. EntryDataValid(more, t) <=> EntryDataValid(raw, t)
    BY <1>1, <1>4, <1>5, <2>1, <2>2 DEF EntryDataValid
  <2>4. QED
    BY <2>3 DEF EntryDataValid
<1>8. WarmupComplete(more, t) <=> WarmupComplete(raw, t)
  <2>1. \A u \in Segment(raw, t) \cup Segment(more, t) : u \in Int
    BY <1>1, Indexed DEF Segment
  <2>2. \A u \in Segment(raw, t) : u \in old
    BY DEF Segment, old
  <2>3. {u \in Segment(more, t) : u < t /\ HasValues(more, u) /\ ~Contaminated(more, u)}
          = {u \in Segment(raw, t) : u < t /\ HasValues(raw, u) /\ ~Contaminated(raw, u)}
    BY <1>1, <1>4, <1>5, <2>1, <2>2
  <2>4. QED
    BY <2>3 DEF WarmupComplete
<1>9. \A u \in old : u <= t =>
         /\ EntryHighDefined(more, u) <=> EntryHighDefined(raw, u)
         /\ EntryHighDefined(raw, u) => EntryHigh(more, u) = EntryHigh(raw, u)
  <2> TAKE u \in old
  <2>1. \A v \in Channel(u) : v \in Int /\ v <= u
    BY <1>1, QualityAssumption DEF Channel
  <2>2. \A v \in Segment(raw, u) : v \in old
    BY DEF Segment, old
  <2>3. EntryHighDefined(more, u) <=> EntryHighDefined(raw, u)
    BY <1>4, <1>5, <2>1, <2>2 DEF EntryHighDefined
  <2>4. ASSUME EntryHighDefined(raw, u) PROVE EntryHigh(more, u) = EntryHigh(raw, u)
    <3>1. \A v \in Channel(u) : High(more, v) = High(raw, v)
      BY <1>6, <2>2, <2>4 DEF EntryHighDefined
    <3>2. {High(more, v) : v \in Channel(u)} = {High(raw, v) : v \in Channel(u)}
      BY <3>1
    <3>3. QED
      BY <3>2 DEF EntryHigh
  <2>5. QED
    BY <2>3, <2>4
<1>10. EvaluateEntry(more, t) = EvaluateEntry(raw, t)
  <2>1. t - 1 \in Segment(more, t) <=> t - 1 \in Segment(raw, t)
    BY <1>1, <1>4
  <2>2. t - 1 \in Segment(raw, t) => t - 1 \in old /\ t - 1 <= t
    BY <1>1 DEF Segment, old
  <2>3. t <= t
    BY <1>1
  <2>4. CASE t - 1 \notin Segment(raw, t)
    BY <2>1, <2>4 DEF EvaluateEntry
  <2>5. CASE t - 1 \in Segment(raw, t)
    <3>1. /\ HasValues(more, t - 1) = HasValues(raw, t - 1)
          /\ Close(more, t) = Close(raw, t) /\ Close(more, t - 1) = Close(raw, t - 1)
      BY <1>1, <1>5, <1>6, <2>2, <2>5
    <3>2. /\ EntryHighDefined(more, t) <=> EntryHighDefined(raw, t)
          /\ EntryHighDefined(raw, t) => EntryHigh(more, t) = EntryHigh(raw, t)
      BY <1>1, <1>9, <2>3
    <3>3. /\ EntryHighDefined(more, t - 1) <=> EntryHighDefined(raw, t - 1)
          /\ EntryHighDefined(raw, t - 1) => EntryHigh(more, t - 1) = EntryHigh(raw, t - 1)
      BY <1>9, <2>2, <2>5
    <3>4. ASSUME EvaluateEntry(more, t) PROVE EvaluateEntry(raw, t)
      BY <1>7, <1>8, <2>1, <3>1, <3>2, <3>3, <3>4 DEF EvaluateEntry
    <3>5. ASSUME EvaluateEntry(raw, t) PROVE EvaluateEntry(more, t)
      BY <1>7, <1>8, <2>1, <3>1, <3>2, <3>3, <3>5 DEF EvaluateEntry
    <3>6. QED
      BY <3>4, <3>5 DEF EvaluateEntry
  <2>6. QED
    BY <2>4, <2>5
<1>11. t \in Index(more)
  BY SlotsFinal DEF more
<1>12. QED
  BY <1>1, <1>3, <1>5, <1>6, <1>7, <1>10, <1>11 DEF Canonicalize, more, old

-----------------------------------------------------------------------------
\* The frame and the bars

\* The frame is computed from the completed bars.
QualityInv ==
    /\ Raw(bars)
    /\ frame = Canonicalize(bars) \/ (frame = <<>> /\ bars = <<>>)

\* There is nothing before the first bar.
LEMMA InitQuality == QualityInit => QualityInv
BY DEF QualityInit, QualityInv, Raw

\* A bar completes and the frame is computed again.
LEMMA NextQuality == QualityInv /\ [QualityNext]_qualityVars => QualityInv'
<1> SUFFICES ASSUME QualityInv, [QualityNext]_qualityVars PROVE QualityInv'
  OBVIOUS
<1>1. CASE Complete
  <2>1. PICK bar \in Bars : bars' = Append(bars, bar)
    BY <1>1 DEF Complete
  <2>2. frame' = Canonicalize(bars')
    BY <1>1 DEF Complete, DropUnclosed
  <2>3. Raw(bars')
    BY <2>1 DEF QualityInv, Raw
  <2>4. QED
    BY <2>2, <2>3 DEF QualityInv
<1>2. CASE UNCHANGED qualityVars
  BY <1>2 DEF QualityInv, qualityVars
<1>3. QED
  BY <1>1, <1>2 DEF QualityNext

\* The domain of the frame, and its rows.
LEMMA Frames ==
    ASSUME QualityInv
    PROVE  \A t \in DOMAIN frame : t \in Index(bars) /\ frame = Canonicalize(bars)
<1>1. \A t : t \notin DOMAIN <<>>
  OBVIOUS
<1>2. DOMAIN Canonicalize(bars) = Index(bars)
  BY DEF Canonicalize
<1>3. QED
  BY <1>1, <1>2 DEF QualityInv

\* Nothing looks ahead (BarsFinal): a bar of the frame keeps its segment, its flags
\* and its entry signal whatever completes after it.
THEOREM BarsFinalHolds == QualitySpec => BarsFinal
<1> DEFINE Final == \A t \in DOMAIN frame : t \in DOMAIN frame' /\ frame'[t] = frame[t]
<1>1. QualityInv /\ [QualityNext]_qualityVars => [Final]_qualityVars
  <2> SUFFICES ASSUME QualityInv, Complete, NEW t \in DOMAIN frame
               PROVE  t \in DOMAIN frame' /\ frame'[t] = frame[t]
    BY DEF QualityNext
  <2>1. PICK bar \in Bars : bars' = Append(bars, bar)
    BY DEF Complete
  <2>2. frame' = Canonicalize(bars')
    BY DEF Complete, DropUnclosed
  <2>3. t \in Index(bars) /\ frame = Canonicalize(bars) /\ Raw(bars)
    BY Frames DEF QualityInv
  <2>4. t \in Index(bars')
    BY <2>1, <2>3, SlotsFinal
  <2>5. QED
    BY <2>1, <2>2, <2>3, <2>4, RowsFinal DEF Canonicalize
<1>2. [][Final]_qualityVars => BarsFinal
  BY PTL DEF BarsFinal
<1>3. QED
  BY <1>1, <1>2, InitQuality, NextQuality, PTL DEF QualitySpec

-----------------------------------------------------------------------------
\* Entries

\* What a bar with an entry signal has behind it.
LEMMA EntryBars ==
    ASSUME NEW raw, Raw(raw), NEW t \in Index(raw), EvaluateEntry(raw, t)
    PROVE  /\ raw[t].kind = "ok"
           /\ \A u \in t - 1 - EntryPeriod..t : u > 0 /\ raw[u].kind = "ok"
<1>1. t \in Int /\ Len(raw) \in Nat /\ Index(raw) \subseteq 1..Len(raw)
  BY Indexed, RawBars
<1>2. EntryPeriod \in Nat /\ Lookback \in Nat /\ Lookback > EntryPeriod + 1
  BY QualityAssumption
<1>3. \A u \in Index(raw) : HasValues(raw, u) /\ ~Contaminated(raw, u) => raw[u].kind = "ok"
  BY DEF HasValues, Contaminated
<1>4. t \in Segment(raw, t) /\ t - 1 \in Segment(raw, t) /\ Segment(raw, t - 1) = Segment(raw, t)
  BY DEF EvaluateEntry, Segment
<1>5. \A u \in t - 1 - EntryPeriod..t : u \in Segment(raw, t) /\ HasValues(raw, u)
  <2> TAKE u \in t - 1 - EntryPeriod..t
  <2>1. u = t \/ u = t - 1 \/ u \in Channel(t - 1)
    BY <1>1, <1>2 DEF Channel
  <2>2. QED
    BY <1>4, <2>1 DEF EvaluateEntry, EntryDataValid, EntryHighDefined
<1>6. \A u \in t - 1 - EntryPeriod..t : ~Contaminated(raw, u)
  <2> TAKE u \in t - 1 - EntryPeriod..t
  <2>1. u <= t /\ u > t - Lookback
    BY <1>1, <1>2
  <2>2. QED
    BY <1>5, <2>1 DEF EvaluateEntry, EntryDataValid
<1>7. \A u \in t - 1 - EntryPeriod..t : u \in Index(raw) /\ u > 0 /\ raw[u].kind = "ok"
  BY <1>1, <1>3, <1>5, <1>6 DEF Segment
<1>8. t \in t - 1 - EntryPeriod..t
  BY <1>1, <1>2
<1>9. QED
  BY <1>7, <1>8

\* Two absent slots in a row end a segment before the next bar that is present.
LEMMA LongGapEnds ==
    ASSUME NEW raw, Raw(raw), NEW u \in Nat \ {0}, NEW t \in 1..Len(raw), u + 1 < t,
           raw[u].kind = "none", raw[u + 1].kind = "none", raw[t].kind # "none"
    PROVE  \E e \in Int : u < e /\ e < t /\ EndsSegment(raw, e)
<1> DEFINE S == {v \in u + 2..t : raw[v].kind # "none"}
<1>1. Len(raw) \in Nat
  BY RawBars
<1>2. t \in S /\ S \in SUBSET Nat
  BY <1>1
<1>3. PICK v \in S : \A y \in S : v <= y
  <2> HIDE DEF S
  <2>1. Min(S) \in S /\ \A y \in S : Min(S) <= y
    BY <1>2, MinimumOf
  <2>2. QED
    BY <2>1
<1>4. v \in u + 2..t /\ raw[v].kind # "none" /\ \A y \in u + 2..t : raw[y].kind # "none" => v <= y
  BY <1>3
<1> HIDE DEF S
<1> DEFINE e == v - 1
<1>5. e \in Int /\ u < e /\ e < t /\ e + 1 = v /\ e - 1 \in Int
  BY <1>1, <1>4
<1>6. raw[e].kind = "none"
  <2>1. e = u + 1 \/ e \in u + 2..t
    BY <1>1, <1>4
  <2>2. e < v
    BY <1>1, <1>4
  <2>3. e \in u + 2..t => ~(v <= e)
    BY <1>1, <1>4, <2>2
  <2>4. QED
    BY <1>4, <2>1, <2>3
<1>7. raw[e - 1].kind = "none"
  <2>1. e - 1 = u \/ e - 1 = u + 1 \/ e - 1 \in u + 2..t
    BY <1>1, <1>4
  <2>2. e - 1 \in u + 2..t => ~(v <= e - 1)
    BY <1>1, <1>4
  <2>3. QED
    BY <1>4, <2>1, <2>2
<1>8. EndsSegment(raw, e)
  BY <1>4, <1>5, <1>6, <1>7 DEF EndsSegment, Filled
<1>9. QED
  BY <1>5, <1>8

\* The warm-up of a bar is served after the last long gap.
LEMMA WarmupAfterGap ==
    ASSUME NEW raw, Raw(raw), NEW t \in Index(raw), EvaluateEntry(raw, t),
           NEW u \in 1..t - 1, raw[u].kind = "none", raw[u + 1].kind = "none"
    PROVE  Cardinality({x \in u + 2..t - 1 : raw[x].kind = "ok"}) >= WarmupBars
<1> DEFINE served == {x \in Segment(raw, t) : x < t /\ HasValues(raw, x) /\ ~Contaminated(raw, x)}
           after == {x \in u + 2..t - 1 : raw[x].kind = "ok"}
<1>1. t \in 1..Len(raw) /\ Len(raw) \in Nat /\ u \in Nat \ {0} /\ WarmupBars \in Nat
  BY Indexed, RawBars, QualityAssumption
<1>2. raw[t].kind = "ok"
  BY EntryBars
<1>3. u + 1 < t
  BY <1>1, <1>2
<1>4. PICK e \in Int : u < e /\ e < t /\ EndsSegment(raw, e)
  BY <1>1, <1>2, <1>3, LongGapEnds
<1>5. ASSUME NEW x \in served PROVE x \in after
  <2>1. x \in Index(raw) /\ x < t /\ raw[x].kind = "ok" /\ SegmentId(raw, x) = SegmentId(raw, t)
    BY DEF Segment, HasValues, Contaminated
  <2>2. x \in Int
    BY <2>1, Indexed
  <2>3. ~(x <= e)
    BY <1>4, <2>1, Separated
  <2>4. x # u + 1 /\ x > u
    BY <1>1, <1>4, <2>1, <2>2, <2>3
  <2>5. QED
    BY <1>1, <2>1, <2>2, <2>4
<1>6. served \in SUBSET after
  BY <1>5
<1>7. IsFiniteSet(after)
  <2>1. u + 2 \in Int /\ t - 1 \in Int
    BY <1>1
  <2>2. after \in SUBSET (u + 2..t - 1) /\ IsFiniteSet(u + 2..t - 1)
    BY <2>1, FS_Interval
  <2>3. QED
    BY <2>2, FS_Subset
<1>8. Cardinality(served) >= WarmupBars
  BY DEF EvaluateEntry, WarmupComplete
<1>9. Cardinality(served) <= Cardinality(after) /\ Cardinality(served) \in Nat /\ Cardinality(after) \in Nat
  BY <1>6, <1>7, FS_Subset, FS_CardinalityType
<1> HIDE DEF served, after
<1>10. Cardinality(after) >= WarmupBars
  BY <1>1, <1>8, <1>9
<1>11. QED
  BY <1>10 DEF after

\* An entry signal stands on real bars and on a warm-up since the last long gap
\* (EntrySound), for any look-back, channel, warm-up and sequence of bars.
THEOREM EntrySoundHolds == QualitySpec => []EntrySound
<1>1. QualityInv => EntrySound
  <2> SUFFICES ASSUME QualityInv PROVE EntrySound
    OBVIOUS
  <2>1. Raw(bars)
    BY DEF QualityInv
  <2>2. \A t \in DOMAIN frame : t \in Index(bars) /\ (frame[t].entry <=> EvaluateEntry(bars, t))
    <3> TAKE t \in DOMAIN frame
    <3>1. t \in Index(bars) /\ frame = Canonicalize(bars)
      BY Frames
    <3>2. frame[t].entry = EvaluateEntry(bars, t)
      BY <3>1 DEF Canonicalize
    <3>3. QED
      BY <3>1, <3>2
  <2>3. EntryOnRealBars
    BY <2>1, <2>2, EntryBars DEF EntryOnRealBars
  <2>4. WarmedUp
    <3> SUFFICES ASSUME NEW t \in DOMAIN frame, frame[t].entry, NEW u \in 1..t - 1,
                        bars[u].kind = "none", bars[u + 1].kind = "none"
                 PROVE  Cardinality({x \in u + 2..t - 1 : bars[x].kind = "ok"}) >= WarmupBars
      BY DEF WarmedUp
    <3>1. QED
      BY <2>1, <2>2, WarmupAfterGap
  <2>5. QED
    BY <2>3, <2>4 DEF EntrySound
<1>2. QED
  BY <1>1, InitQuality, NextQuality, PTL DEF QualitySpec

-----------------------------------------------------------------------------
\* The quality surface

\* The first slot of the frame is present and in segment 0.
LEMMA FirstSlot ==
    ASSUME NEW raw, Raw(raw), NEW t \in Index(raw), t - 1 \notin Index(raw)
    PROVE  raw[t].kind # "none" /\ SegmentId(raw, t) = 0
<1>1. t \in Int
  BY Indexed
<1>2. raw[t].kind # "none"
  BY Neighbours
<1>3. Ends(raw, t) = {}
  <2> SUFFICES ASSUME NEW u \in Index(raw), u < t PROVE FALSE
    BY DEF Ends
  <2>1. u \in Int /\ u <= t - 1 /\ t - 1 \in Int /\ t - 1 <= t
    BY <1>1, Indexed
  <2>2. QED
    BY <2>1, Convex
<1>4. QED
  BY <1>1, <1>2, <1>3, SegmentCount, FS_EmptySet

\* What the runner reads of a row, in terms of the raw bars.
LEMMA Surface ==
    ASSUME NEW raw, Raw(raw), NEW f, f = Canonicalize(raw)
    PROVE  /\ DOMAIN f = Index(raw)
           /\ \A t \in Index(raw) :
                 /\ raw[t].kind \in Kinds
                 /\ f[t].segment = SegmentId(raw, t) /\ f[t].close = Close(raw, t)
                 /\ f[t].filled <=> Filled(raw, t)
                 /\ f[t].quarantined <=> raw[t].kind = "bad"
                 /\ f[t].anomaly <=> raw[t].kind \in {"spike", "flat"}
                 /\ f[t].available <=> HasValues(raw, t)
                 /\ f[t].valid <=> EntryDataValid(raw, t)
                 /\ Observed(f, t) <=> raw[t].kind # "none"
                 /\ LongGap(f, t) <=> raw[t].kind = "none" /\ ~Filled(raw, t)
<1>1. DOMAIN f = Index(raw) /\ \A t \in Index(raw) : raw[t].kind \in Kinds
  BY Indexed, RawBars DEF Canonicalize
<1>2. \A t \in Index(raw) :
         /\ f[t].segment = SegmentId(raw, t) /\ f[t].close = Close(raw, t)
         /\ f[t].filled = Filled(raw, t)
         /\ f[t].quarantined = (raw[t].kind = "bad")
         /\ f[t].anomaly = (raw[t].kind \in {"spike", "flat"})
         /\ f[t].available = HasValues(raw, t)
         /\ f[t].valid = EntryDataValid(raw, t)
  BY DEF Canonicalize
<1>3. ASSUME NEW t \in Index(raw)
      PROVE  /\ f[t].segment = SegmentId(raw, t) /\ f[t].close = Close(raw, t)
             /\ f[t].filled <=> Filled(raw, t)
             /\ f[t].quarantined <=> raw[t].kind = "bad"
             /\ f[t].anomaly <=> raw[t].kind \in {"spike", "flat"}
             /\ f[t].available <=> HasValues(raw, t)
             /\ f[t].valid <=> EntryDataValid(raw, t)
  BY <1>2
<1>4. ASSUME NEW t \in Index(raw)
      PROVE  /\ Observed(f, t) <=> raw[t].kind # "none"
             /\ LongGap(f, t) <=> raw[t].kind = "none" /\ ~Filled(raw, t)
  <2>1. Filled(raw, t) => raw[t].kind = "none"
    BY DEF Filled
  <2>2. HasValues(raw, t) <=> raw[t].kind \in {"ok", "flat", "spike"} \/ Filled(raw, t)
    BY DEF HasValues
  <2>3. QED
    BY <1>1, <1>3, <2>1, <2>2 DEF Observed, LongGap, Kinds
<1>5. QED
  BY <1>1, <1>3, <1>4

\* The flags of a row, and that a filled row stands between observed ones.
LEMMA RowsJustified ==
    ASSUME NEW raw, Raw(raw), NEW f, f = Canonicalize(raw), NEW t \in Index(raw)
    PROVE  /\ FlagsPossible(f, t)
           /\ f[t].filled => FillJustified(f, t)
           /\ ValidityConsistent(f, t)
<1>1. t \in Int
  BY Indexed
<1>2. FlagsPossible(f, t)
  <2>1. Filled(raw, t) => raw[t].kind = "none"
    BY DEF Filled
  <2>2. HasValues(raw, t) <=> raw[t].kind \in {"ok", "flat", "spike"} \/ Filled(raw, t)
    BY DEF HasValues
  <2>3. QED
    BY <2>1, <2>2, Surface DEF FlagsPossible
<1>3. ASSUME f[t].filled PROVE FillJustified(f, t)
  <2>1. /\ raw[t].kind = "none" /\ raw[t - 1].kind \notin {"none", "bad"} /\ raw[t + 1].kind # "none"
        /\ Filled(raw, t)
    BY <1>3, Surface DEF Filled
  <2>2. t - 1 \in Index(raw) /\ t + 1 \in Index(raw)
    BY <2>1, Neighbours
  <2>3. ~Filled(raw, t - 1) /\ ~EndsSegment(raw, t - 1) /\ ~EndsSegment(raw, t)
    BY <2>1 DEF Filled, EndsSegment
  <2>4. SegmentId(raw, t + 1) = SegmentId(raw, t) /\ SegmentId(raw, t) \in Nat
    BY <2>3, NextSegment
  <2>5. SegmentId(raw, t) = SegmentId(raw, t - 1)
    <3>1. t - 1 + 1 = t
      BY <1>1
    <3>2. /\ SegmentId(raw, t - 1) \in Nat
          /\ SegmentId(raw, t - 1 + 1) = SegmentId(raw, t - 1) + (IF EndsSegment(raw, t - 1) THEN 1 ELSE 0)
      BY <2>2, NextSegment
    <3>3. QED
      BY <2>3, <3>1, <3>2
  <2>6. Close(raw, t) = Close(raw, t - 1)
    BY <2>1, <2>3 DEF Close
  <2>7. HasValues(raw, t - 1)
    <3>1. raw[t - 1].kind \in Kinds
      BY <2>2, Surface
    <3>2. QED
      BY <2>1, <3>1 DEF HasValues, Kinds
  <2>8. Observed(f, t - 1) /\ Observed(f, t + 1) /\ f[t - 1].available
    BY <2>1, <2>2, <2>7, Surface
  <2>9. /\ f[t - 1].segment = f[t].segment /\ f[t + 1].segment = f[t].segment
        /\ f[t - 1].close = f[t].close
    BY <2>2, <2>4, <2>5, <2>6, Surface
  <2>10. QED
    BY <2>8, <2>9 DEF FillJustified
<1>4. ValidityConsistent(f, t)
  <2>1. \A u \in Index(raw) : f[u].filled \/ f[u].quarantined \/ f[u].anomaly <=> Contaminated(raw, u)
    BY Surface DEF Contaminated
  <2>2. \A u \in Index(raw) : f[u].segment = f[t].segment <=> u \in Segment(raw, t)
    BY Surface DEF Segment
  <2>3. /\ f[t].valid <=> EntryDataValid(raw, t)
        /\ f[t].available <=> HasValues(raw, t)
        /\ DOMAIN f = Index(raw)
    BY Surface
  <2>4. Segment(raw, t) \subseteq Index(raw)
    BY DEF Segment
  <2>5. QED
    BY <2>1, <2>2, <2>3, <2>4 DEF ValidityConsistent, EntryDataValid
<1>5. QED
  BY <1>2, <1>3, <1>4

\* A segment goes on from row to row and ends only with a long gap.
LEMMA SegmentsJustified ==
    ASSUME NEW raw, Raw(raw), NEW f, f = Canonicalize(raw), NEW t \in Index(raw)
    PROVE  SegmentJustified(f, t)
<1>1. t \in Int /\ DOMAIN f = Index(raw)
  BY Indexed, Surface
<1>2. CASE t - 1 \notin Index(raw)
  <2>1. f[t].segment = 0 /\ ~LongGap(f, t)
    BY <1>2, FirstSlot, Surface
  <2>2. QED
    BY <1>1, <1>2, <2>1 DEF SegmentJustified
<1>3. CASE t - 1 \in Index(raw)
  <2> DEFINE ends == LongGap(f, t - 1) /\ ~LongGap(f, t)
  <2>1. /\ LongGap(f, t) <=> raw[t].kind = "none" /\ ~Filled(raw, t)
        /\ LongGap(f, t - 1) <=> raw[t - 1].kind = "none" /\ ~Filled(raw, t - 1)
        /\ Observed(f, t) <=> raw[t].kind # "none"
        /\ Observed(f, t - 1) <=> raw[t - 1].kind # "none"
        /\ f[t].segment = SegmentId(raw, t) /\ f[t - 1].segment = SegmentId(raw, t - 1)
    BY <1>3, Surface
  <2>2. t - 1 + 1 = t /\ t - 1 - 1 = t - 2
    BY <1>1
  <2>3. /\ Filled(raw, t) <=> raw[t].kind = "none" /\ raw[t - 1].kind \notin {"none", "bad"} /\ raw[t + 1].kind # "none"
        /\ Filled(raw, t - 1) <=> raw[t - 1].kind = "none" /\ raw[t - 2].kind \notin {"none", "bad"} /\ raw[t].kind # "none"
        /\ EndsSegment(raw, t - 1) <=> raw[t - 1].kind = "none" /\ raw[t].kind # "none" /\ ~Filled(raw, t - 1)
    BY <2>2 DEF Filled, EndsSegment
  <2>4. EndsSegment(raw, t - 1) <=> ends
    BY <2>1, <2>3
  <2>5. f[t].segment = f[t - 1].segment + (IF ends THEN 1 ELSE 0)
    <3>1. SegmentId(raw, t - 1 + 1) = SegmentId(raw, t - 1) + (IF EndsSegment(raw, t - 1) THEN 1 ELSE 0)
      BY <1>3, NextSegment
    <3>2. QED
      BY <2>1, <2>2, <2>4, <3>1
  <2>6. LongGap(f, t) /\ ~LongGap(f, t - 1) => Observed(f, t - 1)
    BY <2>1, <2>3
  <2>7. LongGap(f, t) => t + 1 \in DOMAIN f
    BY <1>1, <2>1, Neighbours
  <2>8. ASSUME ends PROVE Observed(f, t) /\ (LongGap(f, t - 2) \/ f[t - 2].quarantined)
    <3>1. raw[t - 1].kind = "none" /\ raw[t].kind # "none" /\ raw[t - 2].kind \in {"none", "bad"}
      BY <2>1, <2>3, <2>8
    <3>2. t - 2 \in Index(raw)
      BY <1>3, <2>2, <3>1, Neighbours
    <3>3. ~Filled(raw, t - 2)
      <4>1. t - 2 + 1 = t - 1
        BY <1>1
      <4>2. QED
        BY <3>1, <4>1 DEF Filled
    <3>4. /\ LongGap(f, t - 2) <=> raw[t - 2].kind = "none" /\ ~Filled(raw, t - 2)
          /\ f[t - 2].quarantined <=> raw[t - 2].kind = "bad"
      BY <3>2, Surface
    <3>5. QED
      BY <2>1, <3>1, <3>3, <3>4
  <2>9. QED
    BY <1>1, <1>3, <2>5, <2>6, <2>7, <2>8 DEF SegmentJustified
<1>4. QED
  BY <1>2, <1>3

\* Every frame the quality rules produce passes the walk-forward runner's check of
\* its quality surface (SurfaceAccepted): the runner's rules follow from those of
\* canonicalize_ohlcv, whatever the bars.
THEOREM SurfaceAcceptedHolds == QualitySpec => []SurfaceAccepted
<1>1. QualityInv => SurfaceAccepted
  <2> SUFFICES ASSUME QualityInv, NEW t \in DOMAIN frame
               PROVE  /\ FlagsPossible(frame, t)
                      /\ frame[t].filled => FillJustified(frame, t)
                      /\ SegmentJustified(frame, t)
                      /\ ValidityConsistent(frame, t)
    BY DEF SurfaceAccepted, SurfaceValid
  <2>1. t \in Index(bars) /\ frame = Canonicalize(bars) /\ Raw(bars)
    BY Frames DEF QualityInv
  <2>2. QED
    BY <2>1, RowsJustified, SegmentsJustified
<1>2. QED
  BY <1>1, InitQuality, NextQuality, PTL DEF QualitySpec
=============================================================================
