---------------------------- MODULE ResearchProofs ----------------------------
(***************************************************************************)
(* What the research keeps of a company.                                   *)
(*                                                                         *)
(* Facts: a normalisation without an error is complete, and later imports  *)
(* change neither what was known as of a day nor the year a company's      *)
(* statements have reached, for any filings, facts, mapping rules, sheets, *)
(* processes that normalise and commits that fail.                         *)
(*                                                                         *)
(* Evidence: the bundles of one scoring agree on every text, for any       *)
(* filings, texts, failures, evictions and restarts.  What the bundles     *)
(* find in a text is not opened.                                           *)
(*                                                                         *)
(* ReportCards: a card stays as it was created, so that the evidence of a  *)
(* book stays eligible; and only a new filing moves a company on, in its   *)
(* packets and its timeline, for any companies, filings, verdicts, books   *)
(* and days.                                                               *)
(*                                                                         *)
(* Facts and cards are both numbered in the order of their creation and    *)
(* read in another one, the newest first: the lemmas on orders of finitely *)
(* many things come first.                                                 *)
(***************************************************************************)
EXTENDS ReportCards, Evidence, Facts, FiniteSetTheorems, WellFoundedInduction, TLAPS

-----------------------------------------------------------------------------
(* Orders of finitely many things *)

LEMMA LeastOf ==
    ASSUME NEW T \in SUBSET Nat, T # {}
    PROVE  \E x \in T : \A y \in T : x <= y
<1> DEFINE R == OpToRel(<, Nat)
<1>1. IsWellFoundedOn(R, Nat)
  BY NatLessThanWellFounded
<1>2. \A x, y \in Nat : y < x => <<y, x>> \in R
  BY DEF OpToRel
<1> HIDE DEF R
<1>3. PICK x \in T : \A y \in T : ~ (<<y, x>> \in R)
  BY <1>1, WFMin
<1>4. ASSUME NEW y \in T PROVE x <= y
  <2>1. ~ (y < x)
    BY <1>2, <1>3
  <2>2. QED
    BY <2>1
<1>5. QED
  BY <1>4

\* Any two members are in order, one way.
Ordered(R, n) ==
    /\ \A x, y \in 1 .. n : x # y => (<<x, y>> \in R \/ <<y, x>> \in R)
    /\ \A x, y, z \in 1 .. n : <<x, y>> \in R /\ <<y, z>> \in R => <<x, z>> \in R
    /\ \A x \in 1 .. n : <<x, x>> \notin R

\* Some member of a set comes first.
LEMMA FirstInOrder ==
    ASSUME NEW n \in Nat, NEW R, Ordered(R, n), NEW S \in SUBSET (1 .. n), S # {}
    PROVE  \E x \in S : \A y \in S \ {x} : <<x, y>> \in R
<1> DEFINE HasFirst(T) == \E x \in T : \A y \in T \ {x} : <<x, y>> \in R
           Bad == {m \in Nat : \E T \in SUBSET (1 .. n) : T # {} /\ (\A y \in T : y <= m) /\ ~ HasFirst(T)}
<1>1. SUFFICES ASSUME ~ HasFirst(S) PROVE FALSE
  OBVIOUS
<1>2. n \in Bad
  BY <1>1
<1>3. PICK m \in Bad : \A k \in Bad : m <= k
  <2>1. Bad \in SUBSET Nat /\ Bad # {}
    BY <1>2
  <2> HIDE DEF Bad
  <2>2. QED
    BY <2>1, LeastOf
<1>4. PICK T \in SUBSET (1 .. n) : T # {} /\ (\A y \in T : y <= m) /\ ~ HasFirst(T)
  OBVIOUS
<1>5. m \in Nat /\ m # 0 /\ m - 1 \in Nat
  <2>1. m \in Nat
    OBVIOUS
  <2>2. PICK y \in T : y <= m
    BY <1>4
  <2>3. y \in 1 .. n
    OBVIOUS
  <2> HIDE DEF Bad
  <2>4. QED
    BY <2>1, <2>2, <2>3
<1>6. m - 1 \notin Bad
  <2>1. \A k \in Bad : m <= k
    BY <1>3
  <2> HIDE DEF Bad
  <2>2. QED
    BY <1>5, <2>1
<1> DEFINE U == T \ {m}
<1>7. U \in SUBSET (1 .. n) /\ \A y \in U : y <= m - 1
  BY <1>4, <1>5
<1>8. U # {} => HasFirst(U)
  <2>1. SUFFICES ASSUME U # {}, ~ HasFirst(U) PROVE FALSE
    OBVIOUS
  <2>2. m - 1 \in Bad
    BY <1>5, <1>7, <2>1
  <2>3. QED
    BY <1>6, <2>2
<1>9. m \in T
  <2>1. SUFFICES ASSUME m \notin T PROVE FALSE
    OBVIOUS
  <2>2. U = T
    BY <2>1
  <2>3. QED
    BY <1>4, <1>8, <2>2
<1>10. U # {}
  <2>1. SUFFICES ASSUME U = {} PROVE FALSE
    OBVIOUS
  <2>2. T \ {m} = {}
    BY <2>1
  <2>3. HasFirst(T)
    BY <1>9, <2>2
  <2>4. QED
    BY <1>4, <2>3
<1>11. PICK z \in U : \A y \in U \ {z} : <<z, y>> \in R
  BY <1>8, <1>10
<1>12. z \in 1 .. n /\ m \in 1 .. n /\ z # m
  BY <1>7, <1>9, <1>4
<1>13. CASE <<z, m>> \in R
  <2>1. \A y \in T \ {z} : <<z, y>> \in R
    BY <1>11, <1>13
  <2>2. QED
    BY <1>4, <1>11, <2>1
<1>14. CASE <<m, z>> \in R
  <2>1. \A y \in T \ {m} : <<m, y>> \in R
    BY <1>4, <1>9, <1>11, <1>12, <1>14 DEF Ordered
  <2>2. QED
    BY <1>4, <1>9, <2>1
<1>15. QED
  BY <1>12, <1>13, <1>14 DEF Ordered

-----------------------------------------------------------------------------
(* Places in an order *)

\* How many members of S an order puts after x.
Place(R, S, x) == Cardinality({y \in S : <<x, y>> \in R})

LEMMA PartIsFinite ==
    ASSUME NEW n \in Nat, NEW S \in SUBSET (1 .. n)
    PROVE  IsFiniteSet(S) /\ Cardinality(S) \in Nat
<1>1. IsFiniteSet(1 .. n)
  BY FS_Interval
<1>2. IsFiniteSet(S)
  BY <1>1, FS_Subset
<1>3. QED
  BY <1>2, FS_CardinalityType

LEMMA PlaceIsOwn ==
    ASSUME NEW n \in Nat, NEW R, Ordered(R, n), NEW S \in SUBSET (1 .. n),
           NEW x \in S, NEW y \in S, Place(R, S, x) = Place(R, S, y)
    PROVE  x = y
<1>1. ASSUME NEW a \in S, NEW b \in S, <<a, b>> \in R
      PROVE  Place(R, S, a) # Place(R, S, b)
  <2> DEFINE A == {z \in S : <<a, z>> \in R}
             B == {z \in S : <<b, z>> \in R}
  <2>1. B \in SUBSET A
    BY <1>1 DEF Ordered
  <2>2. b \in A /\ b \notin B
    BY <1>1 DEF Ordered
  <2>3. IsFiniteSet(A)
    BY PartIsFinite
  <2>4. Cardinality(A) # Cardinality(B)
    BY <2>1, <2>2, <2>3, FS_Subset
  <2>5. QED
    BY <2>4 DEF Place
<1>2. x # y => <<x, y>> \in R \/ <<y, x>> \in R
  BY DEF Ordered
<1>3. QED
  BY <1>1, <1>2

\* Every place is taken.
LEMMA PlaceIsTaken ==
    ASSUME NEW n \in Nat, NEW R, Ordered(R, n),
           NEW S \in SUBSET (1 .. n), NEW k \in 1 .. Cardinality(S)
    PROVE  \E x \in S : Place(R, S, x) = k - 1
<1> DEFINE Taken(T, j) == \E x \in T : Place(R, T, x) = j - 1
           Gaps == {m \in Nat : \E T \in SUBSET (1 .. n) :
                                  Cardinality(T) = m /\ \E j \in 1 .. m : ~ Taken(T, j)}
<1>1. SUFFICES ASSUME ~ Taken(S, k) PROVE FALSE
  OBVIOUS
<1>2. Cardinality(S) \in Gaps
  BY <1>1, PartIsFinite
<1>3. PICK m \in Gaps : \A i \in Gaps : m <= i
  <2>1. Gaps \in SUBSET Nat /\ Gaps # {}
    BY <1>2
  <2> HIDE DEF Gaps
  <2>2. QED
    BY <2>1, LeastOf
<1>4. PICK T \in SUBSET (1 .. n) : Cardinality(T) = m /\ \E j \in 1 .. m : ~ Taken(T, j)
  OBVIOUS
<1>5. PICK j \in 1 .. m : ~ Taken(T, j)
  BY <1>4
<1>6. m \in Nat
  OBVIOUS
<1>7. m - 1 \in Nat /\ m - 1 \notin Gaps
  <2>1. \A i \in Gaps : m <= i
    BY <1>3
  <2> HIDE DEF Gaps
  <2>2. QED
    BY <1>5, <1>6, <2>1
<1>8. IsFiniteSet(T) /\ T # {}
  <2>1. IsFiniteSet(T)
    BY PartIsFinite
  <2>2. Cardinality(T) = m
    BY <1>4
  <2>3. m # 0
    BY <1>5, <1>6
  <2> HIDE DEF Gaps
  <2>4. QED
    BY <2>1, <2>2, <2>3, FS_EmptySet
<1>9. PICK last \in T : \A y \in T \ {last} : <<last, y>> \in R
  BY <1>8, FirstInOrder
<1> DEFINE U == T \ {last}
<1>10. U \in SUBSET (1 .. n) /\ Cardinality(U) = m - 1
  BY <1>4, <1>8, FS_RemoveElement
<1>11. CASE j = m
  <2>1. {y \in T : <<last, y>> \in R} = U
    BY <1>9 DEF Ordered
  <2>2. Place(R, T, last) = j - 1
    BY <1>10, <1>11, <2>1 DEF Place
  <2>3. QED
    BY <1>5, <2>2
<1>12. CASE j # m
  <2>1. j \in 1 .. m - 1
    BY <1>6, <1>12
  <2>2. Taken(U, j)
    <3>1. SUFFICES ASSUME ~ Taken(U, j) PROVE FALSE
      OBVIOUS
    <3>2. m - 1 \in Gaps
      BY <1>7, <1>10, <2>1, <3>1
    <3>3. QED
      BY <1>7, <3>2
  <2>3. PICK x \in U : Place(R, U, x) = j - 1
    BY <2>2
  <2>4. <<x, last>> \notin R
    BY <1>9, <2>3 DEF Ordered
  <2>5. {y \in T : <<x, y>> \in R} = {y \in U : <<x, y>> \in R}
    BY <2>4
  <2>6. Place(R, T, x) = j - 1
    BY <2>3, <2>5 DEF Place
  <2>7. QED
    BY <1>5, <2>3, <2>6
<1>13. QED
  BY <1>11, <1>12

-----------------------------------------------------------------------------
(* The facts of a file are stored one by one *)

PayloadFacts == [accn : DOMAIN FilingOf, tag : STRING, start : Nat, end : Nat, val : Int,
                 year : Nat, period : STRING]

\* A raw fact has what the file says and the dates of its filing.
RowFits(r) ==
    /\ r.accn \in DOMAIN FilingOf
    /\ r.year \in Nat /\ r.end \in Nat /\ r.accepted \in Nat /\ r.filed \in Nat

RowsFit(rs) ==
    /\ \E S : rs \in Seq(S)
    /\ \A i \in DOMAIN rs : RowFits(rs[i])

\* The rows qs are the rows rs and after them others, each a fact of a linked
\* filing that was not there before.
Extends(qs, rs) ==
    /\ RowsFit(qs)
    /\ DOMAIN rs \subseteq DOMAIN qs
    /\ \A i \in DOMAIN rs : qs[i] = rs[i]
    /\ \A i \in DOMAIN qs \ DOMAIN rs :
          \E k \in DOMAIN Payload :
              /\ Hash(qs[i]) = Hash(Payload[k])
              /\ qs[i].accn = Payload[k].accn
              /\ \A j \in DOMAIN rs : Hash(rs[j]) # Hash(Payload[k])

LEMMA SequencesFit ==
    ASSUME NEW T, NEW s \in Seq(T)
    PROVE  Len(s) \in Nat /\ DOMAIN s = 1 .. Len(s) /\ \A k \in DOMAIN s : s[k] \in T
OBVIOUS

LEMMA PayloadFits ==
    /\ Len(Payload) \in Nat
    /\ DOMAIN Payload = 1 .. Len(Payload)
    /\ \A k \in DOMAIN Payload : Payload[k] \in PayloadFacts
<1>1. Payload \in Seq(PayloadFacts)
  BY FactsAssumption DEF PayloadFacts
<1> HIDE DEF PayloadFacts
<1>2. QED
  BY <1>1, SequencesFit

LEMMA ExtendsItself ==
    ASSUME NEW rs, RowsFit(rs)
    PROVE  Extends(rs, rs)
BY DEF Extends

LEMMA IngestOneExtends ==
    ASSUME NEW rs, NEW qs, Extends(qs, rs), NEW k \in DOMAIN Payload
    PROVE  Extends(IngestSingleFact(qs, Payload[k]), rs)
<1> DEFINE f == Payload[k]
           versions == VersionsOf(qs, Lineage(f))
           prior == IF versions = {} THEN 0 ELSE NewestOf(qs, versions)
           version == IF prior = 0 THEN 1 ELSE qs[prior].version + 1
           first == IF prior = 0 THEN f.accn ELSE qs[prior].first
           row == [accn |-> f.accn, tag |-> f.tag, start |-> f.start, end |-> f.end, val |-> f.val,
                   year |-> f.year, period |-> f.period, version |-> version, prior |-> prior,
                   first |-> first, accepted |-> FilingOf[f.accn].accepted, filed |-> FilingOf[f.accn].filed]
           all == Append(qs, row)
<1>1. CASE IngestSingleFact(qs, f) = qs
  BY <1>1
<1>2. CASE /\ f.accn \in linked
           /\ \A i \in DOMAIN qs : Hash(qs[i]) # Hash(f)
           /\ IngestSingleFact(qs, f) = all
  <2>1. f \in PayloadFacts
    BY PayloadFits
  <2>2. /\ row.accn = f.accn /\ row.tag = f.tag /\ row.start = f.start /\ row.end = f.end /\ row.val = f.val
        /\ row.year = f.year
        /\ row.accepted = FilingOf[f.accn].accepted /\ row.filed = FilingOf[f.accn].filed
    OBVIOUS
  <2>3. f.accn \in DOMAIN FilingOf /\ f.year \in Nat /\ f.end \in Nat
    BY <2>1 DEF PayloadFacts
  <2> HIDE DEF row, f
  <2>4. RowFits(row) /\ Hash(row) = Hash(f)
    BY <2>2, <2>3, FactsAssumption DEF RowFits, Hash
  <2>5. PICK S : qs \in Seq(S)
    BY DEF Extends, RowsFit
  <2>6. /\ all \in Seq(S \cup {row})
        /\ DOMAIN all = DOMAIN qs \cup {Len(qs) + 1}
        /\ \A i \in DOMAIN qs : all[i] = qs[i]
        /\ all[Len(qs) + 1] = row
    BY <2>5
  <2>7. Len(qs) + 1 \notin DOMAIN qs
    BY <2>5
  <2> HIDE DEF all
  <2>8. RowsFit(all)
    BY <2>4, <2>6 DEF Extends, RowsFit
  <2>9. \A j \in DOMAIN rs : Hash(rs[j]) # Hash(f)
    BY <1>2 DEF Extends
  <2>10. Extends(all, rs)
    BY <2>2, <2>4, <2>6, <2>7, <2>8, <2>9 DEF Extends, f
  <2>11. QED
    BY <1>2, <2>10 DEF f
<1>3. IngestSingleFact(qs, f) =
        IF f.accn \notin linked \/ \E i \in DOMAIN qs : Hash(qs[i]) = Hash(f) THEN qs ELSE all
  BY DEF IngestSingleFact
<1> HIDE DEF all
<1>4. QED
  BY <1>1, <1>2, <1>3

\* The rows after the first k facts, as a function there is.
IngestStep(rs, k) == IF Payload[k].accn \in published THEN IngestSingleFact(rs, Payload[k]) ELSE rs
IsIngested(g, n) == g = [k \in 0 .. n |-> IF k = 0 THEN raws ELSE IngestStep(g[k - 1], k)]

LEMMA IngestedSoFar ==
    ASSUME NEW n \in 0 .. Len(Payload)
    PROVE  \E g : IsIngested(g, n)
<1> DEFINE Missing == {m \in Nat : m <= Len(Payload) /\ ~ \E g : IsIngested(g, m)}
<1>1. Len(Payload) \in Nat
  BY PayloadFits
<1>2. SUFFICES ASSUME Missing # {} PROVE FALSE
  BY <1>1
<1>3. PICK m \in Missing : \A k \in Missing : m <= k
  <2>1. Missing \in SUBSET Nat
    OBVIOUS
  <2> HIDE DEF Missing
  <2>2. QED
    BY <1>2, <2>1, LeastOf
<1>4. m \in Nat /\ m <= Len(Payload) /\ ~ \E g : IsIngested(g, m)
  OBVIOUS
<1>5. CASE m = 0
  <2>1. IsIngested([k \in 0 .. 0 |-> raws], 0)
    BY DEF IsIngested
  <2>2. QED
    BY <1>4, <1>5, <2>1
<1>6. CASE m # 0
  <2>1. m - 1 \in Nat /\ m - 1 <= Len(Payload) /\ m - 1 \notin Missing
    <3>1. \A k \in Missing : m <= k
      BY <1>3
    <3> HIDE DEF Missing
    <3>2. QED
      BY <1>1, <1>4, <1>6, <3>1
  <2>2. PICK g : IsIngested(g, m - 1)
    BY <2>1
  <2> DEFINE h == [k \in 0 .. m |-> IF k = m THEN IngestStep(g[m - 1], m) ELSE g[k]]
  <2>3. \A k \in 0 .. m - 1 : g[k] = IF k = 0 THEN raws ELSE IngestStep(g[k - 1], k)
    BY <2>2 DEF IsIngested
  <2>4. ASSUME NEW k \in 0 .. m
        PROVE  h[k] = IF k = 0 THEN raws ELSE IngestStep(h[k - 1], k)
    <3>1. CASE k = m
      <4>1. h[k] = IngestStep(g[m - 1], m)
        BY <3>1
      <4>2. m - 1 \in 0 .. m /\ m - 1 # m
        BY <1>4, <1>6
      <4>3. h[k - 1] = g[m - 1]
        BY <3>1, <4>2
      <4> HIDE DEF h
      <4>4. QED
        BY <1>6, <3>1, <4>1, <4>3
    <3>2. CASE k # m
      <4>1. k \in 0 .. m - 1 /\ h[k] = g[k]
        BY <1>4, <3>2
      <4>2. k # 0 => k - 1 \in 0 .. m /\ k - 1 # m
        BY <1>4, <3>2
      <4>3. k # 0 => h[k - 1] = g[k - 1]
        BY <4>2
      <4> HIDE DEF h
      <4>4. QED
        BY <2>3, <4>1, <4>3
    <3>3. QED
      BY <3>1, <3>2
  <2>5. h = [k \in 0 .. m |-> h[k]]
    OBVIOUS
  <2>6. IsIngested(h, m)
    <3> HIDE DEF h
    <3>1. QED
      BY <2>4, <2>5 DEF IsIngested
  <2>7. QED
    BY <1>4, <2>6
<1>7. QED
  BY <1>5, <1>6

LEMMA IngestedIs ==
    \A k \in 0 .. Len(Payload) : Ingested[k] = IF k = 0 THEN raws ELSE IngestStep(Ingested[k - 1], k)
<1>1. Len(Payload) \in 0 .. Len(Payload)
  BY PayloadFits
<1>2. PICK g : IsIngested(g, Len(Payload))
  BY <1>1, IngestedSoFar
<1>3. IsIngested(Ingested, Len(Payload))
  BY <1>2 DEF IsIngested, IngestStep, Ingested
<1>4. QED
  BY <1>3 DEF IsIngested

LEMMA IngestExtends ==
    ASSUME RowsFit(raws)
    PROVE  Extends(Ingested[Len(Payload)], raws)
<1> DEFINE Bad == {m \in Nat : m <= Len(Payload) /\ ~ Extends(Ingested[m], raws)}
<1>1. Len(Payload) \in Nat
  BY PayloadFits
<1>2. SUFFICES ASSUME Bad # {} PROVE FALSE
  BY <1>1
<1>3. PICK m \in Bad : \A k \in Bad : m <= k
  <2>1. Bad \in SUBSET Nat
    OBVIOUS
  <2> HIDE DEF Bad
  <2>2. QED
    BY <1>2, <2>1, LeastOf
<1>4. m \in Nat /\ m <= Len(Payload) /\ ~ Extends(Ingested[m], raws)
  OBVIOUS
<1>5. Ingested[m] = IF m = 0 THEN raws ELSE IngestStep(Ingested[m - 1], m)
  BY <1>1, <1>4, IngestedIs
<1>6. m # 0
  BY <1>4, <1>5, ExtendsItself
<1>7. Extends(Ingested[m - 1], raws)
  <2>1. m - 1 \in Nat /\ m - 1 <= Len(Payload)
    BY <1>1, <1>4, <1>6
  <2>2. m - 1 \notin Bad
    <3>1. \A k \in Bad : m <= k
      BY <1>3
    <3> HIDE DEF Bad
    <3>2. QED
      BY <1>4, <3>1
  <2>3. QED
    BY <2>1, <2>2
<1>8. m \in DOMAIN Payload
  BY <1>1, <1>4, <1>6, PayloadFits
<1>9. QED
  BY <1>4, <1>5, <1>6, <1>7, <1>8, IngestOneExtends DEF IngestStep

-----------------------------------------------------------------------------
(* The orders of raw and of canonical facts *)

\* Numbers in the order of three keys, the largest first, then the last one.
LEMMA ByKeys ==
    ASSUME NEW n \in Nat, NEW a \in [1 .. n -> Nat], NEW b \in [1 .. n -> Nat], NEW c \in [1 .. n -> Nat],
           NEW R, \A x, y \in 1 .. n : <<x, y>> \in R <=>
                    \/ a[x] > a[y]
                    \/ a[x] = a[y] /\ b[x] > b[y]
                    \/ a[x] = a[y] /\ b[x] = b[y] /\ c[x] > c[y]
                    \/ a[x] = a[y] /\ b[x] = b[y] /\ c[x] = c[y] /\ x > y
    PROVE  Ordered(R, n)
<1> DEFINE Gt(x, y) == \/ a[x] > a[y]
                       \/ a[x] = a[y] /\ b[x] > b[y]
                       \/ a[x] = a[y] /\ b[x] = b[y] /\ c[x] > c[y]
                       \/ a[x] = a[y] /\ b[x] = b[y] /\ c[x] = c[y] /\ x > y
<1>0. \A x, y \in 1 .. n : <<x, y>> \in R <=> Gt(x, y)
  OBVIOUS
<1>1. ASSUME NEW x \in 1 .. n, NEW y \in 1 .. n
      PROVE  (x # y => Gt(x, y) \/ Gt(y, x)) /\ ~ Gt(x, x)
  <2> DEFINE ax == a[x]  ay == a[y]  bx == b[x]  by == b[y]  cx == c[x]  cy == c[y]
  <2>1. ax \in Nat /\ ay \in Nat /\ bx \in Nat /\ by \in Nat /\ cx \in Nat /\ cy \in Nat /\ x \in Nat /\ y \in Nat
    OBVIOUS
  <2>2. /\ Gt(x, y) <=> (ax > ay \/ (ax = ay /\ bx > by) \/ (ax = ay /\ bx = by /\ cx > cy)
                          \/ (ax = ay /\ bx = by /\ cx = cy /\ x > y))
        /\ Gt(y, x) <=> (ay > ax \/ (ay = ax /\ by > bx) \/ (ay = ax /\ by = bx /\ cy > cx)
                          \/ (ay = ax /\ by = bx /\ cy = cx /\ y > x))
        /\ Gt(x, x) <=> (ax > ax \/ bx > bx \/ cx > cx \/ x > x)
    OBVIOUS
  <2> HIDE DEF ax, ay, bx, by, cx, cy, Gt
  <2>3. QED
    BY <2>1, <2>2
<1>2. ASSUME NEW x \in 1 .. n, NEW y \in 1 .. n, NEW z \in 1 .. n, Gt(x, y), Gt(y, z)
      PROVE  Gt(x, z)
  <2> DEFINE ax == a[x]  ay == a[y]  az == a[z]  bx == b[x]  by == b[y]  bz == b[z]
             cx == c[x]  cy == c[y]  cz == c[z]
  <2>1. /\ ax \in Nat /\ ay \in Nat /\ az \in Nat /\ bx \in Nat /\ by \in Nat /\ bz \in Nat
        /\ cx \in Nat /\ cy \in Nat /\ cz \in Nat /\ x \in Nat /\ y \in Nat /\ z \in Nat
    OBVIOUS
  <2>2. /\ ax > ay \/ (ax = ay /\ bx > by) \/ (ax = ay /\ bx = by /\ cx > cy)
           \/ (ax = ay /\ bx = by /\ cx = cy /\ x > y)
        /\ ay > az \/ (ay = az /\ by > bz) \/ (ay = az /\ by = bz /\ cy > cz)
           \/ (ay = az /\ by = bz /\ cy = cz /\ y > z)
    BY <1>2
  <2>3. Gt(x, z) <=> (ax > az \/ (ax = az /\ bx > bz) \/ (ax = az /\ bx = bz /\ cx > cz)
                       \/ (ax = az /\ bx = bz /\ cx = cz /\ x > z))
    OBVIOUS
  <2> HIDE DEF ax, ay, az, bx, by, bz, cx, cy, cz, Gt
  <2>4. QED
    BY <2>1, <2>2, <2>3
<1> HIDE DEF Gt
<1>3. \A x \in 1 .. n : <<x, x>> \notin R
  BY <1>0, <1>1
<1>4. QED
  BY <1>0, <1>1, <1>2, <1>3 DEF Ordered

\* Of some versions of a fact the newest is the one before all the others.
LEMMA NewestIsTheFirst ==
    ASSUME NEW rs, RowsFit(rs), NEW S \in SUBSET DOMAIN rs, S # {}, NEW i
    PROVE  i = NewestOf(rs, S) <=> i \in S /\ \A j \in S \ {i} : LaterVersion(rs, i, j)
<1> DEFINE n == Len(rs)
           a == [x \in 1 .. n |-> rs[x].accepted]
           b == [x \in 1 .. n |-> rs[x].filed]
           c == [x \in 1 .. n |-> 0]
           R == {q \in (1 .. n) \X (1 .. n) : LaterVersion(rs, q[1], q[2])}
           First(x) == x \in S /\ \A j \in S \ {x} : LaterVersion(rs, x, j)
<1>1. n \in Nat /\ DOMAIN rs = 1 .. n
  BY DEF RowsFit
<1>2. a \in [1 .. n -> Nat] /\ b \in [1 .. n -> Nat] /\ c \in [1 .. n -> Nat]
  BY <1>1 DEF RowsFit, RowFits
<1>3. \A x, y \in 1 .. n : <<x, y>> \in R <=>
        \/ a[x] > a[y]
        \/ a[x] = a[y] /\ b[x] > b[y]
        \/ a[x] = a[y] /\ b[x] = b[y] /\ c[x] > c[y]
        \/ a[x] = a[y] /\ b[x] = b[y] /\ c[x] = c[y] /\ x > y
  BY <1>1 DEF LaterVersion
<1>4. \A x, y \in 1 .. n : <<x, y>> \in R <=> LaterVersion(rs, x, y)
  OBVIOUS
<1> HIDE DEF n, a, b, c, R
<1>5. Ordered(R, n)
  BY <1>1, <1>2, <1>3, ByKeys
<1>6. \E x \in S : \A y \in S \ {x} : <<x, y>> \in R
  BY <1>1, <1>5, FirstInOrder
<1>7. \E x : First(x)
  BY <1>1, <1>4, <1>6
<1>8. \A x, y : First(x) /\ First(y) => x = y
  <2>1. SUFFICES ASSUME NEW x, NEW y, First(x), First(y), x # y PROVE FALSE
    OBVIOUS
  <2>2. <<x, y>> \in R /\ <<y, x>> \in R /\ x \in 1 .. n /\ y \in 1 .. n
    BY <1>1, <1>4, <2>1
  <2>3. QED
    BY <1>5, <2>2 DEF Ordered
<1>9. First(NewestOf(rs, S))
  BY <1>7 DEF NewestOf
<1>10. QED
  BY <1>8, <1>9

\* What is read of a canonical fact.
CanonFits ==
    /\ \E S : canon \in Seq(S)
    /\ \A j \in DOMAIN canon : canon[j].raw \in DOMAIN raws

LEMMA FirstRowIsFirst ==
    ASSUME RowsFit(raws), CanonFits, NEW S \in SUBSET DOMAIN canon, S # {}
    PROVE  FirstRow(S) \in S /\ \A j \in S \ {FirstRow(S)} : RowBefore(FirstRow(S), j)
<1> DEFINE n == Len(canon)
           a == [x \in 1 .. n |-> raws[canon[x].raw].year]
           b == [x \in 1 .. n |-> raws[canon[x].raw].end]
           c == [x \in 1 .. n |-> raws[canon[x].raw].filed]
           R == {q \in (1 .. n) \X (1 .. n) : RowBefore(q[1], q[2])}
<1>1. n \in Nat /\ DOMAIN canon = 1 .. n
  BY DEF CanonFits
<1>2. a \in [1 .. n -> Nat] /\ b \in [1 .. n -> Nat] /\ c \in [1 .. n -> Nat]
  BY <1>1 DEF CanonFits, RowsFit, RowFits
<1>3. \A x, y \in 1 .. n : <<x, y>> \in R <=>
        \/ a[x] > a[y]
        \/ a[x] = a[y] /\ b[x] > b[y]
        \/ a[x] = a[y] /\ b[x] = b[y] /\ c[x] > c[y]
        \/ a[x] = a[y] /\ b[x] = b[y] /\ c[x] = c[y] /\ x > y
  BY <1>1 DEF RowBefore
<1>4. \A x, y \in 1 .. n : <<x, y>> \in R <=> RowBefore(x, y)
  OBVIOUS
<1> HIDE DEF n, a, b, c, R
<1>5. Ordered(R, n)
  BY <1>1, <1>2, <1>3, ByKeys
<1>6. \E x \in S : \A y \in S \ {x} : <<x, y>> \in R
  BY <1>1, <1>5, FirstInOrder
<1>7. \E x \in S : \A y \in S \ {x} : RowBefore(x, y)
  BY <1>1, <1>4, <1>6
<1>8. QED
  BY <1>7 DEF FirstRow

\* The members of a set of numbers in order are all of them.
LEMMA InOrderIsAll ==
    ASSUME NEW n \in Nat, NEW S \in SUBSET (1 .. n)
    PROVE  /\ DOMAIN InOrder(S) = 1 .. Cardinality(S) /\ Cardinality(S) \in Nat
           /\ \A k \in DOMAIN InOrder(S) : InOrder(S)[k] \in S
           /\ \A i \in S : \E k \in DOMAIN InOrder(S) : InOrder(S)[k] = i
<1> DEFINE R == {q \in (1 .. n) \X (1 .. n) : q[2] < q[1]}
           At(k) == CHOOSE i \in S : Cardinality({j \in S : j < i}) = k - 1
<1>1. \A x, y \in 1 .. n : <<x, y>> \in R <=> y < x
  OBVIOUS
<1> HIDE DEF R
<1>2. Ordered(R, n)
  BY <1>1 DEF Ordered
<1>3. \A i \in S : {j \in S : j < i} = {j \in S : <<i, j>> \in R}
  BY <1>1
<1>4. \A i \in S : Cardinality({j \in S : j < i}) = Place(R, S, i)
  BY <1>3 DEF Place
<1>5. Cardinality(S) \in Nat /\ IsFiniteSet(S)
  BY PartIsFinite
<1>6. DOMAIN InOrder(S) = 1 .. Cardinality(S) /\ \A k \in 1 .. Cardinality(S) : InOrder(S)[k] = At(k)
  BY DEF InOrder
<1>7. \A k \in 1 .. Cardinality(S) : At(k) \in S /\ Place(R, S, At(k)) = k - 1
  <2>1. TAKE k \in 1 .. Cardinality(S)
  <2>2. \E i \in S : Place(R, S, i) = k - 1
    BY <1>2, PlaceIsTaken
  <2>3. \E i \in S : Cardinality({j \in S : j < i}) = k - 1
    BY <1>4, <2>2
  <2>4. At(k) \in S /\ Cardinality({j \in S : j < At(k)}) = k - 1
    BY <2>3
  <2> HIDE DEF At
  <2>5. QED
    BY <1>4, <2>4
<1> HIDE DEF At
<1>8. ASSUME NEW i \in S
      PROVE  \E k \in 1 .. Cardinality(S) : At(k) = i
  <2> DEFINE before == {j \in S : <<i, j>> \in R}
  <2>1. before \in SUBSET S /\ i \notin before
    BY <1>1
  <2>2. Cardinality(before) \in Nat /\ Cardinality(before) < Cardinality(S)
    <3>1. IsFiniteSet(before) /\ Cardinality(before) \in Nat
      BY <2>1, PartIsFinite
    <3>2. Cardinality(before) <= Cardinality(S) /\ (Cardinality(before) = Cardinality(S) => before = S)
      BY <1>5, <2>1, FS_Subset
    <3>3. before # S
      BY <2>1
    <3> HIDE DEF before
    <3>4. QED
      BY <1>5, <3>1, <3>2, <3>3
  <2>3. Place(R, S, i) = Cardinality(before)
    BY DEF Place
  <2> DEFINE k == Cardinality(before) + 1
  <2>4. k \in 1 .. Cardinality(S) /\ Place(R, S, i) = k - 1
    BY <1>5, <2>2, <2>3
  <2> HIDE DEF k
  <2>5. At(k) \in S /\ Place(R, S, At(k)) = Place(R, S, i)
    BY <1>7, <2>4
  <2>6. At(k) = i
    BY <1>2, <2>5, PlaceIsOwn
  <2>7. QED
    BY <2>4, <2>6
<1>9. QED
  BY <1>5, <1>6, <1>7, <1>8

-----------------------------------------------------------------------------
(* What holds between any two steps *)

LinksFit == published \subseteq DOMAIN FilingOf /\ linked \subseteq DOMAIN FilingOf

\* A reading has every mapped fact it saw that has no canonical one.
ReadingFits(r) ==
    /\ r.seen \subseteq DOMAIN raws
    /\ \E S : r.adds \in Seq(S)
    /\ \A k \in DOMAIN r.adds : r.adds[k].raw \in DOMAIN raws
    /\ \A i \in r.seen : Mapped(i) => \/ \E j \in DOMAIN canon : canon[j].raw = i
                                      \/ \E k \in DOMAIN r.adds : r.adds[k].raw = i

ReadingsFit ==
    /\ DOMAIN reading = Normalisers
    /\ \A c \in Normalisers : ReadingFits(reading[c])

\* A snapshot is of a year of which its sheet has a fact.
SnapshotsHaveRows ==
    /\ DOMAIN snapshots = DOMAIN Sheets
    /\ \A t \in DOMAIN Sheets : \A k \in DOMAIN snapshots[t] :
          \E j \in Datable(RowsOf(Sheets[t])) : raws[canon[j].raw].year = k[1]

FactsInv ==
    /\ LinksFit
    /\ RowsFit(raws)
    /\ CanonFits
    /\ ReadingsFit
    /\ SnapshotsHaveRows
    /\ failures \in Nat

LEMMA IdleFits == ReadingFits(Idle)
<1>1. Idle.seen = {} /\ Idle.adds = <<>> /\ DOMAIN <<>> = {}
  BY DEF Idle
<1>2. \E S : <<>> \in Seq(S)
  <2>1. <<>> \in Seq({})
    OBVIOUS
  <2>2. QED
    BY <2>1
<1>3. QED
  BY <1>1, <1>2 DEF ReadingFits

LEMMA FactsInitially == FactsInit => FactsInv
<1> SUFFICES ASSUME FactsInit PROVE FactsInv
  OBVIOUS
<1> USE DEF FactsInit
<1>1. LinksFit /\ failures \in Nat
  BY DEF LinksFit
<1>2. <<>> \in Seq({})
  OBVIOUS
<1>3. RowsFit(raws) /\ CanonFits
  <2>1. (\E S : raws \in Seq(S)) /\ (\E S : canon \in Seq(S))
    BY <1>2
  <2>2. DOMAIN raws = {} /\ DOMAIN canon = {}
    OBVIOUS
  <2>3. QED
    BY <2>1, <2>2 DEF RowsFit, CanonFits
<1>4. ReadingsFit
  <2>1. ReadingFits(Idle)
    BY IdleFits
  <2>2. QED
    BY <2>1 DEF ReadingsFit
<1>5. SnapshotsHaveRows
  BY DEF SnapshotsHaveRows
<1>6. QED
  BY <1>1, <1>3, <1>4, <1>5 DEF FactsInv

\* Facts that are only added to leave what is said of the earlier ones.
LEMMA ReadingsLast ==
    ASSUME FactsInv,
           DOMAIN raws \subseteq DOMAIN raws', \A i \in DOMAIN raws : raws'[i] = raws[i],
           DOMAIN canon \subseteq DOMAIN canon', \A j \in DOMAIN canon : canon'[j] = canon[j],
           NEW r, ReadingFits(r)
    PROVE  ReadingFits(r)'
<1>1. \A i \in r.seen : Mapped(i)' <=> Mapped(i)
  BY DEF ReadingFits, Mapped
<1>2. QED
  BY <1>1 DEF ReadingFits

LEMMA SnapshotsLast ==
    ASSUME FactsInv, UNCHANGED snapshots,
           DOMAIN raws \subseteq DOMAIN raws', \A i \in DOMAIN raws : raws'[i] = raws[i],
           DOMAIN canon \subseteq DOMAIN canon', \A j \in DOMAIN canon : canon'[j] = canon[j]
    PROVE  SnapshotsHaveRows'
<1>1. \A j \in DOMAIN canon : canon[j].raw \in DOMAIN raws
  BY DEF FactsInv, CanonFits
<1>2. \A t \in DOMAIN Sheets : \A j \in Datable(RowsOf(Sheets[t])) :
        /\ j \in Datable(RowsOf(Sheets[t]))'
        /\ raws'[canon'[j].raw] = raws[canon[j].raw]
  BY <1>1 DEF Datable, RowsOf
<1>3. QED
  BY <1>2 DEF FactsInv, SnapshotsHaveRows

LEMMA IngestFactsStep == FactsInv /\ IngestCompanyFacts => FactsInv' /\ Extends(raws', raws)
<1> SUFFICES ASSUME FactsInv, IngestCompanyFacts PROVE FactsInv' /\ Extends(raws', raws)
  OBVIOUS
<1>1. Extends(raws', raws)
  BY IngestExtends DEF FactsInv, IngestCompanyFacts
<1>2. /\ RowsFit(raws)'
      /\ DOMAIN raws \subseteq DOMAIN raws'
      /\ \A i \in DOMAIN raws : raws'[i] = raws[i]
  BY <1>1 DEF Extends
<1>3. UNCHANGED <<published, linked, canon, reading, snapshots, failures>>
  BY DEF IngestCompanyFacts
<1>4. LinksFit' /\ (failures \in Nat)'
  BY <1>3 DEF FactsInv, LinksFit
<1>5. CanonFits'
  BY <1>2, <1>3 DEF FactsInv, CanonFits
<1>6. \A c \in Normalisers : ReadingFits(reading[c])'
  <2>1. TAKE c \in Normalisers
  <2>2. ReadingFits(reading[c])
    BY DEF FactsInv, ReadingsFit
  <2>3. \A r : ReadingFits(r) => ReadingFits(r)'
    BY <1>2, <1>3, ReadingsLast
  <2>4. QED
    BY <1>3, <2>2, <2>3 DEF ReadingFits
<1>7. ReadingsFit'
  BY <1>3, <1>6 DEF FactsInv, ReadingsFit
<1>8. SnapshotsHaveRows'
  BY <1>2, <1>3, SnapshotsLast
<1>9. QED
  BY <1>1, <1>2, <1>4, <1>5, <1>7, <1>8 DEF FactsInv

\* What leaves the facts and the snapshots alone.
FactsKept == UNCHANGED <<raws, canon, snapshots>>

LEMMA KeptStep ==
    ASSUME FactsInv, FactsKept, UNCHANGED reading, LinksFit', (failures \in Nat)'
    PROVE  FactsInv'
<1>1. RowsFit(raws)' /\ CanonFits'
  BY DEF FactsInv, FactsKept, RowsFit, CanonFits
<1>2. ReadingsFit'
  <2>1. \A r : ReadingFits(r) => ReadingFits(r)'
    BY ReadingsLast DEF FactsKept
  <2>2. QED
    BY <2>1 DEF FactsInv, ReadingsFit, ReadingFits
<1>3. SnapshotsHaveRows'
  BY DEF FactsInv, FactsKept, SnapshotsHaveRows, Datable, RowsOf
<1>4. QED
  BY <1>1, <1>2, <1>3 DEF FactsInv

LEMMA FilingsStep ==
    ASSUME FactsInv,
           \/ \E a \in DOMAIN FilingOf : PublishFiling(a)
           \/ \E full \in BOOLEAN : IngestFilings(full)
    PROVE  FactsInv'
<1>1. FactsKept /\ UNCHANGED <<reading, failures>>
  BY DEF PublishFiling, IngestFilings, FactsKept
<1>2. LinksFit'
  BY DEF FactsInv, LinksFit, PublishFiling, IngestFilings, FilingsFetched
<1>3. QED
  BY <1>1, <1>2, KeptStep DEF FactsInv

\* One reading changed: the others fit as before.
LEMMA ReadingsButOne ==
    ASSUME FactsInv, NEW c \in Normalisers, NEW r, reading' = [reading EXCEPT ![c] = r],
           ReadingFits(r)',
           UNCHANGED raws, DOMAIN canon \subseteq DOMAIN canon', \A j \in DOMAIN canon : canon'[j] = canon[j]
    PROVE  ReadingsFit'
<1>1. \A d \in Normalisers : ReadingFits(reading[d])
  BY DEF FactsInv, ReadingsFit
<1>2. \A q : ReadingFits(q) => ReadingFits(q)'
  BY ReadingsLast
<1>3. DOMAIN reading' = Normalisers /\ reading'[c] = r /\ \A d \in Normalisers \ {c} : reading'[d] = reading[d]
  BY DEF FactsInv, ReadingsFit
<1>4. \A d \in Normalisers : ReadingFits(reading[d])'
  BY <1>1, <1>2, <1>3 DEF ReadingFits
<1>5. QED
  BY <1>3, <1>4 DEF ReadingsFit

LEMMA ReadFilingStep ==
    ASSUME FactsInv, NEW c \in Normalisers, NEW a, ReadFiling(c, a)
    PROVE  FactsInv'
<1> DEFINE seen == {i \in DOMAIN raws : raws[i].accn = a}
           new == InOrder(NewRows(seen))
           adds == [k \in DOMAIN new |-> CanonicalRow(new[k])]
           r == [filing |-> a, seen |-> seen, adds |-> adds]
<1>1. /\ reading' = [reading EXCEPT ![c] = r]
      /\ UNCHANGED <<published, linked, raws, canon, snapshots, failures>>
  BY DEF ReadFiling
<1>2. Len(raws) \in Nat /\ NewRows(seen) \in SUBSET (1 .. Len(raws))
  BY DEF FactsInv, RowsFit, NewRows
<1>3. /\ DOMAIN new = 1 .. Cardinality(NewRows(seen)) /\ Cardinality(NewRows(seen)) \in Nat
      /\ \A k \in DOMAIN new : new[k] \in NewRows(seen)
      /\ \A i \in NewRows(seen) : \E k \in DOMAIN new : new[k] = i
  BY <1>2, InOrderIsAll
<1> HIDE DEF new
<1>4. \E S : adds \in Seq(S)
  <2>1. adds \in Seq({CanonicalRow(new[k]) : k \in DOMAIN new})
    <3> DEFINE T == {CanonicalRow(new[k]) : k \in DOMAIN new}
               n == Cardinality(NewRows(seen))
    <3>1. adds \in [1 .. n -> T] /\ n \in Nat
      BY <1>3
    <3> HIDE DEF T, adds, n
    <3>2. adds \in Seq(T)
      BY <3>1
    <3>3. QED
      BY <3>2 DEF T
  <2> HIDE DEF adds
  <2>2. QED
    BY <2>1
<1>5. \A k \in DOMAIN adds : adds[k].raw = new[k]
  BY DEF CanonicalRow
<1>6. DOMAIN adds = DOMAIN new
  OBVIOUS
<1> HIDE DEF adds
<1>7. ReadingFits(r)
  <2>1. r.seen = seen /\ r.adds = adds
    OBVIOUS
  <2>2. \A k \in DOMAIN adds : adds[k].raw \in DOMAIN raws
    BY <1>3, <1>5, <1>6 DEF NewRows
  <2>3. ASSUME NEW i \in seen, Mapped(i)
        PROVE  \/ \E j \in DOMAIN canon : canon[j].raw = i
               \/ \E k \in DOMAIN adds : adds[k].raw = i
    BY <1>3, <1>5, <1>6, <2>3 DEF NewRows
  <2> HIDE DEF r
  <2>4. QED
    BY <1>4, <2>1, <2>2, <2>3 DEF ReadingFits
<1> HIDE DEF r
<1>8. PICK q : q = r
  OBVIOUS
<1>9. ReadingsFit'
  <2>1. ReadingFits(q)'
    BY <1>1, <1>7, <1>8, ReadingsLast
  <2>2. QED
    BY <1>1, <1>8, <2>1, ReadingsButOne
<1>10. LinksFit' /\ RowsFit(raws)' /\ CanonFits' /\ (failures \in Nat)'
  BY <1>1 DEF FactsInv, LinksFit, RowsFit, CanonFits
<1>11. SnapshotsHaveRows'
  BY <1>1, SnapshotsLast
<1>12. QED
  BY <1>9, <1>10, <1>11 DEF FactsInv

\* A commit adds what its reading has to add, and leaves what was there.
LEMMA CommitAdds ==
    ASSUME FactsInv, NEW c \in Normalisers, CommitFiling(c)
    PROVE  /\ \E S : canon' \in Seq(S)
           /\ DOMAIN canon \subseteq DOMAIN canon'
           /\ \A j \in DOMAIN canon : canon'[j] = canon[j]
           /\ \A j \in DOMAIN canon' \ DOMAIN canon :
                 \E k \in DOMAIN reading[c].adds : canon'[j] = reading[c].adds[k]
           /\ \A k \in DOMAIN reading[c].adds :
                 \E j \in DOMAIN canon' : canon'[j] = reading[c].adds[k]
<1> DEFINE adds == reading[c].adds
<1>1. PICK S : canon \in Seq(S)
  BY DEF FactsInv, CanonFits
<1>2. PICK T : adds \in Seq(T)
  BY DEF FactsInv, ReadingsFit, ReadingFits
<1>3. canon' = canon \o adds
  BY DEF CommitFiling
<1> HIDE DEF adds
<1>4. canon \in Seq(S \cup T) /\ adds \in Seq(S \cup T)
  BY <1>1, <1>2
<1>5. /\ canon' \in Seq(S \cup T)
      /\ Len(canon) \in Nat /\ Len(adds) \in Nat
      /\ DOMAIN canon = 1 .. Len(canon) /\ DOMAIN adds = 1 .. Len(adds)
      /\ DOMAIN canon' = 1 .. (Len(canon) + Len(adds))
  BY <1>3, <1>4
<1>6. /\ \A j \in DOMAIN canon : canon'[j] = canon[j]
      /\ \A k \in DOMAIN adds : canon'[Len(canon) + k] = adds[k]
  BY <1>3, <1>4, <1>5
<1>7. \A j \in DOMAIN canon' \ DOMAIN canon : j - Len(canon) \in DOMAIN adds /\ j = Len(canon) + (j - Len(canon))
  BY <1>5
<1>8. \A k \in DOMAIN adds : Len(canon) + k \in DOMAIN canon'
  BY <1>5
<1>9. DOMAIN canon \subseteq DOMAIN canon'
  BY <1>5
<1>10. QED
  BY <1>5, <1>6, <1>7, <1>8, <1>9 DEF adds

LEMMA EndsReading ==
    ASSUME FactsInv, NEW c \in Normalisers, CommitFiling(c) \/ FailCommit(c)
    PROVE  FactsInv'
<1>1. /\ \E S : canon' \in Seq(S)
      /\ DOMAIN canon \subseteq DOMAIN canon'
      /\ \A j \in DOMAIN canon : canon'[j] = canon[j]
      /\ \A j \in DOMAIN canon' \ DOMAIN canon :
            \E k \in DOMAIN reading[c].adds : canon'[j] = reading[c].adds[k]
  <2>1. CASE CommitFiling(c)
    BY <2>1, CommitAdds
  <2>2. CASE FailCommit(c)
    BY <2>2 DEF FailCommit, FactsInv, CanonFits
  <2>3. QED
    BY <2>1, <2>2
<1>2. /\ reading' = [reading EXCEPT ![c] = Idle]
      /\ UNCHANGED <<published, linked, raws, snapshots>>
      /\ (failures \in Nat)'
  BY DEF CommitFiling, FailCommit, FactsInv
<1>3. LinksFit' /\ RowsFit(raws)'
  BY <1>2 DEF FactsInv, LinksFit, RowsFit
<1>4. CanonFits'
  BY <1>1, <1>2 DEF FactsInv, CanonFits, ReadingsFit, ReadingFits
<1>5. ReadingFits(Idle)'
  BY IdleFits, PTL
<1>6. ReadingsFit'
  BY <1>1, <1>2, <1>5, ReadingsButOne
<1>7. SnapshotsHaveRows'
  BY <1>1, <1>2, SnapshotsLast
<1>8. QED
  BY <1>2, <1>3, <1>4, <1>6, <1>7 DEF FactsInv

\* A build writes nothing, or one key, of the newest year its sheet has.
LEMMA OneKeyWritten ==
    ASSUME FactsInv, NEW stored, NEW codes, NEW k \in DOMAIN UpsertSnapshot(stored, codes),
           k \in DOMAIN stored => UpsertSnapshot(stored, codes)[k] # stored[k]
    PROVE  /\ \E j \in Datable(RowsOf(codes)) : raws[canon[j].raw].year = k[1]
           /\ \A j \in Datable(RowsOf(codes)) : raws[canon[j].raw].year <= k[1]
<1> DEFINE rows == RowsOf(codes)
           first == FirstRow(Datable(rows))
           picked == PeriodOf(first)
           key == <<picked.year, picked.period>>
           here == RowsInPeriod(rows, picked)
           lines == [c \in {canon[j].code : j \in here} |-> canon[FirstRow({j \in here : canon[j].code = c})].raw]
           written == [end |-> picked.end, lines |-> lines, complete |-> codes \subseteq DOMAIN lines]
<1>1. UpsertSnapshot(stored, codes) =
        IF Datable(rows) = {} THEN stored
        ELSE [m \in DOMAIN stored \cup {key} |-> IF m = key THEN written ELSE stored[m]]
  BY DEF UpsertSnapshot
<1> HIDE DEF written
<1>2. Datable(rows) # {} /\ k = key
  BY <1>1
<1>3. Datable(rows) \in SUBSET DOMAIN canon
  BY DEF Datable, RowsOf
<1>4. first \in Datable(rows) /\ \A j \in Datable(rows) \ {first} : RowBefore(first, j)
  BY <1>2, <1>3, FirstRowIsFirst DEF FactsInv
<1>5. key[1] = raws[canon[first].raw].year
  BY DEF PeriodOf
<1> HIDE DEF first, key, rows
<1>6. \A j \in Datable(rows) : raws[canon[j].raw].year \in Nat
  BY <1>3 DEF FactsInv, CanonFits, RowsFit, RowFits
<1>7. \A j \in Datable(rows) : raws[canon[j].raw].year <= raws[canon[first].raw].year
  BY <1>4, <1>6 DEF RowBefore
<1>8. QED
  BY <1>2, <1>4, <1>5, <1>7 DEF rows

LEMMA BuildStep == FactsInv /\ BuildSnapshots => FactsInv'
<1> SUFFICES ASSUME FactsInv, BuildSnapshots PROVE FactsInv'
  OBVIOUS
<1>1. /\ snapshots' = [t \in DOMAIN Sheets |-> UpsertSnapshot(snapshots[t], Sheets[t])]
      /\ UNCHANGED <<published, linked, raws, canon, reading, failures>>
  BY DEF BuildSnapshots
<1>2. LinksFit' /\ RowsFit(raws)' /\ CanonFits' /\ (failures \in Nat)'
  BY <1>1 DEF FactsInv, LinksFit, RowsFit, CanonFits
<1>3. ReadingsFit'
  <2>1. \A r : ReadingFits(r) => ReadingFits(r)'
    BY <1>1, ReadingsLast
  <2>2. QED
    BY <1>1, <2>1 DEF FactsInv, ReadingsFit, ReadingFits
<1>4. ASSUME NEW t \in DOMAIN Sheets, NEW k \in DOMAIN snapshots'[t]
      PROVE  \E j \in Datable(RowsOf(Sheets[t])) : raws[canon[j].raw].year = k[1]
  <2>1. snapshots'[t] = UpsertSnapshot(snapshots[t], Sheets[t])
    BY <1>1
  <2>2. CASE k \in DOMAIN snapshots[t] /\ snapshots'[t][k] = snapshots[t][k]
    BY <2>2 DEF FactsInv, SnapshotsHaveRows
  <2>3. CASE k \in DOMAIN snapshots[t] => snapshots'[t][k] # snapshots[t][k]
    BY <1>4, <2>1, <2>3, OneKeyWritten
  <2>4. QED
    BY <2>2, <2>3
<1>5. DOMAIN snapshots' = DOMAIN Sheets
  BY <1>1
<1>6. \A t \in DOMAIN Sheets : Datable(RowsOf(Sheets[t]))' = Datable(RowsOf(Sheets[t]))
  BY <1>1 DEF Datable, RowsOf
<1>7. SnapshotsHaveRows'
  BY <1>1, <1>4, <1>5, <1>6 DEF SnapshotsHaveRows
<1>8. QED
  BY <1>2, <1>3, <1>7 DEF FactsInv

LEMMA FactsStep == FactsInv /\ [FactsNext]_factVars => FactsInv'
<1> SUFFICES ASSUME FactsInv, [FactsNext]_factVars PROVE FactsInv'
  OBVIOUS
<1>1. CASE UNCHANGED factVars
  BY <1>1, KeptStep DEF factVars, FactsKept, FactsInv, LinksFit
<1>2. CASE FactsNext
  BY <1>2, FilingsStep, IngestFactsStep, ReadFilingStep, EndsReading, BuildStep DEF FactsNext
<1>3. QED
  BY <1>1, <1>2

LEMMA FactsAlways == FactsSpec => []FactsInv
BY FactsInitially, FactsStep, PTL DEF FactsSpec

-----------------------------------------------------------------------------
(* A normalisation without an error is complete *)

\* The step of one process: what the property says of it.
NothingLeftOut(c) ==
    (reading[c] # Idle /\ reading'[c] = Idle /\ failures' = failures)
    => \A i \in reading[c].seen : Mapped(i) => \E j \in DOMAIN canon' : canon'[j].raw = i

LEMMA CommitLeavesNothingOut ==
    ASSUME FactsInv, NEW c \in Normalisers, CommitFiling(c), NEW i \in reading[c].seen, Mapped(i)
    PROVE  \E j \in DOMAIN canon' : canon'[j].raw = i
<1>1. \/ \E j \in DOMAIN canon : canon[j].raw = i
      \/ \E k \in DOMAIN reading[c].adds : reading[c].adds[k].raw = i
  BY DEF FactsInv, ReadingsFit, ReadingFits
<1>2. /\ DOMAIN canon \subseteq DOMAIN canon'
      /\ \A j \in DOMAIN canon : canon'[j] = canon[j]
      /\ \A k \in DOMAIN reading[c].adds : \E j \in DOMAIN canon' : canon'[j] = reading[c].adds[k]
  BY CommitAdds
<1>3. QED
  BY <1>1, <1>2

LEMMA StepLeavesNothingOut ==
    ASSUME FactsInv, [FactsNext]_factVars, NEW c \in Normalisers
    PROVE  NothingLeftOut(c)
<1> SUFFICES ASSUME reading[c] # Idle, reading'[c] = Idle, failures' = failures
             PROVE  \A i \in reading[c].seen : Mapped(i) => \E j \in DOMAIN canon' : canon'[j].raw = i
  BY DEF NothingLeftOut
<1>1. ~ UNCHANGED reading
  OBVIOUS
<1>2. ASSUME NEW d \in Normalisers, NEW a \in linked, ReadFiling(d, a)
      PROVE  FALSE
  <2>1. PICK r : reading' = [reading EXCEPT ![d] = r] /\ reading[d] = Idle
    BY <1>2 DEF ReadFiling
  <2>2. reading'[c] = reading[c]
    BY <2>1
  <2>3. QED
    BY <2>2
<1>3. ASSUME NEW d \in Normalisers, FailCommit(d)
      PROVE  FALSE
  BY <1>3 DEF FailCommit, FactsInv
<1>4. ASSUME NEW d \in Normalisers, CommitFiling(d)
      PROVE  d = c
  BY <1>4 DEF CommitFiling
<1>5. \E d \in Normalisers : CommitFiling(d)
  BY <1>1, <1>2, <1>3
     DEF FactsNext, factVars, PublishFiling, IngestFilings, IngestCompanyFacts, BuildSnapshots
<1>6. CommitFiling(c)
  BY <1>4, <1>5
<1>7. QED
  BY <1>6, CommitLeavesNothingOut

\* When a normalisation ends without an error, every mapped fact it read has a
\* canonical fact: those it added were all that had none when it read, and no
\* step takes one away.  (canonical_ingestion.py 104-198)
THEOREM NormalisationsAreComplete == FactsSpec => CleanMeansComplete
<1>1. FactsInv /\ [FactsNext]_factVars => [\A c \in Normalisers : NothingLeftOut(c)]_reading
  BY StepLeavesNothingOut
<1>2. QED
  BY <1>1, FactsAlways, PTL DEF FactsSpec, CleanMeansComplete, NothingLeftOut

-----------------------------------------------------------------------------
(* What was known as of a day stands *)

\* Every filing accepted by the day is linked and its facts are stored.
IsKnown(day) ==
    /\ \A a \in DOMAIN FilingOf : FilingOf[a].accepted \in 1 .. day => a \in linked
    /\ \A k \in DOMAIN Payload : Payload[k].accn \in FilingsAsOf(day) =>
          \E i \in DOMAIN raws : Hash(raws[i]) = Hash(Payload[k])

LEMMA FilingsStand ==
    ASSUME FactsInv', linked \subseteq linked', NEW day, IsKnown(day)
    PROVE  FilingsAsOf(day)' = FilingsAsOf(day)
<1>1. linked' \subseteq DOMAIN FilingOf
  BY DEF FactsInv, LinksFit
<1>2. QED
  BY <1>1 DEF IsKnown, FilingsAsOf

LEMMA FactsStand ==
    ASSUME FactsInv, FactsInv', Extends(raws', raws), linked \subseteq linked', NEW day, IsKnown(day)
    PROVE  ResolveRawFacts(day)' = ResolveRawFacts(day)
<1> DEFINE visible == {i \in DOMAIN raws : raws[i].accn \in FilingsAsOf(day)}
           news == {i \in DOMAIN raws' : raws'[i].accn \in FilingsAsOf(day)}
           Versions(rs, i) == visible \cap VersionsOf(rs, Lineage(rs[i]))
<1>1. DOMAIN raws \subseteq DOMAIN raws' /\ \A i \in DOMAIN raws : raws'[i] = raws[i]
  BY DEF Extends
<1>2. news = visible
  <2>1. ASSUME NEW i \in DOMAIN raws' \ DOMAIN raws
        PROVE  raws'[i].accn \notin FilingsAsOf(day)
    <3>1. PICK k \in DOMAIN Payload : /\ raws'[i].accn = Payload[k].accn
                                      /\ \A j \in DOMAIN raws : Hash(raws[j]) # Hash(Payload[k])
      BY <2>1 DEF Extends
    <3>2. QED
      BY <3>1 DEF IsKnown
  <2>2. QED
    BY <1>1, <2>1
<1>3. ASSUME NEW i \in visible
      PROVE  i = NewestOf(raws', Versions(raws', i)) <=> i = NewestOf(raws, Versions(raws, i))
  <2>1. Versions(raws', i) = Versions(raws, i)
    BY <1>1 DEF VersionsOf
  <2> DEFINE S == Versions(raws, i)
  <2>2. i \in S /\ S \subseteq DOMAIN raws /\ S \subseteq DOMAIN raws'
    BY <1>1 DEF VersionsOf
  <2> HIDE DEF S
  <2>3. i = NewestOf(raws, S) <=> \A j \in S \ {i} : LaterVersion(raws, i, j)
    BY <2>2, NewestIsTheFirst DEF FactsInv
  <2>4. RowsFit(raws')
    BY DEF FactsInv, RowsFit, RowFits
  <2>5. i = NewestOf(raws', S) <=> \A j \in S \ {i} : LaterVersion(raws', i, j)
    BY <2>2, <2>4, NewestIsTheFirst
  <2>6. \A j \in S : LaterVersion(raws', i, j) <=> LaterVersion(raws, i, j)
    BY <1>1, <2>2 DEF LaterVersion
  <2>7. QED
    BY <2>1, <2>3, <2>5, <2>6 DEF S
<1>4. FilingsAsOf(day)' = FilingsAsOf(day)
  BY FilingsStand
<1>5. ResolveRawFacts(day) = {i \in visible : i = NewestOf(raws, Versions(raws, i))}
  BY DEF ResolveRawFacts
<1>6. ResolveRawFacts(day)' = {i \in visible : i = NewestOf(raws', Versions(raws', i))}
  BY <1>2, <1>4 DEF ResolveRawFacts
<1>7. QED
  BY <1>3, <1>5, <1>6

\* The two parts of the property.
DaysStand ==
    raws' # raws \/ linked' # linked =>
        \A day \in {FilingOf[a].accepted : a \in DOMAIN FilingOf} :
            IsKnown(day) => ResolveRawFacts(day)' = ResolveRawFacts(day)

YearsStand ==
    snapshots' # snapshots =>
        \A t \in DOMAIN Sheets : \A k \in DOMAIN snapshots'[t] :
            (k \notin DOMAIN snapshots[t] \/ snapshots'[t][k] # snapshots[t][k])
            => \A old \in DOMAIN snapshots[t] : old[1] <= k[1]

LEMMA ImportsLeaveDays == FactsInv /\ [FactsNext]_factVars => DaysStand
<1> SUFFICES ASSUME FactsInv, [FactsNext]_factVars, raws' # raws \/ linked' # linked,
                    NEW day, IsKnown(day)
             PROVE  ResolveRawFacts(day)' = ResolveRawFacts(day)
  BY DEF DaysStand
<1>1. FactsInv'
  BY FactsStep
<1>2. \/ \E full \in BOOLEAN : IngestFilings(full)
      \/ IngestCompanyFacts
  BY DEF FactsNext, factVars, PublishFiling, ReadFiling, CommitFiling, FailCommit, BuildSnapshots
<1>3. Extends(raws', raws)
  BY <1>2, IngestFactsStep, ExtendsItself DEF FactsInv, IngestFilings
<1>4. linked \subseteq linked'
  BY <1>2 DEF IngestFilings, IngestCompanyFacts
<1>5. QED
  BY <1>1, <1>3, <1>4, FactsStand

LEMMA BuildsLeaveYears == FactsInv /\ [FactsNext]_factVars => YearsStand
<1> SUFFICES ASSUME FactsInv, [FactsNext]_factVars, snapshots' # snapshots,
                    NEW t \in DOMAIN Sheets, NEW k \in DOMAIN snapshots'[t],
                    k \notin DOMAIN snapshots[t] \/ snapshots'[t][k] # snapshots[t][k],
                    NEW old \in DOMAIN snapshots[t]
             PROVE  old[1] <= k[1]
  BY DEF YearsStand
<1>1. BuildSnapshots
  BY DEF FactsNext, factVars, PublishFiling, IngestFilings, IngestCompanyFacts, ReadFiling,
         CommitFiling, FailCommit
<1>2. snapshots'[t] = UpsertSnapshot(snapshots[t], Sheets[t])
  BY <1>1 DEF BuildSnapshots
<1>3. \A j \in Datable(RowsOf(Sheets[t])) : raws[canon[j].raw].year <= k[1]
  BY <1>2, OneKeyWritten
<1>4. \E j \in Datable(RowsOf(Sheets[t])) : raws[canon[j].raw].year = old[1]
  BY DEF FactsInv, SnapshotsHaveRows
<1>5. QED
  BY <1>3, <1>4

\* Imports leave what was known as of a day: a fact they store is of a filing
\* accepted later, so the newest versions by that day are the ones they were.
\* A build writes the newest year of the canonical facts, which only grow, so
\* no statement stored is of a later year.  (point_in_time_engine.py 199-322,
\* companyfacts.py 362-414, snapshot_service.py 120-160, 232-247)
THEOREM ThePastStands == FactsSpec => PastStands
<1>1. FactsInv /\ [FactsNext]_factVars => [DaysStand /\ YearsStand]_factVars
  BY ImportsLeaveDays, BuildsLeaveYears
<1>2. QED
  BY <1>1, FactsAlways, PTL DEF FactsSpec, PastStands, DaysStand, YearsStand, IsKnown

-----------------------------------------------------------------------------
(* Evidence *)

\* What a bundle was answered is what the cache holds, unless the text was pushed
\* out since.
AnswersAreCached ==
    \A i \in DOMAIN asked : \A u \in DOMAIN asked[i] :
        (\A n \in i .. Len(asked) : <<u, n>> \notin evicted)
        => u \in DOMAIN texts /\ asked[i][u] = (texts[u] # NoText)

EvidenceInv ==
    /\ \E S : signals \in Seq(S)
    /\ \E S : asked \in Seq(S)
    /\ Len(signals) = Len(asked)
    /\ AnswersAreCached
    /\ OneReadingPerScoring

LEMMA EvidenceInitInv == EvidenceInit => EvidenceInv
<1>1. <<>> \in Seq({}) /\ Len(<<>>) = 0 /\ DOMAIN <<>> = {}
  OBVIOUS
<1>2. QED
  BY <1>1 DEF EvidenceInit, EvidenceInv, AnswersAreCached, OneReadingPerScoring

\* The cache keeps what it holds.
LEMMA RememberedKeeps ==
    ASSUME NEW urls, NEW lost, NEW u \in DOMAIN texts
    PROVE  u \in DOMAIN Remembered(urls, lost) /\ Remembered(urls, lost)[u] = texts[u]
BY DEF Remembered

LEMMA RememberedHolds ==
    ASSUME NEW urls, NEW lost
    PROVE  urls \subseteq DOMAIN Remembered(urls, lost)
BY DEF Remembered

LEMMA BuildKeeps ==
    ASSUME EvidenceInv, Build
    PROVE  EvidenceInv'
<1>1. PICK lost \in SUBSET (DOMAIN TextOf \ DOMAIN texts) :
        LET urls == Wanted(Bundles[Len(signals) + 1], lost)
            cache == Remembered(urls, lost)
        IN /\ texts' = cache
           /\ signals' = Append(signals, Found(Bundles[Len(signals) + 1], cache))
           /\ asked' = Append(asked, [u \in urls |-> u \in DOMAIN cache /\ cache[u] # NoText])
  BY DEF Build
<1> DEFINE urls == Wanted(Bundles[Len(signals) + 1], lost)
           cache == Remembered(urls, lost)
           found == Found(Bundles[Len(signals) + 1], cache)
           answers == [u \in urls |-> u \in DOMAIN cache /\ cache[u] # NoText]
<1>2. texts' = cache /\ signals' = Append(signals, found) /\ asked' = Append(asked, answers)
  BY <1>1
<1>3. \A u \in DOMAIN texts : u \in DOMAIN cache /\ cache[u] = texts[u]
  BY RememberedKeeps
<1>4. \A u \in urls : u \in DOMAIN cache /\ answers[u] = (cache[u] # NoText)
  BY RememberedHolds
<1>5. DOMAIN answers = urls
  OBVIOUS
<1> HIDE DEF urls, cache, found, answers
<1>6. PICK S : signals \in Seq(S)
  BY DEF EvidenceInv
<1>7. signals' \in Seq(S \cup {found}) /\ Len(signals') = Len(signals) + 1
  BY <1>2, <1>6
<1>8. PICK T : asked \in Seq(T)
  BY DEF EvidenceInv
<1>9. /\ asked' \in Seq(T \cup {answers})
      /\ Len(asked') = Len(asked) + 1
      /\ DOMAIN asked' = DOMAIN asked \cup {Len(asked) + 1}
      /\ \A i \in DOMAIN asked : asked'[i] = asked[i]
      /\ asked'[Len(asked) + 1] = answers
  BY <1>2, <1>8
<1>10. /\ Len(signals) = Len(asked) /\ evicted' = evicted
       /\ Len(asked) \in Nat /\ DOMAIN asked = 1 .. Len(asked)
  BY <1>8 DEF Build, EvidenceInv
<1>11. \A i \in DOMAIN asked : \A u \in DOMAIN asked[i] :
         (\A n \in i .. Len(asked) : <<u, n>> \notin evicted)
         => u \in DOMAIN texts /\ asked[i][u] = (texts[u] # NoText)
  BY DEF EvidenceInv, AnswersAreCached
<1>12. \A i \in DOMAIN asked' : \A u \in DOMAIN asked'[i] :
         (\A n \in i .. Len(asked) : <<u, n>> \notin evicted)
         => u \in DOMAIN texts' /\ asked'[i][u] = (texts'[u] # NoText)
  <2>1. TAKE i \in DOMAIN asked'
  <2>2. TAKE u \in DOMAIN asked'[i]
  <2>3. CASE i \in DOMAIN asked
    BY <1>2, <1>3, <1>9, <1>11, <2>3
  <2>4. CASE i = Len(asked) + 1
    BY <1>2, <1>4, <1>5, <1>9, <2>4
  <2>5. QED
    BY <1>9, <2>3, <2>4
<1>13. AnswersAreCached'
  <2>1. \A i \in DOMAIN asked' : i .. Len(asked) \subseteq i .. Len(asked')
    BY <1>9, <1>10
  <2>2. QED
    BY <1>10, <1>12, <2>1 DEF AnswersAreCached
<1>14. OneReadingPerScoring'
  <2>1. SUFFICES ASSUME NEW i \in DOMAIN asked', NEW j \in DOMAIN asked', i < j,
                        NEW u \in DOMAIN asked'[i] \cap DOMAIN asked'[j],
                        \A n \in i .. j - 1 : <<u, n>> \notin evicted
                 PROVE  asked'[i][u] = asked'[j][u]
    BY <1>10 DEF OneReadingPerScoring, Kept
  <2>2. CASE j \in DOMAIN asked
    <3>1. i \in DOMAIN asked
      BY <1>9, <1>10, <2>1, <2>2
    <3>2. asked'[i] = asked[i] /\ asked'[j] = asked[j]
      BY <1>9, <2>2, <3>1
    <3>3. QED
      BY <2>1, <2>2, <3>1, <3>2 DEF EvidenceInv, OneReadingPerScoring, Kept
  <2>3. CASE j = Len(asked) + 1
    <3>1. \A n \in i .. Len(asked) : <<u, n>> \notin evicted
      BY <1>9, <1>10, <2>1, <2>3
    <3>2. \A n \in j .. Len(asked) : <<u, n>> \notin evicted
      BY <1>10, <2>3
    <3>3. QED
      BY <1>12, <3>1, <3>2
  <2>4. QED
    BY <1>9, <2>2, <2>3
<1>15. QED
  BY <1>7, <1>9, <1>10, <1>13, <1>14 DEF EvidenceInv

LEMMA EvidenceStep == EvidenceInv /\ [EvidenceNext]_evidenceVars => EvidenceInv'
<1> SUFFICES ASSUME EvidenceInv, [EvidenceNext]_evidenceVars PROVE EvidenceInv'
  OBVIOUS
<1>1. CASE Build
  BY <1>1, BuildKeeps
<1>2. ASSUME signals' = <<>>, asked' = <<>> PROVE EvidenceInv'
  <2>1. <<>> \in Seq({}) /\ Len(<<>>) = 0 /\ DOMAIN <<>> = {}
    OBVIOUS
  <2>2. QED
    BY <1>2, <2>1 DEF EvidenceInv, AnswersAreCached, OneReadingPerScoring
<1>3. CASE StartScoring
  BY <1>2, <1>3 DEF StartScoring
<1>4. CASE RestartProcess
  BY <1>2, <1>4 DEF RestartProcess
<1>5. CASE Evict
  <2>1. PICK gone \in DOMAIN texts :
          /\ texts' = [v \in DOMAIN texts \ {gone} |-> texts[v]]
          /\ evicted' = evicted \cup {<<gone, Len(signals)>>}
    BY <1>5 DEF Evict
  <2>2. /\ signals' = signals /\ asked' = asked /\ Len(signals) = Len(asked)
        /\ Len(asked) \in Nat /\ DOMAIN asked = 1 .. Len(asked)
    BY <1>5 DEF Evict, EvidenceInv
  <2>3. AnswersAreCached'
    <3>1. SUFFICES ASSUME NEW i \in DOMAIN asked, NEW u \in DOMAIN asked[i],
                          \A n \in i .. Len(asked) : <<u, n>> \notin evicted'
                   PROVE  u \in DOMAIN texts' /\ asked[i][u] = (texts'[u] # NoText)
      BY <2>2 DEF AnswersAreCached
    <3>2. Len(asked) \in i .. Len(asked)
      BY <2>2
    <3>3. <<u, Len(asked)>> \notin evicted'
      BY <3>1, <3>2
    <3>4. u # gone
      BY <2>1, <2>2, <3>3
    <3>5. \A n \in i .. Len(asked) : <<u, n>> \notin evicted
      BY <2>1, <3>1
    <3>6. u \in DOMAIN texts /\ asked[i][u] = (texts[u] # NoText)
      BY <3>5 DEF EvidenceInv, AnswersAreCached
    <3>7. QED
      BY <2>1, <3>4, <3>6
  <2>4. OneReadingPerScoring'
    BY <2>1, <2>2 DEF EvidenceInv, OneReadingPerScoring, Kept
  <2>5. QED
    BY <2>2, <2>3, <2>4 DEF EvidenceInv
<1>6. CASE NextFilingDay \/ UNCHANGED evidenceVars
  BY <1>6 DEF NextFilingDay, evidenceVars, EvidenceInv, AnswersAreCached, OneReadingPerScoring, Kept
<1>7. QED
  BY <1>1, <1>3, <1>4, <1>5, <1>6 DEF EvidenceNext

\* Two bundles of a scoring disagree on a text only when it was pushed out of the
\* cache between them, whatever fails to be fetched.  (filing_signal_engine.py
\* 361-375, report_machine.py 1249-1430)
THEOREM ScoringReadsOnce == EvidenceSpec => []OneReadingPerScoring
<1>1. EvidenceInv => OneReadingPerScoring
  BY DEF EvidenceInv
<1>2. QED
  BY <1>1, EvidenceInitInv, EvidenceStep, PTL DEF EvidenceSpec

-----------------------------------------------------------------------------
(* The cards *)

CardsFit ==
    /\ \E S : cards \in Seq(S)
    /\ \A x \in DOMAIN cards :
          /\ cards[x].filing.accepted \in Nat /\ cards[x].filing.filed \in Nat
          /\ cards[x].scored \in 0 .. cardDay

StaleScoring == "calculation_timestamp_invalid_or_stale"

\* A refusal for the age of the scoring goes on to hold for its card.
StaleRefusals ==
    \A c \in DOMAIN FilingsOf : StaleScoring \in packets[c].reasons =>
        /\ packets[c].card \in DOMAIN cards
        /\ reports[c] # NoReport
        /\ ~ RecentDay(cards[packets[c].card].scored)

EntriesFit ==
    \A p \in positions : p.card \in DOMAIN cards /\ Lane1Eligible(cards[p.card].verdict)

\* An id is of one card at a time.
IdsDiffer == \A x, y \in Live : cards[x].id = cards[y].id => x = y

CardsInv ==
    /\ cardDay \in Nat \ {0}
    /\ known \in [DOMAIN FilingsOf -> Nat]
    /\ \A c \in DOMAIN FilingsOf : known[c] <= Len(FilingsOf[c])
    /\ DOMAIN reports = DOMAIN FilingsOf /\ DOMAIN packets = DOMAIN FilingsOf
    /\ CardsFit /\ EntriesFit /\ StaleRefusals /\ IdsDiffer

LEMMA CardNumbers ==
    ASSUME CardsFit
    PROVE  Len(cards) \in Nat /\ DOMAIN cards = 1 .. Len(cards)
BY DEF CardsFit

\* The order of the cards, newest first, is one.
LEMMA CardsOrdered ==
    ASSUME CardsFit, NEW R,
           \A x, y \in DOMAIN cards : <<x, y>> \in R <=> x # y /\ CardBefore(x, y)
    PROVE  Ordered(R, Len(cards))
<1>1. DOMAIN cards = 1 .. Len(cards) /\ Len(cards) \in Nat
  BY CardNumbers
<1>2. \A x \in 1 .. Len(cards) : cards[x].filing.accepted \in Nat /\ cards[x].filing.filed \in Nat
  BY <1>1 DEF CardsFit
<1>3. \A x, y \in 1 .. Len(cards) : <<x, y>> \in R <=> x # y /\ CardBefore(x, y)
  BY <1>1
<1>4. \A x, y \in 1 .. Len(cards) : x # y => CardBefore(x, y) \/ CardBefore(y, x)
  <2>1. TAKE x, y \in 1 .. Len(cards)
  <2> DEFINE a == cards[x].filing.accepted  b == cards[y].filing.accepted
             f == cards[x].filing.filed     g == cards[y].filing.filed
  <2>2. a \in Nat /\ b \in Nat /\ f \in Nat /\ g \in Nat /\ x \in Nat /\ y \in Nat
    BY <1>1, <1>2
  <2>3. /\ CardBefore(x, y) <=> (a > b \/ (a = b /\ f > g) \/ (a = b /\ f = g /\ x > y))
        /\ CardBefore(y, x) <=> (b > a \/ (b = a /\ g > f) \/ (b = a /\ g = f /\ y > x))
    BY DEF CardBefore
  <2> HIDE DEF a, b, f, g
  <2>4. QED
    BY <2>2, <2>3
<1>5. \A x, y, z \in 1 .. Len(cards) :
        x # y /\ CardBefore(x, y) /\ y # z /\ CardBefore(y, z) => x # z /\ CardBefore(x, z)
  <2>1. TAKE x, y, z \in 1 .. Len(cards)
  <2> DEFINE a == cards[x].filing.accepted  b == cards[y].filing.accepted  c == cards[z].filing.accepted
             f == cards[x].filing.filed     g == cards[y].filing.filed     h == cards[z].filing.filed
  <2>2. /\ a \in Nat /\ b \in Nat /\ c \in Nat /\ f \in Nat /\ g \in Nat /\ h \in Nat
        /\ x \in Nat /\ y \in Nat /\ z \in Nat
    BY <1>1, <1>2
  <2>3. /\ CardBefore(x, y) <=> (a > b \/ (a = b /\ f > g) \/ (a = b /\ f = g /\ x > y))
        /\ CardBefore(y, z) <=> (b > c \/ (b = c /\ g > h) \/ (b = c /\ g = h /\ y > z))
        /\ CardBefore(x, z) <=> (a > c \/ (a = c /\ f > h) \/ (a = c /\ f = h /\ x > z))
    BY DEF CardBefore
  <2>4. x = z => a = c /\ f = h
    OBVIOUS
  <2> HIDE DEF a, b, c, f, g, h
  <2>5. QED
    BY <2>2, <2>3, <2>4
<1>6. \A x \in 1 .. Len(cards) : <<x, x>> \notin R
  BY <1>3
<1>7. QED
  BY <1>3, <1>4, <1>5, <1>6 DEF Ordered

\* Among some cards one is the newest, and NewestCard is one of them.
LEMMA NewestIsOneOfThem ==
    ASSUME CardsFit, NEW S \in SUBSET DOMAIN cards, S # {}
    PROVE  NewestCard(S) \in S
<1> DEFINE R == {p \in (DOMAIN cards) \X (DOMAIN cards) : p[1] # p[2] /\ CardBefore(p[1], p[2])}
<1>1. \A x, y \in DOMAIN cards : <<x, y>> \in R <=> x # y /\ CardBefore(x, y)
  OBVIOUS
<1> HIDE DEF R
<1>2. Ordered(R, Len(cards)) /\ Len(cards) \in Nat /\ DOMAIN cards = 1 .. Len(cards)
  BY <1>1, CardsOrdered, CardNumbers
<1>3. \E x \in S : \A y \in S \ {x} : <<x, y>> \in R
  BY <1>2, FirstInOrder
<1>4. \E x \in S : \A y \in S \ {x} : CardBefore(x, y)
  BY <1>1, <1>3
<1>5. QED
  BY <1>4 DEF NewestCard

LEMMA LatestIsOwn ==
    ASSUME CardsFit, NEW c
    PROVE  LatestCard(c) # 0 => LatestCard(c) \in CardsOf(c)
<1>1. CardsOf(c) \in SUBSET DOMAIN cards
  BY DEF CardsOf, Live
<1>2. CASE CardsOf(c) = {}
  BY <1>2 DEF LatestCard, NewestCard
<1>3. CASE CardsOf(c) # {}
  BY <1>1, <1>3, NewestIsOneOfThem DEF LatestCard
<1>4. QED
  BY <1>2, <1>3

\* A new card comes after those there are, which stay as they are.
LEMMA CardsOnlyAdded ==
    ASSUME CardsInv, NEW c \in DOMAIN FilingsOf, NEW v, known[c] > 0
    PROVE  LET after == PersistReportCard(c, v)
           IN  /\ \E S : after \in Seq(S)
               /\ DOMAIN cards \subseteq DOMAIN after
               /\ \A x \in DOMAIN cards : after[x] = cards[x]
               /\ \A x \in DOMAIN after \ DOMAIN cards :
                     /\ x = Len(cards) + 1 /\ Len(after) = x
                     /\ after[x].company = c
                     /\ \A y \in Live : cards[y].id # after[x].id
                     /\ after[x].filing = NewestFiling(c)
                     /\ after[x].scored = cardDay
<1> DEFINE card == NewCard(c, NewestFiling(c), v)
           after == PersistReportCard(c, v)
<1>1. PICK S : cards \in Seq(S)
  BY DEF CardsInv, CardsFit
<1>2. CASE after = cards
  BY <1>1, <1>2
<1>3. CASE KeptCards(c, NewestFiling(c)) = {} /\ after = Append(cards, card)
  <2>1. /\ card.company = c /\ card.filing = NewestFiling(c) /\ card.scored = cardDay
        /\ card.id = CardId(c, NewestFiling(c))
    BY DEF NewCard
  <2> HIDE DEF card
  <2>2. /\ Append(cards, card) \in Seq(S \cup {card})
        /\ Len(Append(cards, card)) = Len(cards) + 1
        /\ DOMAIN Append(cards, card) = DOMAIN cards \cup {Len(cards) + 1}
        /\ \A x \in DOMAIN cards : Append(cards, card)[x] = cards[x]
        /\ Append(cards, card)[Len(cards) + 1] = card
    BY <1>1
  <2>3. \A y \in Live : cards[y].id # CardId(c, NewestFiling(c))
    BY <1>3 DEF KeptCards
  <2> HIDE DEF after
  <2>4. QED
    BY <1>3, <2>1, <2>2, <2>3 DEF after
<1>4. QED
  BY <1>2, <1>3 DEF PersistReportCard

LEMMA NewestFilingFits ==
    ASSUME CardsInv, NEW c \in DOMAIN FilingsOf, known[c] > 0
    PROVE  /\ known[c] \in DOMAIN FilingsOf[c]
           /\ NewestFiling(c).accepted \in Nat /\ NewestFiling(c).filed \in Nat
<1>1. FilingsOf[c] \in Seq(Filings)
  BY ReportCardsAssumption
<1>2. known[c] \in 1 .. Len(FilingsOf[c])
  BY DEF CardsInv
<1>3. FilingsOf[c][known[c]] \in Filings
  BY <1>1, <1>2
<1>4. QED
  BY <1>1, <1>2, <1>3, ReportCardsAssumption DEF NewestFiling

\* A packet is refused for the age of the scoring when that of the latest card
\* is not recent.
LEMMA StaleReason ==
    ASSUME NEW c, NEW mode
    PROVE  StaleScoring \in PacketReasons(c, mode) <=>
             LatestCard(c) # 0 /\ reports[c] # NoReport /\ ~ RecentDay(cards[LatestCard(c)].scored)
BY DEF PacketReasons, StaleScoring, ScoredOn

LEMMA CardsInitInv == CardsInit => CardsInv
<1> SUFFICES ASSUME CardsInit PROVE CardsInv
  OBVIOUS
<1>1. known \in [DOMAIN FilingsOf -> Nat] /\ \A c \in DOMAIN FilingsOf : known[c] <= Len(FilingsOf[c])
  <2>1. \A c \in DOMAIN FilingsOf : Len(FilingsOf[c]) \in Nat
    BY ReportCardsAssumption
  <2>2. QED
    BY <2>1 DEF CardsInit
<1>2. CardsFit
  BY ReportCardsAssumption DEF CardsInit, CardsFit
<1>3. EntriesFit
  BY DEF CardsInit, EntriesFit
<1>4. StaleRefusals
  BY DEF CardsInit, StaleRefusals
<1>5. IdsDiffer
  BY ReportCardsAssumption DEF CardsInit, IdsDiffer, Live
<1>6. QED
  BY <1>1, <1>2, <1>3, <1>4, <1>5 DEF CardsInit, CardsInv

LEMMA AnalyseKeeps ==
    ASSUME CardsInv, NEW c \in DOMAIN FilingsOf, NEW v, Analyse(c, v)
    PROVE  CardsInv'
<1>1. /\ known[c] > 0 /\ cards' = PersistReportCard(c, v)
      /\ UNCHANGED <<cardDay, known, dropped, positions, packets>>
  BY DEF Analyse
<1>2. /\ \E S : cards' \in Seq(S)
      /\ DOMAIN cards \subseteq DOMAIN cards'
      /\ \A x \in DOMAIN cards : cards'[x] = cards[x]
      /\ \A x \in DOMAIN cards' \ DOMAIN cards :
            /\ x = Len(cards) + 1
            /\ cards'[x].filing = NewestFiling(c) /\ cards'[x].scored = cardDay
            /\ \A y \in Live : cards[y].id # cards'[x].id
  BY <1>1, CardsOnlyAdded
<1>3. CardsFit'
  <2>1. NewestFiling(c).accepted \in Nat /\ NewestFiling(c).filed \in Nat
    BY <1>1, NewestFilingFits
  <2>2. cardDay' = cardDay /\ cardDay \in Nat
    BY <1>1 DEF CardsInv
  <2>3. QED
    BY <1>2, <2>1, <2>2 DEF CardsFit, CardsInv
<1>4. EntriesFit'
  BY <1>1, <1>2 DEF EntriesFit, CardsInv
<1>5. \A d \in DOMAIN FilingsOf : reports[d] # NoReport => reports'[d] # NoReport
  <2>1. reports' = [reports EXCEPT ![c] =
           [verdict |-> Published(v), updated |-> cardDay,
            stage |-> IF v.facts > 0 THEN "unvalidated" ELSE "archive-dependent-incomplete"]]
    BY DEF Analyse
  <2>2. reports'[c].updated = cardDay /\ cardDay # 0
    BY <2>1 DEF CardsInv
  <2>3. reports'[c] # NoReport
    BY <2>2 DEF NoReport
  <2>4. QED
    BY <2>1, <2>3 DEF CardsInv
<1>6. StaleRefusals'
  BY <1>1, <1>2, <1>5 DEF StaleRefusals, CardsInv, RecentDay
<1>7. DOMAIN reports' = DOMAIN reports
  BY DEF Analyse
<1>8. IdsDiffer'
  BY <1>1, <1>2 DEF IdsDiffer, Live, CardsInv
<1>9. QED
  BY <1>1, <1>3, <1>4, <1>6, <1>7, <1>8 DEF CardsInv

LEMMA CardsStep == CardsInv /\ [CardsNext]_cardVars => CardsInv'
<1> SUFFICES ASSUME CardsInv, [CardsNext]_cardVars PROVE CardsInv'
  OBVIOUS
<1>1. ASSUME NEW c \in DOMAIN FilingsOf, LinkFiling(c) PROVE CardsInv'
  <2>1. known' \in [DOMAIN FilingsOf -> Nat] /\ \A d \in DOMAIN FilingsOf : known'[d] <= Len(FilingsOf[d])
    <3>1. known' = [known EXCEPT ![c] = known[c] + 1] /\ known[c] < Len(FilingsOf[c])
      BY <1>1 DEF LinkFiling
    <3>2. Len(FilingsOf[c]) \in Nat
      BY ReportCardsAssumption
    <3>3. QED
      BY <3>1, <3>2 DEF CardsInv
  <2>2. QED
    BY <1>1, <2>1 DEF LinkFiling, CardsInv, CardsFit, EntriesFit, StaleRefusals, RecentDay, IdsDiffer, Live
<1>2. ASSUME NEW c \in DOMAIN FilingsOf, NEW v \in Verdicts, Analyse(c, v) PROVE CardsInv'
  BY <1>2, AnalyseKeeps
<1>3. ASSUME NEW book \in Books, LaunchPaperBook(book) PROVE CardsInv'
  <2>1. \A x \in SelectedCards : x \in DOMAIN cards /\ Lane1Eligible(cards[x].verdict)
    BY LatestIsOwn DEF SelectedCards, EligibleCards, CardsInv, CardsOf, Live
  <2>2. \A p \in NewPositions(book) : p.card \in SelectedCards
    BY DEF NewPositions
  <2>3. EntriesFit'
    BY <1>3, <2>1, <2>2 DEF LaunchPaperBook, EntriesFit, CardsInv
  <2>4. QED
    BY <1>3, <2>3 DEF LaunchPaperBook, CardsInv, CardsFit, StaleRefusals, RecentDay, IdsDiffer, Live
<1>4. ASSUME NEW c \in DOMAIN FilingsOf, NEW mode, ReadPacket(c, mode) PROVE CardsInv'
  <2>1. packets' = [packets EXCEPT ![c] = [card |-> LatestCard(c), reasons |-> PacketReasons(c, mode)]]
    BY <1>4 DEF ReadPacket
  <2>2. StaleScoring \in PacketReasons(c, mode) =>
          LatestCard(c) \in DOMAIN cards /\ reports[c] # NoReport /\ ~ RecentDay(cards[LatestCard(c)].scored)
    BY StaleReason, LatestIsOwn DEF CardsInv, CardsOf, Live
  <2>3. UNCHANGED <<cardDay, known, reports, cards, dropped, positions>>
    BY <1>4 DEF ReadPacket
  <2>4. StaleRefusals'
    <3>1. ASSUME NEW d \in DOMAIN FilingsOf, StaleScoring \in packets'[d].reasons
          PROVE  /\ packets'[d].card \in DOMAIN cards
                 /\ reports[d] # NoReport
                 /\ ~ RecentDay(cards[packets'[d].card].scored)
      <4>1. CASE d = c
        <5>1. packets'[c].card = LatestCard(c) /\ packets'[c].reasons = PacketReasons(c, mode)
          BY <2>1 DEF CardsInv
        <5>2. QED
          BY <3>1, <4>1, <5>1, <2>2
      <4>2. CASE d # c
        <5>1. packets'[d] = packets[d]
          BY <2>1, <4>2 DEF CardsInv
        <5>2. QED
          BY <3>1, <5>1 DEF CardsInv, StaleRefusals
      <4>3. QED
        BY <4>1, <4>2
    <3>2. QED
      BY <2>3, <3>1 DEF StaleRefusals, RecentDay
  <2>5. DOMAIN packets' = DOMAIN packets
    BY <2>1
  <2>6. QED
    BY <2>3, <2>4, <2>5 DEF CardsInv, CardsFit, EntriesFit, IdsDiffer, Live
<1>5. CASE NextCardDay
  <2>1. cardDay' = cardDay + 1 /\ UNCHANGED <<known, reports, cards, dropped, positions, packets>> /\ cardDay \in Nat
    BY <1>5 DEF NextCardDay, CardsInv
  <2>2. CardsFit'
    BY <2>1 DEF CardsFit, CardsInv
  <2>3. StaleRefusals'
    <3>1. \A x \in DOMAIN cards : ~ RecentDay(cards[x].scored) => ~ RecentDay(cards[x].scored)'
      BY <2>1, ReportCardsAssumption DEF RecentDay, CardsInv, CardsFit
    <3>2. QED
      BY <2>1, <3>1 DEF StaleRefusals, CardsInv
  <2>4. QED
    BY <2>1, <2>2, <2>3 DEF CardsInv, EntriesFit, IdsDiffer, Live
<1>6. CASE UNCHANGED cardVars
  BY <1>6 DEF cardVars, CardsInv, CardsFit, EntriesFit, StaleRefusals, RecentDay, IdsDiffer, Live
<1>7. CASE ResetReportCards
  <2>1. dropped \subseteq dropped' /\ UNCHANGED <<cardDay, known, reports, cards, positions, packets>>
    BY <1>7 DEF ResetReportCards
  <2>2. QED
    BY <2>1 DEF CardsInv, CardsFit, EntriesFit, StaleRefusals, RecentDay, IdsDiffer, Live
<1>8. QED
  BY <1>1, <1>2, <1>3, <1>4, <1>5, <1>6, <1>7 DEF CardsNext

\* The evidence of a book stays what it was entered on until its cards are
\* deleted: however often a company is analysed again, and whatever other cards
\* are deleted and built again, the card that the id kept in a position names
\* still passes the criteria of entry.  (report_cards.py 40-68, paper_book.py
\* 28-83, backfill_report_cards.py 127-156)
THEOREM EntriesAreOfCards == CardsSpec => []EntriesStayEligible
<1>1. CardsInv => EntriesStayEligible
  BY DEF CardsInv, EntriesFit, IdsDiffer, Live, EntriesStayEligible
<1>2. QED
  BY <1>1, CardsInitInv, CardsStep, PTL DEF CardsSpec

-----------------------------------------------------------------------------
(* The timeline *)

\* The cards of a company that its timeline shows, and which is the later.
Shown(c) == {x \in CardsOf(c) : cards[x].filing.form \in CoreForms \cup MaterialForms}
After(x, y) == CardTime(x) > CardTime(y) \/ (CardTime(x) = CardTime(y) /\ x > y)
Later == {p \in (DOMAIN cards) \X (DOMAIN cards) : After(p[1], p[2])}

\* Each slot of a timeline has the card with so many earlier ones.
TimelineFits ==
    /\ Ordered(Later, Len(cards))
    /\ \A c \in DOMAIN FilingsOf :
          /\ Shown(c) \in SUBSET (1 .. Len(cards))
          /\ DOMAIN TimelineOrder(c) = 1 .. Cardinality(Shown(c))
          /\ \A k \in 1 .. Cardinality(Shown(c)) :
                /\ TimelineOrder(c)[k] \in Shown(c)
                /\ Place(Later, Shown(c), TimelineOrder(c)[k]) = k - 1

LEMMA LaterIs ==
    \A x, y \in DOMAIN cards : <<x, y>> \in Later <=> After(x, y)
BY DEF Later

LEMMA LaterOrdered == CardsFit => Ordered(Later, Len(cards))
<1> SUFFICES ASSUME CardsFit PROVE Ordered(Later, Len(cards))
  OBVIOUS
<1>2. DOMAIN cards = 1 .. Len(cards) /\ Len(cards) \in Nat
  BY CardNumbers
<1>3. \A x \in 1 .. Len(cards) : CardTime(x) \in Int
  BY <1>2 DEF CardsFit, CardTime
<1>4. \A x, y \in 1 .. Len(cards) : <<x, y>> \in Later <=> After(x, y)
  BY <1>2, LaterIs
<1>5. \A x, y \in 1 .. Len(cards) : x # y => After(x, y) \/ After(y, x)
  BY <1>2, <1>3 DEF After
<1>6. \A x, y, z \in 1 .. Len(cards) : After(x, y) /\ After(y, z) => After(x, z)
  BY <1>2, <1>3 DEF After
<1>7. \A x \in 1 .. Len(cards) : ~ After(x, x)
  BY <1>2, <1>3 DEF After
<1>8. QED
  BY <1>4, <1>5, <1>6, <1>7 DEF Ordered

LEMMA TimelineIsFit == CardsFit => TimelineFits
<1> SUFFICES ASSUME CardsFit PROVE TimelineFits
  OBVIOUS
<1>1. DOMAIN cards = 1 .. Len(cards) /\ Len(cards) \in Nat
  BY CardNumbers
<1>2. Ordered(Later, Len(cards))
  BY LaterOrdered
<1>3. ASSUME NEW c \in DOMAIN FilingsOf
      PROVE  /\ Shown(c) \in SUBSET (1 .. Len(cards))
             /\ DOMAIN TimelineOrder(c) = 1 .. Cardinality(Shown(c))
             /\ \A k \in 1 .. Cardinality(Shown(c)) :
                   /\ TimelineOrder(c)[k] \in Shown(c)
                   /\ Place(Later, Shown(c), TimelineOrder(c)[k]) = k - 1
  <2> DEFINE before(x, y) == CardTime(x) < CardTime(y) \/ (CardTime(x) = CardTime(y) /\ x < y)
  <2>1. Shown(c) \in SUBSET (1 .. Len(cards))
    BY <1>1 DEF Shown, CardsOf, Live
  <2>2. TimelineOrder(c) =
          [k \in 1 .. Cardinality(Shown(c)) |->
             CHOOSE x \in Shown(c) : Cardinality({y \in Shown(c) : before(y, x)}) = k - 1]
    BY DEF TimelineOrder, Shown
  <2>3. ASSUME NEW x \in Shown(c)
        PROVE  Cardinality({y \in Shown(c) : before(y, x)}) = Place(Later, Shown(c), x)
    <3>1. \A y \in Shown(c) : <<x, y>> \in Later <=> before(y, x)
      BY <1>1, <2>1, LaterIs DEF After
    <3>2. {y \in Shown(c) : before(y, x)} = {y \in Shown(c) : <<x, y>> \in Later}
      BY <3>1
    <3>3. QED
      BY <3>2 DEF Place
  <2>4. ASSUME NEW k \in 1 .. Cardinality(Shown(c))
        PROVE  /\ TimelineOrder(c)[k] \in Shown(c)
               /\ Place(Later, Shown(c), TimelineOrder(c)[k]) = k - 1
    <3>1. \E x \in Shown(c) : Place(Later, Shown(c), x) = k - 1
      BY <1>1, <1>2, <2>1, PlaceIsTaken
    <3> DEFINE rank(x) == Cardinality({y \in Shown(c) : before(y, x)})
    <3>2. \E x \in Shown(c) : rank(x) = k - 1
      BY <2>3, <3>1
    <3>3. TimelineOrder(c)[k] = CHOOSE x \in Shown(c) : rank(x) = k - 1
      BY <2>2
    <3>4. \A x \in Shown(c) : rank(x) = Place(Later, Shown(c), x)
      BY <2>3
    <3> HIDE DEF rank
    <3>5. QED
      BY <3>2, <3>3, <3>4
  <2>5. DOMAIN TimelineOrder(c) = 1 .. Cardinality(Shown(c))
    BY <2>2
  <2>6. QED
    BY <2>1, <2>4, <2>5
<1>4. QED
  BY <1>2, <1>3 DEF TimelineFits

\* Filings are accepted in the order in which they are linked, each at a known
\* time, and none before the filings of which an earlier version left cards.
FilingsInOrder ==
    /\ \A f \in Filings : f.accepted # 0
    /\ \A c \in DOMAIN FilingsOf : \A i, j \in DOMAIN FilingsOf[c] :
          i <= j => FilingsOf[c][i].accepted <= FilingsOf[c][j].accepted
    /\ \A x \in DOMAIN OldCards :
          /\ OldCards[x].filing.accepted # 0
          /\ \A c \in DOMAIN FilingsOf : \A k \in DOMAIN FilingsOf[c] :
                OldCards[x].company = c => OldCards[x].filing.accepted <= FilingsOf[c][k].accepted

\* So no card is of a filing accepted after the newest one linked.
CardsInOrder ==
    \A x \in DOMAIN cards :
        /\ cards[x].filing.accepted # 0
        /\ \A c \in DOMAIN FilingsOf : \A k \in DOMAIN FilingsOf[c] :
              cards[x].company = c /\ known[c] <= k => cards[x].filing.accepted <= FilingsOf[c][k].accepted

LEMMA CardsInOrderInit == FilingsInOrder /\ CardsInit => CardsInOrder
BY DEF FilingsInOrder, CardsInit, CardsInOrder

LEMMA CardsInOrderNext ==
    FilingsInOrder /\ CardsInv /\ CardsInOrder /\ [CardsNext]_cardVars => CardsInOrder'
<1> SUFFICES ASSUME FilingsInOrder, CardsInv, CardsInOrder, [CardsNext]_cardVars PROVE CardsInOrder'
  OBVIOUS
<1>1. ASSUME NEW c \in DOMAIN FilingsOf, LinkFiling(c) PROVE CardsInOrder'
  <2>1. known' = [known EXCEPT ![c] = known[c] + 1] /\ cards' = cards
    BY <1>1 DEF LinkFiling
  <2>2. \A d \in DOMAIN FilingsOf : known[d] \in Nat /\ known[d] <= known'[d]
    BY <2>1 DEF CardsInv
  <2>3. \A d \in DOMAIN FilingsOf : known'[d] \in Nat
    BY <2>1 DEF CardsInv
  <2>4. \A d \in DOMAIN FilingsOf : \A k \in DOMAIN FilingsOf[d] : k \in Nat
    BY ReportCardsAssumption
  <2>5. \A d \in DOMAIN FilingsOf : \A k \in DOMAIN FilingsOf[d] : known'[d] <= k => known[d] <= k
    BY <2>2, <2>3, <2>4
  <2>6. QED
    BY <2>1, <2>5 DEF CardsInOrder
<1>2. ASSUME NEW c \in DOMAIN FilingsOf, NEW v \in Verdicts, Analyse(c, v) PROVE CardsInOrder'
  <2>1. known[c] > 0 /\ cards' = PersistReportCard(c, v) /\ known' = known
    BY <1>2 DEF Analyse
  <2>2. /\ \A x \in DOMAIN cards : cards'[x] = cards[x]
        /\ \A x \in DOMAIN cards' \ DOMAIN cards :
              cards'[x].company = c /\ cards'[x].filing = NewestFiling(c)
    BY <2>1, CardsOnlyAdded
  <2>3. known[c] \in DOMAIN FilingsOf[c] /\ FilingsOf[c][known[c]] \in Filings
    BY <2>1, NewestFilingFits DEF Filings
  <2>4. /\ NewestFiling(c).accepted # 0
        /\ \A k \in DOMAIN FilingsOf[c] : known[c] <= k => NewestFiling(c).accepted <= FilingsOf[c][k].accepted
    BY <2>3 DEF FilingsInOrder, NewestFiling
  <2>5. QED
    BY <2>1, <2>2, <2>4 DEF CardsInOrder
<1>3. ASSUME UNCHANGED <<cards, known>> PROVE CardsInOrder'
  BY <1>3 DEF CardsInOrder
<1>4. QED
  BY <1>1, <1>2, <1>3 DEF CardsNext, LaunchPaperBook, ReadPacket, ResetReportCards, NextCardDay, cardVars

\* A card that is added takes the slot after all that are shown.
LEMMA SlotsKept ==
    ASSUME FilingsInOrder, CardsInv, CardsInOrder, CardsInv', TimelineFits, TimelineFits',
           NEW c \in DOMAIN FilingsOf, NEW v, known[c] > 0, cards' = PersistReportCard(c, v),
           dropped' = dropped,
           NEW d \in DOMAIN FilingsOf
    PROVE  /\ Shown(d) \subseteq DOMAIN cards
           /\ Cardinality(Shown(d)) <= Cardinality(Shown(d)')
           /\ \A k \in 1 .. Cardinality(Shown(d)) : TimelineOrder(d)'[k] = TimelineOrder(d)[k]
<1>1. /\ DOMAIN cards \subseteq DOMAIN cards'
      /\ \A x \in DOMAIN cards : cards'[x] = cards[x]
      /\ \A x \in DOMAIN cards' \ DOMAIN cards :
            /\ x = Len(cards) + 1
            /\ cards'[x].company = c /\ cards'[x].filing = NewestFiling(c)
  BY CardsOnlyAdded
<1>2. /\ DOMAIN cards = 1 .. Len(cards) /\ Len(cards) \in Nat
      /\ DOMAIN cards' = 1 .. Len(cards') /\ Len(cards') \in Nat
  <2>1. CardsFit /\ CardsFit'
    BY DEF CardsInv
  <2>2. QED
    BY <2>1 DEF CardsFit
<1>3. Shown(d) \subseteq DOMAIN cards /\ Shown(d)' \subseteq DOMAIN cards'
  BY DEF Shown, CardsOf, Live
<1>4. Shown(d) = {x \in Shown(d)' : x \in DOMAIN cards}
  BY <1>1 DEF Shown, CardsOf, Live
<1>5. \A x \in DOMAIN cards : CardTime(x)' = cards[x].filing.accepted
  BY <1>1 DEF CardTime, CardsInOrder
<1>6. ASSUME NEW x \in Shown(d), NEW z \in Shown(d)' \ Shown(d)
      PROVE  <<x, z>> \notin Later' /\ <<z, x>> \in Later'
  <2>1. z \in DOMAIN cards' \ DOMAIN cards /\ x \in DOMAIN cards
    BY <1>3, <1>4
  <2>2. cards'[z].company = d
    BY DEF Shown, CardsOf
  <2>3. d = c /\ cards[x].company = c
    BY <1>1, <2>1, <2>2 DEF Shown, CardsOf
  <2>4. cards'[z].filing.accepted # 0 /\ cards[x].filing.accepted <= cards'[z].filing.accepted
    <3>1. known[c] \in DOMAIN FilingsOf[c] /\ FilingsOf[c][known[c]] \in Filings
      BY NewestFilingFits DEF Filings
    <3>2. known[c] <= known[c]
      BY DEF CardsInv
    <3>3. QED
      BY <1>1, <2>1, <2>3, <3>1, <3>2 DEF CardsInOrder, FilingsInOrder, NewestFiling
  <2>5. CardTime(z)' = cards'[z].filing.accepted
    BY <2>4 DEF CardTime
  <2>6. CardTime(x)' <= CardTime(z)' /\ CardTime(x)' \in Nat /\ CardTime(z)' \in Nat
    <3>1. cards[x].filing.accepted \in Nat
      BY <2>1 DEF CardsInv, CardsFit
    <3>2. cards'[z].filing.accepted \in Nat
      BY <2>1 DEF CardsInv, CardsFit
    <3>3. QED
      BY <1>5, <2>1, <2>4, <2>5, <3>1, <3>2
  <2>7. x < z /\ x \in Nat /\ z \in Nat
    BY <1>1, <1>2, <2>1
  <2>8. After(z, x)' /\ ~ After(x, z)'
    BY <2>6, <2>7 DEF After
  <2>9. x \in DOMAIN cards' /\ z \in DOMAIN cards'
    BY <1>1, <2>1
  <2>10. QED
    BY <2>8, <2>9 DEF Later
<1>7. ASSUME NEW x \in Shown(d), NEW y \in Shown(d)
      PROVE  <<x, y>> \in Later' <=> <<x, y>> \in Later
  <2>1. CardTime(x)' = CardTime(x) /\ CardTime(y)' = CardTime(y)
    BY <1>1, <1>3, <1>5 DEF CardTime, CardsInOrder
  <2>2. QED
    BY <1>1, <1>3, <2>1 DEF Later, After
<1>8. ASSUME NEW x \in Shown(d)
      PROVE  Place(Later, Shown(d), x)' = Place(Later, Shown(d), x)
  <2>1. {y \in Shown(d)' : <<x, y>> \in Later'} = {y \in Shown(d) : <<x, y>> \in Later}
    BY <1>4, <1>6, <1>7
  <2>2. QED
    BY <2>1 DEF Place
<1>9. Cardinality(Shown(d)) \in Nat /\ Cardinality(Shown(d)') \in Nat
      /\ Cardinality(Shown(d)) <= Cardinality(Shown(d)')
  <2>1. Shown(d) \in SUBSET Shown(d)'
    BY <1>4
  <2>2. Shown(d) \in SUBSET (1 .. Len(cards)) /\ Shown(d)' \in SUBSET (1 .. Len(cards'))
    BY <1>2, <1>3
  <2>3. IsFiniteSet(Shown(d)') /\ Cardinality(Shown(d)) \in Nat /\ Cardinality(Shown(d)') \in Nat
    BY <1>2, <2>2, PartIsFinite
  <2>4. QED
    BY <2>1, <2>3, FS_Subset
<1>10. ASSUME NEW k \in 1 .. Cardinality(Shown(d))
       PROVE  TimelineOrder(d)'[k] = TimelineOrder(d)[k]
  <2> DEFINE x == TimelineOrder(d)[k]
             y == TimelineOrder(d)'[k]
  <2>1. x \in Shown(d) /\ Place(Later, Shown(d), x) = k - 1
    BY DEF TimelineFits
  <2>2. k \in 1 .. Cardinality(Shown(d)')
    BY <1>9
  <2>3. y \in Shown(d)' /\ Place(Later', Shown(d)', y) = k - 1
    BY <2>2 DEF TimelineFits, Place
  <2>4. x \in Shown(d)' /\ Place(Later', Shown(d)', x) = k - 1
    BY <1>4, <1>8, <2>1 DEF Place
  <2>5. Ordered(Later', Len(cards')) /\ Shown(d)' \in SUBSET (1 .. Len(cards'))
    BY DEF TimelineFits, Ordered
  <2> HIDE DEF x, y
  <2>6. x = y
    BY <1>2, <2>3, <2>4, <2>5, PlaceIsOwn
  <2>7. QED
    BY <2>6 DEF x, y
<1>11. QED
  BY <1>3, <1>9, <1>10

\* What a card shows after the prior one, of number 0 when there is none.
Shows(card, prior, before) ==
    [card |-> card.id,
     kind |-> IF card.filing.form \in MaterialForms THEN "MATERIAL_EVENT"
              ELSE IF prior = 0 THEN "BASELINE"
              ELSE IF Revalued(before.verdict, card.verdict) THEN "RESEARCH_REVALUATION" ELSE "FILING_UPDATE",
     old |-> IF prior = 0 THEN {} ELSE {ShownScore(before.verdict)},
     new |-> ShownScore(card.verdict)]

\* A timeline is what its slots show, each after the one before.
TimelineShows ==
    \A d \in DOMAIN FilingsOf :
        Timeline(d) = [k \in DOMAIN TimelineOrder(d) |->
            Shows(cards[TimelineOrder(d)[k]],
                  IF k = 1 THEN 0 ELSE TimelineOrder(d)[k - 1],
                  cards[TimelineOrder(d)[k - 1]])]

LEMMA TimelineIsShown == TimelineShows
<1>1. ASSUME NEW x, NEW p, NEW q, p = 0 \/ p = q
      PROVE  Event(p, x) = Shows(cards[x], p, cards[q])
  BY <1>1 DEF Event, Shows
<1>2. ASSUME NEW d \in DOMAIN FilingsOf, NEW k
      PROVE  Event(IF k = 1 THEN 0 ELSE TimelineOrder(d)[k - 1], TimelineOrder(d)[k])
               = Shows(cards[TimelineOrder(d)[k]],
                       IF k = 1 THEN 0 ELSE TimelineOrder(d)[k - 1],
                       cards[TimelineOrder(d)[k - 1]])
  BY <1>1
<1>3. QED
  BY <1>2 DEF TimelineShows, Timeline

\* What a slot shows is what it showed, so that a timeline begins with the one
\* before.
LEMMA TimelineGrows ==
    ASSUME FilingsInOrder, CardsInv, CardsInOrder, CardsInv',
           TimelineFits, TimelineFits', TimelineShows, TimelineShows',
           NEW c \in DOMAIN FilingsOf, NEW v, known[c] > 0, cards' = PersistReportCard(c, v),
           dropped' = dropped,
           NEW d \in DOMAIN FilingsOf
    PROVE  SubSeq(Timeline(d)', 1, Len(Timeline(d))) = Timeline(d)
<1> DEFINE m == Cardinality(Shown(d))
           n == Cardinality(Shown(d)')
           order == TimelineOrder(d)
           after == TimelineOrder(d)'
           old == Timeline(d)
           new == Timeline(d)'
<1>1. /\ Shown(d) \subseteq DOMAIN cards /\ m <= n
      /\ \A k \in 1 .. m : after[k] = order[k]
  BY SlotsKept
<1>2. DOMAIN order = 1 .. m /\ DOMAIN after = 1 .. n /\ \A k \in 1 .. m : order[k] \in Shown(d)
  BY DEF TimelineFits
<1>3. m \in Nat /\ n \in Nat
  <2>1. Len(cards) \in Nat /\ Len(cards') \in Nat
    <3>1. CardsFit /\ CardsFit'
      BY DEF CardsInv
    <3>2. QED
      BY <3>1 DEF CardsFit
  <2>2. Shown(d) \in SUBSET (1 .. Len(cards)) /\ Shown(d)' \in SUBSET (1 .. Len(cards'))
    BY DEF TimelineFits
  <2>3. QED
    BY <2>1, <2>2, PartIsFinite
<1>4. \A x \in DOMAIN cards : cards'[x] = cards[x]
  BY CardsOnlyAdded
<1>5. old = [k \in 1 .. m |-> Shows(cards[order[k]], IF k = 1 THEN 0 ELSE order[k - 1], cards[order[k - 1]])]
  BY <1>2 DEF TimelineShows
<1>6. new = [k \in 1 .. n |-> Shows(cards'[after[k]], IF k = 1 THEN 0 ELSE after[k - 1], cards'[after[k - 1]])]
  BY <1>2 DEF TimelineShows
<1>7. ASSUME NEW k \in 1 .. m PROVE k \in 1 .. n /\ new[k] = old[k]
  <2>1. k \in 1 .. n /\ after[k] = order[k] /\ cards'[after[k]] = cards[order[k]]
    BY <1>1, <1>2, <1>3, <1>4
  <2>2. CASE k = 1
    <3>1. Shows(cards'[after[k]], 0, cards'[after[k - 1]]) = Shows(cards[order[k]], 0, cards[order[k - 1]])
      BY <2>1 DEF Shows
    <3>2. QED
      BY <1>5, <1>6, <2>1, <2>2, <3>1
  <2>3. CASE k # 1
    <3>1. k - 1 \in 1 .. m
      BY <1>3, <2>3
    <3>2. after[k - 1] = order[k - 1] /\ cards'[after[k - 1]] = cards[order[k - 1]]
      BY <1>1, <1>2, <1>4, <3>1
    <3>3. QED
      BY <1>5, <1>6, <2>1, <2>3, <3>2
  <2>4. QED
    BY <2>2, <2>3
<1>8. old = [k \in 1 .. m |-> old[k]] /\ new = [k \in 1 .. n |-> new[k]]
  BY <1>5, <1>6
<1> HIDE DEF m, n, old, new
<1>9. old \in Seq({old[k] : k \in 1 .. m}) /\ Len(old) = m
  BY <1>3, <1>8
<1>10. new \in Seq({new[k] : k \in 1 .. n}) /\ Len(new) = n
  BY <1>3, <1>8
<1>11. SubSeq(new, 1, m) = [k \in 1 .. m |-> new[k]]
  BY <1>1, <1>3, <1>10 DEF SubSeq
<1>12. [k \in 1 .. m |-> new[k]] = old
  BY <1>7, <1>8
<1>13. QED
  BY <1>9, <1>11, <1>12 DEF old, new

\* Where filings are accepted in the order in which they are linked, only a new
\* card moves a company on: a packet refused for the age of its scoring stays
\* refused while that card is the latest, and a new card only adds to the
\* timeline, also where cards are deleted and built again.
\* (packet_acceptance.py 82-103, report_cards.py 48-52, change_timeline.py
\* 28-54, 184-188)
THEOREM FilingsMoveCompaniesOn == FilingsInOrder => (CardsSpec => OnlyFilingsMoveOn)
<1> DEFINE
      Refusal ==
        packets' # packets =>
            \A c \in DOMAIN FilingsOf :
               ("calculation_timestamp_invalid_or_stale" \in packets[c].reasons /\ packets[c].card = LatestCard(c))
                 => "calculation_timestamp_invalid_or_stale" \in packets'[c].reasons
      Addition ==
        Len(cards') > Len(cards) =>
            \A c \in DOMAIN FilingsOf : SubSeq(Timeline(c)', 1, Len(Timeline(c))) = Timeline(c)
<1>1. ASSUME CardsInv, [CardsNext]_cardVars PROVE Refusal
  <2>1. SUFFICES ASSUME packets' # packets, NEW d \in DOMAIN FilingsOf,
                        StaleScoring \in packets[d].reasons, packets[d].card = LatestCard(d)
                 PROVE  StaleScoring \in packets'[d].reasons
    BY DEF StaleScoring
  <2>2. PICK c \in DOMAIN FilingsOf, mode \in Modes : ReadPacket(c, mode)
    BY <1>1, <2>1 DEF CardsNext, LinkFiling, Analyse, LaunchPaperBook, ResetReportCards, NextCardDay, cardVars
  <2>3. packets' = [packets EXCEPT ![c] = [card |-> LatestCard(c), reasons |-> PacketReasons(c, mode)]]
    BY <2>2 DEF ReadPacket
  <2>4. CASE d # c
    BY <2>1, <2>3, <2>4, <1>1 DEF CardsInv
  <2>5. CASE d = c
    <3>1. /\ LatestCard(c) \in DOMAIN cards
          /\ reports[c] # NoReport /\ ~ RecentDay(cards[LatestCard(c)].scored)
      BY <1>1, <2>1, <2>5 DEF CardsInv, StaleRefusals
    <3>2. LatestCard(c) # 0
      BY <1>1, <3>1, CardNumbers DEF CardsInv
    <3>3. StaleScoring \in PacketReasons(c, mode)
      BY <3>1, <3>2, StaleReason
    <3>4. packets'[c].reasons = PacketReasons(c, mode)
      BY <1>1, <2>3 DEF CardsInv
    <3>5. QED
      BY <2>5, <3>3, <3>4
  <2>6. QED
    BY <2>4, <2>5
<1>2. ASSUME FilingsInOrder, CardsInv, CardsInv', CardsInOrder, TimelineFits, TimelineFits',
             TimelineShows, TimelineShows', [CardsNext]_cardVars
      PROVE  Addition
  <2>1. SUFFICES ASSUME Len(cards') > Len(cards), NEW d \in DOMAIN FilingsOf
                 PROVE  SubSeq(Timeline(d)', 1, Len(Timeline(d))) = Timeline(d)
    OBVIOUS
  <2>2. cards' # cards
    <3>1. Len(cards) \in Nat
      BY <1>2, CardNumbers DEF CardsInv
    <3>2. QED
      BY <2>1, <3>1
  <2>3. PICK c \in DOMAIN FilingsOf, v \in Verdicts : Analyse(c, v)
    BY <1>2, <2>2 DEF CardsNext, LinkFiling, LaunchPaperBook, ReadPacket, ResetReportCards, NextCardDay, cardVars
  <2>4. known[c] > 0 /\ cards' = PersistReportCard(c, v) /\ dropped' = dropped
    BY <2>3 DEF Analyse
  <2>5. QED
    BY <1>2, <2>4, TimelineGrows
<1>3. SUFFICES ASSUME FilingsInOrder PROVE CardsSpec => OnlyFilingsMoveOn
  OBVIOUS
<1>4. CardsInv => CardsFit
  BY DEF CardsInv
<1>5. CardsInit => CardsInOrder
  BY <1>3, CardsInOrderInit
<1>6. CardsInv /\ CardsInOrder /\ [CardsNext]_cardVars => CardsInOrder'
  BY <1>3, CardsInOrderNext
<1>7. CardsInv /\ CardsInOrder /\ TimelineFits /\ TimelineShows
        /\ CardsInv' /\ TimelineFits' /\ TimelineShows' /\ [CardsNext]_cardVars
      => [Refusal /\ Addition]_cardVars
  BY <1>1, <1>2, <1>3
<1>8. QED
  BY <1>4, <1>5, <1>6, <1>7, CardsInitInv, CardsStep, TimelineIsFit, TimelineIsShown,
     PTL DEF CardsSpec, OnlyFilingsMoveOn
=============================================================================
