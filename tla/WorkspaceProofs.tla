----------------------------- MODULE WorkspaceProofs -----------------------------
(***************************************************************************)
(* Proofs about the findings explorer for any table, page size, statuses,  *)
(* clicks, searches in flight and failures, and about the explanation of a *)
(* finding for any number of analysts.                                     *)
(***************************************************************************)
EXTENDS Workspace, FiniteSetTheorems, FunctionTheorems, TLAPS

--------------------------------------------------------------------------------
(* The explanation.                                                          *)

(* As long as no two requests have overlapped, whoever waits for the model   *)
(* waits alone and found no text; before a text there is none to show.       *)
ExplainInv ==
  /\ ExplainTypeOK /\ OneExplanation
  /\ ~overlapped => \A a \in Analysts : drawer[a] = "asking" =>
       ai_explanation = NoText /\ \A b \in Analysts : drawer[b] = "asking" => b = a
  /\ ai_explanation = NoText => \A a \in Analysts : shown[a] = NoText

(* Every action on explanations keeps their invariant.                       *)
LEMMA ExplainStep ==
  ASSUME ExplainInv, ExplainNext \/ UNCHANGED explainVars
  PROVE  ExplainInv'
<1> USE ExplanationAssumption
<1>1. ASSUME NEW a \in Analysts, Cached(a) PROVE ExplainInv'
  <2>1. ExplainTypeOK'
    BY <1>1 DEF Cached, ExplainInv, ExplainTypeOK
  <2> QED BY <1>1, <2>1 DEF Cached, ExplainInv, ExplainTypeOK, OneExplanation, ExplainedOnce
<1>2. ASSUME NEW a \in Analysts, AskModel(a) PROVE ExplainInv'
  <2>1. ExplainTypeOK'
    BY <1>2 DEF AskModel, ExplainInv, ExplainTypeOK
  <2>2. overlapped' \/ \A b \in Analysts : drawer[b] # "asking"
    BY <1>2 DEF AskModel
  <2> QED BY <1>2, <2>1, <2>2 DEF AskModel, ToExplain, ExplainInv, ExplainTypeOK, OneExplanation, ExplainedOnce
<1>3. ASSUME NEW a \in Analysts, Explain(a) PROVE ExplainInv'
  <2>1. ExplainTypeOK'
    BY <1>3 DEF Explain, ExplainInv, ExplainTypeOK
  <2>2. ~overlapped => /\ \A b \in Analysts : drawer[b] = "asking" => b = a
                       /\ \A b \in Analysts : shown[b] = NoText
    BY <1>3 DEF Explain, ExplainInv
  <2> QED BY <1>3, <2>1, <2>2 DEF Explain, ExplainInv, ExplainTypeOK, OneExplanation, ExplainedOnce
<1>4. ASSUME NEW a \in Analysts, ModelFails(a) PROVE ExplainInv'
  BY <1>4 DEF ModelFails, ExplainInv, ExplainTypeOK, OneExplanation, ExplainedOnce
<1>5. CASE UNCHANGED explainVars
  BY <1>5 DEF explainVars, ExplainInv, ExplainTypeOK, OneExplanation, ExplainedOnce
<1> QED BY <1>1, <1>2, <1>3, <1>4, <1>5 DEF ExplainNext

--------------------------------------------------------------------------------
(* The table.                                                                *)

LastPage == Pages(Cardinality(Ids))

Filters == [status : SUBSET Statuses, scanner : Scanners \cup {AnyScanner}]

Query == [filters : Filters, desc : BOOLEAN, page : 1..LastPage]

Data == [query : Query, items : SUBSET Ids, total : 0..Cardinality(Ids),
         counted : Nat, cut : Nat, by : Nat]

Search == [step : {"sent", "counted", "answered", "shown", "failed"}, data : Data]

Bulk == [ids : SUBSET Ids, status : Statuses, step : {"sent", "committed", "done", "failed"},
         at : Nat]

Committed == {b \in DOMAIN bulks : bulks[b].at > 0}

Last == Len(reloads)

(* A commit of the analyst is one of her bulk changes, and each of these is  *)
(* one of her clicks.                                                        *)
CountInv ==
  /\ clicks \in 0..MaxClick /\ commits \in 0..MaxCommit /\ outages \in Nat
  /\ Len(bulks) <= clicks /\ version = commits + Cardinality(Committed)
  /\ \A b \in DOMAIN bulks : /\ bulks[b].ids # {} /\ bulks[b].at <= version
                             /\ bulks[b].step = "sent" => bulks[b].at = 0

TableTypeOK ==
  /\ statusOf \in [Ids -> Statuses] /\ version \in Nat
  /\ state \in Query /\ export \in Filters /\ selected \subseteq Ids
  /\ reloads \in Seq(Search) /\ Last > 0
  /\ \A i \in DOMAIN reloads : reloads[i].step = "answered" => reloads[i].data.by = i
  /\ lastData \in Data /\ lastData.by <= Last
  /\ bulks \in Seq(Bulk)

(* The rows a page shows for a count made over the same table.               *)
Rest(d) == IF d.total > (d.query.page - 1) * PageSize
           THEN d.total - (d.query.page - 1) * PageSize ELSE 0

Fits(d) == d.counted = d.cut =>
             Cardinality(d.items) = IF Rest(d) < PageSize THEN Rest(d) ELSE PageSize

(* A count is that of the table unless somebody has committed since.         *)
Fitting(s) ==
  /\ s.step = "counted" =>
       /\ s.data.counted <= version
       /\ s.data.counted = version => s.data.total = Cardinality(Matching(s.data.query))
  /\ s.step = "answered" => Fits(s.data)

FitInv == (\A i \in DOMAIN reloads : Fitting(reloads[i])) /\ Fits(lastData)

(* The bulk changes reported before a search are in what it counts.          *)
Covers(d) == \A b \in DOMAIN bulks : bulks[b].step = "done" => bulks[b].at <= d.counted

(* The last search sent asks for what is on screen, after every change that  *)
(* was reported; once it is shown, so are its filters.                       *)
LastInv ==
  /\ reloads[Last].step \in {"sent", "counted", "answered"} => reloads[Last].data.query = state
  /\ reloads[Last].step \in {"counted", "answered"} => Covers(reloads[Last].data)
  /\ reloads[Last].step = "shown" => export = state.filters
  /\ lastData.by = Last => lastData.query = state /\ Covers(lastData)

TableInv == TableTypeOK /\ CountInv /\ FitInv /\ LastInv

(* What is ticked and not in a bulk change in flight was ticked after it.    *)
TickInv ==
  /\ tickedAfter \in [Ids -> 0..Len(bulks)]
  /\ \A b \in DOMAIN bulks : bulks[b].step \in {"sent", "committed"} =>
       \A id \in selected \ bulks[b].ids : tickedAfter[id] >= b

USE WorkspaceAssumption

--------------------------------------------------------------------------------
(* Pages of a sorted table.                                                  *)

LEMMA IdsFinite ==
  ASSUME NEW rows \in SUBSET Ids
  PROVE  IsFiniteSet(rows) /\ Cardinality(rows) \in 0..Cardinality(Ids)
<1>1. IsFiniteSet(rows) /\ Cardinality(rows) <= Cardinality(Ids)
  BY FS_Subset
<1>2. Cardinality(rows) \in Nat /\ Cardinality(Ids) \in Nat
  BY <1>1, FS_CardinalityType
<1> QED BY <1>1, <1>2

(* A row has a smaller rank than those it is ahead of.                       *)
LEMMA RankGrows ==
  ASSUME NEW q, NEW rows \in SUBSET Ids, NEW a \in rows, NEW b \in rows, Ahead(q, a, b)
  PROVE  Rank(q, a, rows) < Rank(q, b, rows)
<1> DEFINE A(x) == {i \in rows : Ahead(q, i, x)}
<1>1. A(a) \in SUBSET rows /\ A(b) \in SUBSET rows /\ a \in Nat /\ b \in Nat /\ rows \subseteq Nat
  OBVIOUS
<1>2. A(a) \subseteq A(b) /\ a \in A(b) /\ a \notin A(a)
  <2>1. ASSUME NEW i \in rows PROVE Ahead(q, i, a) => Ahead(q, i, b)
    BY <1>1, <2>1 DEF Ahead
  <2>2. ~Ahead(q, a, a) /\ Ahead(q, a, b)
    BY <1>1 DEF Ahead
  <2> QED BY <2>1, <2>2
<1>3. IsFiniteSet(A(a)) /\ IsFiniteSet(A(b)) /\ Cardinality(A(a)) \in Nat /\ Cardinality(A(b)) \in Nat
  BY <1>1, IdsFinite, FS_CardinalityType
<1>4. Cardinality(A(a)) <= Cardinality(A(b)) /\ (Cardinality(A(b)) = Cardinality(A(a)) => A(b) = A(a))
  BY <1>2, <1>3, FS_Subset
<1> QED BY <1>2, <1>3, <1>4 DEF Rank

(* The ranks of n rows are the numbers 0..n-1, each once.                    *)
LEMMA RanksAreAll ==
  ASSUME NEW q, NEW rows \in SUBSET Ids
  PROVE  [id \in rows |-> Rank(q, id, rows)] \in Bijection(rows, 0..(Cardinality(rows) - 1))
<1> DEFINE n == Cardinality(rows)
           r == [id \in rows |-> Rank(q, id, rows)]
<1>1. IsFiniteSet(rows) /\ n \in Nat
  BY IdsFinite, FS_CardinalityType
<1>2. ASSUME NEW id \in rows PROVE Rank(q, id, rows) \in 0..(n - 1)
  <2> DEFINE A == {i \in rows : Ahead(q, i, id)}
  <2>1. A \subseteq rows \ {id}
    BY DEF Ahead
  <2>2. IsFiniteSet(rows \ {id}) /\ Cardinality(rows \ {id}) = n - 1
    BY <1>1, FS_RemoveElement
  <2>3. IsFiniteSet(A) /\ Cardinality(A) <= n - 1
    BY <2>1, <2>2, FS_Subset
  <2>4. Cardinality(A) \in Nat
    BY <2>3, FS_CardinalityType
  <2> QED BY <1>1, <2>3, <2>4 DEF Rank
<1>3. r \in [rows -> 0..(n - 1)]
  BY <1>2
<1>4. ASSUME NEW a \in rows, NEW b \in rows, r[a] = r[b] PROVE a = b
  <2>1. r[a] = Rank(q, a, rows) /\ r[b] = Rank(q, b, rows) /\ r[a] \in 0..(n - 1)
    BY <1>3
  <2>2. ~Ahead(q, a, b) /\ ~Ahead(q, b, a)
    BY <1>4, <2>1, RankGrows
  <2>3. a \in Nat /\ b \in Nat
    OBVIOUS
  <2> QED BY <2>2, <2>3 DEF Ahead
<1>5. r \in Injection(rows, 0..(n - 1))
  BY <1>3, <1>4, Fun_IsInj
<1>6. IsFiniteSet(0..(n - 1)) /\ Cardinality(0..(n - 1)) = n
  <2> HIDE DEF n, r
  <2>1. 0 \in Int /\ n - 1 \in Int /\ (0 > n - 1 <=> n = 0) /\ (n - 1) - 0 + 1 = n
    BY <1>1
  <2> QED BY <2>1, FS_Interval
<1>7. r \in Surjection(rows, 0..(n - 1))
  BY <1>5, <1>6, FS_Injection
<1> QED BY <1>5, <1>7, Fun_IsBij

(* A page of n sorted rows holds what the pages before it leave, at most     *)
(* PageSize.                                                                 *)
LEMMA PageHolds ==
  ASSUME NEW q \in Query, NEW rows \in SUBSET Ids
  PROVE  LET before == (q.page - 1) * PageSize
             n      == Cardinality(rows)
             rest   == IF n > before THEN n - before ELSE 0
         IN  Cardinality(PageOf(q, rows)) = IF rest < PageSize THEN rest ELSE PageSize
<1> DEFINE n == Cardinality(rows)
           lo == (q.page - 1) * PageSize
           hi == q.page * PageSize - 1
           top == IF hi < n - 1 THEN hi ELSE n - 1
           r == [id \in rows |-> Rank(q, id, rows)]
           p == PageOf(q, rows)
           g == [id \in p |-> r[id]]
<1>1. q.page \in Nat \ {0} /\ n \in Nat /\ PageSize \in Nat \ {0}
  <2>1. q.page \in 1..LastPage
    BY DEF Query
  <2> QED BY <2>1, IdsFinite
<1>2. lo \in Nat /\ hi \in Nat /\ hi = lo + PageSize - 1 /\ top \in Int
  <2>1. q.page * PageSize = (q.page - 1) * PageSize + PageSize
    BY <1>1
  <2>2. (q.page - 1) * PageSize \in Nat
    BY <1>1
  <2> QED BY <1>1, <2>1, <2>2
<1> HIDE DEF lo, hi
<1>3. /\ r \in [rows -> 0..(n - 1)]
      /\ \A a, b \in rows : r[a] = r[b] => a = b
      /\ \A k \in 0..(n - 1) : \E id \in rows : r[id] = k
  <2> DEFINE T == 0..(n - 1)
  <2>1. r \in Bijection(rows, T)
    BY RanksAreAll
  <2> HIDE DEF r, T
  <2>2. r \in [rows -> T]
    BY <2>1, Fun_BijectionProperties
  <2>3. \A a, b \in rows : r[a] = r[b] => a = b
    BY <2>1, Fun_BijectionProperties
  <2>4. \A k \in T : \E id \in rows : r[id] = k
    BY <2>1 DEF Bijection, Surjection
  <2> QED BY <2>2, <2>3, <2>4 DEF T
<1>4. p = {id \in rows : r[id] \in lo..hi}
  BY DEF PageOf, lo, hi
<1> HIDE DEF r, n
<1>5. g \in [p -> lo..top] /\ (\A a, b \in p : g[a] = g[b] => a = b)
  <2>1. \A id \in p : id \in rows /\ r[id] \in 0..(n - 1) /\ r[id] \in lo..hi
    BY <1>3, <1>4
  <2>2. \A id \in p : r[id] \in lo..top
    BY <1>1, <1>2, <2>1
  <2> QED BY <1>3, <2>1, <2>2
<1>6. \A k \in lo..top : \E id \in p : g[id] = k
  <2>1. \A k \in lo..top : k \in 0..(n - 1) /\ k \in lo..hi
    BY <1>1, <1>2
  <2> QED BY <1>3, <1>4, <2>1
<1>7. g \in Bijection(p, lo..top)
  BY <1>5, <1>6, Fun_IsBij
<1>8. IsFiniteSet(p)
  BY <1>4, FS_Subset, IdsFinite
<1>9. Cardinality(p) = Cardinality(lo..top)
  BY <1>7, <1>8, FS_Bijection DEF ExistsBijection
<1>10. Cardinality(lo..top) = IF lo > top THEN 0 ELSE top - lo + 1
  BY <1>2, FS_Interval
<1>11. Cardinality(p) = IF n > lo THEN IF n - lo < PageSize THEN n - lo ELSE PageSize ELSE 0
  BY <1>1, <1>2, <1>9, <1>10
<1> QED BY <1>1, <1>2, <1>11 DEF lo, n

LEMMA MatchingRows ==
  ASSUME NEW q
  PROVE  Matching(q) \in SUBSET Ids /\ Cardinality(Matching(q)) \in 0..Cardinality(Ids)
<1>1. Matching(q) \in SUBSET Ids
  BY DEF Matching
<1> QED BY <1>1, IdsFinite

(* More rows never have fewer pages.                                         *)
LEMMA PagesGrow ==
  ASSUME NEW m \in Nat, NEW n \in Nat, m <= n
  PROVE  Pages(m) \in Nat \ {0} /\ Pages(m) <= Pages(n)
<1> DEFINE D(x) == (x + PageSize - 1) \div PageSize
<1>1. \A x \in Nat : /\ D(x) \in Int
                     /\ D(x) * PageSize <= x + PageSize - 1
                     /\ x + PageSize - 1 < D(x) * PageSize + PageSize
  OBVIOUS
<1>2. D(m) <= D(n)
  <2>1. SUFFICES ASSUME D(n) + 1 <= D(m) PROVE FALSE
    BY <1>1
  <2>2. D(n) * PageSize + PageSize <= D(m) * PageSize
    BY <1>1, <2>1
  <2> QED BY <1>1, <2>2
<1>3. n # 0 => D(n) > 0
  <2>1. SUFFICES ASSUME n # 0, D(n) <= 0 PROVE FALSE
    BY <1>1
  <2>2. D(n) * PageSize <= 0
    BY <1>1, <2>1
  <2> QED BY <1>1, <2>1, <2>2
<1>4. m # 0 => D(m) > 0
  <2>1. SUFFICES ASSUME m # 0, D(m) <= 0 PROVE FALSE
    BY <1>1
  <2>2. D(m) * PageSize <= 0
    BY <1>1, <2>1
  <2> QED BY <1>1, <2>1, <2>2
<1> QED BY <1>1, <1>2, <1>3, <1>4 DEF Pages
(* The first page of no filter is a query, whatever the table.               *)
LEMMA FirstQuery ==
  /\ IsFiniteSet(Ids) /\ Cardinality(Ids) \in Nat /\ LastPage \in Nat \ {0}
  /\ NoFilters \in Filters /\ FirstState \in Query /\ NoData \in Data
<1>1. IsFiniteSet(Ids) /\ Cardinality(Ids) \in Nat
  BY FS_CardinalityType
<1>2. LastPage \in Nat \ {0}
  BY <1>1, PagesGrow DEF LastPage
<1>3. NoFilters \in Filters
  BY DEF NoFilters, Filters
<1>4. FirstState \in Query
  BY <1>2, <1>3 DEF FirstState, Query
<1>5. NoData \in Data
  BY <1>1, <1>4 DEF NoData, Data
<1> QED BY <1>1, <1>2, <1>3, <1>4, <1>5

(* A search that is not sent yet, and one whose answer is gone.              *)
LEMMA SentSearch ==
  ASSUME NEW q \in Query
  PROVE  Sent(q) \in Search /\ Sent(q).step = "sent" /\ Sent(q).data.query = q
<1>1. [NoData EXCEPT !.query = q] \in Data
  BY FirstQuery DEF Data
<1>2. [NoData EXCEPT !.query = q].query = q
  BY FirstQuery DEF Data
<1> QED BY <1>1, <1>2 DEF Sent, Search

LEMMA GoneSearch ==
  ASSUME NEW how \in {"shown", "failed"}
  PROVE  Gone(how) \in Search /\ Gone(how).step = how
BY FirstQuery DEF Gone, Search

(* The searches after one of them moves on.                                  *)
LEMMA Moves ==
  ASSUME reloads \in Seq(Search), NEW i \in DOMAIN reloads, NEW s \in Search,
         reloads' = [reloads EXCEPT ![i] = s]
  PROVE  /\ reloads' \in Seq(Search) /\ Last' = Last /\ DOMAIN reloads' = DOMAIN reloads
         /\ reloads'[i] = s
         /\ \A j \in DOMAIN reloads : j # i => reloads'[j] = reloads[j]
BY DEF Last

(* The searches after another is sent.                                       *)
LEMMA Sends ==
  ASSUME reloads \in Seq(Search), NEW q \in Query, Reload(q)
  PROVE  /\ reloads' \in Seq(Search) /\ Last' = Last + 1 /\ DOMAIN reloads' = 1..(Last + 1)
         /\ DOMAIN reloads = 1..Last /\ Last \in Nat
         /\ reloads'[Last + 1] = Sent(q)
         /\ \A j \in DOMAIN reloads : reloads'[j] = reloads[j]
BY SentSearch DEF Reload, Last

(* The fields of a search.                                                   *)
LEMMA SearchFields ==
  ASSUME TableTypeOK, NEW i \in DOMAIN reloads
  PROVE  /\ i \in 1..Last /\ Last \in Nat \ {0} /\ DOMAIN reloads = 1..Last
         /\ reloads[i] \in Search /\ reloads[i].data \in Data
         /\ reloads[i].step \in {"sent", "counted", "answered", "shown", "failed"}
         /\ reloads[i].data.query \in Query
<1>1. reloads[i] \in Search
  BY DEF TableTypeOK
<1>2. reloads[i].data \in Data /\ reloads[i].step \in {"sent", "counted", "answered", "shown", "failed"}
  BY <1>1 DEF Search
<1>3. reloads[i].data.query \in Query
  BY <1>2 DEF Data
<1> QED BY <1>1, <1>2, <1>3 DEF TableTypeOK, Last

(* What a search knows of the table is true until somebody commits.          *)
LEMMA FitStays ==
  ASSUME FitInv, UNCHANGED <<statusOf, version>>, Fits(lastData'),
         \A j \in DOMAIN reloads' :
           (j \in DOMAIN reloads /\ reloads'[j] = reloads[j]) \/ Fitting(reloads'[j])
  PROVE  FitInv'
<1>1. Fits(lastData)'
  BY DEF Fits, Rest
<1>2. ASSUME NEW j \in DOMAIN reloads' PROVE Fitting(reloads[j])'
  <2>1. Fitting(reloads'[j])
    BY DEF FitInv
  <2>2. Matching(reloads[j].data.query)' = Matching(reloads'[j].data.query)
    BY DEF Matching
  <2>3. Fits(reloads[j].data)' <=> Fits(reloads'[j].data)
    BY DEF Fits, Rest
  <2> QED BY <2>1, <2>2, <2>3 DEF Fitting
<1> QED BY <1>1, <1>2 DEF FitInv

--------------------------------------------------------------------------------
(* The searches.                                                             *)

(* A count is of the table as it is.                                         *)
LEMMA Counts ==
  ASSUME TableInv, NEW i \in DOMAIN reloads, Count(i)
  PROVE  TableInv'
<1> DEFINE q == reloads[i].data.query
           d == [reloads[i].data EXCEPT !.total = Cardinality(Matching(q)), !.counted = version]
           s == [step |-> "counted", data |-> d]
<1>1. TableTypeOK /\ CountInv /\ FitInv /\ LastInv
  BY DEF TableInv
<1>2. /\ reloads[i] \in Search /\ reloads[i].data \in Data /\ q \in Query
      /\ Last \in DOMAIN reloads
  BY <1>1, SearchFields
<1>3. /\ d \in Data /\ d.query = q /\ d.total = Cardinality(Matching(q))
      /\ d.counted = version /\ version \in Nat
  BY <1>1, <1>2, MatchingRows DEF Data, TableTypeOK
<1>4. reloads' = [reloads EXCEPT ![i] = s]
  BY DEF Count
<1>5. s \in Search /\ s.step = "counted" /\ s.data = d
  BY <1>3 DEF Search
<1> HIDE DEF s, d, q
<1>6. /\ reloads' \in Seq(Search) /\ Last' = Last /\ DOMAIN reloads' = DOMAIN reloads
      /\ reloads'[i] = s
      /\ \A j \in DOMAIN reloads : j # i => reloads'[j] = reloads[j]
  BY <1>1, <1>4, <1>5, Moves DEF TableTypeOK
<1>7. /\ UNCHANGED <<statusOf, version, bulks, state, lastData, export, selected, clicks>>
      /\ UNCHANGED <<commits, outages>> /\ reloads[i].step = "sent"
  BY DEF Count, screen, bounds
<1>8. TableTypeOK'
  BY <1>1, <1>5, <1>6, <1>7 DEF TableTypeOK
<1>9. CountInv'
  BY <1>1, <1>7 DEF CountInv, Committed
<1>10. FitInv'
  <2>1. Fitting(s)
    BY <1>3, <1>5 DEF Fitting
  <2> QED BY <1>1, <1>6, <1>7, <2>1, FitStays DEF FitInv
<1>11. LastInv'
  <2>1. CASE Last = i
    <3>1. \A b \in DOMAIN bulks : bulks[b].at <= version
      BY <1>1 DEF CountInv
    <3> QED BY <1>1, <1>3, <1>5, <1>6, <1>7, <2>1, <3>1 DEF LastInv, Covers, q
  <2>2. CASE Last # i
    BY <1>1, <1>2, <1>6, <1>7, <2>2 DEF LastInv, Covers
  <2> QED BY <2>1, <2>2
<1> QED BY <1>8, <1>9, <1>10, <1>11 DEF TableInv

(* A page cut from a table nobody has changed since it was counted fits the  *)
(* count.                                                                    *)
LEMMA Cuts ==
  ASSUME TableInv, NEW i \in DOMAIN reloads, CutPage(i)
  PROVE  TableInv'
<1> DEFINE q == reloads[i].data.query
           d == [reloads[i].data EXCEPT !.items = PageOf(q, Matching(q)), !.cut = version, !.by = i]
           s == [step |-> "answered", data |-> d]
<1>1. TableTypeOK /\ CountInv /\ FitInv /\ LastInv
  BY DEF TableInv
<1>2. /\ reloads[i] \in Search /\ reloads[i].data \in Data /\ q \in Query
      /\ Last \in DOMAIN reloads /\ i \in Nat
  BY <1>1, SearchFields
<1>3. PageOf(q, Matching(q)) \subseteq Ids
  BY MatchingRows DEF PageOf
<1>4. /\ d \in Data /\ d.query = q /\ d.items = PageOf(q, Matching(q)) /\ d.by = i
      /\ d.total = reloads[i].data.total /\ d.counted = reloads[i].data.counted
      /\ d.cut = version /\ version \in Nat
  BY <1>1, <1>2, <1>3 DEF Data, TableTypeOK
<1>5. reloads' = [reloads EXCEPT ![i] = s]
  BY DEF CutPage
<1>6. s \in Search /\ s.step = "answered" /\ s.data = d
  BY <1>4 DEF Search
<1>7. Fits(d)
  <2>1. SUFFICES ASSUME d.counted = d.cut
                 PROVE  Cardinality(d.items) = IF Rest(d) < PageSize THEN Rest(d) ELSE PageSize
    BY DEF Fits
  <2>2. d.total = Cardinality(Matching(q))
    BY <1>1, <1>4, <2>1 DEF FitInv, Fitting, CutPage
  <2> QED BY <1>2, <1>4, <2>2, MatchingRows, PageHolds DEF Rest
<1> HIDE DEF s, d, q
<1>8. /\ reloads' \in Seq(Search) /\ Last' = Last /\ DOMAIN reloads' = DOMAIN reloads
      /\ reloads'[i] = s
      /\ \A j \in DOMAIN reloads : j # i => reloads'[j] = reloads[j]
  BY <1>1, <1>5, <1>6, Moves DEF TableTypeOK
<1>9. /\ UNCHANGED <<statusOf, version, bulks, state, lastData, export, selected, clicks>>
      /\ UNCHANGED <<commits, outages>> /\ reloads[i].step = "counted"
  BY DEF CutPage, screen, bounds
<1>10. TableTypeOK'
  <2>1. \A j \in DOMAIN reloads' : reloads'[j].step = "answered" => reloads'[j].data.by = j
    BY <1>1, <1>4, <1>6, <1>8 DEF TableTypeOK
  <2> QED BY <1>1, <1>8, <1>9, <2>1 DEF TableTypeOK
<1>11. CountInv'
  BY <1>1, <1>9 DEF CountInv, Committed
<1>12. FitInv'
  <2>1. Fitting(s)
    BY <1>6, <1>7 DEF Fitting
  <2> QED BY <1>1, <1>8, <1>9, <2>1, FitStays DEF FitInv
<1>13. LastInv'
  <2>1. CASE Last = i
    BY <1>1, <1>4, <1>6, <1>8, <1>9, <2>1 DEF LastInv, Covers, q
  <2>2. CASE Last # i
    BY <1>1, <1>2, <1>8, <1>9, <2>2 DEF LastInv, Covers
  <2> QED BY <2>1, <2>2
<1> QED BY <1>10, <1>11, <1>12, <1>13 DEF TableInv

(* The answer shown is that of the search on screen if it is the last one.   *)
LEMMA Shows ==
  ASSUME TableInv, NEW i \in DOMAIN reloads, Show(i)
  PROVE  TableInv'
<1> DEFINE d == reloads[i].data
<1>1. TableTypeOK /\ CountInv /\ FitInv /\ LastInv
  BY DEF TableInv
<1>2. /\ reloads[i].data \in Data /\ Last \in DOMAIN reloads /\ i \in 1..Last /\ Last \in Nat
      /\ reloads[i].step = "answered" /\ lastData' = d /\ d.by = i
  BY <1>1, SearchFields DEF Show, TableTypeOK
<1>3. Gone("shown") \in Search /\ Gone("shown").step = "shown"
  BY GoneSearch
<1>4. reloads' = [reloads EXCEPT ![i] = Gone("shown")]
  BY DEF Show
<1>5. Fits(d)
  BY <1>1, <1>2 DEF FitInv, Fitting
<1> HIDE DEF d
<1>6. /\ reloads' \in Seq(Search) /\ Last' = Last /\ DOMAIN reloads' = DOMAIN reloads
      /\ reloads'[i] = Gone("shown")
      /\ \A j \in DOMAIN reloads : j # i => reloads'[j] = reloads[j]
  BY <1>1, <1>3, <1>4, Moves DEF TableTypeOK
<1>7. /\ UNCHANGED <<statusOf, version, bulks, state, selected, clicks, commits, outages>>
      /\ export' = state.filters
  BY DEF Show, bounds
<1>8. TableTypeOK'
  <2>1. state.filters \in Filters
    BY <1>1 DEF TableTypeOK, Query
  <2>2. lastData' \in Data /\ lastData'.by <= Last'
    BY <1>2, <1>6 DEF d
  <2>3. \A j \in DOMAIN reloads' : reloads'[j].step = "answered" => reloads'[j].data.by = j
    BY <1>1, <1>3, <1>6 DEF TableTypeOK
  <2> QED BY <1>1, <1>6, <1>7, <2>1, <2>2, <2>3 DEF TableTypeOK
<1>9. CountInv'
  BY <1>1, <1>7 DEF CountInv, Committed
<1>10. FitInv'
  <2>1. Fitting(Gone("shown"))
    BY <1>3 DEF Fitting
  <2> QED BY <1>1, <1>2, <1>5, <1>6, <1>7, <2>1, FitStays DEF FitInv
<1>11. LastInv'
  <2>1. CASE Last = i
    BY <1>1, <1>2, <1>3, <1>6, <1>7, <2>1 DEF LastInv, Covers, d
  <2>2. CASE Last # i
    BY <1>1, <1>2, <1>6, <1>7, <2>2 DEF LastInv, Covers
  <2> QED BY <2>1, <2>2
<1> QED BY <1>8, <1>9, <1>10, <1>11 DEF TableInv
(* A search that fails takes nothing with it.                                *)
LEMMA Fails ==
  ASSUME TableInv, NEW i \in DOMAIN reloads, SearchFails(i)
  PROVE  TableInv'
<1>1. TableTypeOK /\ CountInv /\ FitInv /\ LastInv
  BY DEF TableInv
<1>2. Last \in DOMAIN reloads
  BY <1>1, SearchFields
<1>3. Gone("failed") \in Search /\ Gone("failed").step = "failed"
  BY GoneSearch
<1>4. reloads' = [reloads EXCEPT ![i] = Gone("failed")]
  BY DEF SearchFails
<1>5. /\ reloads' \in Seq(Search) /\ Last' = Last /\ DOMAIN reloads' = DOMAIN reloads
      /\ reloads'[i] = Gone("failed")
      /\ \A j \in DOMAIN reloads : j # i => reloads'[j] = reloads[j]
  BY <1>1, <1>3, <1>4, Moves DEF TableTypeOK
<1>6. /\ UNCHANGED <<statusOf, version, bulks, state, lastData, export, selected, clicks>>
      /\ UNCHANGED commits /\ outages' = outages + 1
  BY DEF SearchFails, screen
<1>7. TableTypeOK'
  BY <1>1, <1>3, <1>5, <1>6 DEF TableTypeOK
<1>8. CountInv'
  BY <1>1, <1>6 DEF CountInv, Committed
<1>9. FitInv'
  <2>1. Fitting(Gone("failed"))
    BY <1>3 DEF Fitting
  <2> QED BY <1>1, <1>5, <1>6, <2>1, FitStays DEF FitInv
<1>10. LastInv'
  <2>1. CASE Last = i
    BY <1>1, <1>3, <1>5, <1>6, <2>1 DEF LastInv, Covers
  <2>2. CASE Last # i
    BY <1>1, <1>2, <1>5, <1>6, <2>2 DEF LastInv, Covers
  <2> QED BY <2>1, <2>2
<1> QED BY <1>7, <1>8, <1>9, <1>10 DEF TableInv

--------------------------------------------------------------------------------
(* The clicks.                                                               *)

(* A click sends a search for what it leaves on screen.                      *)
LEMMA Clicks ==
  ASSUME TableInv, NEW q \in Query, Click(q)
  PROVE  TableInv'
<1>1. TableTypeOK /\ CountInv /\ FitInv /\ LastInv
  BY DEF TableInv
<1>2. /\ reloads' \in Seq(Search) /\ Last' = Last + 1 /\ DOMAIN reloads' = 1..(Last + 1)
      /\ DOMAIN reloads = 1..Last /\ Last \in Nat
      /\ reloads'[Last + 1] = Sent(q)
      /\ \A j \in DOMAIN reloads : reloads'[j] = reloads[j]
  BY <1>1, Sends DEF TableTypeOK, Click
<1>3. Sent(q).step = "sent" /\ Sent(q).data.query = q
  BY SentSearch
<1>4. /\ UNCHANGED <<statusOf, version, bulks, lastData, export, selected, commits, outages>>
      /\ state' = q /\ clicks < MaxClick /\ clicks' = clicks + 1
  BY DEF Click
<1>5. TableTypeOK'
  <2>1. \A j \in DOMAIN reloads' : reloads'[j].step = "answered" => reloads'[j].data.by = j
    BY <1>1, <1>2, <1>3 DEF TableTypeOK
  <2>2. lastData' \in Data /\ lastData'.by <= Last'
    BY <1>1, <1>2, <1>4 DEF TableTypeOK, Data
  <2> QED BY <1>1, <1>2, <1>4, <2>1, <2>2 DEF TableTypeOK
<1>6. CountInv'
  BY <1>1, <1>4 DEF CountInv, Committed, TableTypeOK
<1>7. FitInv'
  <2>1. Fitting(Sent(q))
    BY <1>3 DEF Fitting
  <2>2. \A j \in DOMAIN reloads' : j \in DOMAIN reloads \/ j = Last + 1
    BY <1>2
  <2> QED BY <1>1, <1>2, <1>4, <2>1, <2>2, FitStays DEF FitInv
<1>8. LastInv'
  <2>1. lastData'.by # Last'
    BY <1>1, <1>2, <1>4 DEF TableTypeOK, Data
  <2> QED BY <1>2, <1>3, <1>4, <2>1 DEF LastInv
<1> QED BY <1>5, <1>6, <1>7, <1>8 DEF TableInv

(* What the chips, the selectors, the headers and the pager ask for are      *)
(* pages of the table.                                                       *)
LEMMA Asks ==
  ASSUME TableInv,
         \/ \E st \in Chips : ToggleChip(st)
         \/ \E sc \in Scanners \cup {AnyScanner} : ChooseScanner(sc)
         \/ ResetFilters \/ Sort \/ Turn
  PROVE  TableInv'
<1>1. /\ state \in Query /\ state.filters \in Filters /\ state.page \in 1..LastPage
      /\ 1 \in 1..LastPage /\ NoFilters \in Filters /\ state.desc \in BOOLEAN
  BY FirstQuery DEF TableInv, TableTypeOK, Query
<1>2. ASSUME NEW st \in Chips, ToggleChip(st) PROVE TableInv'
  <2>1. Toggled(state.filters.status, st) \subseteq Statuses
    BY <1>1 DEF Toggled, Filters
  <2>2. [state EXCEPT !.filters.status = Toggled(state.filters.status, st)] \in Query
    BY <1>1, <2>1 DEF Query, Filters
  <2> QED BY <1>2, <2>2, Clicks DEF ToggleChip
<1>3. ASSUME NEW sc \in Scanners \cup {AnyScanner}, ChooseScanner(sc) PROVE TableInv'
  <2>1. [state EXCEPT !.filters.scanner = sc, !.page = 1] \in Query
    BY <1>1 DEF Query, Filters
  <2> QED BY <1>3, <2>1, Clicks DEF ChooseScanner
<1>4. CASE ResetFilters
  <2>1. [state EXCEPT !.filters = NoFilters, !.page = 1] \in Query
    BY <1>1 DEF Query
  <2> QED BY <1>4, <2>1, Clicks DEF ResetFilters
<1>5. CASE Sort
  <2>1. [state EXCEPT !.desc = ~state.desc] \in Query
    BY <1>1 DEF Query
  <2> QED BY <1>5, <2>1, Clicks DEF Sort
<1>6. CASE Turn
  <2>1. lastData.query.page \in 1..LastPage /\ lastData.total \in 0..Cardinality(Ids)
    BY DEF TableInv, TableTypeOK, Data, Query
  <2>2. Pages(lastData.total) \in Nat /\ Pages(lastData.total) <= LastPage /\ LastPage \in Nat
    BY <2>1, FirstQuery, PagesGrow DEF LastPage
  <2>3. \A p \in 1..LastPage : [state EXCEPT !.page = p] \in Query
    BY <1>1 DEF Query
  <2>4. CASE lastData.query.page > 1 /\ Click([state EXCEPT !.page = lastData.query.page - 1])
    <3>1. lastData.query.page - 1 \in 1..LastPage
      BY <2>1, <2>2, <2>4
    <3> QED BY <2>3, <2>4, <3>1, Clicks
  <2>5. CASE /\ lastData.query.page < Pages(lastData.total)
             /\ Click([state EXCEPT !.page = lastData.query.page + 1])
    <3>1. lastData.query.page + 1 \in 1..LastPage
      BY <2>1, <2>2, <2>5
    <3> QED BY <2>3, <2>5, <3>1, Clicks
  <2> QED BY <1>6, <2>4, <2>5 DEF Turn
<1> QED BY <1>2, <1>3, <1>4, <1>5, <1>6
(* Ticks are rows of the table.                                              *)
LEMMA Ticks ==
  ASSUME TableInv, TickRow \/ TickPage \/ ClearTicks
  PROVE  TableInv'
<1>1. TableTypeOK /\ CountInv /\ FitInv /\ LastInv
  BY DEF TableInv
<1>2. /\ UNCHANGED <<statusOf, version, reloads, bulks, state, lastData, export>>
      /\ UNCHANGED <<clicks, commits, outages>>
  BY DEF TickRow, TickPage, ClearTicks, Tick, bounds
<1>3. selected \subseteq Ids /\ lastData.items \subseteq Ids
  BY <1>1 DEF TableTypeOK, Data
<1>4. selected' \subseteq Ids
  BY <1>3 DEF TickRow, TickPage, ClearTicks, Tick, Toggled
<1>5. TableTypeOK'
  BY <1>1, <1>2, <1>4 DEF TableTypeOK, Last
<1>6. CountInv'
  BY <1>1, <1>2 DEF CountInv, Committed
<1>7. FitInv'
  BY <1>1, <1>2, FitStays DEF FitInv
<1>8. LastInv'
  BY <1>1, <1>2 DEF LastInv, Last, Covers
<1> QED BY <1>5, <1>6, <1>7, <1>8 DEF TableInv

--------------------------------------------------------------------------------
(* The changes.                                                              *)

(* The fields of a bulk change, and the changes after one of them moves on.  *)
LEMMA BulkFields ==
  ASSUME TableTypeOK, NEW b \in DOMAIN bulks
  PROVE  /\ bulks[b] \in Bulk /\ bulks[b].ids \subseteq Ids /\ bulks[b].status \in Statuses
         /\ bulks[b].step \in {"sent", "committed", "done", "failed"} /\ bulks[b].at \in Nat
<1>1. bulks[b] \in Bulk
  BY DEF TableTypeOK
<1> QED BY <1>1 DEF Bulk

LEMMA BulkMoves ==
  ASSUME TableTypeOK, NEW b \in DOMAIN bulks, NEW c \in Bulk, bulks' = [bulks EXCEPT ![b] = c]
  PROVE  /\ bulks' \in Seq(Bulk) /\ Len(bulks') = Len(bulks) /\ DOMAIN bulks' = DOMAIN bulks
         /\ bulks'[b] = c
         /\ \A x \in DOMAIN bulks : x # b => bulks'[x] = bulks[x]
BY DEF TableTypeOK

(* A change that is sent has not been committed.                             *)
LEMMA BulkSends ==
  ASSUME TableInv, NEW st \in Chips, BulkSet(st)
  PROVE  TableInv'
<1> DEFINE c == [ids |-> selected, status |-> st, step |-> "sent", at |-> 0]
<1>1. TableTypeOK /\ CountInv /\ FitInv /\ LastInv
  BY DEF TableInv
<1>2. /\ UNCHANGED <<statusOf, version, reloads, state, lastData, export, selected>>
      /\ UNCHANGED <<commits, outages>>
      /\ selected # {} /\ clicks < MaxClick /\ clicks' = clicks + 1
      /\ bulks' = Append(bulks, c)
  BY DEF BulkSet, screen
<1>3. c \in Bulk /\ c.step = "sent" /\ c.at = 0 /\ c.ids = selected
  BY <1>1 DEF Bulk, TableTypeOK
<1> HIDE DEF c
<1>4. /\ bulks \in Seq(Bulk) /\ bulks' \in Seq(Bulk) /\ Len(bulks) \in Nat
      /\ Len(bulks') = Len(bulks) + 1
      /\ DOMAIN bulks = 1..Len(bulks) /\ DOMAIN bulks' = 1..(Len(bulks) + 1)
      /\ bulks'[Len(bulks) + 1] = c
      /\ \A x \in DOMAIN bulks : bulks'[x] = bulks[x]
  BY <1>1, <1>2, <1>3 DEF TableTypeOK
<1>5. \A x \in DOMAIN bulks' : x \in DOMAIN bulks \/ x = Len(bulks) + 1
  BY <1>4
<1>6. TableTypeOK'
  BY <1>1, <1>2, <1>4 DEF TableTypeOK, Last
<1>7. CountInv'
  <2>1. Committed' = Committed
    BY <1>3, <1>4, <1>5 DEF Committed
  <2>2. version \in Nat
    BY <1>1 DEF TableTypeOK
  <2> QED BY <1>1, <1>2, <1>3, <1>4, <1>5, <2>1, <2>2 DEF CountInv
<1>8. FitInv'
  BY <1>1, <1>2, FitStays DEF FitInv
<1>9. LastInv'
  BY <1>1, <1>2, <1>3, <1>4, <1>5 DEF LastInv, Last, Covers
<1> QED BY <1>6, <1>7, <1>8, <1>9 DEF TableInv

(* The committed changes are finitely many.                                  *)
LEMMA CommittedFinite ==
  ASSUME TableTypeOK
  PROVE  /\ IsFiniteSet(Committed) /\ Cardinality(Committed) \in Nat
         /\ Cardinality(Committed) <= Len(bulks) /\ Len(bulks) \in Nat
<1>1. DOMAIN bulks = 1..Len(bulks) /\ Len(bulks) \in Nat
  BY DEF TableTypeOK
<1>2. IsFiniteSet(1..Len(bulks)) /\ Cardinality(1..Len(bulks)) = Len(bulks)
  <2> DEFINE n == Len(bulks)
  <2>1. n \in Nat
    BY <1>1
  <2> HIDE DEF n
  <2>2. 1 \in Int /\ n \in Int /\ (1 > n <=> n = 0) /\ n - 1 + 1 = n
    BY <2>1
  <2>3. IsFiniteSet(1..n) /\ Cardinality(1..n) = n
    BY <2>2, FS_Interval
  <2> QED BY <2>3 DEF n
<1>3. Committed \subseteq 1..Len(bulks)
  BY <1>1 DEF Committed
<1>4. IsFiniteSet(Committed) /\ Cardinality(Committed) <= Cardinality(1..Len(bulks))
  BY <1>2, <1>3, FS_Subset
<1>5. Cardinality(Committed) \in Nat
  BY <1>4, FS_CardinalityType
<1> QED BY <1>1, <1>2, <1>4, <1>5

(* After a commit, no count is that of the table.                            *)
LEMMA FitAfterCommit ==
  ASSUME TableInv, UNCHANGED <<reloads, lastData>>, version' = version + 1
  PROVE  FitInv'
<1>1. TableTypeOK /\ FitInv /\ version \in Nat
  BY DEF TableInv, TableTypeOK
<1>2. Fits(lastData)'
  BY <1>1 DEF FitInv, Fits, Rest
<1>3. ASSUME NEW j \in DOMAIN reloads' PROVE Fitting(reloads[j])'
  <2>1. Fitting(reloads[j]) /\ reloads[j].data.counted \in Nat /\ reloads'[j] = reloads[j]
    BY <1>1, SearchFields DEF FitInv, Data
  <2>2. Fits(reloads[j].data)' <=> Fits(reloads[j].data)
    BY <2>1 DEF Fits, Rest
  <2> QED BY <1>1, <2>1, <2>2 DEF Fitting
<1> QED BY <1>2, <1>3 DEF FitInv

LEMMA BulkIsCommitted ==
  ASSUME TableInv, NEW b \in DOMAIN bulks, BulkCommits(b)
  PROVE  TableInv'
<1> DEFINE c == [bulks[b] EXCEPT !.step = "committed", !.at = version + 1]
<1>1. TableTypeOK /\ CountInv /\ LastInv /\ version \in Nat
  BY DEF TableInv, TableTypeOK
<1>2. /\ UNCHANGED <<reloads, state, lastData, export, selected, clicks, commits, outages>>
      /\ bulks[b].step = "sent" /\ version' = version + 1
      /\ statusOf' = [id \in Ids |-> IF id \in bulks[b].ids THEN bulks[b].status ELSE statusOf[id]]
      /\ bulks' = [bulks EXCEPT ![b] = c]
  BY DEF BulkCommits, Commits, screen, bounds
<1>3. bulks[b] \in Bulk /\ bulks[b].status \in Statuses
  BY <1>1, BulkFields
<1>4. c \in Bulk /\ c.step = "committed" /\ c.at = version + 1 /\ c.ids = bulks[b].ids
  <2>1. version + 1 \in Nat
    BY <1>1
  <2> QED BY <1>3, <2>1 DEF Bulk
<1> HIDE DEF c
<1>5. bulks[b].at = 0
  <2>1. bulks[b].step = "sent" => bulks[b].at = 0
    BY <1>1 DEF CountInv
  <2> QED BY <1>2, <2>1
<1>6. /\ bulks' \in Seq(Bulk) /\ Len(bulks') = Len(bulks) /\ DOMAIN bulks' = DOMAIN bulks
      /\ bulks'[b] = c
      /\ \A x \in DOMAIN bulks : x # b => bulks'[x] = bulks[x]
  BY <1>1, <1>2, <1>4, BulkMoves
<1>7. TableTypeOK'
  <2>1. statusOf' \in [Ids -> Statuses]
    BY <1>1, <1>2, <1>3 DEF TableTypeOK
  <2> QED BY <1>1, <1>2, <1>6, <2>1 DEF TableTypeOK, Last
<1>8. CountInv'
  <2>1. b \notin Committed /\ Committed' = Committed \cup {b}
    <3>1. bulks'[b].at > 0
      BY <1>1, <1>4, <1>6
    <3> QED BY <1>5, <1>6, <3>1 DEF Committed
  <2>2. IsFiniteSet(Committed) /\ Cardinality(Committed) \in Nat
    BY <1>1, CommittedFinite
  <2>3. Cardinality(Committed') = Cardinality(Committed) + 1
    BY <2>1, <2>2, FS_AddElement
  <2>4. ASSUME NEW x \in DOMAIN bulks'
        PROVE  /\ bulks'[x].ids # {} /\ bulks'[x].at <= version'
               /\ bulks'[x].step = "sent" => bulks'[x].at = 0
    <3>1. CASE x = b
      <4>1. bulks[b].ids # {} /\ bulks'[x] = c
        BY <1>1, <1>6, <3>1 DEF CountInv
      <4> QED BY <1>1, <1>2, <1>4, <4>1
    <3>2. CASE x # b
      <4>1. bulks[x].at \in Nat
        BY <1>1, <1>6, <2>4, BulkFields
      <4> QED BY <1>1, <1>2, <1>6, <2>4, <3>2, <4>1 DEF CountInv
    <3> QED BY <3>1, <3>2
  <2>5. version' = commits' + Cardinality(Committed')
    <3>1. version = commits + Cardinality(Committed) /\ commits \in Nat
      BY <1>1 DEF CountInv
    <3> QED BY <1>2, <2>2, <2>3, <3>1
  <2>6. /\ clicks' \in 0..MaxClick /\ commits' \in 0..MaxCommit /\ outages' \in Nat
        /\ Len(bulks') <= clicks'
    BY <1>1, <1>2, <1>6 DEF CountInv
  <2> QED BY <2>4, <2>5, <2>6 DEF CountInv
<1>9. FitInv'
  BY <1>2, FitAfterCommit
<1>10. LastInv'
  BY <1>1, <1>2, <1>4, <1>6 DEF LastInv, Last, Covers
<1> QED BY <1>7, <1>8, <1>9, <1>10 DEF TableInv

(* A search sent with the answer of a change counts it.                      *)
LEMMA BulkIsAnswered ==
  ASSUME TableInv, NEW b \in DOMAIN bulks, BulkAnswered(b)
  PROVE  TableInv'
<1> DEFINE c == [bulks[b] EXCEPT !.step = "done"]
<1>1. TableTypeOK /\ CountInv /\ FitInv /\ LastInv /\ state \in Query
  BY DEF TableInv, TableTypeOK
<1>2. /\ UNCHANGED <<statusOf, version, state, lastData, export, clicks, commits, outages>>
      /\ bulks[b].step = "committed" /\ selected' = {} /\ Reload(state)
      /\ bulks' = [bulks EXCEPT ![b].step = "done"]
  BY DEF BulkAnswered, bounds
<1>3. bulks[b] \in Bulk
  BY <1>1, BulkFields
<1>4. c \in Bulk /\ c.step = "done" /\ c.at = bulks[b].at /\ c.ids = bulks[b].ids
  BY <1>1, <1>3 DEF Bulk
<1>5. bulks' = [bulks EXCEPT ![b] = c]
  BY <1>2
<1> HIDE DEF c
<1>6. /\ bulks' \in Seq(Bulk) /\ Len(bulks') = Len(bulks) /\ DOMAIN bulks' = DOMAIN bulks
      /\ bulks'[b] = c
      /\ \A x \in DOMAIN bulks : x # b => bulks'[x] = bulks[x]
  BY <1>1, <1>4, <1>5, BulkMoves
<1>7. /\ reloads' \in Seq(Search) /\ Last' = Last + 1 /\ DOMAIN reloads' = 1..(Last + 1)
      /\ DOMAIN reloads = 1..Last /\ Last \in Nat
      /\ reloads'[Last + 1] = Sent(state)
      /\ \A j \in DOMAIN reloads : reloads'[j] = reloads[j]
  BY <1>1, <1>2, Sends DEF TableTypeOK
<1>8. Sent(state).step = "sent" /\ Sent(state).data.query = state
  BY <1>1, SentSearch
<1>9. TableTypeOK'
  <2>1. \A j \in DOMAIN reloads' : reloads'[j].step = "answered" => reloads'[j].data.by = j
    BY <1>1, <1>7, <1>8 DEF TableTypeOK
  <2>2. lastData' \in Data /\ lastData'.by <= Last'
    <3>1. lastData' = lastData /\ lastData \in Data /\ lastData.by <= Last /\ lastData.by \in Nat
      BY <1>1, <1>2 DEF TableTypeOK, Data
    <3> QED BY <1>7, <3>1
  <2> QED BY <1>1, <1>2, <1>6, <1>7, <2>1, <2>2 DEF TableTypeOK
<1>10. CountInv'
  <2>1. Committed' = Committed
    BY <1>4, <1>6 DEF Committed
  <2>2. \A x \in DOMAIN bulks' : /\ bulks'[x].ids # {} /\ bulks'[x].at <= version'
                                /\ bulks'[x].step = "sent" => bulks'[x].at = 0
    BY <1>1, <1>2, <1>4, <1>6 DEF CountInv
  <2> QED BY <1>1, <1>2, <1>6, <2>1, <2>2 DEF CountInv
<1>11. FitInv'
  <2>1. Fitting(Sent(state))
    BY <1>8 DEF Fitting
  <2>2. \A j \in DOMAIN reloads' : j \in DOMAIN reloads \/ j = Last + 1
    BY <1>7
  <2> QED BY <1>1, <1>2, <1>7, <2>1, <2>2, FitStays DEF FitInv
<1>12. LastInv'
  <2>1. lastData'.by # Last'
    BY <1>1, <1>2, <1>7 DEF TableTypeOK, Data
  <2> QED BY <1>2, <1>7, <1>8, <2>1 DEF LastInv
<1> QED BY <1>9, <1>10, <1>11, <1>12 DEF TableInv

LEMMA BulkIsLost ==
  ASSUME TableInv, NEW b \in DOMAIN bulks, BulkFails(b)
  PROVE  TableInv'
<1> DEFINE c == [bulks[b] EXCEPT !.step = "failed"]
<1>1. TableTypeOK /\ CountInv /\ FitInv /\ LastInv
  BY DEF TableInv
<1>2. /\ UNCHANGED <<statusOf, version, reloads, state, lastData, export, selected>>
      /\ UNCHANGED <<clicks, commits>> /\ outages' = outages + 1
      /\ bulks' = [bulks EXCEPT ![b].step = "failed"]
  BY DEF BulkFails, screen
<1>3. bulks[b] \in Bulk
  BY <1>1, BulkFields
<1>4. c \in Bulk /\ c.step = "failed" /\ c.at = bulks[b].at /\ c.ids = bulks[b].ids
  BY <1>1, <1>3 DEF Bulk
<1>5. bulks' = [bulks EXCEPT ![b] = c]
  BY <1>2
<1> HIDE DEF c
<1>6. /\ bulks' \in Seq(Bulk) /\ Len(bulks') = Len(bulks) /\ DOMAIN bulks' = DOMAIN bulks
      /\ bulks'[b] = c
      /\ \A x \in DOMAIN bulks : x # b => bulks'[x] = bulks[x]
  BY <1>1, <1>4, <1>5, BulkMoves
<1>7. TableTypeOK'
  BY <1>1, <1>2, <1>6 DEF TableTypeOK, Last
<1>8. CountInv'
  <2>1. Committed' = Committed
    BY <1>4, <1>6 DEF Committed
  <2>2. \A x \in DOMAIN bulks' : /\ bulks'[x].ids # {} /\ bulks'[x].at <= version'
                                /\ bulks'[x].step = "sent" => bulks'[x].at = 0
    BY <1>1, <1>2, <1>4, <1>6 DEF CountInv
  <2> QED BY <1>1, <1>2, <1>6, <2>1, <2>2 DEF CountInv
<1>9. FitInv'
  BY <1>1, <1>2, FitStays DEF FitInv
<1>10. LastInv'
  BY <1>1, <1>2, <1>4, <1>6 DEF LastInv, Last, Covers
<1> QED BY <1>7, <1>8, <1>9, <1>10 DEF TableInv

LEMMA OthersCommit ==
  ASSUME TableInv, NEW id \in Ids, NEW st \in Statuses, Elsewhere(id, st)
  PROVE  TableInv'
<1>1. TableTypeOK /\ CountInv /\ LastInv /\ version \in Nat
  BY DEF TableInv, TableTypeOK
<1>2. /\ UNCHANGED <<reloads, bulks, state, lastData, export, selected, clicks, outages>>
      /\ commits < MaxCommit /\ commits' = commits + 1 /\ version' = version + 1
      /\ statusOf' = [x \in Ids |-> IF x \in {id} THEN st ELSE statusOf[x]]
  BY DEF Elsewhere, Commits, screen
<1>3. TableTypeOK'
  <2>1. statusOf' \in [Ids -> Statuses]
    BY <1>1, <1>2 DEF TableTypeOK
  <2> QED BY <1>1, <1>2, <2>1 DEF TableTypeOK, Last
<1>4. CountInv'
  <2>1. Committed' = Committed /\ Cardinality(Committed) \in Nat
    BY <1>1, <1>2, CommittedFinite DEF Committed
  <2>2. \A x \in DOMAIN bulks : bulks[x].at \in Nat
    BY <1>1, BulkFields
  <2> QED BY <1>1, <1>2, <2>1, <2>2 DEF CountInv
<1>5. FitInv'
  BY <1>2, FitAfterCommit
<1>6. LastInv'
  BY <1>1, <1>2 DEF LastInv, Last, Covers
<1> QED BY <1>3, <1>4, <1>5, <1>6 DEF TableInv

--------------------------------------------------------------------------------
(* The invariants, and what follows from them.                               *)

LEMMA TableStarts ==
  ASSUME TableInit
  PROVE  TableInv
<1>1. /\ NoData \in Data /\ FirstState \in Query /\ NoFilters \in Filters
      /\ NoData.query = FirstState /\ NoData.items = {} /\ NoData.total = 0 /\ NoData.by = 0
  BY FirstQuery DEF NoData
<1>2. Sent(FirstState) \in Search /\ Sent(FirstState).step = "sent"
      /\ Sent(FirstState).data.query = FirstState
  BY <1>1, SentSearch
<1>3. /\ statusOf = [id \in Ids |-> "open"] /\ version = 0 /\ state = FirstState
      /\ reloads = <<Sent(FirstState)>> /\ lastData = NoData /\ export = NoFilters
      /\ selected = {} /\ bulks = <<>> /\ clicks = 0 /\ commits = 0 /\ outages = 0
  BY DEF TableInit
<1>4. reloads \in Seq(Search) /\ Last = 1 /\ DOMAIN reloads = {1} /\ reloads[1] = Sent(FirstState)
  BY <1>2, <1>3 DEF Last
<1>5. bulks \in Seq(Bulk) /\ Len(bulks) = 0 /\ DOMAIN bulks = {}
  BY <1>3
<1>6. TableTypeOK
  BY <1>1, <1>2, <1>3, <1>4, <1>5 DEF TableTypeOK
<1>7. CountInv
  <2>1. Committed = {}
    BY <1>5 DEF Committed
  <2> QED BY <1>3, <1>5, <2>1, FS_EmptySet DEF CountInv
<1>8. FitInv
  <2>1. Cardinality({}) = 0
    BY FS_EmptySet
  <2>2. Fits(lastData)
    <3>1. FirstState.page = 1
      BY DEF FirstState
    <3>2. NoData.query.page = 1 /\ (1 - 1) * PageSize = 0
      BY <1>1, <3>1
    <3>3. Rest(NoData) = 0
      BY <1>1, <3>2 DEF Rest
    <3>4. Cardinality(NoData.items) = 0
      BY <1>1, <2>1
    <3>5. Fits(NoData)
      BY <3>3, <3>4 DEF Fits
    <3> QED BY <1>3, <3>5
  <2> QED BY <1>2, <1>4, <2>2 DEF FitInv, Fitting
<1>9. LastInv
  BY <1>1, <1>2, <1>3, <1>4 DEF LastInv
<1> QED BY <1>6, <1>7, <1>8, <1>9 DEF TableInv

LEMMA TableStutters ==
  ASSUME TableInv, UNCHANGED tableVars
  PROVE  TableInv'
<1>1. TableTypeOK /\ CountInv /\ FitInv /\ LastInv
  BY DEF TableInv
<1>2. /\ UNCHANGED <<statusOf, version, reloads, bulks, state, lastData, export, selected>>
      /\ UNCHANGED <<clicks, commits, outages>>
  BY DEF tableVars, screen, bounds
<1>3. TableTypeOK'
  BY <1>1, <1>2 DEF TableTypeOK, Last
<1>4. CountInv'
  BY <1>1, <1>2 DEF CountInv, Committed
<1>5. FitInv'
  BY <1>1, <1>2, FitStays DEF FitInv
<1>6. LastInv'
  BY <1>1, <1>2 DEF LastInv, Last, Covers
<1> QED BY <1>3, <1>4, <1>5, <1>6 DEF TableInv

LEMMA TableStep ==
  ASSUME TableInv, TableNext
  PROVE  TableInv'
<1>1. CASE Server
  BY <1>1, Counts, Cuts, BulkIsCommitted, OthersCommit DEF Server
<1>2. CASE Answers
  BY <1>2, Shows, Fails, BulkIsAnswered, BulkIsLost DEF Answers
<1>3. CASE Analyst
  BY <1>3, Asks, Ticks, BulkSends DEF Analyst
<1> QED BY <1>1, <1>2, <1>3 DEF TableNext

(* Both invariants hold in every reachable state.                            *)
THEOREM ExplorerInvariant == Spec => [](TableInv /\ ExplainInv)
<1>1. Init => TableInv /\ ExplainInv
  <2>1. ExplainInit => ExplainInv
    BY ExplanationAssumption DEF ExplainInit, ExplainInv, ExplainTypeOK, OneExplanation, ExplainedOnce
  <2> QED BY <2>1, TableStarts DEF Init
<1>2. TableInv /\ ExplainInv /\ [Next]_vars => (TableInv /\ ExplainInv)'
  <2> SUFFICES ASSUME TableInv, ExplainInv, [Next]_vars PROVE TableInv' /\ ExplainInv'
    OBVIOUS
  <2>1. (TableNext \/ UNCHANGED tableVars) /\ (ExplainNext \/ UNCHANGED explainVars)
    BY DEF Next, vars
  <2> QED BY <2>1, TableStep, TableStutters, ExplainStep
<1> QED BY <1>1, <1>2, PTL DEF Spec

(* The boxes and the changes that move on keep what is known of the ticks.   *)
LEMMA TickStep ==
  ASSUME TableTypeOK, TickInv, TableNext
  PROVE  TickInv'
<1>1. Len(bulks) \in Nat /\ DOMAIN bulks = 1..Len(bulks)
      /\ \A b \in DOMAIN bulks : bulks[b] \in Bulk
  BY DEF TableTypeOK
<1>2. ASSUME NEW S \in SUBSET Ids, Tick(S) PROVE TickInv'
  <2>1. /\ bulks' = bulks /\ selected' = S
        /\ tickedAfter' = [id \in Ids |-> IF id \in S \ selected THEN Len(bulks) ELSE tickedAfter[id]]
    BY <1>2 DEF Tick
  <2>2. tickedAfter' \in [Ids -> 0..Len(bulks)]
    BY <1>1, <2>1 DEF TickInv
  <2>3. ASSUME NEW b \in DOMAIN bulks, bulks[b].step \in {"sent", "committed"},
               NEW id \in S \ bulks[b].ids
        PROVE  tickedAfter'[id] >= b
    <3>1. CASE id \in selected
      BY <2>1, <2>3, <3>1 DEF TickInv
    <3>2. CASE id \notin selected
      BY <1>1, <2>1, <2>3, <3>2
    <3> QED BY <3>1, <3>2
  <2> QED BY <2>1, <2>2, <2>3 DEF TickInv
<1>3. CASE TickRow \/ TickPage \/ ClearTicks
  <2>1. selected \in SUBSET Ids /\ lastData.items \in SUBSET Ids
    BY DEF TableTypeOK, Data
  <2> QED BY <1>2, <1>3, <2>1 DEF TickRow, TickPage, ClearTicks, Toggled
<1>4. ASSUME NEW st, BulkSet(st) PROVE TickInv'
  <2> DEFINE new == [ids |-> selected, status |-> st, step |-> "sent", at |-> 0]
  <2>1. bulks' = Append(bulks, new) /\ selected' = selected /\ tickedAfter' = tickedAfter
    BY <1>4 DEF BulkSet, screen
  <2>2. new.ids = selected
    OBVIOUS
  <2> HIDE DEF new
  <2>3. /\ Len(bulks') = Len(bulks) + 1 /\ DOMAIN bulks' = 1..(Len(bulks) + 1)
        /\ bulks'[Len(bulks) + 1] = new /\ \A b \in DOMAIN bulks : bulks'[b] = bulks[b]
    BY <2>1 DEF TableTypeOK
  <2>4. tickedAfter' \in [Ids -> 0..Len(bulks')]
    BY <1>1, <2>1, <2>3 DEF TickInv
  <2>5. ASSUME NEW b \in DOMAIN bulks', bulks'[b].step \in {"sent", "committed"},
               NEW id \in selected' \ bulks'[b].ids
        PROVE  tickedAfter'[id] >= b
    <3>1. b # Len(bulks) + 1
      BY <2>1, <2>2, <2>3, <2>5
    <3>2. b \in DOMAIN bulks /\ bulks'[b] = bulks[b]
      BY <1>1, <2>3, <2>5, <3>1
    <3> QED BY <2>1, <2>5, <3>2 DEF TickInv
  <2> QED BY <2>4, <2>5 DEF TickInv
<1>5. ASSUME NEW b \in DOMAIN bulks, BulkCommits(b) \/ BulkAnswered(b) \/ BulkFails(b)
      PROVE  TickInv'
  <2>1. /\ selected' \in SUBSET selected /\ tickedAfter' = tickedAfter
        /\ bulks[b].step \in {"sent", "committed"} /\ DOMAIN bulks' = DOMAIN bulks
        /\ \A c \in DOMAIN bulks : c # b => bulks'[c] = bulks[c]
    BY <1>5 DEF BulkCommits, BulkAnswered, BulkFails, screen
  <2>2. bulks'[b].ids = bulks[b].ids
    <3>1. bulks[b] \in Bulk
      BY <1>1
    <3> QED BY <1>5, <3>1 DEF BulkCommits, BulkAnswered, BulkFails, Bulk
  <2>3. Len(bulks') = Len(bulks)
    BY <1>5 DEF BulkCommits, BulkAnswered, BulkFails, TableTypeOK
  <2> QED BY <2>1, <2>2, <2>3 DEF TickInv
<1>6. ASSUME UNCHANGED <<bulks, selected, tickedAfter>> PROVE TickInv'
  BY <1>6 DEF TickInv
<1>7. CASE Server
  BY <1>5, <1>6, <1>7 DEF Server, Count, CutPage, Elsewhere, screen
<1>8. CASE Answers
  BY <1>5, <1>6, <1>8 DEF Answers, Show, SearchFails, screen
<1>9. CASE Analyst
  BY <1>3, <1>4, <1>6, <1>9 DEF Analyst, ToggleChip, ChooseScanner, ResetFilters, Sort, Turn, Click
<1> QED BY <1>7, <1>8, <1>9 DEF TableNext

LEMMA TicksInvariant == Spec => []TickInv
<1>1. Init => TickInv
  BY DEF Init, TableInit, TickInv
<1>2. TableInv /\ TickInv /\ [Next]_vars => TickInv'
  <2>1. ASSUME TickInv, UNCHANGED tableVars PROVE TickInv'
    BY <2>1 DEF tableVars, screen, TickInv
  <2> QED BY <2>1, TickStep DEF Next, vars, TableInv
<1> QED BY <1>1, <1>2, ExplorerInvariant, PTL DEF Spec

(* The model explains a finding once, for any number of analysts, unless two *)
(* requests have asked it at the same time (api_finding_explain).            *)
THEOREM FindingExplainedOnce == Spec => []OneExplanation
<1>1. ExplainInv => OneExplanation
  BY DEF ExplainInv
<1> QED BY <1>1, ExplorerInvariant, PTL

(* The explorer's state, its searches and its bulk changes are well formed:  *)
(* the page asked for exists in the table, nobody sends an empty change      *)
(* (renderFindings).                                                         *)
THEOREM ExplorerTypes == Spec => []TypeOK
<1>1. TableInv /\ ExplainInv /\ TickInv => TypeOK
  <2> SUFFICES ASSUME TableInv, ExplainInv, TickInv PROVE TypeOK
    OBVIOUS
  <2>1. TableTypeOK /\ CountInv
    BY DEF TableInv
  <2>2. version \in 0..(MaxClick + MaxCommit)
    <3>1. /\ Cardinality(Committed) \in Nat /\ Len(bulks) \in Nat
          /\ Cardinality(Committed) <= Len(bulks)
      BY <2>1, CommittedFinite
    <3>2. /\ clicks \in 0..MaxClick /\ commits \in 0..MaxCommit /\ Len(bulks) <= clicks
          /\ version = commits + Cardinality(Committed)
      BY <2>1 DEF CountInv
    <3> QED BY <3>1, <3>2
  <2>3. /\ state.filters.status \subseteq Statuses
        /\ state.filters.scanner \in Scanners \cup {AnyScanner}
        /\ state.page \in 1..Pages(Cardinality(Ids))
    <3>1. state.filters \in Filters /\ state.page \in 1..LastPage
      BY <2>1 DEF TableTypeOK, Query
    <3> QED BY <3>1 DEF Filters, LastPage
  <2>4. \A i \in DOMAIN reloads :
          reloads[i].step \in {"sent", "counted", "answered", "shown", "failed"}
    BY <2>1, SearchFields
  <2>5. lastData.by \in 0..Len(reloads) /\ lastData.items \subseteq Ids
    <3>1. lastData.by \in Nat /\ lastData.by <= Len(reloads) /\ lastData.items \subseteq Ids
      BY <2>1 DEF TableTypeOK, Data, Last
    <3>2. Len(reloads) \in Nat
      BY <2>1 DEF TableTypeOK
    <3> QED BY <3>1, <3>2
  <2>6. \A b \in DOMAIN bulks : /\ bulks[b].ids # {} /\ bulks[b].ids \subseteq Ids
                                /\ bulks[b].step \in {"sent", "committed", "done", "failed"}
    BY <2>1, BulkFields DEF CountInv
  <2> QED BY <2>1, <2>2, <2>3, <2>4, <2>5, <2>6 DEF TypeOK, TableTypeOK, ExplainInv, TickInv
<1> QED BY <1>1, ExplorerInvariant, TicksInvariant, PTL

(* A page of the table holds what the count beside it leaves for it, for any *)
(* table, order and page size, unless somebody committed between the two     *)
(* statements of search_findings.                                            *)
THEOREM PagesFitCounts == Spec => []RowsFitCount
<1>1. TableInv => RowsFitCount
  BY DEF TableInv, FitInv, Fits, Rest, RowsFitCount
<1> QED BY <1>1, ExplorerInvariant, PTL

(* Once every call has ended, the table and the export link answer what is   *)
(* on screen and show the bulk changes that were reported, unless an older   *)
(* answer overtook the last (renderFindings).                                *)
THEOREM TableAnswersFilters == Spec => []TableMatchesFilters
<1>1. TableInv => TableMatchesFilters
  <2> SUFFICES ASSUME TableInv, Settled, reloads[Last].step = "shown"
               PROVE  /\ export = state.filters
                      /\ ~Overtaken => lastData.query = state /\ Covers(lastData)
    BY DEF TableMatchesFilters, Covers, Last
  <2>1. TableTypeOK /\ LastInv
    BY DEF TableInv
  <2>2. Last \in DOMAIN reloads /\ Last \in Nat
    BY <2>1 DEF TableTypeOK, Last
  <2>3. lastData.by \in Nat /\ lastData.by <= Last
    BY <2>1 DEF TableTypeOK, Data
  <2>4. ~Overtaken => lastData.by = Last
    BY <2>2, <2>3 DEF Overtaken
  <2> QED BY <2>1, <2>4 DEF LastInv
<1> QED BY <1>1, ExplorerInvariant, PTL

(* The rows ticked survive filters, pages, reloads and failed calls, for any *)
(* table and number of bulk changes: an answer unticks only rows its change  *)
(* was for, or that were ticked after it was sent (renderFindings, #f-bulk). *)
THEOREM TicksAreKept == Spec => TicksSurvive
<1> DEFINE Kept == \A id \in selected \ selected' :
                     \/ TickRow \/ TickPage \/ ClearTicks
                     \/ \E b \in DOMAIN bulks :
                          BulkAnswered(b) /\ (id \in bulks[b].ids \/ tickedAfter[id] >= b)
<1>1. TickInv /\ [Next]_vars => [Kept]_vars
  <2> SUFFICES ASSUME TickInv, [Next]_vars, NEW id \in selected \ selected'
               PROVE  \/ TickRow \/ TickPage \/ ClearTicks
                      \/ \E b \in DOMAIN bulks :
                           BulkAnswered(b) /\ (id \in bulks[b].ids \/ tickedAfter[id] >= b)
    OBVIOUS
  <2>1. TableNext /\ selected' # selected
    BY DEF Next, vars, tableVars, screen
  <2>2. ASSUME NEW b \in DOMAIN bulks, BulkAnswered(b)
        PROVE  id \in bulks[b].ids \/ tickedAfter[id] >= b
    <3>1. bulks[b].step = "committed"
      BY <2>2 DEF BulkAnswered
    <3> QED BY <3>1 DEF TickInv
  <2>3. ~Server
    BY <2>1 DEF Server, Count, CutPage, BulkCommits, Elsewhere, screen
  <2>4. ASSUME NEW i \in DOMAIN reloads PROVE ~Show(i) /\ ~SearchFails(i)
    BY <2>1 DEF Show, SearchFails, screen
  <2>5. ASSUME NEW b \in DOMAIN bulks PROVE ~BulkFails(b)
    BY <2>1 DEF BulkFails, screen
  <2>6. Analyst => TickRow \/ TickPage \/ ClearTicks
    BY <2>1 DEF Analyst, ToggleChip, ChooseScanner, ResetFilters, Sort, Turn, Click, BulkSet, screen
  <2> QED BY <2>1, <2>2, <2>3, <2>4, <2>5, <2>6 DEF TableNext, Answers
<1> QED BY <1>1, TicksInvariant, PTL DEF Spec, TicksSurvive
================================================================================
