------------------------------ MODULE FindingsProofs ------------------------------
(***************************************************************************)
(* Proofs about the table of findings, for any reports, feeds, days and    *)
(* bounds.                                                                 *)
(***************************************************************************)
EXTENDS Pages, FiniteSetTheorems, WellFoundedInduction, TLAPS

FindingColumns ==
  {"asset", "scanner", "severity", "cve", "component", "rule", "file", "line", "topic", "epss",
   "kev", "status", "firstSeen", "lastSeen"}

(* FIRST publishes a probability of a CVE each day, or none.                 *)
HasFeed(cve) == cve # NoCve => \A d \in Instants : Published[d].epss[cve] \in {NoEpss} \cup 0..100

(* What the scanner of a row says of it, and the feeds.                      *)
IsSourced(f) ==
  /\ f.scanner \in {"trivy", "semgrep", "gitleaks", "nuclei"}
  /\ f.scanner \in {"semgrep", "gitleaks"} => f.cve = NoCve
  /\ f.scanner = "semgrep" => f.rule # ""
  /\ f.epss # NoEpss \/ f.kev => f.cve # NoCve

(* What a parsed item says by its scanner.                                   *)
Fits(scanner, p) ==
  /\ scanner \in {"trivy", "semgrep", "gitleaks", "nuclei"}
  /\ scanner \in {"semgrep", "gitleaks"} => p.cve = NoCve
  /\ scanner = "semgrep" => p.rule # ""

(* A row on a day.                                                           *)
IsRow(f, day) ==
  /\ DOMAIN f = FindingColumns
  /\ f.asset \in Assets /\ f.severity \in Severity /\ f.status \in FindingStatus
  /\ f.epss \in {NoEpss} \cup 0..100 /\ f.kev \in BOOLEAN
  /\ f.firstSeen \in Nat /\ f.lastSeen \in Nat
  /\ f.firstSeen <= f.lastSeen /\ f.lastSeen <= day
  /\ HasFeed(f.cve) /\ IsSourced(f)

TableInv ==
  /\ clock \in Instants
  /\ Len(findings) \in Nat /\ Ids = 1..Len(findings)
  /\ \A id \in Ids : IsRow(findings[id], clock)
  /\ \A n \in journal : n.finding \in Ids /\ n.created_at \in Nat /\ n.created_at <= clock
  /\ criticality \in [Assets -> Criticality]
  /\ scans \in 0..MaxScan /\ requests \in 0..MaxTriage
  /\ fixedAs \in [Ids -> {"never", "in_time", "overdue", "resolved"}]

(* What a later state keeps of a row: its identity, its first day.           *)
Kept(f, g) ==
  /\ g.asset = f.asset /\ g.scanner = f.scanner /\ g.severity = f.severity /\ g.cve = f.cve
  /\ g.component = f.component /\ g.rule = f.rule /\ g.file = f.file /\ g.line = f.line
  /\ g.topic = f.topic /\ g.firstSeen = f.firstSeen

(* What a scan makes of a row: only the feeds change its risk, and a known   *)
(* exploit stays known.                                                      *)
Rescanned(f, g) ==
  /\ Kept(f, g)
  /\ g.epss = f.epss \/ (f.cve # NoCve /\ g.epss = Published[clock].epss[f.cve] /\ g.epss # NoEpss)
  /\ f.kev => g.kev

--------------------------------------------------------------------------------
(* Sequences, days, severities.                                              *)

LEMMA LeastExists ==
  ASSUME NEW S \in SUBSET Nat, S # {}
  PROVE  \E i \in S : \A j \in S : i <= j
<1>1. PICK i \in S : \A j \in S : <<j, i>> \notin OpToRel(<, Nat)
  BY NatLessThanWellFounded, WFMin, Zenon
<1>2. \A j \in S : ~(j < i)
  BY <1>1 DEF OpToRel
<1> QED BY <1>2

LEMMA LengthIs ==
  ASSUME NEW m \in Nat, NEW f, f = [i \in 1..m |-> f[i]]
  PROVE  Len(f) = m /\ DOMAIN f = 1..m
<1>1. f \in [1..m -> {f[i] : i \in 1..m}]
  OBVIOUS
<1>2. f \in Seq({f[i] : i \in 1..m})
  BY <1>1
<1> QED BY <1>1, <1>2

LEMMA InstantsAreNumbers == Instants \subseteq Nat /\ 0 \in Instants
BY FindingsAssumption

LEMMA ParsedSeverity ==
  ASSUME NEW r \in Reports, NEW i \in DOMAIN r.items
  PROVE  PARSERS(r.scanner, r.items[i]).severity \in Severity
<1> DEFINE v == r.items[i]
<1>0. {"critical", "high", "medium", "low", "info"} \subseteq Severity
  BY DEF Severity, SEVERITIES
<1>1. r.scanner \in {"trivy", "semgrep", "gitleaks", "nuclei"}
  BY FindingsAssumption
<1>2. parse_trivy(v).severity \in Severity
  <2>1. parse_trivy(v).severity = Level(SEVERITY_MAP_TRIVY, v.level)
    BY DEF parse_trivy, Parsed
  <2>2. Level(SEVERITY_MAP_TRIVY, v.level) \in {"critical", "high", "medium", "low", "info"}
    BY DEF Level, SEVERITY_MAP_TRIVY
  <2> QED BY <1>0, <2>1, <2>2
<1>3. parse_semgrep(v).severity \in Severity
  <2>1. parse_semgrep(v).severity = Level(SEVERITY_MAP_SEMGREP, v.level)
    BY DEF parse_semgrep, Parsed
  <2>2. Level(SEVERITY_MAP_SEMGREP, v.level) \in {"critical", "high", "medium", "low", "info"}
    BY DEF Level, SEVERITY_MAP_SEMGREP
  <2> QED BY <1>0, <2>1, <2>2
<1>4. parse_gitleaks(v).severity \in Severity
  BY <1>0 DEF parse_gitleaks, Parsed
<1>5. parse_nuclei(v).severity \in Severity
  BY <1>0 DEF parse_nuclei, Parsed
<1> QED BY <1>1, <1>2, <1>3, <1>4, <1>5 DEF PARSERS

(* Code and secrets have no CVE, and a rule of code always has a name.       *)
LEMMA ParsedSource ==
  ASSUME NEW r \in Reports, NEW i \in DOMAIN r.items
  PROVE  Fits(r.scanner, PARSERS(r.scanner, r.items[i]))
<1> DEFINE v == r.items[i]
<1>1. parse_semgrep(v).cve = NoCve /\ parse_gitleaks(v).cve = NoCve
  BY DEF parse_semgrep, parse_gitleaks, Parsed
<1>2. parse_semgrep(v).rule # ""
  BY DEF parse_semgrep, Parsed
<1>3. /\ r.scanner = "semgrep" => PARSERS(r.scanner, v) = parse_semgrep(v)
      /\ r.scanner = "gitleaks" => PARSERS(r.scanner, v) = parse_gitleaks(v)
  BY DEF PARSERS
<1>4. r.scanner \in {"trivy", "semgrep", "gitleaks", "nuclei"}
  BY FindingsAssumption
<1> QED BY <1>1, <1>2, <1>3, <1>4 DEF Fits

--------------------------------------------------------------------------------
(* The rank of a number in a finite set of them: 1 for the least.            *)

Rank(S, i) == Cardinality({j \in S : j <= i})

LEMMA RankGrows ==
  ASSUME NEW S \in SUBSET Int, IsFiniteSet(S), NEW i \in S, NEW k \in S, i < k
  PROVE  Rank(S, i) < Rank(S, k)
<1> DEFINE A == {j \in S : j <= i}
           B == {j \in S : j <= k}
<1>1. A \in SUBSET B /\ B \in SUBSET S /\ k \in B /\ k \notin A
  <2>1. i \in Int /\ k \in Int /\ \A j \in S : j \in Int
    OBVIOUS
  <2>2. \A j \in S : j <= i => j <= k
    BY <2>1
  <2>3. k <= k /\ ~(k <= i)
    BY <2>1
  <2> QED BY <2>2, <2>3
<1> HIDE DEF A, B
<1>2. IsFiniteSet(B) /\ Cardinality(B) \in Nat
  BY <1>1, FS_Subset, FS_CardinalityType
<1>3. Cardinality(A) <= Cardinality(B) /\ Cardinality(A) # Cardinality(B) /\ Cardinality(A) \in Nat
  BY <1>1, <1>2, FS_Subset, FS_CardinalityType
<1>4. Cardinality(A) < Cardinality(B)
  BY <1>2, <1>3
<1> QED BY <1>4 DEF Rank, A, B

LEMMA Ranks ==
  ASSUME NEW S \in SUBSET Int, IsFiniteSet(S)
  PROVE  /\ Cardinality(S) \in Nat
         /\ \A i \in S : Rank(S, i) \in 1..Cardinality(S)
         /\ \A i, k \in S : Rank(S, i) = Rank(S, k) => i = k
         /\ \A n \in 1..Cardinality(S) : \E i \in S : Rank(S, i) = n
<1>1. Cardinality(S) \in Nat
  BY FS_CardinalityType
<1>2. ASSUME NEW i \in S PROVE Rank(S, i) \in 1..Cardinality(S)
  <2> DEFINE A == {j \in S : j <= i}
  <2>1. A \in SUBSET S /\ i \in A
    OBVIOUS
  <2> HIDE DEF A
  <2>2. IsFiniteSet(A) /\ Cardinality(A) <= Cardinality(S) /\ Cardinality(A) \in Nat
    BY <2>1, FS_Subset, FS_CardinalityType
  <2>3. Cardinality(A) # 0
    BY <2>1, <2>2, FS_EmptySet
  <2>4. Cardinality(A) \in 1..Cardinality(S)
    BY <1>1, <2>2, <2>3
  <2> QED BY <2>4 DEF Rank, A
<1>3. \A i, k \in S : i < k => Rank(S, i) < Rank(S, k)
  BY RankGrows
<1>4. \A i, k \in S : Rank(S, i) = Rank(S, k) => i = k
  <2>1. SUFFICES ASSUME NEW i \in S, NEW k \in S, Rank(S, i) = Rank(S, k) PROVE i = k
    OBVIOUS
  <2>2. Rank(S, i) \in Int
    BY <1>1, <1>2
  <2>3. i < k \/ k < i \/ i = k
    OBVIOUS
  <2> QED BY <1>3, <2>1, <2>2, <2>3
<1>5. \A n \in 1..Cardinality(S) : \E i \in S : Rank(S, i) = n
  <2> DEFINE f == [i \in S |-> Rank(S, i)]
             T == 1..Cardinality(S)
  <2>1. f \in Injection(S, T)
    BY <1>2, <1>4 DEF Injection, IsInjective
  <2>2. IsFiniteSet(T) /\ Cardinality(T) = Cardinality(S)
    BY <1>1, FS_Interval
  <2>3. f \in Surjection(S, T)
    <3> HIDE DEF f, T
    <3> QED BY <2>1, <2>2, FS_Injection
  <2> QED BY <2>3 DEF Surjection
<1> QED BY <1>1, <1>2, <1>4, <1>5

--------------------------------------------------------------------------------
(* A scan.                                                                   *)

LEMMA StatusesAre ==
  /\ {"open", "in_progress", "fixed"} \subseteq FindingStatus
  /\ OPEN_STATUSES = {"open", "in_progress"}
BY DEF FindingStatus, OPEN_STATUSES

LEMMA EnrichIs ==
  ASSUME NEW f, NEW g, NEW scores, NEW kevSet, g = Enrich(f, scores, kevSet), IsRow(f, clock),
         f.cve \in DOMAIN scores =>
           /\ f.cve # NoCve /\ scores[f.cve] = Published[clock].epss[f.cve]
           /\ scores[f.cve] \in 0..100 /\ scores[f.cve] # NoEpss
  PROVE  IsRow(g, clock) /\ Rescanned(f, g)
<1>1. DOMAIN f = FindingColumns
  BY DEF IsRow
<1>2. /\ DOMAIN g = FindingColumns /\ Kept(f, g) /\ g.status = f.status /\ g.lastSeen = f.lastSeen
      /\ g.epss = (IF f.cve \in DOMAIN scores THEN scores[f.cve] ELSE f.epss)
      /\ g.kev = (f.kev \/ (f.cve # NoCve /\ f.cve \in kevSet))
  BY <1>1 DEF Enrich, FindingColumns, Kept
<1>3. g.kev \in BOOLEAN /\ (f.kev => g.kev) /\ (g.kev => f.kev \/ f.cve # NoCve)
  <2>1. CASE f.kev \/ (f.cve # NoCve /\ f.cve \in kevSet)
    BY <1>2, <2>1
  <2>2. CASE ~(f.kev \/ (f.cve # NoCve /\ f.cve \in kevSet))
    BY <1>2, <2>2
  <2> QED BY <2>1, <2>2
<1>4. IsSourced(g)
  BY <1>2, <1>3 DEF IsRow, IsSourced, Kept
<1>5. IsRow(g, clock)
  BY <1>2, <1>3, <1>4 DEF IsRow, Kept
<1> QED BY <1>2, <1>3, <1>5 DEF Rescanned

LEMMA SeenAgainIs ==
  ASSUME NEW f, NEW g, g = SeenAgain(f), IsRow(f, clock), clock \in Nat
  PROVE  IsRow(g, clock) /\ Kept(f, g) /\ g.epss = f.epss /\ g.kev = f.kev
<1>1. DOMAIN f = FindingColumns
  BY DEF IsRow
<1>2. /\ DOMAIN g = FindingColumns /\ Kept(f, g) /\ g.epss = f.epss /\ g.kev = f.kev
      /\ g.status \in {f.status, "open"} /\ g.lastSeen = clock
  BY <1>1 DEF SeenAgain, FindingColumns, Kept
<1>3. IsSourced(g)
  BY <1>2 DEF IsRow, IsSourced, Kept
<1> QED BY <1>2, <1>3, StatusesAre DEF IsRow, Kept

LEMMA ClosedIs ==
  ASSUME NEW f, NEW g, NEW st \in FindingStatus, g = [f EXCEPT !.status = st], IsRow(f, clock)
  PROVE  IsRow(g, clock) /\ Rescanned(f, g) /\ g.status = st /\ g.lastSeen = f.lastSeen
         /\ g.epss = f.epss /\ g.kev = f.kev
<1>1. DOMAIN f = FindingColumns
  BY DEF IsRow
<1>2. /\ DOMAIN g = FindingColumns /\ Kept(f, g) /\ g.epss = f.epss /\ g.kev = f.kev
      /\ g.status = st /\ g.lastSeen = f.lastSeen
  BY <1>1 DEF FindingColumns, Kept
<1>3. IsSourced(g)
  BY <1>2 DEF IsRow, IsSourced, Kept
<1> QED BY <1>2, <1>3 DEF IsRow, Rescanned, Kept

LEMMA NewIs ==
  ASSUME NEW p, NEW asset \in Assets, NEW scanner, NEW g, g = NewFinding(p, asset, scanner),
         p.severity \in Severity, HasFeed(p.cve), clock \in Nat, Fits(scanner, p)
  PROVE  /\ IsRow(g, clock) /\ g.firstSeen = clock
         /\ Fingerprint(g) = make_fingerprint(asset, scanner, p)
<1>1. /\ DOMAIN g = FindingColumns /\ g.asset = asset /\ g.scanner = scanner /\ g.rule = p.rule
      /\ g.severity = p.severity /\ g.cve = p.cve /\ g.epss = NoEpss /\ g.kev = FALSE
      /\ g.status = "open" /\ g.firstSeen = clock /\ g.lastSeen = clock
  BY DEF NewFinding, FindingColumns
<1>2. Fingerprint(g) = make_fingerprint(asset, scanner, p)
  BY DEF NewFinding, Fingerprint, make_fingerprint
<1>3. g.kev \in BOOLEAN /\ g.epss \in {NoEpss} \cup 0..100 /\ g.status \in FindingStatus
  BY <1>1, StatusesAre
<1>4. g.firstSeen <= g.lastSeen /\ g.lastSeen <= clock /\ HasFeed(g.cve)
  <2>1. g.cve = p.cve /\ g.firstSeen = clock /\ g.lastSeen = clock
    BY <1>1
  <2>2. g.firstSeen <= g.lastSeen /\ g.lastSeen <= clock
    BY <2>1
  <2>3. HasFeed(g.cve)
    BY <2>1
  <2> QED BY <2>2, <2>3
<1>5. IsSourced(g)
  <2>1. ~(g.epss # NoEpss \/ g.kev)
    BY <1>1
  <2>2. Fits(scanner, p) /\ g.scanner = scanner /\ g.cve = p.cve /\ g.rule = p.rule
    BY <1>1
  <2> QED BY <2>1, <2>2 DEF IsSourced, Fits
<1> QED BY <1>1, <1>2, <1>3, <1>4, <1>5 DEF IsRow

LEMMA KeptIdentity ==
  ASSUME NEW f, NEW g, Kept(f, g)
  PROVE  Fingerprint(g) = Fingerprint(f)
BY DEF Kept, Fingerprint, make_fingerprint

LEMMA KeptTrans ==
  ASSUME NEW f, NEW g, NEW h, Kept(f, g), Kept(g, h)
  PROVE  Kept(f, h)
BY DEF Kept

(* What the feeds answered for a CVE.                                        *)
LEMMA ScoresAre ==
  ASSUME clock \in Instants, NEW cves, NEW failed, NEW c \in DOMAIN fetch_epss_scores(cves, failed),
         c # NoCve, HasFeed(c)
  PROVE  LET e == fetch_epss_scores(cves, failed)[c]
         IN  e = Published[clock].epss[c] /\ e \in 0..100 /\ e # NoEpss
BY DEF fetch_epss_scores, HasFeed

LEMMA ParsedFeed ==
  ASSUME NEW r \in Reports, NEW i \in DOMAIN r.items
  PROVE  HasFeed(PARSERS(r.scanner, r.items[i]).cve)
BY FeedsAssumption DEF HasFeed

(* The items of a report that have a row, each its own.                      *)
LEMMA RowsAre ==
  ASSUME TableInv, NEW prints, NEW m \in Nat, DOMAIN prints = 1..m
  PROVE  LET rowOf == RowOf(prints)
             item == AntiFunction(rowOf)
         IN  /\ \E n \in Nat : Ids \cup DOMAIN item = 1..(Len(findings) + n)
             /\ \A id \in DOMAIN item : item[id] \in DOMAIN prints
             /\ \A id, other \in DOMAIN item : prints[item[id]] = prints[item[other]] => id = other
             /\ \A id \in DOMAIN item \cap Ids : Fingerprint(findings[id]) = prints[item[id]]
             /\ \A id \in DOMAIN item \ Ids : \A other \in Ids :
                  prints[item[id]] # Fingerprint(findings[other])
<1> DEFINE first == FirstSeen(prints)
           fresh == {i \in first : prints[i] \notin DOMAIN Known}
           rowOf == RowOf(prints)
           item == AntiFunction(rowOf)
           N == Len(findings)
           n == Cardinality(fresh)
<1>1. N \in Nat /\ Ids = 1..N
  BY DEF TableInv
<1>2. /\ first \subseteq DOMAIN prints /\ first \in SUBSET Int /\ IsFiniteSet(first)
      /\ \A i, j \in first : prints[i] = prints[j] => i = j
  <2>1. first \in SUBSET (1..m)
    BY DEF FirstSeen
  <2>2. IsFiniteSet(1..m)
    BY FS_Interval
  <2>3. IsFiniteSet(first)
    BY <2>1, <2>2, FS_Subset
  <2>4. ASSUME NEW i \in first, NEW j \in first, j < i PROVE prints[i] # prints[j]
    <3>1. j \in 1..(i - 1)
      BY <2>1, <2>4
    <3> QED BY <3>1 DEF FirstSeen
  <2>5. \A i, j \in first : i < j \/ j < i \/ i = j
    BY <2>1
  <2> QED BY <2>1, <2>3, <2>4, <2>5
<1>3. fresh \in SUBSET Int /\ fresh \subseteq first /\ IsFiniteSet(fresh)
  <2>1. fresh \in SUBSET first
    OBVIOUS
  <2> QED BY <1>2, <2>1, FS_Subset
<1>4. /\ DOMAIN Known = {Fingerprint(findings[id]) : id \in Ids}
      /\ \A p \in DOMAIN Known : Known[p] \in Ids /\ Fingerprint(findings[Known[p]]) = p
  BY DEF Known
<1> HIDE DEF first
<1>5. /\ DOMAIN rowOf = first
      /\ \A i \in fresh : rowOf[i] = N + Rank(fresh, i)
      /\ \A i \in first \ fresh : rowOf[i] = Known[prints[i]]
  BY DEF RowOf, Rank, first
<1> HIDE DEF fresh, rowOf
<1>6. /\ n \in Nat
      /\ \A i \in fresh : Rank(fresh, i) \in 1..n
      /\ \A i, k \in fresh : Rank(fresh, i) = Rank(fresh, k) => i = k
      /\ \A k \in 1..n : \E i \in fresh : Rank(fresh, i) = k
  BY <1>3, Ranks
<1>7. \A i \in first \ fresh : rowOf[i] \in Ids /\ Fingerprint(findings[rowOf[i]]) = prints[i]
  BY <1>4, <1>5 DEF fresh
<1>8. \A i \in fresh : rowOf[i] \in (N + 1)..(N + n) /\ rowOf[i] \notin Ids
  <2> SUFFICES ASSUME NEW i \in fresh PROVE rowOf[i] \in (N + 1)..(N + n) /\ rowOf[i] \notin Ids
    OBVIOUS
  <2>1. rowOf[i] = N + Rank(fresh, i) /\ Rank(fresh, i) \in 1..n
    BY <1>5, <1>6
  <2> HIDE DEF N, n
  <2> QED BY <1>1, <1>6, <2>1
<1>9. \A i, j \in first : rowOf[i] = rowOf[j] => i = j
  <2>1. SUFFICES ASSUME NEW i \in first, NEW j \in first, rowOf[i] = rowOf[j] PROVE i = j
    OBVIOUS
  <2>2. CASE i \in fresh /\ j \in fresh
    <3>1. N + Rank(fresh, i) = N + Rank(fresh, j) /\ Rank(fresh, i) \in 1..n /\ Rank(fresh, j) \in 1..n
      BY <1>5, <1>6, <2>1, <2>2
    <3>2. Rank(fresh, i) = Rank(fresh, j)
      <4> HIDE DEF N, n
      <4> QED BY <1>1, <1>6, <3>1
    <3> QED BY <1>6, <2>2, <3>2
  <2>3. CASE i \notin fresh /\ j \notin fresh
    BY <1>2, <1>7, <2>1, <2>3
  <2>4. CASE i \in fresh <=> j \notin fresh
    BY <1>7, <1>8, <2>1, <2>4
  <2> QED BY <2>2, <2>3, <2>4
<1>10. /\ DOMAIN item = {rowOf[i] : i \in first}
       /\ \A id \in DOMAIN item : item[id] \in first /\ rowOf[item[id]] = id
  BY <1>5 DEF AntiFunction, Inverse, Range
<1> HIDE DEF item
<1>11. Ids \cup DOMAIN item = 1..(N + n)
  <2> HIDE DEF N, n
  <2>1. \A i \in first : rowOf[i] \in 1..(N + n)
    <3> SUFFICES ASSUME NEW i \in first PROVE rowOf[i] \in 1..(N + n)
      OBVIOUS
    <3>1. CASE i \in fresh
      BY <1>1, <1>6, <1>8, <3>1
    <3>2. CASE i \notin fresh
      BY <1>1, <1>6, <1>7, <3>2
    <3> QED BY <3>1, <3>2
  <2>2. ASSUME NEW id \in 1..(N + n), id \notin Ids PROVE id \in DOMAIN item
    <3>1. id - N \in 1..n
      BY <1>1, <1>6, <2>2
    <3>2. PICK i \in fresh : Rank(fresh, i) = id - N
      BY <1>6, <3>1
    <3>3. rowOf[i] = id
      BY <1>1, <1>5, <3>2
    <3> QED BY <1>3, <1>10, <3>3
  <2>3. Ids \subseteq 1..(N + n)
    BY <1>1, <1>6
  <2> QED BY <1>10, <2>1, <2>2, <2>3
<1>12. \A id \in DOMAIN item : item[id] \in DOMAIN prints
  BY <1>2, <1>10
<1>13. \A id, other \in DOMAIN item : prints[item[id]] = prints[item[other]] => id = other
  BY <1>2, <1>10
<1>14. \A id \in DOMAIN item \cap Ids : Fingerprint(findings[id]) = prints[item[id]]
  BY <1>7, <1>8, <1>10
<1>15. \A id \in DOMAIN item \ Ids : item[id] \in fresh
  BY <1>7, <1>10
<1>16. \A id \in DOMAIN item \ Ids : \A other \in Ids :
         prints[item[id]] # Fingerprint(findings[other])
  BY <1>4, <1>15 DEF fresh
<1> QED BY <1>6, <1>11, <1>12, <1>13, <1>14, <1>16 DEF item, rowOf

(* A scan keeps every row and its identity, and adds rows of today that have *)
(* an identity of their own.                                                 *)
LEMMA ScanRows ==
  ASSUME TableInv, NEW r \in Reports, Scan(r)
  PROVE  /\ Len(findings') \in Nat /\ Ids' = 1..Len(findings') /\ Ids \subseteq Ids'
         /\ \A id \in Ids' : IsRow(findings'[id], clock)
         /\ \A id \in Ids : Rescanned(findings[id], findings'[id])
         /\ \A id \in Ids' \ Ids : findings'[id].firstSeen = clock
         /\ \A id \in Ids' \ Ids : \A other \in Ids' :
              Fingerprint(findings'[id]) = Fingerprint(findings'[other]) => id = other
         /\ fixedAs' = [id \in Ids' |-> IF id \in Ids THEN fixedAs[id] ELSE "never"]
<1> DEFINE parsed  == ParsedItems(r)
           prints  == Prints(r, parsed)
           item    == AntiFunction(RowOf(prints))
           matched == Matched(r, parsed, item)
           withCve == {id \in DOMAIN item : parsed[item[id]].cve # NoCve}
           cves    == {matched[id].cve : id \in withCve} \ {NoCve}
<1>1. PICK failed, kevDown :
        findings' = CloseStale(Enriched(matched, withCve, fetch_epss_scores(cves, failed),
                                        fetch_kev_set(kevDown)),
                               Range(prints), r.asset, r.scanner)
  BY DEF Scan
<1>2. fixedAs' = [id \in DOMAIN matched |-> IF id \in Ids THEN fixedAs[id] ELSE "never"]
  BY DEF Scan
<1> DEFINE scores == fetch_epss_scores(cves, failed)
           kevSet == fetch_kev_set(kevDown)
           enriched == Enriched(matched, withCve, scores, kevSet)
<1>3. /\ r.asset \in Assets /\ clock \in Instants /\ clock \in Nat /\ Len(r.items) \in Nat
      /\ DOMAIN parsed = 1..Len(r.items) /\ DOMAIN prints = 1..Len(r.items)
      /\ \A i \in DOMAIN parsed :
           /\ parsed[i].severity \in Severity /\ HasFeed(parsed[i].cve)
           /\ Fits(r.scanner, parsed[i])
           /\ prints[i] = make_fingerprint(r.asset, r.scanner, parsed[i])
  <2>1. /\ DOMAIN r.items = 1..Len(r.items) /\ Len(r.items) \in Nat /\ r.asset \in Assets
    BY FindingsAssumption
  <2>2. clock \in Instants /\ clock \in Nat
    BY FindingsAssumption DEF TableInv
  <2>3. DOMAIN parsed = DOMAIN r.items /\ \A i \in DOMAIN r.items : parsed[i] = PARSERS(r.scanner, r.items[i])
    BY DEF ParsedItems
  <2>4. \A i \in DOMAIN parsed : /\ parsed[i].severity \in Severity /\ HasFeed(parsed[i].cve)
                                 /\ Fits(r.scanner, parsed[i])
    BY <2>3, ParsedSeverity, ParsedFeed, ParsedSource
  <2> HIDE DEF parsed
  <2> QED BY <2>1, <2>2, <2>3, <2>4 DEF Prints
<1>4. PICK n \in Nat :
        /\ Ids \cup DOMAIN item = 1..(Len(findings) + n)
        /\ \A id \in DOMAIN item : item[id] \in DOMAIN prints
        /\ \A id, other \in DOMAIN item : prints[item[id]] = prints[item[other]] => id = other
        /\ \A id \in DOMAIN item \ Ids : \A other \in Ids :
             prints[item[id]] # Fingerprint(findings[other])
        /\ \A id \in DOMAIN item \cap Ids : Fingerprint(findings[id]) = prints[item[id]]
  <2> HIDE DEF prints
  <2> QED BY <1>3, RowsAre
<1> HIDE DEF parsed, prints, item
<1>5. DOMAIN matched = 1..(Len(findings) + n) /\ Ids \subseteq DOMAIN matched
      /\ DOMAIN item \subseteq DOMAIN matched
  BY <1>4 DEF Matched
<1>6. ASSUME NEW id \in Ids
      PROVE  /\ IsRow(matched[id], clock) /\ Kept(findings[id], matched[id])
             /\ matched[id].epss = findings[id].epss /\ matched[id].kev = findings[id].kev
  <2>1. IsRow(findings[id], clock) /\ DOMAIN findings[id] = FindingColumns
    BY DEF TableInv, IsRow
  <2>2. matched[id] = SeenAgain(findings[id]) \/ matched[id] = findings[id]
    BY <1>4 DEF Matched
  <2> HIDE DEF matched
  <2>3. CASE matched[id] = SeenAgain(findings[id])
    BY <1>3, <2>1, <2>3, SeenAgainIs
  <2>4. CASE matched[id] = findings[id]
    BY <2>1, <2>4 DEF Kept
  <2> QED BY <2>2, <2>3, <2>4
<1>7. ASSUME NEW id \in DOMAIN matched, id \notin Ids
      PROVE  /\ id \in DOMAIN item /\ IsRow(matched[id], clock) /\ matched[id].firstSeen = clock
             /\ Fingerprint(matched[id]) = prints[item[id]]
  <2>1. id \in DOMAIN item /\ item[id] \in DOMAIN parsed
    BY <1>3, <1>4, <1>5, <1>7
  <2>2. matched[id] = NewFinding(parsed[item[id]], r.asset, r.scanner)
    BY <1>7, <2>1 DEF Matched
  <2> HIDE DEF matched
  <2>3. /\ parsed[item[id]].severity \in Severity /\ HasFeed(parsed[item[id]].cve)
        /\ Fits(r.scanner, parsed[item[id]])
        /\ prints[item[id]] = make_fingerprint(r.asset, r.scanner, parsed[item[id]])
    BY <1>3, <2>1
  <2>4. IsRow(matched[id], clock)
    BY <1>3, <2>2, <2>3, NewIs
  <2> QED BY <1>3, <2>1, <2>2, <2>3, <2>4, NewIs
<1>8. \A id \in DOMAIN matched : IsRow(matched[id], clock)
  BY <1>6, <1>7
<1> HIDE DEF matched, withCve
<1>9. ASSUME NEW id \in DOMAIN matched
      PROVE  IsRow(enriched[id], clock) /\ Rescanned(matched[id], enriched[id])
  <2>1. IsRow(matched[id], clock) /\ DOMAIN matched[id] = FindingColumns
    BY <1>8 DEF IsRow
  <2>2. enriched[id] = (IF id \in withCve THEN Enrich(matched[id], scores, kevSet) ELSE matched[id])
    BY DEF Enriched
  <2>3. \A c \in DOMAIN scores : c # NoCve
    BY DEF fetch_epss_scores
  <2>4. matched[id].cve \in DOMAIN scores =>
          /\ scores[matched[id].cve] = Published[clock].epss[matched[id].cve]
          /\ scores[matched[id].cve] \in 0..100 /\ scores[matched[id].cve] # NoEpss
    <3> HIDE DEF scores, matched
    <3> HAVE matched[id].cve \in DOMAIN scores
    <3>1. HasFeed(matched[id].cve) /\ matched[id].cve # NoCve /\ clock \in Instants
      BY <1>3, <2>1, <2>3 DEF IsRow
    <3> QED BY <3>1, ScoresAre DEF scores
  <2> HIDE DEF scores, kevSet, enriched
  <2>5. CASE id \in withCve
    <3>1. enriched[id] = Enrich(matched[id], scores, kevSet)
      BY <2>2, <2>5
    <3> QED BY <2>1, <2>3, <2>4, <3>1, EnrichIs
  <2>6. CASE id \notin withCve
    BY <2>1, <2>2, <2>6 DEF Rescanned, Kept
  <2> QED BY <2>5, <2>6
<1>10. DOMAIN enriched = DOMAIN matched
  BY DEF Enriched
<1> HIDE DEF enriched
<1>11. ASSUME NEW id \in DOMAIN matched
       PROVE  IsRow(findings'[id], clock) /\ Rescanned(enriched[id], findings'[id])
  <2>1. IsRow(enriched[id], clock) /\ DOMAIN enriched[id] = FindingColumns
    BY <1>9 DEF IsRow
  <2>2. findings' = CloseStale(enriched, Range(prints), r.asset, r.scanner)
    BY <1>1 DEF enriched
  <2>3. findings'[id] = enriched[id] \/ findings'[id] = [enriched[id] EXCEPT !.status = "fixed"]
    BY <1>10, <2>2 DEF CloseStale
  <2>4. CASE findings'[id] = enriched[id]
    BY <2>1, <2>4 DEF Rescanned, Kept
  <2>5. CASE findings'[id] = [enriched[id] EXCEPT !.status = "fixed"]
    BY <2>1, <2>5, ClosedIs, StatusesAre
  <2> QED BY <2>3, <2>4, <2>5
<1>12. /\ Len(findings') \in Nat /\ Ids' = 1..Len(findings') /\ Ids \subseteq Ids'
       /\ Ids' = DOMAIN matched
  <2>1. findings' = [id \in 1..(Len(findings) + n) |-> findings'[id]]
    BY <1>1, <1>5, <1>10 DEF CloseStale, enriched
  <2>2. Len(findings) + n \in Nat
    BY DEF TableInv
  <2> QED BY <1>5, <2>1, <2>2, LengthIs DEF Ids
<1>13. \A id \in Ids : Rescanned(findings[id], findings'[id])
  <2> SUFFICES ASSUME NEW id \in Ids PROVE Rescanned(findings[id], findings'[id])
    OBVIOUS
  <2>1. id \in DOMAIN matched
    BY <1>5
  <2>2. /\ Kept(findings[id], matched[id]) /\ matched[id].epss = findings[id].epss
        /\ matched[id].kev = findings[id].kev
    BY <1>6
  <2>3. Rescanned(matched[id], enriched[id]) /\ Rescanned(enriched[id], findings'[id])
    BY <1>9, <1>11, <2>1
  <2> QED BY <2>2, <2>3, KeptTrans DEF Rescanned, Kept
<1>14. ASSUME NEW id \in DOMAIN matched
       PROVE  /\ Fingerprint(findings'[id]) = Fingerprint(matched[id])
              /\ findings'[id].firstSeen = matched[id].firstSeen
  <2>1. Kept(matched[id], enriched[id]) /\ Kept(enriched[id], findings'[id])
    BY <1>9, <1>11 DEF Rescanned
  <2>2. Kept(matched[id], findings'[id])
    BY <2>1, KeptTrans
  <2> QED BY <2>2, KeptIdentity DEF Kept
<1>15. ASSUME NEW id \in Ids' \ Ids, NEW other \in Ids',
              Fingerprint(findings'[id]) = Fingerprint(findings'[other])
       PROVE  id = other
  <2>1. id \in DOMAIN item /\ Fingerprint(findings'[id]) = prints[item[id]]
    BY <1>7, <1>12, <1>14
  <2>2. CASE other \in Ids
    <3>1. Fingerprint(findings'[other]) = Fingerprint(findings[other])
      BY <1>6, <1>12, <1>14, <2>2, KeptIdentity
    <3> QED BY <1>4, <1>15, <2>1, <2>2, <3>1
  <2>3. CASE other \notin Ids
    <3>1. other \in DOMAIN item /\ Fingerprint(findings'[other]) = prints[item[other]]
      BY <1>7, <1>12, <1>14, <2>3
    <3> QED BY <1>4, <1>15, <2>1, <3>1
  <2> QED BY <2>2, <2>3
<1>16. \A id \in Ids' \ Ids : findings'[id].firstSeen = clock
  BY <1>7, <1>12, <1>14
<1> QED BY <1>2, <1>11, <1>12, <1>13, <1>15, <1>16

--------------------------------------------------------------------------------
(* The decisions of the analysts, the days.                                  *)

LEMMA TriageRows ==
  ASSUME TableInv, NEW ids \in SUBSET Ids, NEW new \in Decisions, Triage(ids, new)
  PROVE  /\ Len(findings') = Len(findings) /\ Ids' = Ids
         /\ \A id \in Ids : /\ IsRow(findings'[id], clock) /\ Kept(findings[id], findings'[id])
                            /\ findings'[id].epss = findings[id].epss
                            /\ findings'[id].kev = findings[id].kev
<1>1. findings' = [id \in Ids |-> IF id \in {i \in ids : findings[i].status # new}
                                  THEN [findings[id] EXCEPT !.status = new]
                                  ELSE findings[id]]
  BY DEF Triage
<1>2. Len(findings) \in Nat /\ Ids = 1..Len(findings)
  BY DEF TableInv
<1>3. Len(findings') = Len(findings) /\ Ids' = Ids
  <2>1. findings' = [id \in 1..Len(findings) |-> findings'[id]]
    BY <1>1, <1>2
  <2> QED BY <1>2, <2>1, LengthIs DEF Ids
<1>4. ASSUME NEW id \in Ids
      PROVE  /\ IsRow(findings'[id], clock) /\ Kept(findings[id], findings'[id])
             /\ findings'[id].epss = findings[id].epss /\ findings'[id].kev = findings[id].kev
  <2>1. IsRow(findings[id], clock) /\ new \in FindingStatus
    BY FindingsAssumption DEF TableInv
  <2>2. findings'[id] = findings[id] \/ findings'[id] = [findings[id] EXCEPT !.status = new]
    BY <1>1
  <2>3. CASE findings'[id] = findings[id]
    BY <2>1, <2>3 DEF Kept
  <2>4. CASE findings'[id] = [findings[id] EXCEPT !.status = new]
    BY <2>1, <2>4, ClosedIs DEF Rescanned
  <2> QED BY <2>2, <2>3, <2>4
<1> QED BY <1>3, <1>4

(* What any step keeps of the rows, whoever takes it.                        *)
LEMMA StepKeeps ==
  ASSUME TableInv, Next
  PROVE  Ids \subseteq Ids' /\ \A id \in Ids : Kept(findings[id], findings'[id])
<1>1. ASSUME NEW r \in Reports, Scan(r)
      PROVE  Ids \subseteq Ids' /\ \A id \in Ids : Kept(findings[id], findings'[id])
  BY <1>1, ScanRows DEF Rescanned
<1>2. ASSUME NEW ids \in SUBSET Ids, NEW new \in Decisions, Triage(ids, new)
      PROVE  Ids \subseteq Ids' /\ \A id \in Ids : Kept(findings[id], findings'[id])
  BY <1>2, TriageRows
<1>3. CASE UNCHANGED findings
  BY <1>3 DEF Ids, Kept
<1> QED BY <1>1, <1>2, <1>3 DEF Next, SetCriticality, Later

LEMMA TodayAdvances ==
  ASSUME TableInv, Later
  PROVE  clock' \in Instants /\ clock' \in Nat /\ clock < clock' /\ clock \in Nat
         /\ UNCHANGED <<findings, journal, criticality, scans, requests, fixedAs>>
<1> DEFINE later == {d \in Instants : d > clock}
<1>1. /\ later \in SUBSET Nat /\ later # {} /\ clock \in Nat /\ Instants \subseteq Nat
      /\ clock' = CHOOSE d \in Instants : d > clock /\ \A e \in Instants : e > clock => d <= e
      /\ UNCHANGED <<findings, journal, criticality, scans, requests, fixedAs>>
  BY InstantsAreNumbers DEF Later, TableInv
<1>2. PICK d \in later : \A e \in later : d <= e
  <2> HIDE DEF later
  <2> QED BY <1>1, LeastExists
<1>3. \E x \in Instants : x > clock /\ \A e \in Instants : e > clock => x <= e
  BY <1>2
<1>4. clock' \in Instants /\ clock' > clock
  BY <1>1, <1>3
<1> QED BY <1>1, <1>4

LEMMA TableStarts ==
  ASSUME Init
  PROVE  TableInv
<1>1. /\ clock = 0 /\ findings = <<>> /\ journal = {} /\ scans = 0 /\ requests = 0 /\ fixedAs = <<>>
      /\ criticality = [a \in Assets |-> "medium"]
  BY DEF Init
<1>2. Len(findings) = 0 /\ Ids = {} /\ Ids = 1..Len(findings)
  BY <1>1 DEF Ids
<1>3. "medium" \in Criticality
  BY DEF Criticality, CRITICALITY_BONUS
<1>4. fixedAs \in [Ids -> {"never", "in_time", "overdue", "resolved"}]
  BY <1>1, <1>2
<1> QED BY <1>1, <1>2, <1>3, <1>4, FindingsAssumption, InstantsAreNumbers DEF TableInv

LEMMA TableStays ==
  ASSUME TableInv, [Next]_vars
  PROVE  TableInv'
<1>1. MaxScan \in Nat /\ MaxTriage \in Nat /\ scans \in Nat /\ requests \in Nat /\ clock \in Nat
  BY FindingsAssumption, InstantsAreNumbers DEF TableInv
<1>2. ASSUME NEW r \in Reports, Scan(r) PROVE TableInv'
  <2>1. /\ scans < MaxScan /\ scans' = scans + 1 /\ UNCHANGED <<clock, journal, criticality, requests>>
    BY <1>2 DEF Scan
  <2>2. scans' \in 0..MaxScan
    BY <1>1, <2>1
  <2>3. /\ Len(findings') \in Nat /\ Ids' = 1..Len(findings') /\ Ids \subseteq Ids'
        /\ \A id \in Ids' : IsRow(findings'[id], clock)
        /\ fixedAs' = [id \in Ids' |-> IF id \in Ids THEN fixedAs[id] ELSE "never"]
    BY <1>2, ScanRows
  <2>4. fixedAs' \in [Ids' -> {"never", "in_time", "overdue", "resolved"}]
    BY <2>3 DEF TableInv
  <2> QED BY <2>1, <2>2, <2>3, <2>4 DEF TableInv
<1>3. ASSUME NEW ids \in SUBSET Ids, NEW new \in Decisions, Triage(ids, new) PROVE TableInv'
  <2>1. requests < MaxTriage /\ requests' = requests + 1 /\ UNCHANGED <<clock, criticality, scans>>
    BY <1>3 DEF Triage
  <2>2. requests' \in 0..MaxTriage
    BY <1>1, <2>1
  <2>3. /\ Len(findings') = Len(findings) /\ Ids' = Ids
        /\ \A id \in Ids : IsRow(findings'[id], clock)
    BY <1>3, TriageRows
  <2>4. fixedAs' \in [Ids -> {"never", "in_time", "overdue", "resolved"}]
    <3> DEFINE changed == {id \in ids : findings[id].status # new}
               how(id) == IF id \notin changed \/ new # "fixed" THEN fixedAs[id]
                          ELSE CASE findings[id].status \notin OPEN_STATUSES -> "resolved"
                                 [] is_overdue(findings[id], clock)          -> "overdue"
                                 [] OTHER                                    -> "in_time"
    <3>1. fixedAs' = [id \in Ids |-> how(id)]
      BY <1>3 DEF Triage
    <3>2. ASSUME NEW id \in Ids PROVE how(id) \in {"never", "in_time", "overdue", "resolved"}
      <4>1. fixedAs[id] \in {"never", "in_time", "overdue", "resolved"}
        BY DEF TableInv
      <4> HIDE DEF changed
      <4>2. CASE id \notin changed \/ new # "fixed"
        BY <4>1, <4>2
      <4>3. CASE ~(id \notin changed \/ new # "fixed")
        BY <4>3
      <4> QED BY <4>2, <4>3
    <3> QED BY <3>1, <3>2
  <2>5. \A n \in journal' : n.finding \in Ids' /\ n.created_at \in Nat /\ n.created_at <= clock'
    <3>1. journal' = journal \cup
           {[finding |-> id, old_status |-> findings[id].status, new_status |-> new,
             created_at |-> clock] : id \in {i \in ids : findings[i].status # new}}
      BY <1>3 DEF Triage
    <3>2. \A n \in journal : n.finding \in Ids /\ n.created_at \in Nat /\ n.created_at <= clock
      BY DEF TableInv
    <3> QED BY <1>1, <2>1, <2>3, <3>1, <3>2
  <2> QED BY <2>1, <2>2, <2>3, <2>4, <2>5 DEF TableInv
<1>4. ASSUME NEW a \in Assets, NEW crit \in Criticalities, SetCriticality(a, crit) PROVE TableInv'
  <2>1. /\ requests < MaxTriage /\ requests' = requests + 1
        /\ criticality' = [criticality EXCEPT ![a] = crit]
        /\ UNCHANGED <<clock, findings, journal, scans, fixedAs>>
    BY <1>4 DEF SetCriticality
  <2>2. requests' \in 0..MaxTriage
    BY <1>1, <2>1
  <2>3. criticality' \in [Assets -> Criticality]
    BY <2>1, FindingsAssumption DEF TableInv
  <2> QED BY <2>1, <2>2, <2>3 DEF TableInv, Ids
<1>5. CASE Later
  <2>1. /\ clock' \in Instants /\ clock' \in Nat /\ clock < clock' /\ clock \in Nat
        /\ UNCHANGED <<findings, journal, criticality, scans, requests, fixedAs>>
    BY <1>5, TodayAdvances
  <2>2. \A id \in Ids : IsRow(findings[id], clock')
    BY <2>1 DEF TableInv, IsRow
  <2>3. \A n \in journal : n.created_at \in Nat /\ n.created_at <= clock'
    BY <2>1 DEF TableInv
  <2> QED BY <2>1, <2>2, <2>3 DEF TableInv, Ids
<1>6. CASE UNCHANGED vars
  BY <1>6 DEF vars, TableInv, Ids
<1> QED BY <1>2, <1>3, <1>4, <1>5, <1>6 DEF Next

(* The table, its journal and the history are typed and dated in every       *)
(* state, and each row has a published probability.                          *)
THEOREM TableInvariant == Spec => []TableInv
BY TableStarts, TableStays, PTL DEF Spec

(* The columns keep their domains; a row is never seen before its first day  *)
(* nor after today, and a decision is about a row that exists.               *)
THEOREM TableTypes == Spec => []TypeOK
<1>1. TableInv => TypeOK
  BY DEF TableInv, TypeOK, IsRow
<1> QED BY <1>1, TableInvariant, PTL

--------------------------------------------------------------------------------
(* Identity.                                                                 *)

LEMMA IdentityStays ==
  ASSUME TableInv, OneRowPerIdentity, [Next]_vars
  PROVE  OneRowPerIdentity'
<1>1. ASSUME NEW i \in Ids, NEW j \in Ids, Kept(findings[i], findings'[i]),
             Kept(findings[j], findings'[j]),
             Fingerprint(findings'[i]) = Fingerprint(findings'[j])
      PROVE  i = j
  BY <1>1, KeptIdentity DEF OneRowPerIdentity
<1>2. ASSUME NEW r \in Reports, Scan(r) PROVE OneRowPerIdentity'
  <2>1. /\ \A id \in Ids : Kept(findings[id], findings'[id])
        /\ \A id \in Ids' \ Ids : \A other \in Ids' :
             Fingerprint(findings'[id]) = Fingerprint(findings'[other]) => id = other
    BY <1>2, ScanRows DEF Rescanned
  <2>2. \A i, j \in Ids' : Fingerprint(findings'[i]) = Fingerprint(findings'[j]) => i = j
    BY <1>1, <2>1
  <2> QED BY <2>2 DEF OneRowPerIdentity, Fingerprint
<1>3. ASSUME NEW ids \in SUBSET Ids, NEW new \in Decisions, Triage(ids, new)
      PROVE  OneRowPerIdentity'
  <2>1. Ids' = Ids /\ \A id \in Ids : Kept(findings[id], findings'[id])
    BY <1>3, TriageRows
  <2>2. \A i, j \in Ids' : Fingerprint(findings'[i]) = Fingerprint(findings'[j]) => i = j
    BY <1>1, <2>1
  <2> QED BY <2>2 DEF OneRowPerIdentity, Fingerprint
<1>4. CASE UNCHANGED findings
  BY <1>4 DEF OneRowPerIdentity, Fingerprint, Ids
<1> QED BY <1>2, <1>3, <1>4 DEF Next, SetCriticality, Later, vars

(* Reports that repeat an item, within a report or between reports, never    *)
(* make two rows of one finding.                                             *)
THEOREM IdentityIsUnique == Spec => []OneRowPerIdentity
<1>1. Init => OneRowPerIdentity
  BY DEF Init, OneRowPerIdentity, Ids
<1> QED BY <1>1, IdentityStays, TableInvariant, PTL DEF Spec

--------------------------------------------------------------------------------
(* The journal of corrections.                                               *)

LEMMA FixDatesAre ==
  /\ DOMAIN fix_dates = {i \in Ids : FixNotes(i) # {}}
  /\ \A id \in DOMAIN fix_dates : fix_dates[id] = Max({n.created_at : n \in FixNotes(id)})
BY DEF fix_dates

LEMMA FixDatesThen ==
  /\ (DOMAIN fix_dates)' = {i \in Ids' : FixNotes(i)' # {}}
  /\ \A id \in (DOMAIN fix_dates)' : fix_dates'[id] = Max({n.created_at : n \in FixNotes(id)'})
BY DEF fix_dates

(* A finding without a new correction keeps its date, and its compliance.    *)
LEMMA DateStays ==
  ASSUME NEW id \in Ids, id \in Ids', FixNotes(id)' = FixNotes(id), Kept(findings[id], findings'[id])
  PROVE  /\ id \in (DOMAIN fix_dates)' <=> id \in DOMAIN fix_dates
         /\ id \in DOMAIN fix_dates => fix_dates'[id] = fix_dates[id]
         /\ id \in WithinSla' <=> id \in WithinSla
<1>1. id \in (DOMAIN fix_dates)' <=> id \in DOMAIN fix_dates
  BY FixDatesAre, FixDatesThen
<1>2. id \in DOMAIN fix_dates => fix_dates'[id] = fix_dates[id]
  BY <1>1, FixDatesAre, FixDatesThen
<1>3. id \in WithinSla <=> /\ id \in DOMAIN fix_dates
                           /\ fix_dates[id] - findings[id].firstSeen <= 24 * SLA_DAYS[findings[id].severity]
  BY DEF WithinSla, RepairHours
<1>4. id \in WithinSla' <=> /\ id \in (DOMAIN fix_dates)'
                            /\ fix_dates'[id] - findings'[id].firstSeen
                                 <= 24 * SLA_DAYS[findings'[id].severity]
  BY DEF WithinSla, RepairHours
<1> QED BY <1>1, <1>2, <1>3, <1>4 DEF Kept

(* One with a correction of today is dated today.                            *)
LEMMA DateIsToday ==
  ASSUME TableInv, NEW id \in Ids', NEW note \in FixNotes(id)', note.created_at = clock, clock' = clock,
         \A n \in journal' : n.created_at \in Nat /\ n.created_at <= clock
  PROVE  id \in (DOMAIN fix_dates)' /\ fix_dates'[id] = clock
<1> DEFINE days == {n.created_at : n \in FixNotes(id)'}
<1>1. id \in (DOMAIN fix_dates)' /\ fix_dates'[id] = Max(days)
  BY FixDatesThen
<1>2. clock \in days /\ \A d \in days : d \in Nat /\ d <= clock
  BY DEF FixNotes
<1>3. clock \in Nat
  BY InstantsAreNumbers DEF TableInv
<1> HIDE DEF days
<1>4. \E x \in days : \A y \in days : x >= y
  BY <1>2, <1>3
<1>5. Max(days) \in days /\ \A y \in days : Max(days) >= y
  BY <1>4 DEF Max
<1>6. ASSUME NEW m, m \in days, \A y \in days : m >= y PROVE m = clock
  <2>1. m \in Nat /\ m <= clock /\ m >= clock
    BY <1>2, <1>6
  <2> QED BY <1>3, <2>1
<1>7. Max(days) = clock
  BY <1>5, <1>6
<1> QED BY <1>1, <1>7

(* The notes of a request of the analysts.                                   *)
LEMMA TriageNotes ==
  ASSUME TableInv, NEW ids \in SUBSET Ids, NEW new \in Decisions, Triage(ids, new), NEW id \in Ids
  PROVE  /\ (id \notin ids \/ findings[id].status = new \/ new # "fixed") => FixNotes(id)' = FixNotes(id)
         /\ (id \in ids /\ findings[id].status # new /\ new = "fixed")
              => id \in (DOMAIN fix_dates)' /\ fix_dates'[id] = clock
<1> DEFINE added == {[finding |-> i, old_status |-> findings[i].status, new_status |-> new,
                      created_at |-> clock] : i \in {k \in ids : findings[k].status # new}}
<1>1. journal' = journal \cup added /\ clock' = clock
  BY DEF Triage
<1>2. \A n \in added : n.finding \in ids /\ findings[n.finding].status # new /\ n.new_status = new
                       /\ n.created_at = clock
  OBVIOUS
<1>3. FixNotes(id)' = FixNotes(id) \cup {n \in added : n.finding = id /\ n.new_status = "fixed"}
  BY <1>1 DEF FixNotes
<1>4. ASSUME id \notin ids \/ findings[id].status = new \/ new # "fixed"
      PROVE  FixNotes(id)' = FixNotes(id)
  <2>1. {n \in added : n.finding = id /\ n.new_status = "fixed"} = {}
    BY <1>2, <1>4
  <2> HIDE DEF added
  <2> QED BY <1>3, <2>1
<1>5. ASSUME id \in ids, findings[id].status # new, new = "fixed"
      PROVE  id \in (DOMAIN fix_dates)' /\ fix_dates'[id] = clock
  <2> DEFINE note == [finding |-> id, old_status |-> findings[id].status, new_status |-> new,
                      created_at |-> clock]
  <2>1. note \in added
    BY <1>5
  <2>2. note.finding = id /\ note.new_status = "fixed" /\ note.created_at = clock
    BY <1>5
  <2>3. note \in FixNotes(id)'
    <3> HIDE DEF added, note
    <3> QED BY <1>3, <2>1, <2>2
  <2>4. clock \in Nat /\ \A n \in journal : n.created_at \in Nat /\ n.created_at <= clock
    BY InstantsAreNumbers DEF TableInv
  <2>5. \A n \in journal' : n.created_at \in Nat /\ n.created_at <= clock
    <3> HIDE DEF added
    <3> QED BY <1>1, <1>2, <2>4
  <2>6. id \in Ids'
    BY TriageRows
  <2> HIDE DEF note, added
  <2> QED BY <1>1, <2>2, <2>3, <2>5, <2>6, DateIsToday
<1> QED BY <1>4, <1>5

LEMMA ComplianceStays ==
  ASSUME TableInv, ComplianceIsWhatWasFlagged, [Next]_vars
  PROVE  ComplianceIsWhatWasFlagged'
<1> DEFINE Flagged(id) ==
             /\ fixedAs'[id] = "in_time" => id \in WithinSla'
             /\ fixedAs'[id] = "overdue" => id \in (DOMAIN fix_dates)' /\ id \notin WithinSla'
             /\ fixedAs'[id] = "never"   => id \notin (DOMAIN fix_dates)'
<1>1. SUFFICES \A id \in Ids' : Flagged(id)
  BY DEF ComplianceIsWhatWasFlagged
<1>2. ASSUME NEW id \in Ids, id \in Ids', FixNotes(id)' = FixNotes(id),
             Kept(findings[id], findings'[id]), fixedAs'[id] = fixedAs[id]
      PROVE  Flagged(id)
  BY <1>2, DateStays DEF ComplianceIsWhatWasFlagged
<1>3. ASSUME NEW r \in Reports, Scan(r), NEW id \in Ids' PROVE Flagged(id)
  <2>1. /\ journal' = journal /\ \A i \in Ids : Kept(findings[i], findings'[i])
        /\ fixedAs'[id] = IF id \in Ids THEN fixedAs[id] ELSE "never"
    BY <1>3, ScanRows DEF Scan, Rescanned
  <2>2. FixNotes(id)' = FixNotes(id)
    BY <2>1 DEF FixNotes
  <2>3. CASE id \in Ids
    <3>1. fixedAs'[id] = fixedAs[id] /\ Kept(findings[id], findings'[id])
      BY <2>1, <2>3
    <3> HIDE DEF Flagged
    <3> QED BY <1>2, <2>2, <2>3, <3>1
  <2>4. CASE id \notin Ids
    <3>1. \A n \in journal : n.finding \in Ids
      BY DEF TableInv
    <3>2. FixNotes(id)' = {}
      BY <2>2, <2>4, <3>1 DEF FixNotes
    <3>3. id \notin (DOMAIN fix_dates)' /\ fixedAs'[id] = "never"
      BY <2>1, <2>4, <3>2, FixDatesThen
    <3> QED BY <3>3
  <2> QED BY <2>3, <2>4
<1>4. ASSUME NEW ids \in SUBSET Ids, NEW new \in Decisions, Triage(ids, new), NEW id \in Ids'
      PROVE  Flagged(id)
  <2>1. id \in Ids /\ Kept(findings[id], findings'[id]) /\ IsRow(findings[id], clock)
    BY <1>4, TriageRows DEF TableInv
  <2> DEFINE how == CASE findings[id].status \notin OPEN_STATUSES -> "resolved"
                      [] is_overdue(findings[id], clock)          -> "overdue"
                      [] OTHER                                    -> "in_time"
  <2>2. fixedAs'[id] = IF id \notin ids \/ findings[id].status = new \/ new # "fixed"
                       THEN fixedAs[id] ELSE how
    <3> DEFINE changed == {i \in ids : findings[i].status # new}
    <3>1. fixedAs'[id] = IF id \notin changed \/ new # "fixed" THEN fixedAs[id] ELSE how
      BY <1>4, <2>1 DEF Triage
    <3>2. id \notin changed <=> id \notin ids \/ findings[id].status = new
      OBVIOUS
    <3> HIDE DEF changed, how
    <3> QED BY <3>1, <3>2
  <2> HIDE DEF how
  <2>3. CASE id \notin ids \/ findings[id].status = new \/ new # "fixed"
    <3>1. FixNotes(id)' = FixNotes(id)
      BY <1>4, <2>1, <2>3, TriageNotes
    <3>2. fixedAs'[id] = fixedAs[id]
      BY <2>2, <2>3
    <3> HIDE DEF Flagged
    <3> QED BY <1>2, <2>1, <3>1, <3>2
  <2>4. CASE id \in ids /\ findings[id].status # new /\ new = "fixed"
    <3>1. id \in (DOMAIN fix_dates)' /\ fix_dates'[id] = clock
      BY <1>4, <2>1, <2>4, TriageNotes
    <3>2. id \in WithinSla' <=> clock - findings[id].firstSeen <= 24 * SLA_DAYS[findings[id].severity]
      BY <2>1, <3>1 DEF WithinSla, RepairHours, Kept
    <3>3. CASE findings[id].status \notin OPEN_STATUSES
      <4>1. how = "resolved"
        BY <3>3 DEF how, is_overdue
      <4>2. fixedAs'[id] = "resolved"
        BY <2>2, <2>4, <4>1
      <4> QED BY <4>2
    <3>4. CASE findings[id].status \in OPEN_STATUSES
      <4> DEFINE sla == SLA_DAYS[findings[id].severity]
      <4>1. is_overdue(findings[id], clock) <=> clock > findings[id].firstSeen + 24 * sla
        BY <3>4 DEF is_overdue, due_date
      <4>2. sla \in Nat /\ clock \in Nat /\ findings[id].firstSeen \in Nat
        <5>1. IsRow(findings[id], clock) /\ clock \in Nat
          BY <2>1, InstantsAreNumbers DEF TableInv
        <5>2. findings[id].severity \in {"critical", "high", "medium", "low", "info"}
          BY <5>1 DEF IsRow, Severity, SEVERITIES
        <5>3. findings[id].firstSeen \in Nat
          BY <5>1 DEF IsRow
        <5> QED BY <5>1, <5>2, <5>3 DEF SLA_DAYS
      <4>3. fixedAs'[id] = IF is_overdue(findings[id], clock) THEN "overdue" ELSE "in_time"
        BY <2>2, <2>4, <3>4 DEF how
      <4> HIDE DEF sla
      <4>4. is_overdue(findings[id], clock) <=> ~(clock - findings[id].firstSeen <= 24 * sla)
        BY <4>1, <4>2
      <4> QED BY <3>1, <3>2, <4>3, <4>4 DEF sla
    <3> QED BY <3>3, <3>4
  <2> QED BY <2>3, <2>4
<1>5. ASSUME UNCHANGED <<findings, journal, fixedAs>>, NEW id \in Ids' PROVE Flagged(id)
  <2>1. /\ id \in Ids /\ FixNotes(id)' = FixNotes(id) /\ Kept(findings[id], findings'[id])
        /\ fixedAs'[id] = fixedAs[id]
    BY <1>5 DEF Ids, FixNotes, Kept
  <2> HIDE DEF Flagged
  <2> QED BY <1>2, <2>1
<1> HIDE DEF Flagged
<1> QED BY <1>3, <1>4, <1>5 DEF Next, SetCriticality, Later, vars

(* The compliance of the posture page is what the analyst saw: a finding     *)
(* that wore the overdue badge when it was last set to fixed is not counted  *)
(* within its SLA, one that did not is, and reopenings by later scans change *)
(* neither.                                                                  *)
THEOREM ComplianceIsHonest == Spec => []ComplianceIsWhatWasFlagged
<1>1. Init => ComplianceIsWhatWasFlagged
  BY DEF Init, ComplianceIsWhatWasFlagged, Ids
<1> QED BY <1>1, ComplianceStays, TableInvariant, PTL DEF Spec

--------------------------------------------------------------------------------
(* What the pages showed before.                                             *)

LEMMA TableIsFinite ==
  ASSUME TableInv
  PROVE  IsFiniteSet(Ids) /\ clock \in Nat
<1>1. Ids = 1..Len(findings) /\ Len(findings) \in Nat
  BY DEF TableInv
<1> QED BY <1>1, FS_Interval, InstantsAreNumbers DEF TableInv

(* A step dates what it adds today, and a new correction too.                *)
LEMMA NewsAreOfToday ==
  ASSUME TableInv, [Next]_vars
  PROVE  /\ Ids \subseteq Ids' /\ \A id \in Ids : Kept(findings[id], findings'[id])
         /\ \A id \in Ids' \ Ids : findings'[id].firstSeen = clock /\ FixNotes(id)' = {}
         /\ \A id \in Ids : \/ FixNotes(id)' = FixNotes(id)
                            \/ id \in (DOMAIN fix_dates)' /\ fix_dates'[id] = clock
<1>1. ASSUME NEW r \in Reports, Scan(r)
      PROVE  /\ Ids \subseteq Ids' /\ \A id \in Ids : Kept(findings[id], findings'[id])
             /\ \A id \in Ids' \ Ids : findings'[id].firstSeen = clock /\ FixNotes(id)' = {}
             /\ \A id \in Ids : FixNotes(id)' = FixNotes(id)
  <2>1. /\ Ids \subseteq Ids' /\ \A id \in Ids : Kept(findings[id], findings'[id])
        /\ \A id \in Ids' \ Ids : findings'[id].firstSeen = clock
        /\ journal' = journal
    BY <1>1, ScanRows DEF Scan, Rescanned
  <2>2. \A n \in journal : n.finding \in Ids
    BY DEF TableInv
  <2>3. \A id \in Ids' \ Ids : FixNotes(id)' = {}
    BY <2>1, <2>2 DEF FixNotes
  <2>4. \A id \in Ids : FixNotes(id)' = FixNotes(id)
    BY <2>1 DEF FixNotes
  <2> QED BY <2>1, <2>3, <2>4
<1>2. ASSUME NEW ids \in SUBSET Ids, NEW new \in Decisions, Triage(ids, new)
      PROVE  /\ Ids' = Ids /\ \A id \in Ids : Kept(findings[id], findings'[id])
             /\ \A id \in Ids : \/ FixNotes(id)' = FixNotes(id)
                                \/ id \in (DOMAIN fix_dates)' /\ fix_dates'[id] = clock
  <2>1. Ids' = Ids /\ \A id \in Ids : Kept(findings[id], findings'[id])
    BY <1>2, TriageRows
  <2>2. ASSUME NEW id \in Ids
        PROVE  \/ FixNotes(id)' = FixNotes(id)
               \/ id \in (DOMAIN fix_dates)' /\ fix_dates'[id] = clock
    BY <1>2, TriageNotes
  <2> QED BY <2>1, <2>2
<1>3. ASSUME UNCHANGED <<findings, journal>>
      PROVE  /\ Ids' = Ids /\ \A id \in Ids : Kept(findings[id], findings'[id])
             /\ \A id \in Ids : FixNotes(id)' = FixNotes(id)
  BY <1>3 DEF Ids, FixNotes, Kept
<1> QED BY <1>1, <1>2, <1>3 DEF Next, SetCriticality, Later, vars

(* Later instants are on later days.                                         *)
LEMMA DayIsMonotone ==
  ASSUME NEW t \in Int, NEW u \in Int, t <= u
  PROVE  Day(t) \in Int /\ Day(u) \in Int /\ Day(t) <= Day(u)
BY DEF Day

(* A row is about what is not after now, a correction too.                   *)
LEMMA TimesAreIntegers ==
  ASSUME TableInv
  PROVE  /\ clock \in Nat /\ FlowStart \in Int
         /\ \A id \in Ids : findings[id].firstSeen \in Int
<1>1. clock \in Nat /\ \A id \in Ids : IsRow(findings[id], clock)
  BY InstantsAreNumbers DEF TableInv
<1>2. \A id \in Ids : findings[id].firstSeen \in Int
  BY <1>1 DEF IsRow
<1>3. FlowStart \in Int
  BY <1>1 DEF FlowStart, FlowWindow
<1> QED BY <1>1, <1>2, <1>3

(* A correction is not after now.                                            *)
LEMMA FixDatesAreInstants ==
  ASSUME TableInv, NEW id \in DOMAIN fix_dates
  PROVE  /\ id \in Ids /\ fix_dates[id] \in Nat /\ fix_dates[id] <= clock
         /\ RepairHours(id) \in Int
<1> DEFINE instants == {n.created_at : n \in FixNotes(id)}
<1>1. id \in Ids /\ FixNotes(id) # {} /\ fix_dates[id] = Max(instants)
  BY FixDatesAre
<1>2. \A n \in FixNotes(id) : n.created_at \in Nat /\ n.created_at <= clock
  BY DEF FixNotes, TableInv
<1>3. instants # {} /\ \A d \in instants : d \in Nat /\ d <= clock
  BY <1>1, <1>2
<1>4. clock \in Nat
  BY TableIsFinite
<1> HIDE DEF instants
(* The latest instant is the one with the least time left.                    *)
<1>5. \E x \in instants : \A y \in instants : x >= y
  <2> DEFINE left == {clock - d : d \in instants}
  <2>1. left \in SUBSET Nat /\ left # {}
    BY <1>3, <1>4
  <2>2. PICK m \in left : \A k \in left : m <= k
    <3> HIDE DEF left
    <3> QED BY <2>1, LeastExists
  <2>3. PICK x \in instants : m = clock - x
    BY <2>2
  <2>4. \A y \in instants : clock - x <= clock - y
    BY <2>2, <2>3
  <2>5. \A y \in instants : x >= y
    BY <1>3, <1>4, <2>3, <2>4
  <2> QED BY <2>5
<1>6. Max(instants) \in instants
  BY <1>5 DEF Max
<1>7. fix_dates[id] \in Nat /\ fix_dates[id] <= clock
  BY <1>1, <1>3, <1>6
<1>8. findings[id].firstSeen \in Int
  BY <1>1, TimesAreIntegers
<1>9. RepairHours(id) \in Int
  BY <1>7, <1>8 DEF RepairHours
<1> QED BY <1>1, <1>7, <1>9

(* What the flow showed for a past day only shrinks: a correction moves to   *)
(* the day the finding was corrected again, and what gets older than the     *)
(* window leaves its first day. Elsewhere the discoveries never change.      *)
THEOREM PastIsSettled == Spec => PastFlowOnlyMoves
<1> DEFINE Settled(d) ==
             /\ remediation_flow'[d].closed <= remediation_flow[d].closed
             /\ remediation_flow'[d].opened <= remediation_flow[d].opened
             /\ d > Day(FlowStart') => remediation_flow'[d].opened = remediation_flow[d].opened
<1>1. ASSUME TableInv, TableInv', [Next]_vars, clock <= clock',
             NEW d \in DOMAIN remediation_flow \cap (DOMAIN remediation_flow)', d < Day(clock)
      PROVE  Settled(d)
  <2> DEFINE opened == {id \in Ids : findings[id].firstSeen >= FlowStart
                                      /\ Day(findings[id].firstSeen) = d}
             openedThen == {id \in Ids' : findings'[id].firstSeen >= FlowStart'
                                          /\ Day(findings'[id].firstSeen) = d}
             closed == {id \in DOMAIN fix_dates : fix_dates[id] >= FlowStart
                                                 /\ Day(fix_dates[id]) = d}
             closedThen == {id \in (DOMAIN fix_dates)' : fix_dates'[id] >= FlowStart'
                                                        /\ Day(fix_dates'[id]) = d}
  <2>1. /\ clock \in Nat /\ clock' \in Nat /\ clock <= clock'
        /\ FlowStart \in Int /\ FlowStart' \in Int
        /\ \A id \in Ids : findings[id].firstSeen \in Int
    <3>1. clock' \in Nat
      BY <1>1, InstantsAreNumbers DEF TableInv
    <3>2. FlowStart' \in Int
      BY <3>1 DEF FlowStart, FlowWindow
    <3> QED BY <1>1, <3>1, <3>2, TimesAreIntegers
  <2>2. FlowStart <= FlowStart'
    <3>1. \A m, n \in Int : m <= n => m - 24 * FlowWindow <= n - 24 * FlowWindow
      BY DEF FlowWindow
    <3>2. clock \in Int /\ clock' \in Int /\ clock <= clock'
      BY <2>1
    <3> QED BY <3>1, <3>2 DEF FlowStart
  <2>3. d \in Int /\ Day(clock) \in Int /\ Day(FlowStart') \in Int /\ d # Day(clock)
    <3>1. Day(clock) \in Int /\ Day(FlowStart) \in Int /\ Day(FlowStart') \in Int
      BY <2>1, DayIsMonotone
    <3>2. d \in Day(FlowStart)..Day(clock)
      BY <1>1 DEF remediation_flow
    <3> QED BY <1>1, <3>1, <3>2
  <2>4. /\ remediation_flow[d].opened = Cardinality(opened)
        /\ remediation_flow'[d].opened = Cardinality(openedThen)
        /\ remediation_flow[d].closed = Cardinality(closed)
        /\ remediation_flow'[d].closed = Cardinality(closedThen)
    BY <1>1 DEF remediation_flow, Opened, Closed
  <2>5. ASSUME NEW id \in openedThen PROVE id \in opened
    <3>1. id \in Ids'
      OBVIOUS
    <3>2. id \in Ids /\ findings'[id].firstSeen = findings[id].firstSeen
      BY <1>1, <2>3, <3>1, NewsAreOfToday DEF Kept
    <3> QED BY <2>1, <2>2, <3>2
  <2>6. ASSUME d > Day(FlowStart'), NEW id \in opened PROVE id \in openedThen
    <3>1. /\ id \in Ids /\ findings[id].firstSeen \in Int /\ Day(findings[id].firstSeen) = d
      BY <2>1
    <3>2. id \in Ids' /\ findings'[id].firstSeen = findings[id].firstSeen
      BY <1>1, <3>1, NewsAreOfToday DEF Kept
    <3>3. findings[id].firstSeen >= FlowStart'
      BY <2>1, <2>3, <2>6, <3>1, DayIsMonotone
    <3> QED BY <3>1, <3>2, <3>3
  <2>7. ASSUME NEW id \in closedThen PROVE id \in closed
    <3>1. id \in Ids' /\ FixNotes(id)' # {} /\ Day(fix_dates'[id]) = d /\ fix_dates'[id] >= FlowStart'
      BY FixDatesThen
    <3>2. id \in Ids /\ FixNotes(id)' = FixNotes(id) /\ Kept(findings[id], findings'[id])
      BY <1>1, <2>3, <3>1, NewsAreOfToday
    <3>3. id \in DOMAIN fix_dates /\ fix_dates'[id] = fix_dates[id]
      BY <3>1, <3>2, DateStays
    <3>4. fix_dates[id] \in Int
      BY <1>1, <3>3, FixDatesAreInstants
    <3> QED BY <2>1, <2>2, <3>1, <3>3, <3>4
  <2>8. opened \in SUBSET Ids /\ closed \in SUBSET Ids
    <3>1. closed \in SUBSET DOMAIN fix_dates /\ DOMAIN fix_dates \in SUBSET Ids
      BY FixDatesAre
    <3> QED BY <3>1
  <2> HIDE DEF opened, openedThen, closed, closedThen
  <2>9. IsFiniteSet(opened) /\ IsFiniteSet(closed)
    BY <1>1, <2>8, TableIsFinite, FS_Subset
  <2>10. /\ Cardinality(openedThen) <= Cardinality(opened)
         /\ Cardinality(closedThen) <= Cardinality(closed)
    <3>1. openedThen \in SUBSET opened /\ closedThen \in SUBSET closed
      BY <2>5, <2>7
    <3> QED BY <2>9, <3>1, FS_Subset
  <2>11. d > Day(FlowStart') => openedThen = opened
    BY <2>5, <2>6
  <2> QED BY <2>4, <2>10, <2>11
<1>2. TableInv /\ TableInv' /\ [Next]_vars => clock <= clock'
  <2>1. ASSUME TableInv, Later PROVE clock <= clock'
    BY <2>1, TodayAdvances
  <2>2. ASSUME TableInv, UNCHANGED clock PROVE clock <= clock'
    BY <2>2, TimesAreIntegers
  <2> QED BY <2>1, <2>2 DEF Next, Scan, Triage, SetCriticality, vars
<1>3. TableInv /\ TableInv' /\ [Next]_vars =>
        [\A d \in DOMAIN remediation_flow \cap (DOMAIN remediation_flow)' :
           d < Day(clock) => Settled(d)]_vars
  BY <1>1, <1>2
<1> QED BY <1>3, TableInvariant, PTL DEF Spec, PastFlowOnlyMoves

--------------------------------------------------------------------------------
(* Hygiene.                                                                  *)

(* The open findings of an asset.                                            *)
OpenOf(a) == {id \in OpenIds : findings[id].asset = a}

HygieneOf(critical, high, medium, low, covered) ==
  LET points == (200 * covered + 3) \div 6 - (12 * critical + 5 * high + 2 * medium + low)
  IN  IF points < 0 THEN 0 ELSE points

LEMMA HygieneIs ==
  ASSUME NEW a
  PROVE  Hygiene(a) = HygieneOf(Cardinality(OfSeverity(OpenOf(a), "critical")),
                                Cardinality(OfSeverity(OpenOf(a), "high")),
                                Cardinality(OfSeverity(OpenOf(a), "medium")),
                                Cardinality(OfSeverity(OpenOf(a), "low")),
                                Cardinality(Coverage(a)))
<1>1. {"critical", "high", "medium", "low", "info"} \subseteq Severity
  BY DEF Severity, SEVERITIES
<1>2. \A ids : /\ SevCounts(ids)["critical"] = Cardinality(OfSeverity(ids, "critical"))
               /\ SevCounts(ids)["high"] = Cardinality(OfSeverity(ids, "high"))
               /\ SevCounts(ids)["medium"] = Cardinality(OfSeverity(ids, "medium"))
               /\ SevCounts(ids)["low"] = Cardinality(OfSeverity(ids, "low"))
  BY <1>1 DEF SevCounts
<1> QED BY <1>2 DEF Hygiene, HygieneOf, OpenOf

LEMMA HygieneFalls ==
  ASSUME NEW c1 \in Nat, NEW h1 \in Nat, NEW m1 \in Nat, NEW l1 \in Nat, NEW n \in Nat,
         NEW c2 \in Nat, NEW h2 \in Nat, NEW m2 \in Nat, NEW l2 \in Nat,
         c1 <= c2, h1 <= h2, m1 <= m2, l1 <= l2
  PROVE  ~(HygieneOf(c2, h2, m2, l2, n) > HygieneOf(c1, h1, m1, l1, n))
<1>1. (200 * n + 3) \div 6 \in Int
  OBVIOUS
<1> QED BY <1>1 DEF HygieneOf

(* An asset's hygiene rises only when one of its findings is resolved or     *)
(* when another scanner finds something on it for the first time.            *)
THEOREM HygieneIsEarned == Spec => HygieneRisesByRepair
<1>1. ASSUME TableInv, TableInv', [Next]_vars, NEW a \in Assets, Coverage(a)' = Coverage(a),
             \A id \in OpenIds : findings[id].asset = a => id \in OpenIds'
      PROVE  ~(Hygiene(a)' > Hygiene(a))
  <2> DEFINE Now(sev) == OfSeverity(OpenOf(a), sev)
             Then(sev) == OfSeverity(OpenOf(a), sev)'
  <2>1. Ids \subseteq Ids' /\ \A id \in Ids : Kept(findings[id], findings'[id])
    BY <1>1, NewsAreOfToday
  <2>2. OpenOf(a) \subseteq OpenOf(a)' /\ OpenOf(a) \subseteq Ids /\ OpenOf(a)' \subseteq Ids'
    BY <1>1, <2>1 DEF OpenOf, OpenIds, Kept
  <2>3. IsFiniteSet(Ids')
    <3>1. Ids' = 1..Len(findings') /\ Len(findings') \in Nat
      BY <1>1 DEF TableInv
    <3> QED BY <3>1, FS_Interval
  <2>4. ASSUME NEW sev
        PROVE  /\ Cardinality(Now(sev)) \in Nat /\ Cardinality(Then(sev)) \in Nat
               /\ Cardinality(Now(sev)) <= Cardinality(Then(sev))
    <3>1. Now(sev) \in SUBSET Then(sev) /\ Then(sev) \in SUBSET Ids'
      BY <2>1, <2>2 DEF OfSeverity, Kept
    <3> HIDE DEF Now, Then
    <3>2. IsFiniteSet(Then(sev))
      BY <2>3, <3>1, FS_Subset
    <3>3. IsFiniteSet(Now(sev)) /\ Cardinality(Now(sev)) <= Cardinality(Then(sev))
      BY <3>1, <3>2, FS_Subset
    <3> QED BY <3>2, <3>3, FS_CardinalityType
  <2>5. Cardinality(Coverage(a)) \in Nat /\ Cardinality(Coverage(a))' = Cardinality(Coverage(a))
    <3>1. Coverage(a) \in SUBSET ALL_SCANNERS
      BY DEF Coverage
    <3>2. IsFiniteSet(ALL_SCANNERS)
      <4>1. IsFiniteSet({} \cup {"trivy"})
        BY FS_AddElement, FS_EmptySet
      <4>2. IsFiniteSet(({} \cup {"trivy"}) \cup {"semgrep"})
        BY <4>1, FS_AddElement
      <4>3. IsFiniteSet((({} \cup {"trivy"}) \cup {"semgrep"}) \cup {"gitleaks"})
        BY <4>2, FS_AddElement
      <4>4. ALL_SCANNERS = (({} \cup {"trivy"}) \cup {"semgrep"}) \cup {"gitleaks"}
        BY DEF ALL_SCANNERS
      <4> QED BY <4>3, <4>4
    <3>3. IsFiniteSet(Coverage(a))
      BY <3>1, <3>2, FS_Subset
    <3> QED BY <1>1, <3>3, FS_CardinalityType
  <2>6. Hygiene(a) = HygieneOf(Cardinality(Now("critical")), Cardinality(Now("high")),
                               Cardinality(Now("medium")), Cardinality(Now("low")),
                               Cardinality(Coverage(a)))
    BY HygieneIs
  <2>7. Hygiene(a)' = HygieneOf(Cardinality(Then("critical")), Cardinality(Then("high")),
                                Cardinality(Then("medium")), Cardinality(Then("low")),
                                Cardinality(Coverage(a)))
    <3>1. (Hygiene(a) = HygieneOf(Cardinality(OfSeverity(OpenOf(a), "critical")),
                                  Cardinality(OfSeverity(OpenOf(a), "high")),
                                  Cardinality(OfSeverity(OpenOf(a), "medium")),
                                  Cardinality(OfSeverity(OpenOf(a), "low")),
                                  Cardinality(Coverage(a))))'
      BY HygieneIs, PTL
    <3> QED BY <2>5, <3>1
  <2> HIDE DEF Now, Then
  <2> DEFINE n == Cardinality(Coverage(a))
             before == HygieneOf(Cardinality(Now("critical")), Cardinality(Now("high")),
                                 Cardinality(Now("medium")), Cardinality(Now("low")), n)
             after == HygieneOf(Cardinality(Then("critical")), Cardinality(Then("high")),
                                Cardinality(Then("medium")), Cardinality(Then("low")), n)
  <2>8. ~(after > before)
    <3>1. n \in Nat
      BY <2>5
    <3> HIDE DEF n
    <3> QED BY <2>4, <3>1, HygieneFalls
  <2>9. Hygiene(a) = before /\ Hygiene(a)' = after
    BY <2>6, <2>7
  <2> HIDE DEF before, after
  <2> QED BY <2>8, <2>9
<1>2. TableInv /\ TableInv' /\ [Next]_vars =>
        [\A a \in Assets : Hygiene(a)' > Hygiene(a) =>
           \/ Coverage(a)' # Coverage(a)
           \/ \E id \in OpenIds : id \notin OpenIds' /\ findings[id].asset = a]_vars
  BY <1>1
<1> QED BY <1>2, TableInvariant, PTL DEF Spec, HygieneRisesByRepair

--------------------------------------------------------------------------------
(* Risk.                                                                     *)

LEMMA RoundingIsMonotone ==
  ASSUME NEW q \in Int, NEW r \in Int, q <= r
  PROVE  RoundQuarters(q) \in Int /\ RoundQuarters(r) \in Int /\ RoundQuarters(q) <= RoundQuarters(r)
BY DEF RoundQuarters

(* The bounded score is monotone in the sum before rounding.                 *)
LEMMA ScoreIsMonotone ==
  ASSUME NEW f, NEW g, NEW c, NEW d, risk_score_sql(f, c) \in Int, risk_score_sql(g, d) \in Int,
         risk_score_sql(f, c) <= risk_score_sql(g, d)
  PROVE  /\ risk_score(f, c) \in 0..100 /\ risk_score(g, d) \in 0..100
         /\ risk_score(f, c) <= risk_score(g, d)
<1> DEFINE Bounded(point) == CASE point < 0 -> 0 [] point > 100 -> 100 [] OTHER -> point
<1>1. /\ risk_score(f, c) = Bounded(RoundQuarters(risk_score_sql(f, c)))
      /\ risk_score(g, d) = Bounded(RoundQuarters(risk_score_sql(g, d)))
  BY DEF risk_score, risk_score_sql
<1>2. ASSUME NEW p \in Int, NEW q \in Int, p <= q
      PROVE  Bounded(p) \in 0..100 /\ Bounded(q) \in 0..100 /\ Bounded(p) <= Bounded(q)
  BY <1>2
<1> HIDE DEF Bounded
<1> QED BY <1>1, <1>2, RoundingIsMonotone

LEMMA TermsAre ==
  ASSUME NEW f, NEW day, IsRow(f, day), NEW crit \in Criticality
  PROVE  /\ SEVERITY_BASE[f.severity] \in Int /\ CRITICALITY_BONUS[crit] \in Int
         /\ EpssQuarters(f) = (IF f.epss = NoEpss THEN 0 ELSE f.epss)
         /\ KevQuarters(f) = (IF f.kev THEN 100 ELSE 0)
         /\ EpssQuarters(f) \in 0..100 /\ KevQuarters(f) \in {0, 100}
         /\ risk_score_sql(f, crit) \in Int
<1>1. SEVERITY_BASE[f.severity] \in Int
  BY DEF IsRow, SEVERITY_BASE, Severity, SEVERITIES
<1>2. CRITICALITY_BONUS[crit] \in Int
  BY DEF Criticality, CRITICALITY_BONUS
<1>3. f.epss \in {NoEpss} \cup 0..100
  BY DEF IsRow
<1>4. EpssQuarters(f) = IF f.epss = NoEpss THEN 0 ELSE f.epss
  BY <1>3 DEF EpssQuarters, NoEpss, EPSS_WEIGHT
<1>5. EpssQuarters(f) \in 0..100
  BY <1>3, <1>4 DEF NoEpss
<1>6. KevQuarters(f) = IF f.kev THEN 100 ELSE 0
  BY DEF KevQuarters, KEV_BONUS
<1>7. KevQuarters(f) \in {0, 100}
  BY <1>6
<1>8. risk_score_sql(f, crit) \in Int
  BY <1>1, <1>2, <1>5, <1>7 DEF risk_score_sql
<1> QED BY <1>1, <1>2, <1>4, <1>5, <1>6, <1>7, <1>8

(* A finding whose severity, asset, probability and exploits are no smaller. *)
LEMMA RiskStays ==
  ASSUME NEW f, NEW g, NEW day, NEW today, NEW c \in Criticality, NEW d \in Criticality,
         IsRow(f, day), IsRow(g, today), f.severity = g.severity, f.epss <= g.epss, f.kev => g.kev,
         CRITICALITY_BONUS[c] <= CRITICALITY_BONUS[d]
  PROVE  /\ risk_score(f, c) \in 0..100 /\ risk_score(g, d) \in 0..100
         /\ risk_score(f, c) <= risk_score(g, d)
<1>1. f.epss \in {NoEpss} \cup 0..100 /\ g.epss \in {NoEpss} \cup 0..100
  BY DEF IsRow
<1>2. EpssQuarters(f) <= EpssQuarters(g)
  BY <1>1, TermsAre DEF NoEpss
<1>3. KevQuarters(f) <= KevQuarters(g)
  BY TermsAre
<1>4. risk_score_sql(f, c) <= risk_score_sql(g, d)
  <2> DEFINE b == SEVERITY_BASE[f.severity]
             m == CRITICALITY_BONUS[c]
             n == CRITICALITY_BONUS[d]
  <2>1. /\ b \in Int /\ m \in Int /\ n \in Int /\ m <= n
        /\ EpssQuarters(f) \in Int /\ EpssQuarters(g) \in Int
        /\ KevQuarters(f) \in Int /\ KevQuarters(g) \in Int
    BY TermsAre
  <2>2. /\ risk_score_sql(f, c) = 4 * b + EpssQuarters(f) + KevQuarters(f) + 4 * m
        /\ risk_score_sql(g, d) = 4 * b + EpssQuarters(g) + KevQuarters(g) + 4 * n
    BY DEF risk_score_sql
  <2> HIDE DEF b, m, n
  <2> QED BY <1>2, <1>3, <2>1, <2>2
<1> QED BY <1>4, TermsAre, ScoreIsMonotone

(* A finding's risk falls only if its asset is declared less critical or if  *)
(* FIRST publishes a lower probability: a feed that does not answer, or only *)
(* for some of the batches, never makes a finding look safer.                *)
THEOREM RiskFallsWithNews == Spec => RiskFallsOnlyByNews
<1> DEFINE News(id) ==
             \/ LET a == findings[id].asset
                IN  CRITICALITY_BONUS[criticality[a]]' < CRITICALITY_BONUS[criticality[a]]
             \/ /\ findings[id].cve # NoCve
                /\ Published[clock].epss[findings[id].cve] \in 0..(findings[id].epss - 1)
<1>1. ASSUME TableInv, TableInv', [Next]_vars, NEW id \in Ids, ~News(id)
      PROVE  ~(Risk(id)' < Risk(id))
  <2> DEFINE f == findings[id]
             g == findings'[id]
             a == findings[id].asset
  <2>1. Ids \subseteq Ids' /\ Kept(f, g)
    BY <1>1, NewsAreOfToday
  <2>2. /\ IsRow(f, clock) /\ IsRow(g, clock') /\ a \in Assets /\ g.asset = a
        /\ f.severity = g.severity /\ criticality[a] \in Criticality /\ criticality'[a] \in Criticality
        /\ f.epss \in {NoEpss} \cup 0..100 /\ g.epss \in {NoEpss} \cup 0..100
    <3>1. IsRow(f, clock) /\ IsRow(g, clock')
      BY <1>1, <2>1 DEF TableInv
    <3>2. criticality \in [Assets -> Criticality] /\ criticality' \in [Assets -> Criticality]
      BY <1>1 DEF TableInv
    <3>3. a = f.asset
      OBVIOUS
    <3> HIDE DEF f, g, a
    <3>4. a \in Assets /\ g.asset = a /\ f.severity = g.severity
      BY <2>1, <3>1, <3>3 DEF IsRow, Kept
    <3>5. f.epss \in {NoEpss} \cup 0..100 /\ g.epss \in {NoEpss} \cup 0..100
      BY <3>1 DEF IsRow
    <3> QED BY <3>1, <3>2, <3>4, <3>5
  <2>3. CRITICALITY_BONUS[criticality[a]] <= CRITICALITY_BONUS[criticality'[a]]
    <3>1. CRITICALITY_BONUS[criticality[a]] \in Int /\ CRITICALITY_BONUS[criticality'[a]] \in Int
      BY <2>2, TermsAre
    <3>2. ~(CRITICALITY_BONUS[criticality'[a]] < CRITICALITY_BONUS[criticality[a]])
      BY <1>1, <2>2
    <3> HIDE DEF a
    <3> QED BY <3>1, <3>2
  <2>4. f.epss <= g.epss /\ (f.kev => g.kev)
    <3>1. ASSUME NEW r \in Reports, Scan(r) PROVE f.epss <= g.epss /\ (f.kev => g.kev)
      <4>1. Rescanned(f, g)
        BY <1>1, <3>1, ScanRows
      <4>2. CASE g.epss = f.epss
        BY <2>2, <4>1, <4>2 DEF Rescanned, NoEpss
      <4>3. CASE f.cve # NoCve /\ g.epss = Published[clock].epss[f.cve] /\ g.epss # NoEpss
        <5>1. g.epss \notin 0..(f.epss - 1)
          BY <1>1, <4>3
        <5> DEFINE e == f.epss
                   h == g.epss
        <5>2. e \in -1..100 /\ h \in 0..100 /\ h \notin 0..(e - 1)
          <6>1. e \in {NoEpss} \cup 0..100 /\ h \in {NoEpss} \cup 0..100
            BY <2>2
          <6>2. h # NoEpss /\ h \notin 0..(e - 1)
            BY <4>3, <5>1
          <6> HIDE DEF e, h
          <6> QED BY <6>1, <6>2 DEF NoEpss
        <5>3. f.kev => g.kev
          BY <4>1 DEF Rescanned
        <5> HIDE DEF e, h
        <5>4. e <= h
          BY <5>2
        <5> QED BY <5>3, <5>4 DEF e, h
      <4> QED BY <4>1, <4>2, <4>3 DEF Rescanned
    <3>2. ASSUME NEW ids \in SUBSET Ids, NEW new \in Decisions, Triage(ids, new)
          PROVE  f.epss <= g.epss /\ (f.kev => g.kev)
      <4>1. g.epss = f.epss /\ g.kev = f.kev
        BY <1>1, <3>2, TriageRows
      <4> HIDE DEF f, g
      <4> QED BY <2>2, <4>1 DEF NoEpss
    <3>3. CASE UNCHANGED findings
      BY <2>2, <3>3 DEF NoEpss
    <3> QED BY <1>1, <3>1, <3>2, <3>3 DEF Next, SetCriticality, Later, vars
  <2>5. Risk(id) = risk_score(f, criticality[a]) /\ Risk(id)' = risk_score(g, criticality'[a])
    BY <2>2 DEF Risk
  <2> HIDE DEF f, g, a
  <2>6. /\ risk_score(f, criticality[a]) \in 0..100 /\ risk_score(g, criticality'[a]) \in 0..100
        /\ risk_score(f, criticality[a]) <= risk_score(g, criticality'[a])
    BY <2>2, <2>3, <2>4, RiskStays
  <2> QED BY <2>5, <2>6
<1>2. TableInv /\ TableInv' /\ [Next]_vars =>
        [\A id \in Ids : Risk(id)' < Risk(id) =>
           \/ LET a == findings[id].asset
              IN  CRITICALITY_BONUS[criticality[a]]' < CRITICALITY_BONUS[criticality[a]]
           \/ /\ findings[id].cve # NoCve
              /\ Published[clock].epss[findings[id].cve] \in 0..(findings[id].epss - 1)]_vars
  BY <1>1
<1> QED BY <1>2, TableInvariant, PTL DEF Spec, RiskFallsOnlyByNews
================================================================================
