----------------------------- MODULE TargetJobProofs -----------------------------
(***************************************************************************)
(* Proofs about the sessions and the job of scan_target, for any number of *)
(* requests, names, findings and scanners, any reports and any bounds.     *)
(***************************************************************************)
EXTENDS TargetJobRefinement, FiniteSetTheorems, WellFoundedInduction, TLAPS

--------------------------------------------------------------------------------
(* The sessions.                                                             *)

JobOps ==
  {[kind |-> "upload", name |-> Target.name]} \cup
  {[kind |-> "scan", scanner |-> sc, items |-> ReportOf[sc]] : sc \in Scanners}

Ops == {NoOp} \cup JobOps \cup UNION {OpsOf[r] : r \in Requests}

StatementsOf == [place : Nat, verb : {"insert", "update"}, key : Keys]

Changes == UNION {[F -> Statuses] : F \in SUBSET Fingerprints}

(* The place of a finding in the order of the primary keys.                  *)
Index(f) == CHOOSE i \in DOMAIN Findings : Findings[i] = f

Columns ==
  /\ Known \subseteq rows /\ rows \subseteq Keys
  /\ status \in [Fingerprints -> Statuses \cup {"absent"}]
  /\ op \in [Sessions -> Ops]
  /\ pc \in [Sessions -> {"idle", "writing", "saved", "raised", "closing", "over"}]
  /\ todo \in [Sessions -> SUBSET StatementsOf]
  /\ held \in [Sessions -> SUBSET Keys]
  /\ writes \in [Sessions -> Changes]
  /\ outcome \in [Sessions -> {"none", "done", "conflict", "duplicate", "deadlock",
                              "unsaved", "stopped"}]
  /\ loop \in [Loops -> Requests \cup {"none"}]
  /\ fails \in 0..MaxFail

Exclusive == \A s, t \in Sessions : s # t => held[s] \cap held[t] = {}

(* What a session does and where it is in it.                                *)
Progress(s) ==
  /\ s \in Requests => op[s].kind \in {"none", "create", "upload", "triage"}
  /\ pc[s] \in {"idle", "over"} => todo[s] = {} /\ held[s] = {}
  /\ pc[s] \in {"saved", "raised"} => todo[s] = {} /\ op[s].kind = "upload"
  /\ pc[s] = "closing" => op[s].kind = "scan"

(* Only the worker inserts findings, and nobody else writes a new one.       *)
Planned(s) ==
  \A x \in todo[s] :
    /\ x.verb = "update" => x.key \in rows \cap Fingerprints
    /\ x.verb = "insert" => \/ x.key \in Names /\ op[s].kind \in {"create", "upload"}
                            \/ x.key \in Fingerprints \ rows /\ s = Job

Written(s) ==
  \A k \in held[s] : /\ k \in Names => k \notin rows
                     /\ k \in Fingerprints => k \in rows \/ s = Job

(* A creation or an upload has one statement.                                *)
Single(s) ==
  op[s].kind \in {"create", "upload"} =>
    /\ todo[s] \subseteq {Insert(1, op[s].name)} /\ op[s].name \in Names
    /\ todo[s] # {} => held[s] = {}
    /\ op[s].kind = "create" /\ pc[s] = "writing" /\ todo[s] = {} => held[s] = {op[s].name}

(* The rows a flush has yet to update come after those it has updated.       *)
Ordered(s) ==
  pc[s] = "writing" =>
    \A x \in todo[s] : x.verb = "update" =>
      /\ x.place = Index(x.key)
      /\ \A k \in held[s] \cap rows : Index(k) < Index(x.key)

SessionInv(s) == Progress(s) /\ Planned(s) /\ Written(s) /\ Single(s) /\ Ordered(s)

(* A unique name is created once, and nobody is told of a row that is not    *)
(* there.                                                                    *)
Created ==
  /\ \A s \in Sessions : op[s].kind = "create" /\ outcome[s] \in {"done", "conflict", "duplicate"}
       => op[s].name \in rows
  /\ \A s \in Sessions : op[s].kind = "create" /\ outcome[s] = "done" => op[s].name \notin Known
  /\ \A s, t \in Sessions :
       /\ op[s].kind = "create" /\ outcome[s] = "done" /\ op[t].kind = "create"
       /\ outcome[t] = "done" /\ op[s].name = op[t].name
       => s = t

DbInv == Columns /\ Exclusive /\ (\A s \in Sessions : SessionInv(s)) /\ Created

--------------------------------------------------------------------------------
(* The job.                                                                  *)

Looping == at \in {"running", "ingesting", "ingested", "matching", "processing", "handling",
                   "notifying"}

Beginning == at \in {"queued", "started", "cloning", "giving up"}

JobColumns ==
  /\ at \in {"queued", "started", "cloning", "giving up", "choosing", "running", "ingesting",
             "ingested", "matching", "processing", "handling", "notifying", "over", "dead"}
  /\ left \subseteq Applicable /\ errors \subseteq Applicable \ left
  /\ scans \in [Listing -> {"none", "pending", "processing", "completed", "failed"}]
  /\ lastStatus \in {"none", "queued", "running", "success", "error"}
  /\ armed \in BOOLEAN /\ kills \in 0..MaxKill
  /\ Looping => left # {}

(* The worker's session is open while a report is ingested or processed.     *)
JobSession ==
  /\ at = "ingesting" => op[Job].kind = "upload" /\ pc[Job] \in {"writing", "saved"}
  /\ at = "processing" => op[Job].kind = "scan" /\ pc[Job] \in {"writing", "closing"}
  /\ at \notin {"ingesting", "processing"} => pc[Job] \in {"idle", "over"}

(* A scanner behind the job is in its errors or has a completed scan; those  *)
(* ahead have none, and the one at hand is where the job is.                 *)
ScansInv ==
  /\ Beginning => errors = {} /\ \A i \in Listing : scans[i] = "none"
  /\ at = "cloning" => left = Applicable
  /\ Looping \/ at = "choosing" =>
       /\ \A i \in Applicable \ left : scans[i] = "completed" <=> i \notin errors
       /\ \A i \in left : at \in {"choosing", "running", "ingesting"} \/ i # Current =>
            scans[i] = "none"
  /\ at = "ingested" => scans[Current] = "pending"
  /\ at \in {"matching", "processing"} => scans[Current] = "processing"
  /\ at = "notifying" => scans[Current] = "completed"
  /\ at = "handling" /\ armed => scans[Current] = "processing"

Leftovers == {i \in Listing : scans[i] \in {"pending", "processing"}}

Busy == IF at \in {"ingested", "matching", "processing", "handling"} THEN {Current} ELSE {}

Bounded == Cardinality(Leftovers \ Busy) <= kills + (IF armed THEN 0 ELSE 1)

EndInv ==
  /\ Bounded
  /\ at \notin {"queued", "over"} => lastStatus = "running"
  /\ at = "over" => lastStatus \in {"success", "error"}
  /\ SuccessMeansScanned

JobInv == JobColumns /\ JobSession /\ ScansInv /\ EndInv

--------------------------------------------------------------------------------
(* The least of some numbers, the first statement of a flush, the scanner at *)
(* hand, the primary key of a finding.                                       *)

LEMMA LeastExists ==
  ASSUME NEW S \in SUBSET Nat, S # {}
  PROVE  \E i \in S : \A j \in S : i <= j
<1>1. PICK i \in S : \A j \in S : <<j, i>> \notin OpToRel(<, Nat)
  BY NatLessThanWellFounded, WFMin, Zenon
<1>2. \A j \in S : ~(j < i)
  BY <1>1 DEF OpToRel
<1> QED BY <1>2

LEMMA Constants ==
  /\ Sessions = Requests \cup {Job} /\ Job \notin Requests /\ Job \in Workers
  /\ Names \cap Fingerprints = {} /\ Keys = Names \cup Fingerprints
  /\ Known \subseteq Keys /\ MaxFail \in Nat /\ MaxKill \in Nat
  /\ "none" \notin Sessions /\ Target.name \in Names
  /\ Workers = {Job}
BY TransactionsAssumption, TargetAssumption DEF Sessions, Keys

LEMMA FirstStatement ==
  ASSUME Columns, NEW s \in Sessions, todo[s] # {}
  PROVE  /\ Statement(s) \in todo[s] /\ Statement(s) \in StatementsOf
         /\ \A x \in todo[s] : Statement(s).place <= x.place
<1> DEFINE places == {x.place : x \in todo[s]}
<1>1. todo[s] \subseteq StatementsOf
  BY DEF Columns
<1>2. places \in SUBSET Nat /\ places # {}
  BY <1>1 DEF StatementsOf
<1>3. PICK n \in places : \A m \in places : n <= m
  BY <1>2, LeastExists
<1>4. \E x \in todo[s] : \A y \in todo[s] : x.place <= y.place
  BY <1>3
<1>5. Statement(s) \in todo[s] /\ \A x \in todo[s] : Statement(s).place <= x.place
  BY <1>4 DEF Statement
<1> QED BY <1>1, <1>5

LEMMA CurrentScan ==
  ASSUME left \subseteq Applicable, left # {}
  PROVE  Current \in left /\ Current \in Listing /\ CurrentScanner \in Scanners
<1>1. Listing \subseteq Nat /\ \A i \in Listing : Target.scanners[i] \in Scanners
  BY TargetAssumption DEF Listing
<1>2. left \subseteq Listing
  BY DEF Applicable
<1>3. \E i \in left : \A j \in left : i <= j
  BY <1>1, <1>2, LeastExists
<1>4. Current \in left
  BY <1>3 DEF Current
<1> QED BY <1>1, <1>2, <1>4 DEF CurrentScanner

LEMMA PrimaryKeys ==
  /\ \A i \in DOMAIN Findings : Findings[i] \in Fingerprints /\ Index(Findings[i]) = i
  /\ \A f \in Fingerprints : Index(f) \in Nat /\ Index(f) \in DOMAIN Findings
                             /\ Findings[Index(f)] = f
<1>1. /\ \A i \in DOMAIN Findings : Findings[i] \in Fingerprints /\ i \in Nat
      /\ \A i, j \in DOMAIN Findings : Findings[i] = Findings[j] => i = j
  BY TransactionsAssumption
<1>2. ASSUME NEW f \in Fingerprints PROVE Index(f) \in DOMAIN Findings /\ Findings[Index(f)] = f
  <2>1. \E i \in DOMAIN Findings : Findings[i] = f
    BY DEF Fingerprints
  <2> QED BY <2>1 DEF Index
<1>3. ASSUME NEW i \in DOMAIN Findings PROVE Index(Findings[i]) = i
  BY <1>1, <1>2
<1> QED BY <1>1, <1>2, <1>3

--------------------------------------------------------------------------------
(* What an operation leaves of the invariant of a session.                   *)

(* Rows committed by others change nothing for a session, as long as they    *)
(* are not the ones it holds, nor findings the worker is about to insert.    *)
LEMMA SessionStays ==
  ASSUME NEW s \in Sessions, SessionInv(s),
         op'[s] = op[s], pc'[s] = pc[s], todo'[s] = todo[s], held'[s] = held[s],
         rows \subseteq rows', held[s] \cap rows' \subseteq rows,
         s = Job => Fingerprints \cap rows' \subseteq rows
  PROVE  SessionInv(s)'
<1>1. Progress(s)'
  BY DEF SessionInv, Progress
<1>2. Planned(s)'
  BY DEF SessionInv, Planned
<1>3. Written(s)'
  BY DEF SessionInv, Written
<1>4. Single(s)'
  BY DEF SessionInv, Single
<1>5. Ordered(s)'
  <2>1. held[s] \cap rows' = held[s] \cap rows
    OBVIOUS
  <2> QED BY <2>1 DEF SessionInv, Ordered
<1> QED BY <1>1, <1>2, <1>3, <1>4, <1>5 DEF SessionInv

(* A session that is closed holds and plans nothing.                         *)
LEMMA SessionEnds ==
  ASSUME NEW s \in Sessions, pc'[s] = "over", todo'[s] = {}, held'[s] = {},
         s \in Requests => op'[s].kind \in {"none", "create", "upload", "triage"},
         op'[s].kind \in {"create", "upload"} => op'[s].name \in Names
  PROVE  SessionInv(s)'
BY DEF SessionInv, Progress, Planned, Written, Single, Ordered

LEMMA NoChange == <<>> \in Changes
<1>1. <<>> \in [{} -> Statuses]
  OBVIOUS
<1> QED BY <1>1 DEF Changes

(* The others hold what they held.                                           *)
LEMMA ExclusiveStays ==
  ASSUME Exclusive, NEW s \in Sessions, \A t \in Sessions : t # s => held'[t] \subseteq held[t],
         \A t \in Sessions : t # s => held'[s] \cap held[t] = {}
  PROVE  Exclusive'
BY DEF Exclusive

(* The end of a transaction that commits nothing.                            *)
LEMMA Ends ==
  ASSUME DbInv, NEW s \in Sessions,
         NEW how \in {"conflict", "duplicate", "deadlock", "unsaved", "stopped"},
         End(s, how), UNCHANGED <<rows, status, op>>, fails' \in 0..MaxFail,
         op[s].kind = "create" /\ how \in {"conflict", "duplicate"} => op[s].name \in rows
  PROVE  DbInv'
<1>1. Columns /\ Exclusive /\ (\A t \in Sessions : SessionInv(t)) /\ Created
  BY DEF DbInv
<1>2. /\ pc'[s] = "over" /\ todo'[s] = {} /\ held'[s] = {} /\ outcome'[s] = how
      /\ \A t \in Sessions : t # s =>
           /\ op'[t] = op[t] /\ pc'[t] = pc[t] /\ todo'[t] = todo[t] /\ held'[t] = held[t]
           /\ outcome'[t] = outcome[t]
  BY <1>1 DEF End, Columns
<1>3. Columns'
  <2>1. writes' \in [Sessions -> Changes]
    BY <1>1, NoChange DEF End, Columns
  <2>2. loop' \in [Loops -> Requests \cup {"none"}]
    BY <1>1 DEF End, LeaveLoop, Columns
  <2> QED BY <1>1, <2>1, <2>2 DEF End, Columns
<1>4. Exclusive'
  BY <1>1, <1>2, ExclusiveStays
<1>5. ASSUME NEW t \in Sessions PROVE SessionInv(t)'
  <2>1. CASE t = s
    <3>1. Progress(s) /\ Single(s)
      BY <1>1 DEF SessionInv
    <3> QED BY <1>2, <2>1, <3>1, SessionEnds DEF Progress, Single
  <2>2. CASE t # s
    BY <1>1, <1>2, <2>2, SessionStays
  <2> QED BY <2>1, <2>2
<1>6. Created'
  BY <1>1, <1>2 DEF Created
<1> QED BY <1>3, <1>4, <1>5, <1>6 DEF DbInv

LEMMA Violates ==
  ASSUME DbInv, NEW s \in Sessions, UniqueViolation(s)
  PROVE  DbInv'
<1>1. Columns /\ SessionInv(s)
  BY DEF DbInv
<1>2. Statement(s) \in todo[s] /\ Statement(s).key \in rows
  BY <1>1, FirstStatement DEF UniqueViolation, Taken
<1>3. op[s].kind = "create" => op[s].name \in rows
  BY <1>1, <1>2 DEF SessionInv, Single, Insert
<1>4. fails' \in 0..MaxFail
  BY <1>1 DEF UniqueViolation, Columns
<1> QED BY <1>3, <1>4, Ends DEF UniqueViolation

LEMMA IsVictim ==
  ASSUME DbInv, NEW s \in Sessions, Victim(s)
  PROVE  DbInv'
BY Ends DEF Victim, DbInv, Columns

LEMMA Closes ==
  ASSUME DbInv, NEW s \in Sessions, Close(s)
  PROVE  DbInv'
BY Ends DEF Close, DbInv, Columns

LEMMA SaveReportFails ==
  ASSUME DbInv, NEW s \in Sessions, SaveFails(s)
  PROVE  DbInv'
<1>1. Columns /\ Exclusive /\ (\A t \in Sessions : SessionInv(t)) /\ Created
  BY DEF DbInv
<1>2. fails' \in 0..MaxFail
  BY <1>1, Constants DEF SaveFails, Columns
<1>3. CASE End(s, "unsaved")
  BY <1>2, <1>3, Ends DEF SaveFails
<1>4. CASE /\ pc' = [pc EXCEPT ![s] = "raised"] /\ LeaveLoop(s)
           /\ UNCHANGED <<todo, held, writes, outcome>>
  <2>1. /\ UNCHANGED <<rows, status, op, todo, held, writes, outcome>>
        /\ op[s].kind = "upload" /\ todo[s] = {} /\ pc'[s] = "raised"
        /\ \A t \in Sessions : t # s => pc'[t] = pc[t]
    BY <1>1, <1>4 DEF SaveFails, Flushed, Columns
  <2>2. Columns'
    BY <1>1, <1>2, <1>4, <2>1 DEF LeaveLoop, Columns
  <2>3. ASSUME NEW t \in Sessions PROVE SessionInv(t)'
    <3>1. CASE t = s
      BY <1>1, <2>1, <3>1 DEF SessionInv, Progress, Planned, Written, Single, Ordered
    <3>2. CASE t # s
      BY <1>1, <2>1, <3>2, SessionStays
    <3> QED BY <3>1, <3>2
  <2> QED BY <1>1, <2>1, <2>2, <2>3 DEF DbInv, Exclusive, Created
<1> QED BY <1>3, <1>4 DEF SaveFails

LEMMA Saves ==
  ASSUME DbInv, NEW s \in Sessions, SaveReport(s)
  PROVE  DbInv'
<1>1. Columns /\ Exclusive /\ (\A t \in Sessions : SessionInv(t)) /\ Created
  BY DEF DbInv
<1>2. /\ UNCHANGED <<rows, status, op, todo, held, writes, outcome, loop, fails>>
      /\ op[s].kind = "upload" /\ todo[s] = {} /\ pc'[s] = "saved"
      /\ \A t \in Sessions : t # s => pc'[t] = pc[t]
  BY <1>1 DEF SaveReport, Flushed, Columns
<1>3. Columns'
  BY <1>1, <1>2 DEF SaveReport, Columns
<1>4. ASSUME NEW t \in Sessions PROVE SessionInv(t)'
  <2>1. CASE t = s
    BY <1>1, <1>2, <2>1 DEF SessionInv, Progress, Planned, Written, Single, Ordered
  <2>2. CASE t # s
    BY <1>1, <1>2, <2>2, SessionStays
  <2> QED BY <2>1, <2>2
<1> QED BY <1>1, <1>2, <1>3, <1>4 DEF DbInv, Exclusive, Created

(* A statement takes a lock nobody has, on a row that is there if it updates *)
(* it and that is not if it inserts it.                                      *)
LEMMA Writes ==
  ASSUME DbInv, NEW s \in Sessions, Write(s)
  PROVE  DbInv'
<1> DEFINE st == Statement(s)
<1>1. Columns /\ Exclusive /\ (\A t \in Sessions : SessionInv(t)) /\ Created
  BY DEF DbInv
<1>2. /\ st \in todo[s] /\ st \in StatementsOf /\ todo[s] \subseteq StatementsOf
      /\ \A x \in todo[s] : st.place <= x.place
  BY <1>1, FirstStatement DEF Write, Columns
<1>3. /\ UNCHANGED <<rows, status, op, pc, writes, outcome, loop, fails>>
      /\ pc[s] \in {"writing", "closing"}
      /\ held' = [held EXCEPT ![s] = @ \cup {st.key}]
      /\ todo' = [todo EXCEPT ![s] = @ \ {st}]
  BY DEF Write
<1>4. \A t \in Sessions : t # s => st.key \notin held[t]
  BY <1>2 DEF Write, Blocked, Rivals, HoldersOf
<1>5. st.verb = "insert" => st.key \notin rows
  BY DEF Write, Taken
<1> HIDE DEF st
<1>6. /\ held'[s] = held[s] \cup {st.key} /\ todo'[s] = todo[s] \ {st}
      /\ \A t \in Sessions : t # s => held'[t] = held[t] /\ todo'[t] = todo[t]
  BY <1>1, <1>3 DEF Columns
<1>7. /\ st.verb \in {"insert", "update"} /\ st.key \in Keys
      /\ st.verb = "update" => st.key \in rows \cap Fingerprints
      /\ st.verb = "insert" => \/ st.key \in Names /\ op[s].kind \in {"create", "upload"}
                               \/ st.key \in Fingerprints \ rows /\ s = Job
  BY <1>1, <1>2 DEF SessionInv, Planned, StatementsOf
<1>8. Columns'
  <2>1. held' \in [Sessions -> SUBSET Keys]
    BY <1>1, <1>3, <1>7 DEF Columns
  <2>2. todo' \in [Sessions -> SUBSET StatementsOf]
    BY <1>1, <1>3 DEF Columns
  <2> QED BY <1>1, <1>3, <2>1, <2>2 DEF Columns
<1>9. Exclusive'
  <2>1. \A t \in Sessions : t # s => held'[s] \cap held[t] = {}
    BY <1>1, <1>4, <1>6 DEF Exclusive
  <2> QED BY <1>1, <1>6, <2>1, ExclusiveStays
<1>10. SessionInv(s)'
  <2>1. Progress(s) /\ Planned(s) /\ Written(s) /\ Single(s) /\ Ordered(s)
    BY <1>1 DEF SessionInv
  <2>2. Progress(s)'
    BY <1>3, <2>1 DEF Progress
  <2>3. Planned(s)'
    BY <1>3, <1>6, <2>1 DEF Planned
  <2>4. Written(s)'
    BY <1>3, <1>5, <1>6, <1>7, <2>1, Constants DEF Written
  <2>5. Single(s)'
    <3>1. SUFFICES ASSUME op[s].kind \in {"create", "upload"}
                   PROVE  todo'[s] = {} /\ held'[s] = {op[s].name} /\ op[s].name \in Names
      BY <1>3 DEF Single
    <3>2. st = Insert(1, op[s].name) /\ todo[s] = {st} /\ held[s] = {} /\ op[s].name \in Names
      BY <1>2, <2>1, <3>1 DEF Single
    <3> QED BY <1>6, <3>2 DEF Insert
  <2>6. Ordered(s)'
    <3>1. SUFFICES ASSUME pc[s] = "writing", NEW x \in todo[s] \ {st}, x.verb = "update"
                   PROVE  /\ x.place = Index(x.key)
                          /\ \A k \in held'[s] \cap rows : Index(k) < Index(x.key)
      BY <1>3, <1>6 DEF Ordered
    <3>2. x.place = Index(x.key) /\ \A k \in held[s] \cap rows : Index(k) < Index(x.key)
      BY <2>1, <3>1 DEF Ordered
    <3>3. ASSUME st.key \in rows PROVE Index(st.key) < Index(x.key)
      <4>1. st.verb = "update" /\ st.key \in Fingerprints /\ x.key \in Fingerprints
        BY <1>5, <1>7, <2>1, <3>1, <3>3 DEF Planned
      <4>2. st.place = Index(st.key) /\ st.place <= x.place
        BY <1>2, <2>1, <3>1, <4>1 DEF Ordered
      <4>3. Index(st.key) \in Nat /\ Index(x.key) \in Nat
        BY <4>1, PrimaryKeys
      <4>4. Index(st.key) <= Index(x.key)
        BY <3>2, <4>2
      <4>5. Index(st.key) # Index(x.key)
        <5>1. SUFFICES ASSUME Index(st.key) = Index(x.key) PROVE st = x
          BY <3>1
        <5>2. st.key = x.key /\ st.place = x.place /\ st.verb = x.verb
          BY <3>1, <3>2, <4>1, <4>2, <5>1, PrimaryKeys
        <5> QED BY <1>2, <5>2 DEF StatementsOf
      <4> QED BY <4>3, <4>4, <4>5
    <3> QED BY <1>6, <3>2, <3>3
  <2> QED BY <2>2, <2>3, <2>4, <2>5, <2>6 DEF SessionInv
<1>11. ASSUME NEW t \in Sessions, t # s PROVE SessionInv(t)'
  BY <1>1, <1>3, <1>6, <1>11, SessionStays
<1> QED BY <1>1, <1>3, <1>8, <1>9, <1>10, <1>11 DEF DbInv, Created

LEMMA UpdatesAre ==
  ASSUME NEW ids, NEW x \in Updates(ids)
  PROVE  /\ x \in StatementsOf /\ x.verb = "update" /\ x.key \in ids \cap Fingerprints
         /\ x.place = Index(x.key)
<1>1. PICK i \in DOMAIN Findings : Findings[i] \in ids /\ x = Update(i, Findings[i])
  BY DEF Updates
<1>2. i \in Nat /\ Findings[i] \in Fingerprints /\ Index(Findings[i]) = i
  BY PrimaryKeys, TransactionsAssumption
<1> QED BY <1>1, <1>2, Constants DEF Update, StatementsOf

LEMMA ChangesAre ==
  /\ \A F \in SUBSET Fingerprints : [F -> Statuses] \subseteq Changes
  /\ \A w \in Changes : DOMAIN w \subseteq Fingerprints /\ \A f \in DOMAIN w : w[f] \in Statuses
BY DEF Changes

(* The stale query plans updates of rows that are there.                     *)
LEMMA ClosesStale ==
  ASSUME DbInv, NEW s \in Sessions, CloseStale(s)
  PROVE  DbInv'
<1>1. Columns /\ Exclusive /\ (\A t \in Sessions : SessionInv(t)) /\ Created
  BY DEF DbInv
<1>2. PICK stale \in SUBSET (rows \cap Fingerprints) :
        /\ todo' = [todo EXCEPT ![s] = Updates(stale)]
        /\ writes' = [writes EXCEPT ![s] =
             [f \in DOMAIN writes[s] \cup stale |-> IF f \in stale THEN "fixed" ELSE writes[s][f]]]
  BY DEF CloseStale
<1>3. /\ UNCHANGED <<rows, status, op, held, outcome, loop, fails>>
      /\ op[s].kind = "scan" /\ pc' = [pc EXCEPT ![s] = "closing"]
  BY DEF CloseStale
<1>4. /\ pc'[s] = "closing" /\ todo'[s] = Updates(stale)
      /\ \A t \in Sessions : t # s => pc'[t] = pc[t] /\ todo'[t] = todo[t]
  BY <1>1, <1>2, <1>3 DEF Columns
<1>5. Columns'
  <2>1. todo' \in [Sessions -> SUBSET StatementsOf]
    BY <1>1, <1>2, UpdatesAre DEF Columns
  <2>2. writes' \in [Sessions -> Changes]
    <3> DEFINE w == [f \in DOMAIN writes[s] \cup stale |->
                       IF f \in stale THEN "fixed" ELSE writes[s][f]]
    <3>1. writes[s] \in Changes
      BY <1>1 DEF Columns
    <3>2. /\ DOMAIN writes[s] \cup stale \in SUBSET Fingerprints
          /\ w \in [DOMAIN writes[s] \cup stale -> Statuses]
      <4>1. DOMAIN writes[s] \cup stale \in SUBSET Fingerprints
        BY <3>1, ChangesAre
      <4>2. \A f \in DOMAIN writes[s] : writes[s][f] \in Statuses
        BY <3>1, ChangesAre
      <4>3. "fixed" \in Statuses
        BY DEF Statuses
      <4> QED BY <4>1, <4>2, <4>3
    <3> HIDE DEF w
    <3>3. w \in Changes
      BY <3>2, ChangesAre
    <3>4. writes' = [writes EXCEPT ![s] = w]
      BY <1>2 DEF w
    <3> QED BY <1>1, <3>3, <3>4 DEF Columns
  <2> QED BY <1>1, <1>3, <2>1, <2>2 DEF Columns
<1>6. ASSUME NEW t \in Sessions PROVE SessionInv(t)'
  <2>1. CASE t = s
    <3>1. Progress(s) /\ Written(s)
      BY <1>1 DEF SessionInv
    <3>2. Planned(s)'
      <4>1. ASSUME NEW x \in Updates(stale)
            PROVE  x.verb = "update" /\ x.key \in rows \cap Fingerprints
        BY UpdatesAre
      <4> QED BY <1>3, <1>4, <4>1 DEF Planned
    <3>3. Progress(s)' /\ Written(s)' /\ Single(s)' /\ Ordered(s)'
      BY <1>3, <1>4, <3>1 DEF Progress, Written, Single, Ordered
    <3> QED BY <2>1, <3>2, <3>3 DEF SessionInv
  <2>2. CASE t # s
    BY <1>1, <1>3, <1>4, <2>2, SessionStays
  <2> QED BY <2>1, <2>2
<1> QED BY <1>1, <1>3, <1>5, <1>6 DEF DbInv, Exclusive, Created

(* What is committed was held by this session alone: its names are new, and  *)
(* its findings are, if it is the worker's.                                  *)
LEMMA IsCommitted ==
  ASSUME DbInv, NEW s \in Sessions, Commit(s)
  PROVE  DbInv'
<1>1. Columns /\ Exclusive /\ (\A t \in Sessions : SessionInv(t)) /\ Created
  BY DEF DbInv
<1>2. /\ UNCHANGED <<op, fails>> /\ rows' = rows \cup held[s]
      /\ pc'[s] = "over" /\ todo'[s] = {} /\ held'[s] = {} /\ outcome'[s] = "done"
      /\ \A t \in Sessions : t # s =>
           /\ pc'[t] = pc[t] /\ todo'[t] = todo[t] /\ held'[t] = held[t]
           /\ outcome'[t] = outcome[t]
  BY <1>1 DEF Commit, End, Columns
<1>3. Columns'
  <2>1. writes' \in [Sessions -> Changes]
    BY <1>1, NoChange DEF Commit, End, Columns
  <2>2. loop' \in [Loops -> Requests \cup {"none"}]
    BY <1>1 DEF Commit, End, LeaveLoop, Columns
  <2>3. status' \in [Fingerprints -> Statuses \cup {"absent"}]
    <3>1. writes[s] \in Changes
      BY <1>1 DEF Columns
    <3>2. \A f \in DOMAIN writes[s] : writes[s][f] \in Statuses
      BY <3>1, ChangesAre
    <3> QED BY <1>1, <3>2 DEF Commit, Columns
  <2>4. rows' \subseteq Keys
    BY <1>1, <1>2 DEF Columns
  <2>5. /\ pc' \in [Sessions -> {"idle", "writing", "saved", "raised", "closing", "over"}]
        /\ todo' \in [Sessions -> SUBSET StatementsOf]
        /\ held' \in [Sessions -> SUBSET Keys]
        /\ outcome' \in [Sessions -> {"none", "done", "conflict", "duplicate", "deadlock",
                              "unsaved", "stopped"}]
    BY <1>1 DEF Commit, End, Columns
  <2> QED BY <1>1, <1>2, <2>1, <2>2, <2>3, <2>4, <2>5 DEF Columns
<1>4. Exclusive'
  BY <1>1, <1>2, ExclusiveStays
<1>5. ASSUME NEW t \in Sessions PROVE SessionInv(t)'
  <2>1. CASE t = s
    <3>1. Progress(s) /\ Single(s)
      BY <1>1 DEF SessionInv
    <3> QED BY <1>2, <2>1, <3>1, SessionEnds DEF Progress, Single
  <2>2. CASE t # s
    <3>1. held[t] \cap rows' \subseteq rows
      BY <1>1, <1>2, <2>2 DEF Exclusive
    <3>2. t = Job => Fingerprints \cap rows' \subseteq rows
      BY <1>1, <1>2, <2>2 DEF SessionInv, Written
    <3> QED BY <1>1, <1>2, <2>2, <3>1, <3>2, SessionStays
  <2> QED BY <2>1, <2>2
<1>6. Created'
  <2>1. op[s].kind = "create" => op[s].name \in rows' \ rows
    <3>1. SUFFICES ASSUME op[s].kind = "create" PROVE op[s].name \in rows' \ rows
      OBVIOUS
    <3>2. pc[s] = "writing" /\ todo[s] = {}
      BY <3>1 DEF Commit, Ready
    <3>3. held[s] = {op[s].name} /\ op[s].name \in Names
      BY <1>1, <3>1, <3>2 DEF SessionInv, Single
    <3> QED BY <1>1, <1>2, <3>3 DEF SessionInv, Written
  <2>2. Known \subseteq rows
    BY <1>1 DEF Columns
  <2>3. \A t \in Sessions : op[t].kind = "create" /\ outcome'[t] \in {"done", "conflict", "duplicate"}
          => op[t].name \in rows'
    BY <1>1, <1>2, <2>1 DEF Created
  <2>4. \A t \in Sessions : op[t].kind = "create" /\ outcome'[t] = "done" => op[t].name \notin Known
    BY <1>1, <1>2, <2>1, <2>2 DEF Created
  <2>5. ASSUME NEW t \in Sessions, NEW u \in Sessions,
               op[t].kind = "create", outcome'[t] = "done", op[u].kind = "create",
               outcome'[u] = "done", op[t].name = op[u].name
        PROVE  t = u
    <3>1. \A v \in Sessions : op[v].kind = "create" /\ outcome[v] = "done" => op[v].name \in rows
      BY <1>1 DEF Created
    <3>2. CASE t = s \/ u = s
      BY <1>2, <2>1, <2>5, <3>1, <3>2
    <3>3. CASE t # s /\ u # s
      BY <1>1, <1>2, <2>5, <3>3 DEF Created
    <3> QED BY <3>2, <3>3
  <2> QED BY <1>2, <2>3, <2>4, <2>5 DEF Created
<1> QED BY <1>3, <1>4, <1>5, <1>6 DEF DbInv

(* The beginning of an operation, in a session that is not in one.           *)
LEMMA Plans ==
  ASSUME DbInv, NEW s \in Sessions, pc[s] \in {"idle", "over"},
         NEW o \in Ops, NEW X \in SUBSET StatementsOf, NEW w \in Changes, Plan(s, o, X, w),
         loop' \in [Loops -> Requests \cup {"none"}],
         s \in Requests => o.kind \in {"create", "upload", "triage"},
         o.kind \in {"create", "upload"} =>
           /\ o.name \in Names /\ X \subseteq {Insert(1, o.name)}
           /\ o.kind = "create" => X # {},
         \A x \in X :
           /\ x.verb = "update" =>
                /\ x.key \in rows \cap Fingerprints
                /\ x.place = Index(x.key)
           /\ x.verb = "insert" => \/ x.key \in Names /\ o.kind \in {"create", "upload"}
                                   \/ x.key \in Fingerprints \ rows /\ s = Job
  PROVE  DbInv'
<1>1. Columns /\ Exclusive /\ (\A t \in Sessions : SessionInv(t)) /\ Created
  BY DEF DbInv
<1>2. /\ UNCHANGED <<rows, status, held, fails>>
      /\ op'[s] = o /\ pc'[s] = "writing" /\ todo'[s] = X /\ outcome'[s] = "none"
      /\ \A t \in Sessions : t # s =>
           op'[t] = op[t] /\ pc'[t] = pc[t] /\ todo'[t] = todo[t] /\ outcome'[t] = outcome[t]
  BY <1>1 DEF Plan, Columns
<1>3. Columns'
  BY <1>1 DEF Plan, Columns
<1>4. ASSUME NEW t \in Sessions PROVE SessionInv(t)'
  <2>1. CASE t = s
    <3>1. held'[s] = {}
      BY <1>1, <1>2 DEF SessionInv, Progress
    <3>2. Progress(s)' /\ Written(s)' /\ Single(s)'
      BY <1>2, <3>1 DEF Progress, Written, Single
    <3>3. Planned(s)'
      BY <1>2 DEF Planned
    <3>4. Ordered(s)'
      BY <1>2, <3>1 DEF Ordered
    <3> QED BY <2>1, <3>2, <3>3, <3>4 DEF SessionInv
  <2>2. CASE t # s
    BY <1>1, <1>2, <2>2, SessionStays
  <2> QED BY <2>1, <2>2
<1>5. Created'
  BY <1>1, <1>2 DEF Created
<1> QED BY <1>1, <1>2, <1>3, <1>4, <1>5 DEF DbInv, Exclusive

(* An operation of a request.                                                *)
LEMMA RequestOps ==
  ASSUME NEW r \in Requests, NEW o \in OpsOf[r]
  PROVE  /\ o \in Ops /\ o.kind \in {"create", "upload", "triage"} /\ r \in Sessions /\ r # Job
         /\ o.kind \in {"create", "upload"} => o.name \in Names
         /\ o.kind = "triage" => o.ids \subseteq Fingerprints /\ o.status \in Statuses
BY TransactionsAssumption, Constants DEF Ops

LEMMA NameInserted ==
  ASSUME NEW n \in Names
  PROVE  {Insert(1, n)} \in SUBSET StatementsOf /\ Insert(1, n).verb = "insert"
         /\ Insert(1, n).key = n
BY Constants DEF Insert, StatementsOf

LEMMA Uploads ==
  ASSUME DbInv, NEW s \in Sessions, pc[s] \in {"idle", "over"}, NEW o \in Ops,
         o.name \in Names, Upload(s, o)
  PROVE  DbInv'
<1> DEFINE X == IF o.name \in rows THEN {} ELSE {Insert(1, o.name)}
<1>1. o.kind = "upload" /\ Plan(s, o, X, <<>>)
  BY DEF Upload
<1>2. loop' \in [Loops -> Requests \cup {"none"}]
  BY DEF Upload, DbInv, Columns
<1>3. /\ X \in SUBSET StatementsOf /\ X \subseteq {Insert(1, o.name)}
      /\ \A x \in X : x.verb = "insert" /\ x.key \in Names
  BY NameInserted
<1> HIDE DEF X
<1> QED BY <1>1, <1>2, <1>3, NoChange, Plans

LEMMA Begins ==
  ASSUME DbInv, NEW r \in Requests, Begin(r)
  PROVE  DbInv'
<1>1. Columns /\ Exclusive /\ (\A t \in Sessions : SessionInv(t)) /\ Created
  BY DEF DbInv
<1>2. PICK o \in OpsOf[r] : Create(r, o) \/ Refuse(r, o) \/ Upload(r, o) \/ Triage(r, o)
  BY DEF Begin
<1>3. /\ o \in Ops /\ o.kind \in {"create", "upload", "triage"} /\ r \in Sessions /\ r # Job
      /\ o.kind \in {"create", "upload"} => o.name \in Names
      /\ o.kind = "triage" => o.ids \subseteq Fingerprints /\ o.status \in Statuses
  BY RequestOps
<1>4. pc[r] = "idle"
  BY DEF Begin
<1>5. CASE Create(r, o)
  <2> DEFINE X == {Insert(1, o.name)}
  <2>1. o.kind = "create" /\ Plan(r, o, X, <<>>) /\ o.name \in Names
    BY <1>3, <1>5 DEF Create
  <2>2. loop' \in [Loops -> Requests \cup {"none"}]
    BY <1>1, <1>5 DEF Create, Columns
  <2>3. /\ X \in SUBSET StatementsOf /\ X # {}
        /\ \A x \in X : x.verb = "insert" /\ x.key \in Names
    BY <2>1, NameInserted
  <2>4. X \subseteq {Insert(1, o.name)}
    OBVIOUS
  <2> HIDE DEF X
  <2> QED BY <1>3, <1>4, <2>1, <2>2, <2>3, <2>4, NoChange, Plans
<1>6. CASE Refuse(r, o)
  <2>1. /\ UNCHANGED <<rows, status, fails>> /\ o.kind = "create" /\ o.name \in rows
        /\ op' = [op EXCEPT ![r] = o] /\ End(r, "conflict")
    BY <1>6 DEF Refuse
  <2>2. /\ pc'[r] = "over" /\ todo'[r] = {} /\ held'[r] = {} /\ outcome'[r] = "conflict"
        /\ op'[r] = o
        /\ \A t \in Sessions : t # r =>
             /\ op'[t] = op[t] /\ pc'[t] = pc[t] /\ todo'[t] = todo[t] /\ held'[t] = held[t]
             /\ outcome'[t] = outcome[t]
    BY <1>1, <1>3, <2>1 DEF End, Columns
  <2>3. Columns'
    <3>1. writes' \in [Sessions -> Changes]
      BY <1>1, <2>1, NoChange DEF End, Columns
    <3>2. loop' \in [Loops -> Requests \cup {"none"}]
      BY <1>1, <2>1 DEF End, LeaveLoop, Columns
    <3>3. /\ pc' \in [Sessions -> {"idle", "writing", "saved", "raised", "closing", "over"}]
          /\ todo' \in [Sessions -> SUBSET StatementsOf]
          /\ held' \in [Sessions -> SUBSET Keys]
          /\ outcome' \in [Sessions -> {"none", "done", "conflict", "duplicate", "deadlock",
                                "unsaved", "stopped"}]
      BY <1>1, <2>1 DEF End, Columns
    <3> QED BY <1>1, <1>3, <2>1, <3>1, <3>2, <3>3 DEF Columns
  <2>4. Exclusive'
    BY <1>1, <1>3, <2>2, ExclusiveStays
  <2>5. ASSUME NEW t \in Sessions PROVE SessionInv(t)'
    <3>1. CASE t = r
      BY <1>3, <2>2, <3>1, SessionEnds
    <3>2. CASE t # r
      BY <1>1, <2>1, <2>2, <3>2, SessionStays
    <3> QED BY <3>1, <3>2
  <2>6. Created'
    BY <1>1, <2>1, <2>2 DEF Created
  <2> QED BY <2>3, <2>4, <2>5, <2>6 DEF DbInv
<1>7. CASE Upload(r, o)
  <2>1. o.kind = "upload"
    BY <1>7 DEF Upload
  <2> QED BY <1>3, <1>4, <1>7, <2>1, Uploads
<1>8. CASE Triage(r, o)
  <2> DEFINE X == Updates(Touched(o))
             w == [f \in Changed(o) |-> o.status]
  <2>1. o.kind = "triage" /\ Plan(r, o, X, w) /\ o.ids \subseteq Fingerprints /\ o.status \in Statuses
    BY <1>3, <1>8 DEF Triage
  <2>2. Changed(o) \in SUBSET Fingerprints /\ Touched(o) \in SUBSET (rows \cap Fingerprints)
    BY <2>1 DEF Changed, Touched
  <2>3. loop' \in [Loops -> Requests \cup {"none"}]
    BY <1>1, <1>8 DEF Triage, Columns
  <2>4. w \in [Changed(o) -> Statuses]
    BY <2>1
  <2>5. ASSUME NEW x \in X
        PROVE  /\ x \in StatementsOf /\ x.verb = "update" /\ x.key \in rows \cap Fingerprints
               /\ x.place = Index(x.key)
    BY <2>2, UpdatesAre
  <2> HIDE DEF X, w
  <2>6. w \in Changes
    BY <2>2, <2>4, ChangesAre
  <2> QED BY <1>3, <1>4, <2>1, <2>3, <2>5, <2>6, Plans
<1> QED BY <1>2, <1>5, <1>6, <1>7, <1>8

(* The worker's scan: it updates the findings that are there, after which it *)
(* inserts the others.                                                       *)
LEMMA Scans ==
  ASSUME DbInv, pc[Job] \in {"idle", "over"}, NEW sc \in Scanners,
         Scan(Job, [kind |-> "scan", scanner |-> sc, items |-> ReportOf[sc]])
  PROVE  DbInv'
<1> DEFINE o == [kind |-> "scan", scanner |-> sc, items |-> ReportOf[sc]]
           known == Listed(o) \cap rows
           fresh == {i \in DOMAIN o.items : o.items[i] \notin rows}
           I == {Insert(Len(Findings) + i, o.items[i]) : i \in fresh}
           U == Updates(known)
           X == U \cup I
           w == [f \in {g \in Listed(o) : g \in known => status[g] = "fixed"} |-> "open"]
<1>1. o \in Ops /\ o.kind = "scan" /\ o.items = ReportOf[sc]
  BY DEF Ops, JobOps
<1>2. /\ o.items \in Seq(Fingerprints) /\ Len(Findings) \in Nat
      /\ \A i \in DOMAIN o.items : i \in Nat /\ o.items[i] \in Fingerprints
  BY TargetAssumption, TransactionsAssumption
<1>3. Plan(Job, o, X, w) /\ UNCHANGED loop
  BY DEF Scan
<1>4. Listed(o) \subseteq Fingerprints /\ known \in SUBSET (rows \cap Fingerprints)
  BY <1>2 DEF Listed
<1>5. ASSUME NEW x \in I
      PROVE  x \in StatementsOf /\ x.verb = "insert" /\ x.key \in Fingerprints \ rows
  BY <1>2, Constants DEF Insert, StatementsOf
<1>6. ASSUME NEW x \in U
      PROVE  /\ x \in StatementsOf /\ x.verb = "update" /\ x.key \in rows \cap Fingerprints
             /\ x.place = Index(x.key)
  BY <1>4, UpdatesAre
<1>7. w \in [{g \in Listed(o) : g \in known => status[g] = "fixed"} -> Statuses]
  BY DEF Statuses
<1>8. w \in Changes
  <2>1. {g \in Listed(o) : g \in known => status[g] = "fixed"} \in SUBSET Fingerprints
    BY <1>4
  <2> HIDE DEF w
  <2> QED BY <1>7, <2>1, ChangesAre
<1>9. X \in SUBSET StatementsOf
  BY <1>5, <1>6
<1>10. \A x \in X :
         /\ x.verb = "update" => /\ x.key \in rows \cap Fingerprints
                                 /\ x.place = Index(x.key)
         /\ x.verb = "insert" => x.key \in Fingerprints \ rows
  BY <1>5, <1>6
<1>11. loop' \in [Loops -> Requests \cup {"none"}]
  BY <1>3 DEF DbInv, Columns
<1> HIDE DEF o, w, X
<1> QED BY <1>1, <1>3, <1>8, <1>9, <1>10, <1>11, Constants, Plans

--------------------------------------------------------------------------------
(* The requests.                                                             *)

LEMMA DbStutters ==
  ASSUME DbInv, UNCHANGED dbVars
  PROVE  DbInv'
<1>1. Columns /\ Exclusive /\ (\A t \in Sessions : SessionInv(t)) /\ Created
  BY DEF DbInv
<1>2. UNCHANGED <<rows, status, op, pc, todo, held, writes, outcome, loop, fails>>
  BY DEF dbVars
<1>3. Columns'
  BY <1>1, <1>2 DEF Columns
<1>4. \A t \in Sessions : SessionInv(t)'
  BY <1>1, <1>2, SessionStays
<1> QED BY <1>1, <1>2, <1>3, <1>4 DEF DbInv, Exclusive, Created

LEMMA DbStarts ==
  ASSUME Init
  PROVE  DbInv
<1>1. \A s \in Sessions : /\ op[s] = NoOp /\ pc[s] = "idle" /\ todo[s] = {} /\ held[s] = {}
                          /\ writes[s] = <<>> /\ outcome[s] = "none" /\ NoOp.kind = "none"
  BY DEF Init, NoOp
<1>2. Columns
  <2>1. op \in [Sessions -> Ops]
    BY DEF Init, Ops
  <2>2. writes \in [Sessions -> Changes]
    BY NoChange DEF Init
  <2>3. status \in [Fingerprints -> Statuses \cup {"absent"}]
    BY DEF Init, Statuses
  <2>4. todo \in [Sessions -> SUBSET StatementsOf] /\ held \in [Sessions -> SUBSET Keys]
    BY DEF Init
  <2> QED BY <2>1, <2>2, <2>3, <2>4, Constants DEF Init, Columns
<1>3. \A s \in Sessions : SessionInv(s)
  BY <1>1 DEF SessionInv, Progress, Planned, Written, Single, Ordered
<1>4. Exclusive /\ Created
  BY <1>1 DEF Exclusive, Created
<1> QED BY <1>2, <1>3, <1>4 DEF DbInv

LEMMA Goes ==
  ASSUME DbInv, NEW r \in Requests, Begin(r) \/ Go(r)
  PROVE  DbInv' /\ op'[Job] = op[Job] /\ pc'[Job] = pc[Job]
<1>1. r \in Sessions /\ r # Job /\ Job \in Sessions
  BY Constants
<1>2. DbInv'
  BY <1>1, Begins, Writes, Violates, Saves, SaveReportFails, Closes, IsCommitted, IsVictim DEF Go
<1>3. op \in [Sessions -> Ops]
      /\ pc \in [Sessions -> {"idle", "writing", "saved", "raised", "closing", "over"}]
  BY DEF DbInv, Columns
<1>4. CASE Begin(r)
  <2>1. PICK o \in OpsOf[r] : Create(r, o) \/ Refuse(r, o) \/ Upload(r, o) \/ Triage(r, o)
    BY <1>4 DEF Begin
  <2>2. op' = [op EXCEPT ![r] = o]
    BY <2>1 DEF Create, Refuse, Upload, Triage, Plan
  <2>3. pc' = [pc EXCEPT ![r] = "writing"] \/ pc' = [pc EXCEPT ![r] = "over"]
    BY <2>1 DEF Create, Refuse, Upload, Triage, Plan, End
  <2> QED BY <1>1, <1>2, <1>3, <2>2, <2>3
<1>5. CASE Go(r)
  <2>1. op' = op
    BY <1>5 DEF Go, Write, UniqueViolation, SaveReport, SaveFails, Close, Commit, Victim
  <2>2. \/ pc' = pc \/ pc' = [pc EXCEPT ![r] = "saved"] \/ pc' = [pc EXCEPT ![r] = "raised"]
        \/ pc' = [pc EXCEPT ![r] = "over"]
    BY <1>5 DEF Go, Write, UniqueViolation, SaveReport, SaveFails, Close, Commit, Victim, End
  <2> QED BY <1>1, <1>2, <1>3, <2>1, <2>2
<1> QED BY <1>4, <1>5

--------------------------------------------------------------------------------
(* What the steps of the job leave of its invariant.                         *)

LEMMA LeftoversFinite ==
  ASSUME NEW S \in SUBSET Listing
  PROVE  IsFiniteSet(S) /\ Cardinality(S) \in Nat
<1>1. IsFiniteSet(Listing)
  <2>1. Listing = 1..Len(Target.scanners) /\ Len(Target.scanners) \in Nat
    BY TargetAssumption DEF Listing
  <2> QED BY <2>1, FS_Interval
<1> QED BY <1>1, FS_Subset, FS_CardinalityType

LEMMA BoundStays ==
  ASSUME Bounded, kills \in Nat, kills' = kills, armed' = armed \/ armed' = FALSE,
         Leftovers' \ Busy' \subseteq Leftovers \ Busy
  PROVE  Bounded'
<1> DEFINE A == Leftovers \ Busy
           B == Leftovers' \ Busy'
<1>1. A \in SUBSET Listing /\ B \in SUBSET A
  BY DEF Leftovers
<1>2. Cardinality(A) <= kills + (IF armed THEN 0 ELSE 1)
  BY DEF Bounded
<1>3. Bounded' <=> Cardinality(B) <= kills' + (IF armed' THEN 0 ELSE 1)
  BY DEF Bounded
<1> HIDE DEF A, B
<1>4. IsFiniteSet(A) /\ Cardinality(A) \in Nat
  BY <1>1, LeftoversFinite
<1>5. Cardinality(B) <= Cardinality(A) /\ Cardinality(B) \in Nat
  BY <1>1, <1>4, FS_Subset, FS_CardinalityType
<1>6. CASE armed' = armed
  <2>1. CASE armed
    BY <1>2, <1>3, <1>4, <1>5, <1>6, <2>1
  <2>2. CASE ~armed
    BY <1>2, <1>3, <1>4, <1>5, <1>6, <2>2
  <2> QED BY <2>1, <2>2
<1>7. CASE armed' = FALSE
  <2>1. Cardinality(A) <= kills + 1
    <3>1. CASE armed
      BY <1>2, <1>4, <3>1
    <3>2. CASE ~armed
      BY <1>2, <3>2
    <3> QED BY <3>1, <3>2
  <2> QED BY <1>3, <1>4, <1>5, <1>7, <2>1
<1> QED BY <1>6, <1>7

(* The timer and a death each leave a scan behind.                           *)
LEMMA BoundGrows ==
  ASSUME Bounded, NEW i, kills \in Nat,
         \/ armed /\ armed' = FALSE /\ kills' = kills
         \/ armed' = armed /\ kills' = kills + 1,
         Leftovers' \ Busy' \subseteq (Leftovers \ Busy) \cup {i}
  PROVE  Bounded'
<1> DEFINE A == Leftovers \ Busy
           B == Leftovers' \ Busy'
<1>1. A \in SUBSET Listing /\ B \in SUBSET (A \cup {i})
  BY DEF Leftovers
<1>2. Cardinality(A) <= kills + (IF armed THEN 0 ELSE 1)
  BY DEF Bounded
<1>3. Bounded' <=> Cardinality(B) <= kills' + (IF armed' THEN 0 ELSE 1)
  BY DEF Bounded
<1> HIDE DEF A, B
<1>4. IsFiniteSet(A) /\ Cardinality(A) \in Nat
  BY <1>1, LeftoversFinite
<1>5. /\ IsFiniteSet(A \cup {i}) /\ Cardinality(A \cup {i}) \in Nat
      /\ Cardinality(A \cup {i}) <= Cardinality(A) + 1
  <2>1. Cardinality(A \cup {i}) = IF i \in A THEN Cardinality(A) ELSE Cardinality(A) + 1
    BY <1>4, FS_AddElement
  <2>2. IsFiniteSet(A \cup {i})
    BY <1>4, FS_AddElement
  <2> QED BY <1>4, <2>1, <2>2
<1>6. Cardinality(B) <= Cardinality(A) + 1 /\ Cardinality(B) \in Nat
  <2>1. Cardinality(B) <= Cardinality(A \cup {i}) /\ Cardinality(B) \in Nat
    BY <1>1, <1>5, FS_Subset, FS_CardinalityType
  <2> QED BY <1>4, <1>5, <2>1
<1>7. CASE armed /\ armed' = FALSE /\ kills' = kills
  BY <1>2, <1>3, <1>4, <1>6, <1>7
<1>8. CASE armed' = armed /\ kills' = kills + 1
  <2>1. CASE armed
    BY <1>2, <1>3, <1>4, <1>6, <1>8, <2>1
  <2>2. CASE ~armed
    BY <1>2, <1>3, <1>4, <1>6, <1>8, <2>2
  <2> QED BY <2>1, <2>2
<1> QED BY <1>7, <1>8

LEMMA JobNumbers ==
  ASSUME JobColumns
  PROVE  kills \in Nat /\ kills \in 0..MaxKill /\ armed \in BOOLEAN /\ MaxKill \in Nat
<1>1. kills \in 0..MaxKill
  BY DEF JobColumns
<1>2. armed \in BOOLEAN
  BY DEF JobColumns
<1>3. MaxKill \in Nat
  BY Constants
<1>4. kills \in Nat
  BY <1>1, <1>3
<1> QED BY <1>1, <1>2, <1>3, <1>4

LEMMA EndStays ==
  ASSUME at' # "over", lastStatus' = "running", Bounded'
  PROVE  EndInv'
BY DEF EndInv, SuccessMeansScanned

(* A scanner that failed, whatever its scan has become unless it is          *)
(* completed.                                                                *)
LEMMA Catches ==
  ASSUME JobInv, Looping, Catch, UNCHANGED <<lastStatus, kills>>, armed' \in BOOLEAN,
         scans' \in [Listing -> {"none", "pending", "processing", "completed", "failed"}],
         \A i \in Listing : i # Current => scans'[i] = scans[i],
         scans'[Current] # "completed", pc'[Job] \in {"idle", "over"}, Bounded'
  PROVE  JobInv'
<1>1. JobColumns /\ JobSession /\ ScansInv /\ EndInv
  BY DEF JobInv
<1>2. Current \in left /\ Current \in Listing /\ Current \in Applicable
  BY <1>1, CurrentScan DEF JobColumns
<1>3. at' = "choosing" /\ left' = left \ {Current} /\ errors' = errors \cup {Current}
  BY DEF Catch, NextScanner
<1>4. JobColumns'
  BY <1>1, <1>2, <1>3 DEF JobColumns, Looping
<1>5. JobSession'
  BY <1>3 DEF JobSession
<1>6. ScansInv'
  <2>1. ASSUME NEW i \in Applicable \ left' PROVE scans'[i] = "completed" <=> i \notin errors'
    <3>1. i \in Listing
      BY DEF Applicable
    <3>2. CASE i = Current
      BY <1>3, <3>2
    <3>3. CASE i # Current
      BY <1>1, <1>3, <3>1, <3>3 DEF ScansInv
    <3> QED BY <3>2, <3>3
  <2>2. ASSUME NEW i \in left' PROVE scans'[i] = "none"
    <3>1. i \in left /\ i # Current /\ i \in Listing
      BY <1>1, <1>3 DEF JobColumns, Applicable
    <3> QED BY <1>1, <3>1 DEF ScansInv
  <2> QED BY <1>3, <2>1, <2>2 DEF ScansInv, Beginning, Looping
<1>7. EndInv'
  BY <1>1, <1>3, EndStays DEF EndInv, Looping
<1> QED BY <1>4, <1>5, <1>6, <1>7 DEF JobInv

--------------------------------------------------------------------------------
(* The steps of the job.                                                     *)

LEMMA BeginningSteps ==
  ASSUME JobInv, Start \/ Prepare \/ Clone \/ GiveUp
  PROVE  JobInv'
<1>1. JobColumns /\ JobSession /\ ScansInv /\ EndInv
  BY DEF JobInv
<1>2. UNCHANGED <<pc, op, errors, scans, armed, kills>>
  BY DEF Start, Prepare, Clone, GiveUp, dbVars
<1>3. /\ Beginning /\ errors = {} /\ \A i \in Listing : scans[i] = "none"
      /\ at \notin {"ingesting", "processing"} /\ kills \in Nat /\ Applicable \subseteq Listing
  <2>1. Beginning /\ at \notin {"ingesting", "processing"}
    BY DEF Start, Prepare, Clone, GiveUp, Beginning
  <2>2. errors = {} /\ \A i \in Listing : scans[i] = "none"
    BY <1>1, <2>1 DEF ScansInv
  <2> QED BY <1>1, <2>1, <2>2, JobNumbers DEF Applicable
<1>4. /\ at' \in {"started", "giving up", "cloning", "choosing", "over"}
      /\ at' \in {"started", "over"} => left' = left
      /\ at' = "cloning" => left' = Applicable
      /\ at' = "choosing" => left' = Applicable
      /\ left' = left \/ left' = Applicable
      /\ at' = "over" => lastStatus' = "error"
      /\ at' # "over" => lastStatus' = "running"
  <2>1. CASE Start
    BY <2>1 DEF Start
  <2>2. CASE Prepare
    <3>1. at' \in {"giving up", "cloning", "choosing"} /\ left' = Applicable
      BY <2>2 DEF Prepare
    <3> QED BY <1>1, <2>2, <3>1 DEF Prepare, EndInv
  <2>3. CASE Clone
    BY <1>1, <2>3 DEF Clone, ScansInv, EndInv
  <2>4. CASE GiveUp
    BY <2>4 DEF GiveUp
  <2> QED BY <2>1, <2>2, <2>3, <2>4
<1>5. JobColumns'
  BY <1>1, <1>2, <1>3, <1>4 DEF JobColumns, Looping
<1>6. JobSession'
  BY <1>1, <1>2, <1>3, <1>4 DEF JobSession
<1>7. ScansInv'
  BY <1>2, <1>3, <1>4 DEF ScansInv, Beginning, Looping
<1>8. EndInv'
  <2>1. Bounded'
    <3>1. Leftovers' \ Busy' \subseteq Leftovers \ Busy
      BY <1>2, <1>3, <1>4 DEF Leftovers, Busy, Beginning
    <3> QED BY <1>1, <1>2, <1>3, <3>1, BoundStays DEF EndInv
  <2>2. SuccessMeansScanned'
    BY <1>2, <1>3, <1>4 DEF SuccessMeansScanned
  <2> QED BY <1>4, <2>1, <2>2 DEF EndInv
<1> QED BY <1>5, <1>6, <1>7, <1>8 DEF JobInv

(* A scanner goes on: the list and the errors are what they were.            *)
LEMMA GoesOn ==
  ASSUME JobInv, left # {}, UNCHANGED <<left, errors, lastStatus, kills>>,
         armed' = armed \/ armed' = FALSE,
         Looping \/ at = "choosing", Looping',
         scans' \in [Listing -> {"none", "pending", "processing", "completed", "failed"}],
         \A i \in Listing : i # Current => scans'[i] = scans[i],
         at' \in {"running", "ingesting"} => scans'[Current] = "none",
         at' = "ingested" => scans'[Current] = "pending",
         at' \in {"matching", "processing"} => scans'[Current] = "processing",
         at' = "notifying" => scans'[Current] = "completed",
         at' = "handling" /\ armed' => scans'[Current] = "processing",
         at' = "ingesting" => op'[Job].kind = "upload" /\ pc'[Job] \in {"writing", "saved"},
         at' = "processing" => op'[Job].kind = "scan" /\ pc'[Job] \in {"writing", "closing"},
         at' \notin {"ingesting", "processing"} => pc'[Job] \in {"idle", "over"}
  PROVE  JobInv'
<1>1. JobColumns /\ JobSession /\ ScansInv /\ EndInv
  BY DEF JobInv
<1>2. Current' = Current
  BY DEF Current
<1>3. /\ Current \in left /\ Current \in Listing /\ Current \in Applicable
      /\ Applicable \subseteq Listing /\ left \subseteq Applicable
  BY <1>1, CurrentScan DEF JobColumns, Applicable
<1>4. /\ at' \in {"running", "ingesting", "ingested", "matching", "processing", "handling",
                  "notifying"}
      /\ at' # "over" /\ at \notin {"queued", "over"} /\ kills \in Nat
  BY <1>1, JobNumbers DEF Looping
<1>5. JobColumns'
  BY <1>1, <1>4 DEF JobColumns
<1>6. JobSession'
  BY DEF JobSession
<1>7. ScansInv'
  <2>1. \A i \in Applicable \ left : scans'[i] = "completed" <=> i \notin errors
    BY <1>1, <1>3 DEF ScansInv
  <2>2. \A i \in left : i # Current => scans'[i] = "none"
    BY <1>1, <1>3 DEF ScansInv
  <2>3. ~Beginning' /\ at' # "cloning"
    BY <1>4 DEF Beginning
  <2>4. \A i \in left' : at' \in {"choosing", "running", "ingesting"} \/ i # Current' =>
          scans'[i] = "none"
    BY <1>2, <1>4, <2>2
  <2> QED BY <1>2, <2>1, <2>3, <2>4 DEF ScansInv
<1>8. EndInv'
  <2>1. Leftovers' \ Busy' \subseteq Leftovers \ Busy
    <3>1. SUFFICES ASSUME NEW i \in Leftovers', i \notin Busy' PROVE i \in Leftovers \ Busy
      OBVIOUS
    <3>2. i \in Listing /\ scans'[i] \in {"pending", "processing"}
      BY <3>1 DEF Leftovers
    <3>3. CASE i = Current
      <4>1. at' = "notifying" \/ at' \in {"running", "ingesting"}
        BY <1>2, <1>4, <3>1, <3>3 DEF Busy
      <4> QED BY <3>2, <3>3, <4>1
    <3>4. CASE i # Current
      BY <3>2, <3>4 DEF Leftovers, Busy
    <3> QED BY <3>3, <3>4
  <2>2. Bounded'
    BY <1>1, <1>4, <2>1, BoundStays DEF EndInv
  <2> QED BY <1>1, <1>4, <2>2, EndStays DEF EndInv
<1> QED BY <1>5, <1>6, <1>7, <1>8 DEF JobInv

(* Where the job's session is after a call.                                  *)
LEMMA JobCalls ==
  ASSUME DbInv
  PROVE  /\ Job \in Sessions
         /\ \A how : End(Job, how) => pc'[Job] = "over"
         /\ \A o, X, w : Plan(Job, o, X, w) => pc'[Job] = "writing" /\ op'[Job] = o
         /\ \A st : pc' = [pc EXCEPT ![Job] = st] => pc'[Job] = st
<1>1. /\ Job \in Sessions /\ op \in [Sessions -> Ops]
      /\ pc \in [Sessions -> {"idle", "writing", "saved", "raised", "closing", "over"}]
  BY Constants DEF DbInv, Columns
<1> QED BY <1>1 DEF End, Plan

LEMMA MarkIs ==
  ASSUME JobColumns, left # {}, NEW st \in {"pending", "processing", "completed", "failed"}, Mark(st)
  PROVE  /\ scans' \in [Listing -> {"none", "pending", "processing", "completed", "failed"}]
         /\ scans'[Current] = st /\ \A i \in Listing : i # Current => scans'[i] = scans[i]
         /\ Current \in Listing
<1>1. Current \in Listing
  BY CurrentScan DEF JobColumns
<1> QED BY <1>1 DEF Mark, JobColumns

(* The scanner at hand is run, its report ingested and processed.            *)
LEMMA ScannerSteps ==
  ASSUME DbInv, JobInv,
         Choose \/ Ingest \/ Ingested \/ StartProcessing \/ Match \/ MatchFails \/ Execute \/ Publish
         \/ ScanFails
  PROVE  JobInv'
<1>1. JobColumns /\ JobSession /\ ScansInv
  BY DEF JobInv
<1>2. /\ left # {} /\ (Looping \/ at = "choosing") /\ scans \in [Listing ->
           {"none", "pending", "processing", "completed", "failed"}]
  BY <1>1 DEF JobColumns, Looping, Choose, Ingest, Ingested, StartProcessing, Match, MatchFails,
              Execute, Publish, ScanFails
<1>3. Current \in left
  BY <1>1, <1>2, CurrentScan DEF JobColumns
<1>4. CASE Choose
  <2>1. at' = "running" /\ at = "choosing" /\ UNCHANGED <<pc, op, scans, left, errors, lastStatus, kills, armed>>
    BY <1>4 DEF Choose, dbVars
  <2>2. scans[Current] = "none" /\ pc[Job] \in {"idle", "over"}
    BY <1>1, <1>3, <2>1 DEF ScansInv, JobSession
  <2> QED BY <1>2, <2>1, <2>2, GoesOn DEF Looping
<1>5. CASE Ingest
  <2>1. /\ at' = "ingesting" /\ at = "running"
        /\ UNCHANGED <<scans, left, errors, lastStatus, kills, armed>>
    BY <1>5 DEF Ingest
  <2>2. pc'[Job] = "writing" /\ op'[Job].kind = "upload"
    BY <1>5, JobCalls DEF Ingest, Upload
  <2>3. scans[Current] = "none"
    BY <1>1, <1>3, <2>1, <1>2 DEF ScansInv
  <2> QED BY <1>2, <2>1, <2>2, <2>3, GoesOn DEF Looping
<1>6. CASE Ingested
  <2>1. at' = "ingested" /\ Mark("pending") /\ UNCHANGED <<left, errors, lastStatus, kills, armed>>
    BY <1>6 DEF Ingested
  <2>2. pc'[Job] = "over"
    BY <1>6, JobCalls DEF Ingested, Commit
  <2> QED BY <1>1, <1>2, <2>1, <2>2, MarkIs, GoesOn DEF Looping
<1>7. CASE StartProcessing
  <2>1. /\ at' = "matching" /\ at = "ingested" /\ Mark("processing") /\ pc' = pc
        /\ UNCHANGED <<left, errors, lastStatus, kills, armed>>
    BY <1>7 DEF StartProcessing, dbVars
  <2>2. pc'[Job] \in {"idle", "over"}
    BY <1>1, <2>1 DEF JobSession
  <2> QED BY <1>1, <1>2, <2>1, <2>2, MarkIs, GoesOn DEF Looping
<1>8. CASE Match
  <2>1. /\ at' = "processing" /\ at = "matching"
        /\ UNCHANGED <<scans, left, errors, lastStatus, kills, armed>>
    BY <1>8 DEF Match
  <2>2. pc'[Job] = "writing" /\ op'[Job].kind = "scan"
    BY <1>8, JobCalls DEF Match, Scan
  <2>3. scans[Current] = "processing"
    BY <1>1, <2>1 DEF ScansInv
  <2> QED BY <1>2, <2>1, <2>2, <2>3, GoesOn DEF Looping
<1>9. CASE MatchFails
  <2>1. /\ at' = "handling" /\ at = "matching" /\ pc' = pc
        /\ UNCHANGED <<scans, left, errors, lastStatus, kills, armed>>
    BY <1>9 DEF MatchFails, dbVars
  <2>2. scans[Current] = "processing" /\ pc'[Job] \in {"idle", "over"}
    BY <1>1, <2>1 DEF ScansInv, JobSession
  <2> QED BY <1>2, <2>1, <2>2, GoesOn DEF Looping
<1>10. CASE Execute
  <2>1. /\ at' = at /\ at \in {"ingesting", "processing"} /\ op' = op
        /\ UNCHANGED <<scans, left, errors, lastStatus, kills, armed>>
    BY <1>10 DEF Execute, jobVars, Write, SaveReport, CloseStale
  <2>2. /\ at = "ingesting" => op[Job].kind = "upload" /\ pc[Job] \in {"writing", "saved"}
        /\ at = "processing" => op[Job].kind = "scan" /\ pc[Job] \in {"writing", "closing"}
    BY <1>1 DEF JobSession
  <2>3. \/ pc'[Job] = pc[Job]
        \/ op[Job].kind = "upload" /\ pc'[Job] = "saved"
        \/ op[Job].kind = "scan" /\ pc'[Job] = "closing"
    BY <1>10, JobCalls DEF Execute, Write, SaveReport, CloseStale
  <2>4. /\ at = "ingesting" => scans[Current] = "none"
        /\ at = "processing" => scans[Current] = "processing"
    BY <1>1, <1>2, <1>3 DEF ScansInv
  <2> QED BY <1>2, <2>1, <2>2, <2>3, <2>4, GoesOn DEF Looping
<1>11. CASE Publish
  <2>1. at' = "notifying" /\ Mark("completed") /\ UNCHANGED <<left, errors, lastStatus, kills, armed>>
    BY <1>11 DEF Publish
  <2>2. pc'[Job] = "over"
    BY <1>11, JobCalls DEF Publish, Commit
  <2> QED BY <1>1, <1>2, <2>1, <2>2, MarkIs, GoesOn DEF Looping
<1>12. CASE ScanFails
  <2>1. /\ at' = "handling" /\ at = "processing"
        /\ UNCHANGED <<scans, left, errors, lastStatus, kills, armed>>
    BY <1>12 DEF ScanFails
  <2>2. pc'[Job] = "over"
    BY <1>12, JobCalls DEF ScanFails, UniqueViolation, Victim
  <2>3. scans[Current] = "processing"
    BY <1>1, <2>1 DEF ScansInv
  <2> QED BY <1>2, <2>1, <2>2, <2>3, GoesOn DEF Looping
<1> QED BY <1>4, <1>5, <1>6, <1>7, <1>8, <1>9, <1>10, <1>11, <1>12

(* The job dies: nothing is written, and the scan at hand may be left as it  *)
(* is.                                                                       *)
LEMMA Dies ==
  ASSUME JobInv, at \notin {"queued", "over"}, Dead, UNCHANGED <<scans, lastStatus>>,
         \/ armed /\ armed' = FALSE /\ kills' = kills
         \/ armed' = armed /\ kills' = kills + 1 /\ kills < MaxKill,
         pc'[Job] \in {"idle", "over"}
  PROVE  JobInv'
<1>1. JobColumns /\ EndInv /\ at' = "dead" /\ left' = {} /\ errors' = errors
  BY DEF JobInv, Dead
<1>2. kills \in Nat /\ kills \in 0..MaxKill /\ armed \in BOOLEAN /\ MaxKill \in Nat
  BY <1>1, JobNumbers
<1>3. armed' \in BOOLEAN /\ kills' \in 0..MaxKill
  <2>1. armed' \in BOOLEAN
    BY <1>2
  <2>2. kills' \in 0..MaxKill
    BY <1>2
  <2> QED BY <2>1, <2>2
<1>4. JobColumns'
  BY <1>1, <1>3 DEF JobColumns, Looping
<1>5. JobSession' /\ ScansInv'
  BY <1>1 DEF JobSession, ScansInv, Beginning, Looping
<1>6. Leftovers' \ Busy' \subseteq (Leftovers \ Busy) \cup {Current}
  BY <1>1 DEF Leftovers, Busy
<1>7. Bounded'
  BY <1>1, <1>2, <1>6, BoundGrows DEF EndInv
<1> QED BY <1>1, <1>4, <1>5, <1>7, EndStays DEF EndInv, JobInv

LEMMA Killed ==
  ASSUME DbInv, JobInv, Kill
  PROVE  JobInv'
BY Dies, JobCalls DEF Kill

(* The scans that are left behind when a scanner fails.                      *)
LEMMA FailureIsCounted ==
  ASSUME JobColumns, Bounded, UNCHANGED kills, at' = "choosing",
         \/ armed' = armed /\ Leftovers' \subseteq Leftovers \ Busy
         \/ armed /\ armed' = FALSE /\ Leftovers' = Leftovers
  PROVE  Bounded'
<1>1. kills \in Nat /\ Busy' = {}
  BY JobNumbers DEF Busy
<1>2. CASE armed' = armed /\ Leftovers' \subseteq Leftovers \ Busy
  BY <1>1, <1>2, BoundStays
<1>3. CASE armed /\ armed' = FALSE /\ Leftovers' = Leftovers
  <2>1. Leftovers' \ Busy' \subseteq (Leftovers \ Busy) \cup {Current}
    BY <1>1, <1>3 DEF Busy
  <2> QED BY <1>1, <1>3, <2>1, BoundGrows
<1> QED BY <1>2, <1>3

(* The scanner at hand fails, and the loop goes on.                          *)
LEMMA ScannerIsCaught ==
  ASSUME DbInv, JobInv, ScannerFails \/ IngestFails \/ Handle
  PROVE  JobInv'
<1>1. JobColumns /\ JobSession /\ ScansInv /\ EndInv
  BY DEF JobInv
<1>2. /\ Looping /\ Catch /\ UNCHANGED <<lastStatus, kills, armed>> /\ at' = "choosing"
      /\ at \in {"running", "ingesting", "handling"}
  BY DEF ScannerFails, IngestFails, Handle, Looping, Catch, NextScanner
<1>3. left # {} /\ Current \in left /\ Current \in Listing /\ armed \in BOOLEAN
  BY <1>1, <1>2, CurrentScan DEF JobColumns
<1>4. pc'[Job] \in {"idle", "over"}
  <2>1. CASE ScannerFails \/ Handle
    BY <1>1, <2>1 DEF ScannerFails, Handle, JobSession, dbVars
  <2>2. CASE IngestFails
    <3>1. UniqueViolation(Job) => pc'[Job] = "over"
      BY JobCalls DEF UniqueViolation
    <3>2. SaveFails(Job) => pc'[Job] = "over"
      BY JobCalls, Constants DEF SaveFails
    <3> QED BY <2>2, <3>1, <3>2 DEF IngestFails
  <2> QED BY <2>1, <2>2
<1>5. CASE ScannerFails \/ IngestFails
  <2>1. scans' = scans /\ at \in {"running", "ingesting"}
    BY <1>5 DEF ScannerFails, IngestFails
  <2>2. scans[Current] = "none"
    BY <1>1, <1>2, <1>3, <2>1 DEF ScansInv
  <2>3. Leftovers' \subseteq Leftovers \ Busy
    BY <2>1 DEF Leftovers, Busy
  <2>4. Bounded'
    BY <1>1, <1>2, <2>3, FailureIsCounted DEF EndInv
  <2> QED BY <1>1, <1>2, <1>3, <1>4, <2>1, <2>2, <2>4, Catches DEF JobColumns
<1>6. CASE Handle
  <2>1. Mark("failed") /\ at = "handling"
    BY <1>6 DEF Handle
  <2>2. /\ scans' \in [Listing -> {"none", "pending", "processing", "completed", "failed"}]
        /\ scans'[Current] = "failed" /\ \A i \in Listing : i # Current => scans'[i] = scans[i]
    BY <1>1, <1>3, <2>1, MarkIs
  <2>3. Leftovers' \subseteq Leftovers \ Busy
    BY <2>1, <2>2 DEF Leftovers, Busy
  <2>4. Bounded'
    BY <1>1, <1>2, <2>3, FailureIsCounted DEF EndInv
  <2> QED BY <1>2, <1>3, <1>4, <2>2, <2>4, Catches
<1> QED BY <1>5, <1>6

LEMMA Notified ==
  ASSUME JobInv, Notify
  PROVE  JobInv'
<1>1. JobColumns /\ JobSession /\ ScansInv /\ EndInv
  BY DEF JobInv
<1>2. /\ at = "notifying" /\ at' = "choosing" /\ left' = left \ {Current}
      /\ UNCHANGED <<pc, errors, scans, lastStatus, armed, kills>>
  BY DEF Notify, NextScanner, dbVars
<1>3. Looping /\ left # {}
  BY <1>1, <1>2 DEF JobColumns, Looping
<1>4. Current \in left /\ Current \in Listing /\ Current \in Applicable /\ kills \in Nat
      /\ left \subseteq Applicable /\ errors \subseteq Applicable \ left /\ Applicable \subseteq Listing
  BY <1>1, <1>3, CurrentScan, JobNumbers DEF JobColumns, Applicable
<1>5. JobColumns'
  BY <1>1, <1>2, <1>4 DEF JobColumns, Looping
<1>6. JobSession'
  BY <1>1, <1>2 DEF JobSession
<1>7. ScansInv'
  <2>1. ASSUME NEW i \in Applicable \ left' PROVE scans[i] = "completed" <=> i \notin errors
    <3>1. CASE i = Current
      BY <1>1, <1>2, <1>4, <3>1 DEF ScansInv
    <3>2. CASE i # Current
      BY <1>1, <1>2, <1>3, <3>2 DEF ScansInv
    <3> QED BY <3>1, <3>2
  <2>2. ASSUME NEW i \in left' PROVE scans[i] = "none"
    <3>1. i \in left /\ i # Current /\ i \in Listing
      BY <1>2, <1>4
    <3> QED BY <1>1, <1>3, <3>1 DEF ScansInv
  <2> QED BY <1>2, <2>1, <2>2 DEF ScansInv, Beginning, Looping
<1>8. EndInv'
  <2>1. Leftovers' \ Busy' \subseteq Leftovers \ Busy
    BY <1>2 DEF Leftovers, Busy
  <2>2. Bounded'
    BY <1>1, <1>2, <1>4, <2>1, BoundStays DEF EndInv
  <2> QED BY <1>1, <1>2, <2>2, EndStays DEF EndInv
<1> QED BY <1>5, <1>6, <1>7, <1>8 DEF JobInv

LEMMA Finishes ==
  ASSUME JobInv, Finish
  PROVE  JobInv'
<1>1. JobColumns /\ JobSession /\ ScansInv /\ EndInv
  BY DEF JobInv
<1>2. /\ at = "choosing" /\ left = {} /\ at' = "over"
      /\ lastStatus' = IF errors = {} THEN "success" ELSE "error"
      /\ UNCHANGED <<pc, left, errors, scans, armed, kills>>
  BY DEF Finish, dbVars
<1>3. JobColumns'
  BY <1>1, <1>2 DEF JobColumns, Looping
<1>4. JobSession' /\ ScansInv'
  BY <1>1, <1>2 DEF JobSession, ScansInv, Beginning, Looping
<1>5. \A i \in Applicable : scans[i] = "completed" <=> i \notin errors
  BY <1>1, <1>2 DEF ScansInv
<1>6. SuccessMeansScanned'
  <2>1. errors \subseteq Applicable
    BY <1>1 DEF JobColumns
  <2> QED BY <1>2, <1>5, <2>1 DEF SuccessMeansScanned
<1>7. Bounded'
  <2>1. Leftovers' \ Busy' \subseteq Leftovers \ Busy
    BY <1>2 DEF Leftovers, Busy
  <2> QED BY <1>1, <1>2, <2>1, BoundStays, JobNumbers DEF EndInv
<1> QED BY <1>2, <1>3, <1>4, <1>6, <1>7 DEF EndInv, JobInv

(* The timer, wherever it finds the job.                                     *)
LEMMA TimerIsCaught ==
  ASSUME DbInv, JobInv, TimerFires
  PROVE  JobInv'
<1>1. JobColumns /\ JobSession /\ ScansInv /\ EndInv
  BY DEF JobInv
<1>2. armed /\ armed' = FALSE /\ UNCHANGED <<lastStatus, kills>> /\ kills \in Nat /\ scans' = scans
  BY <1>1, JobNumbers DEF TimerFires, TimerFailsJob, TimerFailsClone, TimerFailsScanner,
                          TimerFailsScan, TimerSwallowed
<1>3. Looping => left # {} /\ Current \in left /\ Current \in Listing
  BY <1>1, CurrentScan DEF JobColumns
<1>4. scans \in [Listing -> {"none", "pending", "processing", "completed", "failed"}]
  BY <1>1 DEF JobColumns
<1>5. CASE TimerFailsJob
  <2>1. at \in {"started", "choosing", "giving up"} /\ Dead /\ pc' = pc
    BY <1>5 DEF TimerFailsJob, dbVars
  <2>2. pc'[Job] \in {"idle", "over"}
    BY <1>1, <2>1 DEF JobSession
  <2> QED BY <1>2, <2>1, <2>2, Dies
<1>6. CASE TimerFailsClone
  <2>1. /\ at = "cloning" /\ at' = "giving up" /\ UNCHANGED <<pc, left, errors, scans>>
    BY <1>6 DEF TimerFailsClone, dbVars
  <2>2. Leftovers' \ Busy' \subseteq Leftovers \ Busy
    BY <2>1 DEF Leftovers, Busy
  <2>3. Bounded'
    BY <1>1, <1>2, <2>2, BoundStays DEF EndInv
  <2>4. JobColumns'
    BY <1>1, <1>2, <2>1 DEF JobColumns, Looping
  <2>5. JobSession' /\ ScansInv'
    BY <1>1, <2>1 DEF JobSession, ScansInv, Beginning, Looping
  <2>6. EndInv'
    BY <1>1, <1>2, <2>1, <2>3, EndStays DEF EndInv
  <2> QED BY <2>4, <2>5, <2>6 DEF JobInv
<1>7. CASE TimerFailsScanner
  <2>1. /\ at \in {"running", "ingested", "handling", "ingesting"} /\ Catch /\ at' = "choosing"
        /\ Looping
    BY <1>7 DEF TimerFailsScanner, Catch, NextScanner, Looping
  <2>2. pc'[Job] \in {"idle", "over"}
    <3>1. CASE at = "ingesting"
      BY <1>7, <3>1, JobCalls DEF TimerFailsScanner
    <3>2. CASE at # "ingesting"
      BY <1>1, <1>7, <2>1, <3>2 DEF TimerFailsScanner, JobSession, dbVars
    <3> QED BY <3>1, <3>2
  <2>3. Leftovers' = Leftovers
    BY <1>2 DEF Leftovers
  <2>4. Bounded'
    BY <1>1, <1>2, <2>1, <2>3, FailureIsCounted DEF EndInv
  <2>5. scans[Current] # "completed"
    BY <1>1, <1>2, <1>3, <2>1 DEF ScansInv
  <2> QED BY <1>2, <1>4, <2>1, <2>2, <2>4, <2>5, Catches
<1>8. CASE TimerFailsScan
  <2>1. /\ at \in {"matching", "notifying", "processing"} /\ at' = "handling"
        /\ UNCHANGED <<left, errors>> /\ Looping /\ Looping'
    BY <1>8 DEF TimerFailsScan, Looping
  <2>2. pc'[Job] \in {"idle", "over"}
    <3>1. CASE at = "processing"
      BY <1>8, <3>1, JobCalls DEF TimerFailsScan
    <3>2. CASE at # "processing"
      BY <1>1, <1>8, <2>1, <3>2 DEF TimerFailsScan, JobSession, dbVars
    <3> QED BY <3>1, <3>2
  <2> QED BY <1>2, <1>3, <1>4, <2>1, <2>2, GoesOn
<1>9. CASE TimerSwallowed
  <2>1. /\ at \in {"processing", "notifying"} /\ UNCHANGED <<pc, op, at, left, errors>>
        /\ Looping /\ Looping'
    BY <1>9 DEF TimerSwallowed, Looping, dbVars
  <2>2. /\ at = "processing" => /\ op[Job].kind = "scan" /\ pc[Job] \in {"writing", "closing"}
                                /\ scans[Current] = "processing"
        /\ at = "notifying" => pc[Job] \in {"idle", "over"} /\ scans[Current] = "completed"
    BY <1>1 DEF JobSession, ScansInv
  <2> QED BY <1>2, <1>3, <1>4, <2>1, <2>2, GoesOn
<1> QED BY <1>5, <1>6, <1>7, <1>8, <1>9 DEF TimerFires

--------------------------------------------------------------------------------
(* Every step of the job keeps the sessions' invariant.                      *)

LEMMA StoppedEnds ==
  ASSUME DbInv, End(Job, "stopped"), UNCHANGED <<rows, status, op, fails>>
  PROVE  DbInv'
<1>1. Job \in Sessions /\ fails' \in 0..MaxFail
  BY Constants DEF DbInv, Columns
<1> QED BY <1>1, Ends

LEMMA StepsKeepSessions ==
  ASSUME DbInv, JobInv, Step
  PROVE  DbInv'
<1>1. Job \in Sessions /\ Target.name \in Names /\ JobSession /\ JobColumns
  BY Constants DEF JobInv
<1>2. CASE Start \/ Prepare \/ Clone \/ GiveUp \/ Choose \/ ScannerFails \/ StartProcessing
           \/ MatchFails \/ Notify \/ Handle \/ Finish
  <2>1. UNCHANGED dbVars
    BY <1>2 DEF Start, Prepare, Clone, GiveUp, Choose, ScannerFails, StartProcessing,
                MatchFails, Notify, Handle, Finish
  <2> QED BY <2>1, DbStutters
<1>3. CASE Ingest
  <2> DEFINE o == [kind |-> "upload", name |-> Target.name]
  <2>1. o \in Ops /\ o.name \in Names
    BY <1>1 DEF Ops, JobOps
  <2>2. pc[Job] \in {"idle", "over"} /\ Upload(Job, o)
    BY <1>1, <1>3 DEF Ingest, JobSession
  <2> HIDE DEF o
  <2> QED BY <1>1, <2>1, <2>2, Uploads
<1>4. CASE Ingested \/ Publish
  BY <1>1, <1>4, IsCommitted DEF Ingested, Publish
<1>5. CASE IngestFails
  BY <1>1, <1>5, Violates, SaveReportFails DEF IngestFails
<1>6. CASE Match
  <2>1. at = "matching" /\ left # {}
    BY <1>1, <1>6 DEF Match, JobColumns, Looping
  <2>2. CurrentScanner \in Scanners
    BY <1>1, <2>1, CurrentScan DEF JobColumns
  <2>3. pc[Job] \in {"idle", "over"}
    BY <1>1, <2>1 DEF JobSession
  <2> QED BY <1>6, <2>2, <2>3, Scans DEF Match
<1>7. CASE Execute
  BY <1>1, <1>7, Writes, Saves, ClosesStale DEF Execute
<1>8. CASE ScanFails
  BY <1>1, <1>8, Violates, IsVictim DEF ScanFails
<1> QED BY <1>2, <1>3, <1>4, <1>5, <1>6, <1>7, <1>8 DEF Step

LEMMA InterruptionsKeepSessions ==
  ASSUME DbInv, TimerFires \/ Kill
  PROVE  DbInv'
<1>1. UNCHANGED dbVars \/ (End(Job, "stopped") /\ UNCHANGED <<rows, status, op, fails>>)
  BY DEF TimerFires, TimerFailsJob, TimerFailsClone, TimerFailsScanner, TimerFailsScan,
         TimerSwallowed, Kill
<1> QED BY <1>1, DbStutters, StoppedEnds

LEMMA JobStarts ==
  ASSUME JobInit
  PROVE  JobInv
<1>1. /\ at = "queued" /\ left = {} /\ errors = {} /\ armed = TRUE /\ kills = 0
      /\ lastStatus \in {"none", "queued", "running", "success", "error"}
      /\ scans = [i \in Listing |-> "none"]
  BY DEF JobInit
<1>2. JobColumns
  BY <1>1, Constants DEF JobColumns, Looping
<1>3. JobSession
  BY <1>1, Constants DEF JobSession, JobInit, Init
<1>4. ScansInv
  BY <1>1 DEF ScansInv, Beginning, Looping
<1>5. EndInv
  <2>1. Leftovers = {}
    BY <1>1 DEF Leftovers
  <2>2. Leftovers \ Busy = {}
    BY <2>1
  <2>3. Cardinality(Leftovers \ Busy) = 0
    BY <2>2, FS_EmptySet
  <2>4. Bounded
    BY <1>1, <2>3 DEF Bounded
  <2> QED BY <1>1, <2>4 DEF EndInv, SuccessMeansScanned
<1> QED BY <1>2, <1>3, <1>4, <1>5 DEF JobInv

(* While the job does nothing, only the sessions of the requests move.       *)
LEMMA JobStays ==
  ASSUME JobInv, UNCHANGED jobVars, op'[Job] = op[Job], pc'[Job] = pc[Job]
  PROVE  JobInv'
<1>1. UNCHANGED <<at, left, errors, scans, lastStatus, armed, kills>>
  BY DEF jobVars
<1>2. Current' = Current
  BY <1>1 DEF Current
<1>3. JobColumns' /\ JobSession'
  BY <1>1 DEF JobInv, JobColumns, JobSession, Looping
<1>4. ScansInv'
  BY <1>1, <1>2 DEF JobInv, ScansInv, Beginning, Looping
<1>5. EndInv'
  <2>1. Leftovers' = Leftovers /\ Busy' = Busy
    BY <1>1, <1>2 DEF Leftovers, Busy
  <2> QED BY <1>1, <2>1 DEF JobInv, EndInv, Bounded, SuccessMeansScanned
<1> QED BY <1>3, <1>4, <1>5 DEF JobInv

(* The statements, locks and rows of the sessions and the books of the job   *)
(* agree in every state: the inductive invariant of the transactions and of  *)
(* scan_target among them.                                                   *)
THEOREM JobAmongSessions == Spec => [](DbInv /\ JobInv)
<1>1. JobInit => DbInv /\ JobInv
  BY DbStarts, JobStarts DEF JobInit
<1>2. ASSUME DbInv, JobInv, [Next]_vars
      PROVE  DbInv' /\ JobInv'
  <2>1. ASSUME NEW r \in Requests, Others(r) PROVE DbInv' /\ JobInv'
    <3>1. (Begin(r) \/ Go(r)) /\ UNCHANGED jobVars
      BY <2>1 DEF Others
    <3>2. DbInv' /\ op'[Job] = op[Job] /\ pc'[Job] = pc[Job]
      BY <1>2, <3>1, Goes
    <3> QED BY <1>2, <3>1, <3>2, JobStays
  <2>2. CASE Step
    <3>1. DbInv'
      BY <1>2, <2>2, StepsKeepSessions
    <3>2. JobInv'
      BY <1>2, <2>2, BeginningSteps, ScannerSteps, ScannerIsCaught, Notified, Finishes DEF Step
    <3> QED BY <3>1, <3>2
  <2>3. CASE TimerFires
    BY <1>2, <2>3, InterruptionsKeepSessions, TimerIsCaught
  <2>4. CASE Kill
    BY <1>2, <2>4, InterruptionsKeepSessions, Killed
  <2>5. CASE UNCHANGED vars
    <3>1. UNCHANGED dbVars /\ UNCHANGED jobVars
      BY <2>5 DEF vars
    <3>2. op' = op /\ pc' = pc
      BY <3>1 DEF dbVars
    <3> QED BY <1>2, <3>1, <3>2, DbStutters, JobStays
  <2> QED BY <1>2, <2>1, <2>2, <2>3, <2>4, <2>5 DEF Next
<1> QED BY <1>1, <1>2, PTL DEF Spec

--------------------------------------------------------------------------------
(* What it implies.                                                          *)

LEMMA InvTypes ==
  ASSUME DbInv, JobInv
  PROVE  TypeOK
<1>1. Columns /\ Exclusive /\ (\A s \in Sessions : SessionInv(s))
  BY DEF DbInv
<1>2. DbTypeOK
  <2>1. \A s \in Sessions : DOMAIN writes[s] \subseteq Fingerprints
    BY <1>1, ChangesAre DEF Columns
  <2>2. \A s, t \in Sessions : s # t => held[s] \cap held[t] = {}
    BY <1>1 DEF Exclusive
  <2>3. \A s \in Sessions : pc[s] \in {"idle", "over"} => held[s] = {}
    BY <1>1 DEF SessionInv, Progress
  <2>4. todo \in [Sessions -> SUBSET [place : Nat, verb : {"insert", "update"}, key : Keys]]
    BY <1>1 DEF Columns, StatementsOf
  <2> QED BY <1>1, <2>1, <2>2, <2>3, <2>4 DEF DbTypeOK, Columns
<1> QED BY <1>2 DEF TypeOK, JobInv, JobColumns

(* Every column, lock, session and step of the job is typed, and no row or   *)
(* index entry is ever written by two open transactions.                     *)
THEOREM JobTypes == Spec => []TypeOK
BY JobAmongSessions, InvTypes, PTL

(* A job of scan_target that says success has completed a scan of every      *)
(* scanner its target may be given, and one that says error has not.         *)
THEOREM SuccessIsEarned == Spec => []SuccessMeansScanned
<1>1. DbInv /\ JobInv => SuccessMeansScanned
  BY DEF JobInv, EndInv
<1> QED BY <1>1, JobAmongSessions, PTL

(* A scan left unfinished by a job that is over was interrupted by the timer *)
(* or by a death of the process, each of which leaves one at most.           *)
THEOREM LeftoversAreExplained == Spec => []LeftoversHaveACause
<1>1. DbInv /\ JobInv => LeftoversHaveACause
  <2>1. SUFFICES ASSUME JobInv PROVE LeftoversHaveACause
    OBVIOUS
  <2>2. Bounded /\ (at = "over" => lastStatus \in {"success", "error"})
    BY <2>1 DEF JobInv, EndInv
  <2>3. at \in {"over", "dead"} => Leftovers \ Busy = Leftovers
    BY DEF Busy
  <2> QED BY <2>2, <2>3 DEF LeftoversHaveACause, Bounded, Leftovers
<1> QED BY <1>1, JobAmongSessions, PTL

LEMMA AtMostOne ==
  ASSUME NEW S, \A x, y \in S : x = y
  PROVE  Cardinality(S) <= 1
<1>1. CASE S = {}
  BY <1>1, FS_EmptySet
<1>2. CASE S # {}
  <2>1. PICK x : x \in S
    BY <1>2
  <2>2. S = {x}
    BY <2>1
  <2> QED BY <2>2, FS_Singleton
<1> QED BY <1>1, <1>2

(* Of the requests that found a name of an asset, user or target free, one   *)
(* creates it, and whoever is refused is refused for a row that is there.    *)
THEOREM NamesCreatedOnce == Spec => []CreatedOnce
<1>1. DbInv /\ JobInv => CreatedOnce
  <2>1. SUFFICES ASSUME Created, NEW n \in Names
                 PROVE  LET Of(how) == {s \in Sessions : op[s].kind = "create" /\ op[s].name = n
                                                           /\ outcome[s] = how}
                        IN  /\ Cardinality(Of("done")) <= 1 /\ (n \in Known => Of("done") = {})
                            /\ Of("done") \cup Of("conflict") \cup Of("duplicate") # {} => n \in rows
    BY DEF DbInv, CreatedOnce
  <2> DEFINE Of(how) == {s \in Sessions : op[s].kind = "create" /\ op[s].name = n
                                           /\ outcome[s] = how}
  <2>2. \A s, t \in Of("done") : s = t
    BY <2>1 DEF Created
  <2>3. Cardinality(Of("done")) <= 1
    BY <2>2, AtMostOne
  <2>4. n \in Known => Of("done") = {}
    BY <2>1 DEF Created
  <2>5. Of("done") \cup Of("conflict") \cup Of("duplicate") # {} => n \in rows
    BY <2>1 DEF Created
  <2> QED BY <2>3, <2>4, <2>5
<1> QED BY <1>1, JobAmongSessions, PTL

(* A session of a cycle that is not closing a scan is updating the rows of   *)
(* findings in the order of their primary keys.                              *)
LEMMA WaitsForAnUpdate ==
  ASSUME DbInv, NEW S \in SUBSET Sessions, Cycle(S), NEW s \in S,
         ~(op[s].kind = "scan" /\ pc[s] = "closing")
  PROVE  /\ pc[s] = "writing" /\ Statement(s) \in todo[s] /\ Statement(s).verb = "update"
         /\ Statement(s).key \in rows \cap Fingerprints
<1>1. Columns /\ SessionInv(s) /\ s \in Sessions /\ todo[s] # {}
  BY DEF DbInv, Cycle, Blocked
<1>2. PICK t \in Sessions : t # s /\ Statement(s).key \in held[t]
  BY DEF Cycle, Blocked, Rivals, HoldersOf
<1>3. held[s] # {}
  BY DEF Cycle, Rivals, HoldersOf
<1>4. pc[s] = "writing"
  BY <1>1 DEF SessionInv, Progress, Columns
<1>5. op[s].kind \notin {"create", "upload"}
  BY <1>1, <1>3 DEF SessionInv, Single
<1>6. Statement(s) \in todo[s] /\ Statement(s).verb \in {"insert", "update"}
  BY <1>1, FirstStatement DEF StatementsOf
<1>7. Statement(s).verb # "insert"
  <2>1. SUFFICES ASSUME Statement(s).verb = "insert" PROVE FALSE
    OBVIOUS
  <2>2. Statement(s).key \in Fingerprints \ rows /\ s = Job
    BY <1>1, <1>5, <1>6, <2>1 DEF SessionInv, Planned
  <2>3. Written(t)
    BY <1>2 DEF DbInv, SessionInv
  <2> QED BY <1>2, <2>2, <2>3 DEF Written
<1> QED BY <1>1, <1>4, <1>6, <1>7 DEF SessionInv, Planned

(* A cycle of waits needs a session that closes a scan: the others each wait *)
(* for a row that comes later, in the order of the primary keys, than those  *)
(* they hold.                                                                *)
THEOREM OnlyScansDeadlock == Spec => []DeadlockNeedsAScan
<1>1. DbInv => DeadlockNeedsAScan
  <2>1. SUFFICES ASSUME DbInv, NEW S \in SUBSET Sessions, Cycle(S),
                        \A s \in S : ~(op[s].kind = "scan" /\ pc[s] = "closing")
                 PROVE  FALSE
    BY DEF DeadlockNeedsAScan
  <2> DEFINE place(s) == Index(Statement(s).key)
             places == {place(s) : s \in S}
  <2>2. \A s \in S : /\ pc[s] = "writing" /\ Statement(s) \in todo[s]
                     /\ Statement(s).verb = "update"
                     /\ Statement(s).key \in rows \cap Fingerprints
    BY <2>1, WaitsForAnUpdate
  <2>3. places \in SUBSET Nat /\ places # {}
    <3>1. S # {}
      BY <2>1 DEF Cycle
    <3>2. \A s \in S : place(s) \in Nat
      BY <2>2, PrimaryKeys
    <3> HIDE DEF place
    <3> QED BY <3>1, <3>2
  <2>4. PICK s \in S : \A t \in S : place(s) <= place(t)
    <3>1. PICK n \in places : \A m \in places : n <= m
      BY <2>3, LeastExists
    <3> QED BY <3>1
  <2>5. PICK t \in S : Statement(t).key \in held[s]
    BY <2>1, <2>4 DEF Cycle, Rivals, HoldersOf
  <2>6. place(t) < place(s)
    <3>1. Ordered(s)
      BY <2>1, <2>4 DEF DbInv, SessionInv
    <3> QED BY <2>2, <2>4, <2>5, <3>1 DEF Ordered
  <2>7. place(s) \in Nat /\ place(t) \in Nat
    BY <2>2, <2>4, <2>5, PrimaryKeys
  <2>8. place(s) <= place(t)
    BY <2>4, <2>5
  <2> HIDE DEF place
  <2> QED BY <2>6, <2>7, <2>8
<1> QED BY <1>1, JobAmongSessions, PTL

--------------------------------------------------------------------------------
(* What the transactions promise the sessions of Ingestion, whose flush      *)
(* takes its rows in one step.                                               *)

(* A status a session will commit is of a row it has written, or of one a    *)
(* statement it has yet to send writes.                                      *)
Covered(s) ==
  \A f \in DOMAIN writes[s] : f \in held[s] \/ \E x \in todo[s] : x.key = f

AllCovered == \A s \in Sessions : Covered(s)

LEMMA NoWrites == DOMAIN <<>> = {}
OBVIOUS

LEMMA CoveredStays ==
  ASSUME NEW s \in Sessions, Covered(s), todo'[s] = todo[s], held'[s] = held[s],
         writes'[s] = writes[s]
  PROVE  Covered(s)'
BY DEF Covered

LEMMA CoverEnds ==
  ASSUME Columns, AllCovered, NEW s \in Sessions, NEW how, End(s, how)
  PROVE  AllCovered'
<1>1. writes'[s] = <<>>
  BY DEF End, Columns
<1>2. \A t \in Sessions : t # s =>
        todo'[t] = todo[t] /\ held'[t] = held[t] /\ writes'[t] = writes[t]
  BY DEF End, Columns
<1>3. Covered(s)'
  BY <1>1, NoWrites DEF Covered
<1>4. ASSUME NEW t \in Sessions, t # s PROVE Covered(t)'
  BY <1>2, <1>4, CoveredStays DEF AllCovered
<1> QED BY <1>3, <1>4 DEF AllCovered

LEMMA CoverPlans ==
  ASSUME Columns, AllCovered, NEW s \in Sessions, NEW o, NEW X, NEW w, Plan(s, o, X, w),
         \A f \in DOMAIN w : \E x \in X : x.key = f
  PROVE  AllCovered'
<1>1. todo'[s] = X /\ writes'[s] = w
  BY DEF Plan, Columns
<1>2. \A t \in Sessions : t # s =>
        todo'[t] = todo[t] /\ held'[t] = held[t] /\ writes'[t] = writes[t]
  BY DEF Plan, Columns
<1>3. Covered(s)'
  BY <1>1 DEF Covered
<1>4. ASSUME NEW t \in Sessions, t # s PROVE Covered(t)'
  BY <1>2, <1>4, CoveredStays DEF AllCovered
<1> QED BY <1>3, <1>4 DEF AllCovered

LEMMA UpdatesCover ==
  ASSUME NEW ids, NEW f \in ids \cap Fingerprints
  PROVE  \E x \in Updates(ids) : x.key = f
<1>1. PICK i \in DOMAIN Findings : Findings[i] = f
  BY DEF Fingerprints
<1>2. Update(i, Findings[i]) \in Updates(ids)
  BY <1>1 DEF Updates
<1>3. Update(i, Findings[i]).key = f
  BY <1>1 DEF Update
<1> QED BY <1>2, <1>3

LEMMA CoverTriages ==
  ASSUME Columns, AllCovered, NEW r \in Requests, NEW o \in OpsOf[r], Triage(r, o)
  PROVE  AllCovered'
<1> DEFINE w == [f \in Changed(o) |-> o.status]
<1>1. r \in Sessions /\ Changed(o) \subseteq Touched(o) \cap Fingerprints
  BY RequestOps DEF Triage, Changed, Touched
<1>2. Plan(r, o, Updates(Touched(o)), w)
  BY DEF Triage
<1>3. \A f \in DOMAIN w : \E x \in Updates(Touched(o)) : x.key = f
  BY <1>1, UpdatesCover
<1> HIDE DEF w
<1> QED BY <1>1, <1>2, <1>3, CoverPlans

LEMMA CoverBegins ==
  ASSUME Columns, AllCovered, NEW r \in Requests, Begin(r)
  PROVE  AllCovered'
<1>1. r \in Sessions
  BY Constants
<1>2. PICK o \in OpsOf[r] : Create(r, o) \/ Refuse(r, o) \/ Upload(r, o) \/ Triage(r, o)
  BY DEF Begin
<1>3. CASE Create(r, o)
  <2>1. Plan(r, o, {Insert(1, o.name)}, <<>>)
    BY <1>3 DEF Create
  <2> QED BY <1>1, <2>1, NoWrites, CoverPlans
<1>4. CASE Refuse(r, o)
  BY <1>1, <1>4, CoverEnds DEF Refuse
<1>5. CASE Upload(r, o)
  <2>1. Plan(r, o, IF o.name \in rows THEN {} ELSE {Insert(1, o.name)}, <<>>)
    BY <1>5 DEF Upload
  <2> QED BY <1>1, <2>1, NoWrites, CoverPlans
<1>6. CASE Triage(r, o)
  BY <1>6, CoverTriages
<1> QED BY <1>2, <1>3, <1>4, <1>5, <1>6

(* The flush of process_scan: an update for each known finding, an insert    *)
(* for each new one.                                                         *)
LEMMA CoverScans ==
  ASSUME Columns, AllCovered, NEW sc \in Scanners,
         Scan(Job, [kind |-> "scan", scanner |-> sc, items |-> ReportOf[sc]])
  PROVE  AllCovered'
<1> DEFINE o == [kind |-> "scan", scanner |-> sc, items |-> ReportOf[sc]]
           known == Listed(o) \cap rows
           fresh == {i \in DOMAIN o.items : o.items[i] \notin rows}
           I == {Insert(Len(Findings) + i, o.items[i]) : i \in fresh}
           U == Updates(known)
           w == [f \in {g \in Listed(o) : g \in known => status[g] = "fixed"} |-> "open"]
<1>1. Job \in Sessions /\ o.items \in Seq(Fingerprints)
  BY Constants, TargetAssumption
<1>2. Plan(Job, o, U \cup I, w)
  BY DEF Scan
<1>3. ASSUME NEW f \in DOMAIN w PROVE \E x \in U \cup I : x.key = f
  <2>1. PICK i \in DOMAIN o.items : o.items[i] = f
    BY <1>3 DEF Listed
  <2>2. CASE f \in rows
    <3>1. f \in known /\ f \in Fingerprints
      BY <1>1, <2>1, <2>2 DEF Listed
    <3> HIDE DEF o, known
    <3>2. \E x \in U : x.key = f
      BY <1>1, <3>1, UpdatesCover
    <3> QED BY <3>2
  <2>3. CASE f \notin rows
    <3>1. Insert(Len(Findings) + i, o.items[i]) \in I
      BY <2>1, <2>3
    <3>2. Insert(Len(Findings) + i, o.items[i]).key = f
      BY <2>1 DEF Insert
    <3> QED BY <3>1, <3>2
  <2> QED BY <2>2, <2>3
<1> HIDE DEF o, I, U, w
<1> QED BY <1>1, <1>2, <1>3, CoverPlans

(* A statement that is executed passes its row from the plan to the locks.   *)
LEMMA CoverWrites ==
  ASSUME Columns, AllCovered, NEW s \in Sessions, Write(s)
  PROVE  AllCovered'
<1> DEFINE st == Statement(s)
<1>1. /\ held'[s] = held[s] \cup {st.key} /\ todo'[s] = todo[s] \ {st} /\ writes' = writes
      /\ \A t \in Sessions : t # s => held'[t] = held[t] /\ todo'[t] = todo[t]
  BY DEF Write, Columns
<1> HIDE DEF st
<1>2. Covered(s)'
  BY <1>1 DEF AllCovered, Covered
<1>3. ASSUME NEW t \in Sessions, t # s PROVE Covered(t)'
  BY <1>1, <1>3, CoveredStays DEF AllCovered
<1> QED BY <1>2, <1>3 DEF AllCovered

(* The stale query adds closings and their updates to a flush that is done.  *)
LEMMA CoverCloses ==
  ASSUME Columns, AllCovered, NEW s \in Sessions, CloseStale(s)
  PROVE  AllCovered'
<1> DEFINE stale == {f \in rows \cap Fingerprints :
                       /\ Listed(op[s]) # {} /\ SourceOf[f] = op[s].scanner
                       /\ status[f] \in Unresolved /\ f \notin Listed(op[s])}
<1>1. /\ todo[s] = {} /\ todo' = [todo EXCEPT ![s] = Updates(stale)] /\ held' = held
      /\ writes' = [writes EXCEPT ![s] =
           [f \in DOMAIN writes[s] \cup stale |-> IF f \in stale THEN "fixed" ELSE writes[s][f]]]
  BY DEF CloseStale, Flushed
<1>2. stale \subseteq Fingerprints
  OBVIOUS
<1> HIDE DEF stale
<1>3. /\ todo'[s] = Updates(stale) /\ DOMAIN writes'[s] = DOMAIN writes[s] \cup stale
      /\ \A t \in Sessions : t # s => todo'[t] = todo[t] /\ writes'[t] = writes[t]
  BY <1>1 DEF Columns
<1>4. ASSUME NEW f \in stale PROVE \E x \in todo'[s] : x.key = f
  BY <1>2, <1>3, <1>4, UpdatesCover
<1>5. \A f \in DOMAIN writes[s] : f \in held'[s]
  BY <1>1 DEF AllCovered, Covered
<1>6. Covered(s)'
  BY <1>3, <1>4, <1>5 DEF Covered
<1>7. ASSUME NEW t \in Sessions, t # s PROVE Covered(t)'
  BY <1>1, <1>3, <1>7, CoveredStays DEF AllCovered
<1> QED BY <1>6, <1>7 DEF AllCovered

LEMMA CoverKept ==
  ASSUME AllCovered, UNCHANGED <<todo, held, writes>>
  PROVE  AllCovered'
BY CoveredStays DEF AllCovered

LEMMA CoverSaves ==
  ASSUME Columns, AllCovered, NEW s \in Sessions, SaveReport(s) \/ SaveFails(s)
  PROVE  AllCovered'
<1>1. UNCHANGED <<todo, held, writes>> \/ End(s, "unsaved")
  BY DEF SaveReport, SaveFails
<1> QED BY <1>1, CoverKept, CoverEnds

LEMMA CoverGoes ==
  ASSUME Columns, AllCovered, NEW r \in Requests, Go(r)
  PROVE  AllCovered'
<1>1. r \in Sessions
  BY Constants
<1>2. CASE UniqueViolation(r) \/ Close(r) \/ Commit(r) \/ Victim(r)
  BY <1>1, <1>2, CoverEnds DEF UniqueViolation, Close, Commit, Victim
<1> QED BY <1>1, <1>2, CoverWrites, CoverSaves DEF Go

LEMMA CoverSteps ==
  ASSUME Columns, JobInv, AllCovered, Step
  PROVE  AllCovered'
<1>1. Job \in Sessions
  BY Constants
<1>2. CASE Start \/ Prepare \/ Clone \/ GiveUp \/ Choose \/ ScannerFails \/ StartProcessing
           \/ MatchFails \/ Notify \/ Handle \/ Finish
  <2>1. UNCHANGED dbVars
    BY <1>2 DEF Start, Prepare, Clone, GiveUp, Choose, ScannerFails, StartProcessing,
                MatchFails, Notify, Handle, Finish
  <2> QED BY <2>1, CoverKept DEF dbVars
<1>3. CASE Ingest
  <2> DEFINE o == [kind |-> "upload", name |-> Target.name]
  <2>1. Plan(Job, o, IF o.name \in rows THEN {} ELSE {Insert(1, o.name)}, <<>>)
    BY <1>3 DEF Ingest, Upload
  <2> HIDE DEF o
  <2> QED BY <1>1, <2>1, NoWrites, CoverPlans
<1>4. CASE Ingested \/ Publish
  BY <1>1, <1>4, CoverEnds DEF Ingested, Publish, Commit
<1>5. CASE IngestFails \/ ScanFails
  <2>1. UniqueViolation(Job) \/ SaveFails(Job) \/ Victim(Job)
    BY <1>5 DEF IngestFails, ScanFails
  <2> QED BY <1>1, <2>1, CoverSaves, CoverEnds DEF UniqueViolation, Victim
<1>6. CASE Match
  <2>1. at = "matching" /\ left # {}
    BY <1>6 DEF Match, JobInv, JobColumns, Looping
  <2>2. CurrentScanner \in Scanners
    BY <2>1, CurrentScan DEF JobInv, JobColumns
  <2> QED BY <1>6, <2>2, CoverScans DEF Match
<1>7. CASE Execute
  BY <1>1, <1>7, CoverWrites, CoverSaves, CoverCloses DEF Execute
<1> QED BY <1>2, <1>3, <1>4, <1>5, <1>6, <1>7 DEF Step

LEMMA CoverNext ==
  ASSUME DbInv, JobInv, AllCovered, [Next]_vars
  PROVE  AllCovered'
<1>1. Columns /\ Job \in Sessions
  BY Constants DEF DbInv
<1>2. CASE \E r \in Requests : Others(r)
  BY <1>1, <1>2, CoverBegins, CoverGoes DEF Others
<1>3. CASE Step
  BY <1>1, <1>3, CoverSteps
<1>4. CASE TimerFires \/ Kill
  <2>1. UNCHANGED dbVars \/ End(Job, "stopped")
    BY <1>4 DEF TimerFires, TimerFailsJob, TimerFailsClone, TimerFailsScanner, TimerFailsScan,
           TimerSwallowed, Kill
  <2> QED BY <1>1, <2>1, CoverEnds, CoverKept DEF dbVars
<1>5. CASE UNCHANGED vars
  BY <1>5, CoverKept DEF vars, dbVars
<1> QED BY <1>2, <1>3, <1>4, <1>5 DEF Next

(* A row that appears or whose status changes.                               *)
Altered(k) ==
  \/ ~(k \in rows' <=> k \in rows)
  \/ k \in Fingerprints /\ status'[k] # status[k]

Holder(s, k) == k \in held[s] /\ \A t \in Sessions : k \in held[t] => t = s

CommitsWhatItHolds ==
  \A k \in Keys : Altered(k) => \E s \in Sessions : Holder(s, k) /\ Commit(s)

(* A commit alters what its session holds and nothing else.                  *)
LEMMA CommitAlters ==
  ASSUME DbInv, AllCovered, NEW s \in Sessions, Commit(s), NEW k \in Keys, Altered(k)
  PROVE  Holder(s, k)
<1>1. /\ todo[s] = {} /\ rows' = rows \cup held[s]
      /\ status' = [f \in Fingerprints |-> IF f \in DOMAIN writes[s] THEN writes[s][f]
                                                                     ELSE status[f]]
  BY DEF Commit, Ready
<1>2. \A f \in DOMAIN writes[s] : f \in held[s]
  BY <1>1 DEF AllCovered, Covered
<1>3. k \in held[s]
  BY <1>1, <1>2 DEF Altered
<1> QED BY <1>3 DEF DbInv, Exclusive, Holder

LEMMA OnlyCommitsAlter ==
  ASSUME [Next]_vars, ~UNCHANGED <<rows, status>>
  PROVE  \E s \in Sessions : Commit(s)
<1>1. CASE \E r \in Requests : Others(r)
  <2>1. PICK r \in Requests : Begin(r) \/ Go(r)
    BY <1>1 DEF Others
  <2>2. ~Begin(r)
    BY DEF Begin, Create, Refuse, Upload, Triage, Plan
  <2>3. Commit(r)
    BY <2>1, <2>2 DEF Go, Write, UniqueViolation, SaveReport, SaveFails, Close, Victim
  <2> QED BY <2>3, Constants
<1>2. CASE Step
  <2>1. Ingested \/ Publish
    BY <1>2 DEF Step, Start, Prepare, Clone, GiveUp, Choose, ScannerFails, Ingest, IngestFails,
       StartProcessing, Match, MatchFails, Execute, Notify, ScanFails, Handle, Finish, Upload,
       Scan, Plan, Write, SaveReport, SaveFails, CloseStale, UniqueViolation, Victim, dbVars
  <2> QED BY <2>1, Constants DEF Ingested, Publish
<1>3. CASE TimerFires \/ Kill
  BY <1>3 DEF TimerFires, TimerFailsJob, TimerFailsClone, TimerFailsScanner, TimerFailsScan,
     TimerSwallowed, Kill, dbVars
<1>4. CASE UNCHANGED vars
  BY <1>4 DEF vars, dbVars
<1> QED BY <1>1, <1>2, <1>3, <1>4 DEF Next

(* Rows and statuses change only by the commit of the one session that has   *)
(* written and locked them: what a flush has decided cannot be overwritten   *)
(* before its commit, and a session that ends in any other way, by a unique  *)
(* violation, a deadlock, the timer or a death, leaves no trace.             *)
THEOREM LocksProtectRows == Spec => [][CommitsWhatItHolds]_vars
<1>1. JobInit => AllCovered
  BY NoWrites DEF JobInit, Init, AllCovered, Covered
<1>2. ASSUME DbInv, JobInv, AllCovered, [Next]_vars
      PROVE  CommitsWhatItHolds
  <2> SUFFICES ASSUME NEW k \in Keys, Altered(k)
               PROVE  \E s \in Sessions : Holder(s, k) /\ Commit(s)
    BY DEF CommitsWhatItHolds
  <2>1. ~UNCHANGED <<rows, status>>
    BY DEF Altered
  <2>2. PICK s \in Sessions : Commit(s)
    BY <1>2, <2>1, OnlyCommitsAlter
  <2> QED BY <1>2, <2>2, CommitAlters
<1> QED BY <1>1, <1>2, CoverNext, JobAmongSessions, PTL DEF Spec

--------------------------------------------------------------------------------
(* A job of scan_target is one job of AutoScan's worker.                     *)

LEMMA JobIsTheWorker == Workers = {Job} /\ Flight!RunningJobs(Ticket) =
                          IF Done THEN {} ELSE {Job}
BY TargetAssumption DEF Flight!RunningJobs, Ticket

(* A step that says nothing leaves the flight as it is.                      *)
LEMMA FlightGoesOn ==
  ASSUME lastStatus' = lastStatus, at \notin {"queued", "over", "dead"},
         at' \notin {"queued", "over", "dead"}
  PROVE  UNCHANGED Flight!vars
BY DEF Flight!vars, Done

LEMMA FlightStutters ==
  ASSUME lastStatus' = lastStatus, at' = at
  PROVE  UNCHANGED Flight!vars
BY DEF Flight!vars, Done

LEMMA FlightBegins ==
  ASSUME Start
  PROVE  Flight!Begin(Job)
BY JobIsTheWorker DEF Start, Flight!Begin, Flight!Live, Done, Ticket

LEMMA FlightEnds ==
  ASSUME at \notin {"queued", "over", "dead"}, at' = "over",
         NEW said \in {"success", "error"}, lastStatus' = said
  PROVE  Flight!Finish(Job, said)
BY JobIsTheWorker DEF Flight!Finish, Flight!Finished, Flight!EndJob, Flight!Live, Done, Ticket

LEMMA FlightDies ==
  ASSUME EndInv, at \notin {"queued", "over", "dead"}, at' = "dead", lastStatus' = lastStatus
  PROVE  Flight!Kill(Job)
<1>1. Flight!EndJob(Job)
  BY JobIsTheWorker DEF Flight!EndJob, Done, Ticket
<1>2. lastStatus \in Flight!Busy
  BY DEF EndInv, Flight!Busy
<1>3. Flight!RunningJobs(Ticket) = {Job} /\ Flight!QueuedJobs(Ticket) = {}
  BY JobIsTheWorker DEF Flight!QueuedJobs, Done
<1>4. Ticket # "none" /\ Job \in Workers /\ ~Done
  BY JobIsTheWorker DEF Ticket, Done
<1> QED BY <1>1, <1>2, <1>3, <1>4 DEF Flight!Kill

(* Among any sessions and with any scanners, a job of scan_target says       *)
(* "running" once and then, once, how it ended, or dies: each of its steps   *)
(* is AutoScan's Begin, Finish or Kill of that worker, or none of them.      *)
THEOREM JobIsOneFlight == Spec => IsOneFlight
<1> DEFINE F == \/ Flight!Begin(Job)
                \/ \E said \in {"success", "error"} : Flight!Finish(Job, said)
                \/ Flight!Kill(Job)
<1>1. ASSUME JobInv, [Next]_vars PROVE [F]_Flight!vars
  <2> HIDE DEF F
  <2>1. CASE UNCHANGED jobVars
    BY <2>1, FlightStutters DEF jobVars
  <2>2. CASE Start
    BY <2>2, FlightBegins DEF F
  <2>3. CASE GiveUp \/ Finish
    <3>1. at \notin {"queued", "over", "dead"} /\ at' = "over" /\ lastStatus' \in {"success", "error"}
      BY <2>3 DEF GiveUp, Finish
    <3> QED BY <3>1, FlightEnds DEF F
  <2>4. CASE TimerFires \/ Kill
    <3>1. lastStatus' = lastStatus
      BY <2>4 DEF TimerFires, Kill
    <3>2. CASE at' = "dead"
      <4>1. at \notin {"queued", "over", "dead"}
        BY <2>4, <3>2 DEF TimerFires, TimerFailsJob, TimerFailsClone, TimerFailsScanner,
           TimerFailsScan, TimerSwallowed, Catch, NextScanner, Kill
      <4> QED BY <1>1, <3>1, <3>2, <4>1, FlightDies DEF JobInv, F
    <3>3. CASE at' # "dead"
      <4>1. at \notin {"queued", "over", "dead"} /\ at' \notin {"queued", "over", "dead"}
        BY <2>4, <3>3 DEF TimerFires, TimerFailsJob, TimerFailsClone, TimerFailsScanner,
           TimerFailsScan, TimerSwallowed, Catch, NextScanner, Kill, Dead
      <4> QED BY <3>1, <4>1, FlightGoesOn
    <3> QED BY <3>2, <3>3
  <2>5. CASE Step /\ ~(Start \/ GiveUp \/ Finish \/ Execute)
    <3>1. lastStatus' = lastStatus
      BY <2>5 DEF Step, Prepare, Clone, Choose, ScannerFails, Ingest, Ingested, IngestFails,
         StartProcessing, Match, MatchFails, Publish, Notify, ScanFails, Handle
    <3>2. at \notin {"queued", "over", "dead"} /\ at' \notin {"queued", "over", "dead"}
      BY <2>5 DEF Step, Prepare, Clone, Choose, ScannerFails, Ingest, Ingested, IngestFails,
         StartProcessing, Match, MatchFails, Publish, Notify, ScanFails, Handle, Catch,
         NextScanner
    <3> QED BY <3>1, <3>2, FlightGoesOn
  <2>6. CASE Execute
    BY <2>6, FlightStutters DEF Execute, jobVars
  <2>7. CASE (\E r \in Requests : Others(r)) \/ UNCHANGED vars
    <3>1. UNCHANGED jobVars
      BY <2>7 DEF Others, vars
    <3> QED BY <3>1, FlightStutters DEF jobVars
  <2> QED BY <1>1, <2>2, <2>3, <2>4, <2>5, <2>6, <2>7 DEF Next
<1> QED BY <1>1, JobAmongSessions, PTL DEF Spec, IsOneFlight
================================================================================
