------------------------------ MODULE LedgerProofs ------------------------------
(***************************************************************************)
(* What an open session of process_scan knows is true of every row nobody  *)
(* else has changed meanwhile.  From this follow, for any number of scans, *)
(* workers, analysts and findings, that the pipeline implements the        *)
(* ledger, that a finding is announced once and that decisions are         *)
(* journaled.                                                              *)
(***************************************************************************)
EXTENDS IngestionProofs, IngestionRefinement

Open(w) == pc[w] \in {"matching", "enriching", "closing"}

Flushed(w) == pc[w] \in {"enriching", "closing"}

(* The cursor has passed whole items of the report, and all of them before   *)
(* the flush; what the session will insert or reopen is among them.          *)
CursorInv(w) ==
  /\ pc[w] \in {"idle", "starting", "failing"} => tx[w] = EmptyTx
  /\ Open(w) => /\ tx[w].pos <= Len(Items(w)) + 1
                /\ tx[w].fresh \cup tx[w].reopen \subseteq Seen(w)
  /\ Flushed(w) => ParsedAll(w)

(* Of the rows nobody else has changed since the scan started, the session   *)
(* inserts those that are absent and reopens those that are fixed.           *)
DecidedInv(w) ==
  Open(w) => \A f \in Seen(w) \ touched[job[w]] :
               /\ f \in tx[w].fresh <=> findingStatus[f] = "absent"
               /\ f \in tx[w].reopen <=> findingStatus[f] = "fixed"

(* The rows to close are of the report's source and not listed, and those    *)
(* nobody else has changed since the stale query are still the stale ones.   *)
StaleInv(w) ==
  pc[w] = "closing" =>
    /\ \A f \in tx[w].stale :
         Seen(w) # {} /\ SourceOf[f] = report[job[w]].src /\ f \notin Seen(w)
    /\ \A f \in Fingerprints \ touched[job[w]] : f \in tx[w].stale <=> f \in Stale(w)

SessionInv(w) == CursorInv(w) /\ DecidedInv(w) /\ StaleInv(w)

(* A request triages rows that exist.                                        *)
RequestInv ==
  \A a \in Analysts : request[a] # NoRequest =>
    \A f \in request[a].rows : findingStatus[f] # "absent"

LedgerInv == (\A w \in Workers : SessionInv(w)) /\ RequestInv

(* No row is locked by two flushes, and what a flush has inserted is absent  *)
(* for the others until its commit.                                          *)
LockInv ==
  /\ \A v, w \in Workers : v # w => Held(v) \cap Held(w) = {}
  /\ \A w \in Workers : Flushed(w) => \A f \in tx[w].fresh : findingStatus[f] = "absent"

(* What was announced, or is about to be, has a row, and one scan only is    *)
(* concerned with it.                                                        *)
AlertInv ==
  /\ \A s \in Scans : \A f \in alerted[s] : findingStatus[f] # "absent"
  /\ \A w \in Workers : pc[w] = "notifying" =>
       \A f \in tx[w].fresh :
         /\ findingStatus[f] # "absent"
         /\ \A s \in Scans : s # job[w] => f \notin alerted[s]
         /\ \A v \in Workers : v # w /\ pc[v] = "notifying" => f \notin tx[v].fresh
  /\ OneAlertPerFinding

--------------------------------------------------------------------------------
USE ConstantsAssumption DEF Scans

(* What a session has seen is a set of fingerprints, all of the report once  *)
(* the cursor is past its end.                                               *)
LEMMA SeenType ==
  ASSUME OnePlacePerScan, NEW w \in Workers, Open(w)
  PROVE  /\ job[w] \in Scans /\ scanStatus[job[w]] = "processing"
         /\ report[job[w]] \in Reports
         /\ Items(w) \in Seq(Fingerprints)
         /\ tx[w] \in TxType /\ tx[w].pos \in Nat \ {0}
<1>1. job[w] \in Scans /\ scanStatus[job[w]] = "processing"
  BY DEF Open, OnePlacePerScan, JobPhase, Phase
<1>2. report[job[w]] \in Reports /\ Items(w) \in Seq(Fingerprints)
  BY ItemsAreFingerprints DEF Open
<1>3. tx[w] \in TxType
  BY DEF OnePlacePerScan, TypeOK
<1> QED BY <1>1, <1>2, <1>3 DEF TxType

LEMMA SeenWhole ==
  ASSUME OnePlacePerScan, NEW w \in Workers, Open(w), CursorInv(w), ParsedAll(w)
  PROVE  Seen(w) = {Items(w)[i] : i \in DOMAIN Items(w)}
<1>1. Items(w) \in Seq(Fingerprints) /\ tx[w].pos \in Nat \ {0}
  BY SeenType
<1>2. tx[w].pos - 1 = Len(Items(w))
  BY <1>1 DEF CursorInv, ParsedAll
<1> QED BY <1>1, <1>2 DEF Seen

(* What another process leaves to a session: its own state, its report, and  *)
(* the knowledge of every row changed.                                       *)
Kept(w) ==
  /\ pc'[w] = pc[w] /\ job'[w] = job[w] /\ tx'[w] = tx[w]
  /\ Open(w) => /\ report'[job[w]] = report[job[w]]
                /\ touched[job[w]] \subseteq touched'[job[w]]
                /\ \A f \in Fingerprints :
                     findingStatus'[f] # findingStatus[f] => f \in touched'[job[w]]

LEMMA KeptSession ==
  ASSUME OnePlacePerScan, NEW w \in Workers, SessionInv(w), Kept(w)
  PROVE  SessionInv(w)'
<1> USE DEF SessionInv, Kept
<1>1. CASE ~Open(w)
  BY <1>1 DEF Open, Flushed, CursorInv, DecidedInv, StaleInv
<1>2. CASE Open(w)
  <2>1. Items(w)' = Items(w) /\ Seen(w)' = Seen(w)
    BY <1>2 DEF Items, Seen
  <2>2. Seen(w) \subseteq Fingerprints
    <3>1. Items(w) \in Seq(Fingerprints) /\ tx[w].pos \in Nat \ {0}
      BY <1>2, SeenType
    <3> QED BY <1>2, <3>1 DEF Seen, CursorInv
  <2>3. CursorInv(w)'
    BY <1>2, <2>1 DEF CursorInv, Open, Flushed, ParsedAll
  <2>4. DecidedInv(w)'
    BY <1>2, <2>1, <2>2 DEF DecidedInv, Open
  <2>5. StaleInv(w)'
    BY <1>2, <2>1 DEF StaleInv, Stale, Open
  <2> QED BY <2>3, <2>4, <2>5
<1> QED BY <1>1, <1>2

(* A worker's step, its death included, leaves the other sessions alone.     *)
LEMMA WorkKeepsOthers ==
  ASSUME OnePlacePerScan, NEW w \in Workers, Work(w) \/ Kill(w),
         NEW v \in Workers \ {w}
  PROVE  Kept(v)
<1> USE DEF dbVars, webVars, workVars
<1>0. Open(v) => /\ job[v] \in Scans /\ job[v] # job[w]
                 /\ scanStatus[job[v]] = "processing"
  BY SeenType DEF OnePlacePerScan, OneWorkerPerScan
<1>1. CASE \E s \in Scans, r \in Reports : IngestOwnScan(w, s, r)
  BY <1>0, <1>1 DEF IngestOwnScan, NextId, Kept, OnePlacePerScan, TypeOK
<1>2. CASE Publish(w)
  <2>1. Open(v) => touched'[job[v]] = touched[job[v]] \cup Changed
    BY <1>0, <1>2 DEF Publish, TouchOthers
  <2> QED BY <1>2, <2>1 DEF Publish, Kept, Changed, OnePlacePerScan, TypeOK
<1>3. CASE MarkFailed(w)
  BY <1>0, <1>3 DEF MarkFailed, Release, Kept, OnePlacePerScan, TypeOK
<1>4. CASE Dequeue(w) \/ StartProcessing(w) \/ MatchItem(w) \/ Flush(w) \/ CloseStale(w)
  BY <1>4 DEF Dequeue, StartProcessing, MatchItem, Flush, CloseStale, Kept,
     OnePlacePerScan, TypeOK
<1>5. CASE Notify(w) \/ Rollback(w) \/ FailLate(w) \/ Kill(w)
  BY <1>5 DEF Notify, Rollback, FailLate, Kill, Release, Kept, OnePlacePerScan, TypeOK
<1> QED BY <1>1, <1>2, <1>3, <1>4, <1>5 DEF Work

(* So do requests: a triage notes the rows it changes for every open scan.   *)
LEMMA RequestsKeepSessions ==
  ASSUME OnePlacePerScan, NEW v \in Workers,
         Upstream \/ (\E a \in Analysts : Triage(a)) \/ UNCHANGED vars
  PROVE  Kept(v)
<1> USE DEF dbVars, webVars, workVars
<1>0. Open(v) => job[v] \in Scans /\ scanStatus[job[v]] = "processing"
  BY SeenType
<1>1. CASE Upstream
  BY <1>0, <1>1 DEF Upstream, Upload, Enqueue, Abandon, NextId, Kept, OnePlacePerScan, TypeOK
<1>2. ASSUME NEW a \in Analysts, CommitTriage(a) PROVE Kept(v)
  <2>1. Open(v) => touched'[job[v]] = touched[job[v]] \cup Changed
    BY <1>0, <1>2 DEF CommitTriage, TouchOthers
  <2> QED BY <1>2, <2>1 DEF CommitTriage, Kept, Changed
<1>3. CASE \E a \in Analysts, rows \in SUBSET Fingerprints, to \in FindingStatus :
             ReadFindings(a, rows, to)
  BY <1>3 DEF ReadFindings, Kept
<1>4. CASE UNCHANGED vars
  BY <1>4 DEF vars, Kept
<1> QED BY <1>1, <1>2, <1>3, <1>4 DEF Triage

(* The steps of a session itself.                                            *)
LEMMA MatchItemSession ==
  ASSUME OnePlacePerScan, NEW w \in Workers, SessionInv(w), MatchItem(w)
  PROVE  SessionInv(w)'
<1> DEFINE p == tx[w].pos
           g == Items(w)[p]
<1> USE DEF dbVars, webVars
<1>1. Open(w) /\ Items(w) \in Seq(Fingerprints) /\ tx[w] \in TxType /\ p \in Nat \ {0}
  BY SeenType DEF MatchItem, Open
<1>2. p \in 1..Len(Items(w)) /\ g \in Fingerprints
  BY <1>1 DEF MatchItem, ParsedAll
<1>3. /\ tx'[w] = [Matched(w, g) EXCEPT !.pos = @ + 1]
      /\ pc'[w] = "matching" /\ job' = job /\ Items(w)' = Items(w)
      /\ findingStatus' = findingStatus /\ touched' = touched
  BY DEF MatchItem, Items, OnePlacePerScan, TypeOK
<1>4. tx'[w].pos = p + 1
  BY <1>1, <1>3 DEF Matched, TxType
<1>5. Seen(w)' = Seen(w) \cup {g}
  <2>1. Seen(w)' = {Items(w)[i] : i \in 1..p}
    BY <1>1, <1>3, <1>4 DEF Seen
  <2>2. 1..p = 1..(p - 1) \cup {p}
    BY <1>1
  <2> QED BY <2>1, <2>2 DEF Seen
<1>6. /\ tx'[w].fresh = IF g \notin Seen(w) /\ findingStatus[g] = "absent"
                        THEN tx[w].fresh \cup {g} ELSE tx[w].fresh
      /\ tx'[w].reopen = IF g \notin Seen(w) /\ findingStatus[g] = "fixed"
                         THEN tx[w].reopen \cup {g} ELSE tx[w].reopen
  BY <1>1, <1>3 DEF Matched, TxType
<1>7. CursorInv(w)'
  <2>1. tx'[w].pos <= Len(Items(w)') + 1
    BY <1>1, <1>2, <1>3, <1>4
  <2>2. tx'[w].fresh \cup tx'[w].reopen \subseteq Seen(w)'
    <3>1. tx[w].fresh \cup tx[w].reopen \subseteq Seen(w)
      BY <1>1 DEF SessionInv, CursorInv
    <3> QED BY <1>5, <1>6, <3>1
  <2> QED BY <1>3, <2>1, <2>2 DEF CursorInv, Flushed
<1>8. DecidedInv(w)'
  BY <1>1, <1>3, <1>5, <1>6 DEF SessionInv, CursorInv, DecidedInv, Open
<1>9. StaleInv(w)'
  BY <1>3 DEF StaleInv
<1> QED BY <1>7, <1>8, <1>9 DEF SessionInv

LEMMA CloseStaleSession ==
  ASSUME OnePlacePerScan, NEW w \in Workers, SessionInv(w), CloseStale(w)
  PROVE  SessionInv(w)'
<1> USE DEF dbVars, webVars
<1>1. Open(w) /\ tx[w] \in TxType
  BY SeenType DEF CloseStale, Open
<1>2. /\ tx'[w] = [tx[w] EXCEPT !.stale = Stale(w)]
      /\ pc'[w] = "closing" /\ job' = job /\ report' = report
      /\ findingStatus' = findingStatus /\ touched' = touched
  BY DEF CloseStale, OnePlacePerScan, TypeOK
<1>3. /\ tx'[w].pos = tx[w].pos /\ tx'[w].fresh = tx[w].fresh
      /\ tx'[w].reopen = tx[w].reopen /\ tx'[w].stale = Stale(w)
  BY <1>1, <1>2 DEF TxType
<1>4. Items(w)' = Items(w) /\ Seen(w)' = Seen(w)
  BY <1>2, <1>3 DEF Items, Seen
<1>5. Stale(w)' = Stale(w)
  BY <1>2, <1>4 DEF Stale
<1>6. CursorInv(w)'
  BY <1>1, <1>2, <1>3, <1>4 DEF SessionInv, CursorInv, Open, Flushed, ParsedAll, CloseStale
<1>7. DecidedInv(w)'
  BY <1>1, <1>2, <1>3, <1>4 DEF SessionInv, DecidedInv, Open
<1>8. StaleInv(w)'
  BY <1>2, <1>3, <1>4, <1>5 DEF StaleInv, Stale
<1> QED BY <1>6, <1>7, <1>8 DEF SessionInv

LEMMA WorkKeepsSession ==
  ASSUME OnePlacePerScan, NEW w \in Workers, SessionInv(w), Work(w) \/ Kill(w)
  PROVE  SessionInv(w)'
<1> USE DEF dbVars, webVars, workVars, OnePlacePerScan, TypeOK
<1>1. CASE MatchItem(w)
  BY <1>1, MatchItemSession
<1>2. CASE CloseStale(w)
  BY <1>2, CloseStaleSession
<1>3. CASE Flush(w)
  BY <1>3 DEF Flush, SessionInv, CursorInv, DecidedInv, StaleInv, Open, Flushed, Items,
     Seen, ParsedAll
<1>4. CASE StartProcessing(w)
  <2>1. tx'[w] = EmptyTx /\ pc'[w] = "matching" /\ job'[w] \in Scans
    BY <1>4 DEF StartProcessing, SessionInv, CursorInv, JobPhase
  <2>2. report' = report /\ Items(w)' \in Seq(Fingerprints)
    <3>1. scanStatus[job[w]] = "pending" /\ report[job[w]] \in Reports
      BY <1>4 DEF StartProcessing, JobPhase, Phase, Reported
    <3> QED BY <1>4, <3>1, ReportsAssumption DEF StartProcessing, Items
  <2>3. Seen(w)' = {}
    BY <2>1 DEF Seen, EmptyTx
  <2> QED BY <2>1, <2>2, <2>3 DEF SessionInv, CursorInv, DecidedInv, StaleInv, Open,
      Flushed, EmptyTx
<1>5. CASE Dequeue(w) \/ (\E s \in Scans, r \in Reports : IngestOwnScan(w, s, r))
  BY <1>5 DEF Dequeue, IngestOwnScan, SessionInv, CursorInv, DecidedInv, StaleInv, Open, Flushed
<1>6. CASE Publish(w)
  BY <1>6 DEF Publish, SessionInv, CursorInv, DecidedInv, StaleInv, Open, Flushed
<1>7. CASE Notify(w) \/ Kill(w) \/ MarkFailed(w)
  BY <1>7 DEF Notify, Kill, MarkFailed, Release, SessionInv, CursorInv, DecidedInv,
     StaleInv, Open, Flushed
<1>8. CASE Rollback(w) \/ FailLate(w)
  BY <1>8 DEF Rollback, FailLate, SessionInv, CursorInv, DecidedInv, StaleInv, Open, Flushed
<1> QED BY <1>1, <1>2, <1>3, <1>4, <1>5, <1>6, <1>7, <1>8 DEF Work

(* Findings are never deleted.                                               *)
LEMMA RowsStay ==
  ASSUME OnePlacePerScan, [Next]_vars, NEW f \in Fingerprints, findingStatus[f] # "absent"
  PROVE  findingStatus'[f] # "absent"
<1> USE DEF dbVars, webVars, workVars, OnePlacePerScan, TypeOK
<1>1. CASE Upstream
  BY <1>1 DEF Upstream, Upload, Enqueue, Abandon
<1>2. ASSUME NEW w \in Workers, Work(w) \/ Kill(w) PROVE findingStatus'[f] # "absent"
  <2>1. CASE Publish(w)
    BY <2>1 DEF Publish, Written
  <2>2. CASE ~Publish(w)
    BY <1>2, <2>2 DEF Work, Kill, Dequeue, IngestOwnScan, StartProcessing, MatchItem,
       Flush, CloseStale, Notify, Rollback, FailLate, MarkFailed
  <2> QED BY <2>1, <2>2
<1>3. ASSUME NEW a \in Analysts, Triage(a) PROVE findingStatus'[f] # "absent"
  <2>1. CASE CommitTriage(a)
    <3>1. request[a].to \in FindingStatus
      BY <2>1 DEF CommitTriage, RequestType
    <3> QED BY <2>1, <3>1 DEF CommitTriage, FindingStatus
  <2>2. CASE ~CommitTriage(a)
    BY <1>3, <2>2 DEF Triage, ReadFindings
  <2> QED BY <2>1, <2>2
<1>4. CASE UNCHANGED vars
  BY <1>4 DEF vars
<1> QED BY <1>1, <1>2, <1>3, <1>4 DEF Next

LEMMA RequestsStay ==
  ASSUME OnePlacePerScan, [Next]_vars, RequestInv
  PROVE  RequestInv'
<1> USE DEF dbVars, webVars, workVars
<1> SUFFICES ASSUME NEW a \in Analysts, request'[a] # NoRequest, NEW f \in request'[a].rows
             PROVE  findingStatus'[f] # "absent"
  BY DEF RequestInv
<1>1. CASE request'[a] = request[a]
  <2>1. f \in Fingerprints
    BY <1>1 DEF OnePlacePerScan, TypeOK, RequestType
  <2> QED BY <1>1, <2>1, RowsStay DEF RequestInv
<1>2. CASE request'[a] # request[a]
  <2>1. ~(UNCHANGED request)
    BY <1>2
  <2>2. PICK b \in Analysts : Triage(b)
    BY <2>1 DEF Next, Upstream, Upload, Enqueue, Abandon, Work, Kill, Dequeue,
       IngestOwnScan, StartProcessing, MatchItem, Flush, CloseStale, Publish, Notify,
       Rollback, FailLate, MarkFailed, vars
  <2>3. CASE CommitTriage(b)
    BY <1>2, <2>3 DEF CommitTriage, OnePlacePerScan, TypeOK
  <2>4. CASE \E rows \in SUBSET Fingerprints, to \in FindingStatus : ReadFindings(b, rows, to)
    BY <1>2, <2>4 DEF ReadFindings, OnePlacePerScan, TypeOK
  <2> QED BY <2>2, <2>3, <2>4 DEF Triage
<1> QED BY <1>1, <1>2

LEMMA LedgerInvInit == Init => LedgerInv
<1> SUFFICES ASSUME Init PROVE LedgerInv
  OBVIOUS
<1>1. ASSUME NEW w \in Workers PROVE SessionInv(w)
  BY DEF Init, SessionInv, CursorInv, DecidedInv, StaleInv, Open, Flushed
<1>2. RequestInv
  BY DEF Init, RequestInv
<1> QED BY <1>1, <1>2 DEF LedgerInv

LEMMA LedgerInvNext == OnePlacePerScan /\ LedgerInv /\ [Next]_vars => LedgerInv'
<1> SUFFICES ASSUME OnePlacePerScan, LedgerInv, [Next]_vars PROVE LedgerInv'
  OBVIOUS
<1>1. ASSUME NEW v \in Workers PROVE SessionInv(v)'
  <2>1. SessionInv(v)
    BY DEF LedgerInv
  <2>2. ASSUME NEW w \in Workers, Work(w) \/ Kill(w) PROVE SessionInv(v)'
    <3>1. CASE v = w
      BY <2>1, <2>2, <3>1, WorkKeepsSession
    <3>2. CASE v # w
      <4>1. Kept(v)
        BY <2>2, <3>2, WorkKeepsOthers
      <4> QED BY <2>1, <4>1, KeptSession
    <3> QED BY <3>1, <3>2
  <2>3. CASE Upstream \/ (\E a \in Analysts : Triage(a)) \/ UNCHANGED vars
    <3>1. Kept(v)
      BY <2>3, RequestsKeepSessions
    <3> QED BY <2>1, <3>1, KeptSession
  <2> QED BY <2>2, <2>3 DEF Next
<1>2. RequestInv'
  BY RequestsStay DEF LedgerInv
<1> QED BY <1>1, <1>2 DEF LedgerInv

(* For any number of them, what an open session has decided is still right   *)
(* on every row that no other transaction has changed since its scan         *)
(* started: the reads process_scan makes before its flush are that fresh.    *)
THEOREM SessionsKnowTheirRows == Spec => []LedgerInv
BY LedgerInvInit, LedgerInvNext, ScansHaveOnePlace, PTL DEF Spec

--------------------------------------------------------------------------------
(* The refinement, step by step.                                             *)

(* The commit of process_scan is the ledger's: what the session decided      *)
(* earlier is, row by row, the verdict on what the tables hold now, but on   *)
(* the rows somebody else has changed since the scan started.                *)
LEMMA PublishImplements ==
  ASSUME OnePlacePerScan, OnePlacePerScan', NEW w \in Workers, SessionInv(w), Publish(w)
  PROVE  Ledger!Publish(job[w])
<1> DEFINE s == job[w]
<1>1. Open(w) /\ Flushed(w) /\ ParsedAll(w)
  BY DEF Publish, Open, Flushed, SessionInv, CursorInv
<1>2. s \in Scans /\ scanStatus[s] = "processing"
  BY <1>1, SeenType
<1>3. Seen(w) = Ledger!Listed(report[s])
  BY <1>1, SeenWhole DEF SessionInv, Ledger!Listed, Items
<1>4. findingStatus' \in [Fingerprints -> Ledger!TriageStatus \cup {"absent"}]
  BY DEF OnePlacePerScan, TypeOK, FindingStatus, Ledger!TriageStatus
<1>5. ASSUME NEW f \in Fingerprints PROVE findingStatus'[f] \in Ledger!Outcomes(s, f)
  <2>1. findingStatus'[f] = Written(w, f)
    BY DEF Publish
  <2>2. tx[w].fresh \cup tx[w].reopen \subseteq Seen(w)
    BY <1>1 DEF SessionInv, CursorInv
  <2>3. f \in tx[w].stale => /\ Seen(w) # {} /\ SourceOf[f] = report[s].src
                             /\ f \notin Seen(w)
    BY DEF Publish, SessionInv, StaleInv
  <2>4. CASE f \in touched[s]
    BY <1>3, <2>1, <2>2, <2>3, <2>4 DEF Written, Ledger!Outcomes
  <2>5. CASE f \notin touched[s]
    <3>1. f \in Seen(w) => /\ f \in tx[w].fresh <=> findingStatus[f] = "absent"
                           /\ f \in tx[w].reopen <=> findingStatus[f] = "fixed"
      BY <1>1, <2>5 DEF SessionInv, DecidedInv
    <3>2. f \in tx[w].stale <=> f \in Stale(w)
      BY <2>5 DEF Publish, SessionInv, StaleInv
    <3>3. Written(w, f) = Ledger!Verdict(s, f)
      BY <1>3, <2>2, <2>3, <3>1, <3>2 DEF Written, Stale, Unresolved, Ledger!Verdict,
         Ledger!Unresolved
    <3> QED BY <2>1, <2>5, <3>3 DEF Ledger!Outcomes
  <2> QED BY <2>4, <2>5
<1>6. Ledger!Contend(s)
  BY DEF Publish, TouchOthers, Changed, Ledger!Contend, Ledger!Changed
<1> QED BY <1>2, <1>3, <1>4, <1>5, <1>6 DEF Publish, Ledger!Publish

(* A scan that is not being processed has no contended rows.                 *)
Settled == \A s \in Scans : scanStatus[s] # "processing" => touched[s] = {}

LEMMA SettledNext ==
  ASSUME OnePlacePerScan, Settled, [Next]_vars
  PROVE  Settled'
<1> USE DEF dbVars, webVars, workVars
<1> DEFINE Quiet == scanStatus' = scanStatus /\ touched' = touched
<1>1. CASE Quiet
  BY <1>1 DEF Settled
<1>2. ASSUME NEW s \in Scans, NEW r \in Reports, Upload(s, r) PROVE Settled'
  BY <1>2 DEF Upload, NextId, Settled, OnePlacePerScan, TypeOK
<1>3. CASE \E s \in Scans : Enqueue(s) \/ Abandon(s)
  BY <1>1, <1>3 DEF Enqueue, Abandon
<1>4. ASSUME NEW w \in Workers, Work(w) \/ Kill(w) PROVE Settled'
  <2>1. CASE \E s \in Scans, r \in Reports : IngestOwnScan(w, s, r)
    BY <2>1 DEF IngestOwnScan, NextId, Settled, OnePlacePerScan, TypeOK
  <2>2. CASE StartProcessing(w)
    BY <2>2 DEF StartProcessing, Settled, OnePlacePerScan, TypeOK
  <2>3. CASE Publish(w)
    <3>1. scanStatus' = [scanStatus EXCEPT ![job[w]] = "completed"] /\ TouchOthers(job[w])
      BY <2>3 DEF Publish
    <3>2. ASSUME NEW s \in Scans, scanStatus'[s] # "processing" PROVE touched'[s] = {}
      <4>1. CASE s = job[w]
        BY <3>1, <4>1 DEF TouchOthers
      <4>2. CASE s # job[w]
        <5>1. scanStatus[s] # "processing"
          BY <3>1, <3>2, <4>2 DEF OnePlacePerScan, TypeOK
        <5> QED BY <3>1, <4>2, <5>1 DEF TouchOthers, Settled
      <4> QED BY <4>1, <4>2
    <3> QED BY <3>2 DEF Settled
  <2>4. CASE MarkFailed(w)
    BY <2>4 DEF MarkFailed, Settled, OnePlacePerScan, TypeOK
  <2>5. CASE Dequeue(w) \/ MatchItem(w) \/ Flush(w) \/ CloseStale(w)
    BY <1>1, <2>5 DEF Dequeue, MatchItem, Flush, CloseStale
  <2>6. CASE Notify(w) \/ Rollback(w) \/ FailLate(w) \/ Kill(w)
    BY <1>1, <2>6 DEF Notify, Rollback, FailLate, Kill
  <2> QED BY <1>4, <2>1, <2>2, <2>3, <2>4, <2>5, <2>6 DEF Work
<1>5. ASSUME NEW a \in Analysts, CommitTriage(a) PROVE Settled'
  <2>1. scanStatus' = scanStatus /\ TouchOthers(0)
    BY <1>5 DEF CommitTriage
  <2>2. \A s \in Scans : s # 0
    BY ConstantsAssumption
  <2> QED BY <2>1, <2>2 DEF TouchOthers, Settled
<1>6. CASE \E a \in Analysts, rows \in SUBSET Fingerprints, to \in FindingStatus :
             ReadFindings(a, rows, to)
  BY <1>1, <1>6 DEF ReadFindings
<1>7. CASE UNCHANGED vars
  BY <1>1, <1>7 DEF vars
<1> QED BY <1>2, <1>3, <1>4, <1>5, <1>6, <1>7 DEF Next, Upstream, Triage

LEMMA ScansSettle == Spec => []Settled
<1>1. Init => Settled
  BY DEF Init, Settled
<1> QED BY <1>1, SettledNext, ScansHaveOnePlace, PTL DEF Spec

LEMMA WorkImplements ==
  ASSUME OnePlacePerScan, OnePlacePerScan', LedgerInv, Settled,
         NEW w \in Workers, Work(w) \/ Kill(w)
  PROVE  [Ledger!Next]_Ledger!ledgerVars
<1> USE DEF dbVars, webVars, workVars
<1>1. CASE \E s \in Scans, r \in Reports : IngestOwnScan(w, s, r)
  BY <1>1 DEF IngestOwnScan, NextId, Ledger!Next, Ledger!Register
<1>2. CASE StartProcessing(w)
  <2>1. job[w] \in Scans /\ scanStatus[job[w]] = "pending"
    BY <1>2 DEF StartProcessing, OnePlacePerScan, JobPhase, Phase
  <2> QED BY <1>2, <2>1 DEF StartProcessing, Ledger!Next, Ledger!Start
<1>3. CASE Publish(w)
  <2>1. job[w] \in Scans
    BY <1>3 DEF Publish, OnePlacePerScan, JobPhase
  <2> QED BY <1>3, <2>1, PublishImplements DEF LedgerInv, Ledger!Next
<1>4. CASE MarkFailed(w)
  <2>1. /\ job[w] \in Scans
        /\ \/ scanStatus[job[w]] = "processing"
           \/ LateTimeout /\ scanStatus[job[w]] = "completed"
    BY <1>4 DEF MarkFailed, OnePlacePerScan, JobPhase, Phase
  <2>2. /\ scanStatus' = [scanStatus EXCEPT ![job[w]] = "failed"]
        /\ touched' = [touched EXCEPT ![job[w]] = {}]
        /\ UNCHANGED <<report, findingStatus, lastScan>>
    BY <1>4 DEF MarkFailed
  <2>3. CASE scanStatus[job[w]] = "processing"
    <3>1. Ledger!Fail(job[w])
      BY <2>2, <2>3 DEF Ledger!Fail
    <3> QED BY <2>1, <3>1 DEF Ledger!Next
  <2>4. CASE LateTimeout /\ scanStatus[job[w]] = "completed"
    <3>1. touched' = touched
      <4>1. touched \in [Scans -> SUBSET Fingerprints] /\ touched[job[w]] = {}
        BY <2>1, <2>4 DEF Settled, OnePlacePerScan, TypeOK
      <4> QED BY <2>1, <2>2, <4>1
    <3>2. Ledger!Disown(job[w])
      BY <2>2, <2>4, <3>1 DEF Ledger!Disown
    <3> QED BY <2>1, <3>2 DEF Ledger!Next
  <2> QED BY <2>1, <2>3, <2>4
<1>5. CASE Dequeue(w) \/ MatchItem(w) \/ Flush(w) \/ CloseStale(w)
  BY <1>5 DEF Dequeue, MatchItem, Flush, CloseStale, Ledger!ledgerVars
<1>6. CASE Notify(w) \/ Rollback(w) \/ FailLate(w) \/ Kill(w)
  BY <1>6 DEF Notify, Rollback, FailLate, Kill, Ledger!ledgerVars
<1> QED BY <1>1, <1>2, <1>3, <1>4, <1>5, <1>6 DEF Work

LEMMA RequestsImplement ==
  ASSUME OnePlacePerScan, LedgerInv, Upstream \/ (\E a \in Analysts : Triage(a))
  PROVE  [Ledger!Next]_Ledger!ledgerVars
<1> USE DEF dbVars, webVars, workVars
<1>1. CASE \E s \in Scans, r \in Reports : Upload(s, r)
  BY <1>1 DEF Upload, NextId, Ledger!Next, Ledger!Register
<1>2. CASE \E s \in Scans : Enqueue(s) \/ Abandon(s)
  BY <1>2 DEF Enqueue, Abandon, Ledger!ledgerVars
<1>3. ASSUME NEW a \in Analysts, CommitTriage(a) PROVE Ledger!Next
  <2> DEFINE G == Transitions(request[a])
  <2>1. request[a] \in RequestType
    BY <1>3 DEF CommitTriage, OnePlacePerScan, TypeOK
  <2>2. G \in SUBSET Fingerprints /\ request[a].to \in Ledger!TriageStatus
    BY <2>1 DEF Transitions, RequestType, FindingStatus, Ledger!TriageStatus
  <2>3. \A f \in G : findingStatus[f] # "absent"
    BY <1>3 DEF CommitTriage, LedgerInv, RequestInv, Transitions
  <2>4. Ledger!Contend(0)
    BY <1>3 DEF CommitTriage, TouchOthers, Changed, Ledger!Contend, Ledger!Changed
  <2>5. Ledger!Triage(G, request[a].to)
    BY <1>3, <2>3, <2>4 DEF CommitTriage, Ledger!Triage
  <2> QED BY <2>2, <2>5 DEF Ledger!Next
<1>4. CASE \E a \in Analysts, rows \in SUBSET Fingerprints, to \in FindingStatus :
             ReadFindings(a, rows, to)
  BY <1>4 DEF ReadFindings, Ledger!ledgerVars
<1> QED BY <1>1, <1>2, <1>3, <1>4 DEF Upstream, Triage

(* For any number of scans, workers, analysts, findings and reports, queue,  *)
(* sessions and locks implement the ledger: a scan is published in one step  *)
(* that reconciles the findings of its source and no others.  A timeout      *)
(* after the commit of process_scan takes nothing back.                      *)
THEOREM PipelineImplementsLedger == Spec => ImplementsLedger
<1>1. Init => Ledger!Init
  BY DEF Init, Ledger!Init
<1>2. ASSUME OnePlacePerScan, OnePlacePerScan', LedgerInv, Settled, [Next]_vars
      PROVE  [Ledger!Next]_Ledger!ledgerVars
  <2>1. CASE UNCHANGED vars
    BY <2>1 DEF vars, dbVars, Ledger!ledgerVars
  <2>2. CASE Next
    BY <1>2, <2>2, WorkImplements, RequestsImplement DEF Next
  <2> QED BY <1>2, <2>1, <2>2
<1> QED BY <1>1, <1>2, ScansHaveOnePlace, SessionsKnowTheirRows, ScansSettle, PTL
    DEF Spec, ImplementsLedger, Ledger!Spec

--------------------------------------------------------------------------------
(* Locks: the rows of a flush are those seen, and nobody else writes them.   *)

LEMMA LockInvNext ==
  ASSUME OnePlacePerScan, LedgerInv, LockInv, [Next]_vars
  PROVE  LockInv'
<1> USE DEF dbVars, webVars, workVars
<1> DEFINE Same(v) == /\ pc'[v] = pc[v] /\ tx'[v] = tx[v] /\ job'[v] = job[v]
                      /\ Open(v) => report'[job[v]] = report[job[v]]
<1>1. ASSUME NEW v \in Workers, Same(v) PROVE Held(v)' = Held(v)
  BY <1>1 DEF Held, Seen, Items, Open
<1>2. ASSUME NEW v \in Workers, NEW w \in Workers \ {v}, Work(w) \/ Kill(w) PROVE Same(v)
  BY <1>2, WorkKeepsOthers DEF Kept
<1>3. ASSUME NEW v \in Workers, Upstream \/ (\E a \in Analysts : Triage(a)) \/ UNCHANGED vars
      PROVE  Same(v)
  BY <1>3, RequestsKeepSessions DEF Kept
<1>4. ASSUME NEW w \in Workers, Work(w) \/ Kill(w), ~Flush(w)
      PROVE  Held(w)' \subseteq Held(w) /\ (Flushed(w)' => Flushed(w) /\ tx'[w].fresh = tx[w].fresh)
  <2>1. CASE CloseStale(w)
    <3>1. tx[w] \in TxType
      BY DEF OnePlacePerScan, TypeOK
    <3>2. tx'[w] = [tx[w] EXCEPT !.stale = Stale(w)]
      BY <2>1 DEF CloseStale, OnePlacePerScan, TypeOK
    <3>3. tx'[w].pos = tx[w].pos /\ tx'[w].fresh = tx[w].fresh
      BY <3>1, <3>2 DEF TxType
    <3> QED BY <2>1, <3>3 DEF CloseStale, Held, Seen, Items, Flushed
  <2>2. CASE ~CloseStale(w)
    <3>1. pc'[w] \notin {"enriching", "closing"}
      BY <1>4, <2>2 DEF Work, Kill, Dequeue, IngestOwnScan, StartProcessing, MatchItem, Publish,
         Notify, Rollback, FailLate, MarkFailed, Release, OnePlacePerScan, TypeOK
    <3> QED BY <3>1 DEF Held, Flushed
  <2> QED BY <2>1, <2>2
<1>5. ASSUME NEW w \in Workers, Flush(w)
      PROVE  /\ Held(w)' = Seen(w) /\ tx' = tx /\ findingStatus' = findingStatus
             /\ \A v \in Workers \ {w} : Held(v) \cap Seen(w) = {}
             /\ \A f \in tx[w].fresh : findingStatus[f] = "absent"
  <2>1. tx[w].fresh \subseteq Fingerprints
    BY DEF OnePlacePerScan, TypeOK, TxType
  <2>2. tx' = tx /\ job' = job /\ report' = report /\ findingStatus' = findingStatus
    BY <1>5 DEF Flush, dbVars
  <2>3. pc'[w] = "enriching"
    BY <1>5 DEF Flush, OnePlacePerScan, TypeOK
  <2>4. Seen(w)' = Seen(w)
    BY <2>2 DEF Seen, Items
  <2>5. Held(w)' = Seen(w)
    BY <2>3, <2>4 DEF Held
  <2>6. \A v \in Workers \ {w} : Held(v) \cap Seen(w) = {}
    BY <1>5 DEF Flush, FreeFor
  <2>7. \A f \in tx[w].fresh : findingStatus[f] = "absent"
    BY <1>5, <2>1 DEF Flush, Collides
  <2> QED BY <2>2, <2>5, <2>6, <2>7
<1>6. ASSUME NEW v \in Workers, NEW w \in Workers, v # w PROVE Held(v)' \cap Held(w)' = {}
  <2>1. CASE \E u \in Workers : (Work(u) \/ Kill(u)) /\ ~Flush(u)
    <3>1. Held(v)' \subseteq Held(v) /\ Held(w)' \subseteq Held(w)
      BY <2>1, <1>1, <1>2, <1>4
    <3> QED BY <1>6, <3>1 DEF LockInv
  <2>2. CASE \E u \in Workers : Flush(u)
    <3>1. PICK u \in Workers : Flush(u)
      BY <2>2
    <3>2. \A x \in Workers \ {u} : Held(x)' = Held(x)
      BY <3>1, <1>1, <1>2 DEF Work
    <3> QED BY <1>5, <1>6, <3>1, <3>2 DEF LockInv
  <2>3. CASE Upstream \/ (\E a \in Analysts : Triage(a)) \/ UNCHANGED vars
    <3>1. Held(v)' = Held(v) /\ Held(w)' = Held(w)
      BY <2>3, <1>1, <1>3
    <3> QED BY <1>6, <3>1 DEF LockInv
  <2> QED BY <2>1, <2>2, <2>3 DEF Next
<1>7. ASSUME NEW v \in Workers, Flushed(v)', NEW f \in tx'[v].fresh
      PROVE  findingStatus'[f] = "absent"
  <2>1. CASE Flush(v)
    BY <1>5, <1>7, <2>1
  <2>2. CASE ~Flush(v)
    <3>1. Flushed(v) /\ tx'[v].fresh = tx[v].fresh
      BY <1>2, <1>3, <1>4, <1>7, <2>2 DEF Next, Flushed
    <3>2. f \in Held(v) /\ f \in Fingerprints /\ findingStatus[f] = "absent"
      BY <1>7, <3>1 DEF LockInv, LedgerInv, SessionInv, CursorInv, Open, Flushed, Held,
         OnePlacePerScan, TypeOK, TxType
    <3>3. ASSUME NEW w \in Workers, Publish(w) PROVE findingStatus'[f] = findingStatus[f]
      <4>1. w # v
        BY <1>7, <3>3 DEF Publish, Flushed, OnePlacePerScan, TypeOK
      <4>2. f \notin Held(w) /\ f \notin tx[w].stale
        BY <3>2, <3>3, <4>1 DEF LockInv, Publish, FreeFor
      <4>3. f \notin tx[w].fresh \cup tx[w].reopen
        BY <3>3, <4>2 DEF LedgerInv, SessionInv, CursorInv, Publish, Open, Held
      <4> QED BY <3>2, <3>3, <4>2, <4>3 DEF Publish, Written
    <3>4. ASSUME NEW a \in Analysts, CommitTriage(a) PROVE findingStatus'[f] = findingStatus[f]
      BY <3>2, <3>4 DEF CommitTriage
    <3>5. CASE UNCHANGED findingStatus
      BY <3>2, <3>5
    <3> QED BY <3>2, <3>3, <3>4, <3>5 DEF Next, Upstream, Upload, Enqueue, Abandon, Work, Kill,
        Dequeue, IngestOwnScan, StartProcessing, MatchItem, Flush, CloseStale, Notify,
        Rollback, FailLate, MarkFailed, Triage, ReadFindings, vars
  <2> QED BY <2>1, <2>2
<1> QED BY <1>6, <1>7 DEF LockInv

(* The commit turns what the session inserts from absent to present: nobody  *)
(* can have announced it.                                                    *)
LEMMA PublishAlerts ==
  ASSUME OnePlacePerScan, LedgerInv, LockInv, AlertInv, [Next]_vars,
         NEW w \in Workers, Publish(w)
  PROVE  AlertInv'
<1> USE DEF dbVars, webVars
<1>1. /\ alerted' = alerted /\ job' = job /\ tx' = tx
      /\ \A v \in Workers \ {w} : pc'[v] = pc[v]
  BY DEF Publish, OnePlacePerScan, TypeOK
<1>2. \A f \in tx[w].fresh : /\ f \in Fingerprints /\ findingStatus[f] = "absent"
                             /\ findingStatus'[f] = "open"
  <2>1. tx[w].fresh \subseteq Fingerprints
    BY DEF OnePlacePerScan, TypeOK, TxType
  <2>2. \A f \in tx[w].fresh : findingStatus[f] = "absent"
    BY DEF Publish, LockInv, Flushed
  <2>3. \A f \in Fingerprints : findingStatus'[f] = Written(w, f)
    BY DEF Publish
  <2>4. \A f \in tx[w].fresh : Written(w, f) = "open"
    BY DEF Written, Publish, LedgerInv, SessionInv, CursorInv, StaleInv, Open
  <2> QED BY <2>1, <2>2, <2>3, <2>4
<1>3. \A s \in Scans : \A f \in alerted[s] : f \in Fingerprints /\ findingStatus'[f] # "absent"
  <2>1. \A s \in Scans : \A f \in alerted[s] : f \in Fingerprints
    BY DEF OnePlacePerScan, TypeOK
  <2> QED BY <2>1, RowsStay DEF AlertInv
<1>4. \A v \in Workers : pc[v] = "notifying" =>
        \A f \in tx[v].fresh : f \in Fingerprints /\ findingStatus'[f] # "absent"
  <2>1. \A v \in Workers : tx[v].fresh \subseteq Fingerprints
    BY DEF OnePlacePerScan, TypeOK, TxType
  <2> QED BY <2>1, RowsStay DEF AlertInv
<1>5. ASSUME NEW v \in Workers, pc'[v] = "notifying", NEW f \in tx'[v].fresh
      PROVE  /\ findingStatus'[f] # "absent"
             /\ \A s \in Scans : s # job'[v] => f \notin alerted'[s]
             /\ \A u \in Workers : u # v /\ pc'[u] = "notifying" => f \notin tx'[u].fresh
  <2>1. CASE v = w
    BY <1>1, <1>2, <1>5, <2>1 DEF AlertInv
  <2>2. CASE v # w
    BY <1>1, <1>2, <1>4, <1>5, <2>2 DEF AlertInv
  <2> QED BY <2>1, <2>2
<1>6. OneAlertPerFinding'
  BY <1>1 DEF AlertInv, OneAlertPerFinding
<1> QED BY <1>1, <1>3, <1>5, <1>6 DEF AlertInv

(* An announcement is of what no other scan has announced or will.           *)
LEMMA AnnounceAlerts ==
  ASSUME OnePlacePerScan, AlertInv, [Next]_vars, NEW w \in Workers, pc[w] = "notifying",
         MayAnnounce(w), findingStatus' = findingStatus,
         \A v \in Workers \ {w} : pc'[v] = pc[v] /\ tx'[v] = tx[v] /\ job'[v] = job[v],
         pc'[w] # "notifying"
  PROVE  AlertInv'
<1>1. \A v \in Workers \ {w} : pc[v] = "notifying" => job[v] # job[w]
  BY DEF OnePlacePerScan, OneWorkerPerScan, JobPhase
<1>2. job[w] \in Scans
  BY DEF OnePlacePerScan, JobPhase
<1>3. \A s \in Scans : alerted'[s] \subseteq IF s = job[w] THEN alerted[s] \cup tx[w].fresh
                                                           ELSE alerted[s]
  <2>1. DOMAIN alerted = Scans
    BY DEF OnePlacePerScan, TypeOK
  <2>2. CASE alerted' = [alerted EXCEPT ![job[w]] = Announced(w)]
    <3>1. Announced(w) \subseteq tx[w].fresh
      BY DEF Announced
    <3> QED BY <2>1, <2>2, <3>1
  <2> QED BY <2>2 DEF MayAnnounce
<1>4. \A s \in Scans : \A f \in alerted'[s] : findingStatus'[f] # "absent"
  BY <1>3 DEF AlertInv
<1>5. ASSUME NEW v \in Workers, pc'[v] = "notifying", NEW f \in tx'[v].fresh
      PROVE  /\ findingStatus'[f] # "absent"
             /\ \A s \in Scans : s # job'[v] => f \notin alerted'[s]
             /\ \A u \in Workers : u # v /\ pc'[u] = "notifying" => f \notin tx'[u].fresh
  <2>1. v # w /\ pc[v] = "notifying" /\ f \in tx[v].fresh /\ job'[v] = job[v]
    BY <1>5
  <2>2. f \notin tx[w].fresh
    BY <2>1 DEF AlertInv
  <2>3. \A s \in Scans : s # job'[v] => f \notin alerted'[s]
    BY <1>3, <2>1, <2>2 DEF AlertInv
  <2> QED BY <2>1, <2>3 DEF AlertInv
<1>6. OneAlertPerFinding'
  <2>1. \A s \in Scans : s # job[w] => tx[w].fresh \cap alerted[s] = {}
    BY DEF AlertInv
  <2>2. \A s, t \in Scans : s # t => alerted[s] \cap alerted[t] = {}
    BY DEF AlertInv, OneAlertPerFinding
  <2>3. ASSUME NEW s \in Scans, NEW t \in Scans, s # t PROVE alerted'[s] \cap alerted'[t] = {}
    BY <1>3, <2>1, <2>2, <2>3
  <2> QED BY <2>3 DEF OneAlertPerFinding
<1> QED BY <1>4, <1>5, <1>6 DEF AlertInv

(* Steps that neither commit a scan nor announce.                            *)
LEMMA QuietAlerts ==
  ASSUME OnePlacePerScan, AlertInv, [Next]_vars, alerted' = alerted,
         \A v \in Workers : pc'[v] = "notifying" =>
           pc[v] = "notifying" /\ tx'[v] = tx[v] /\ job'[v] = job[v]
  PROVE  AlertInv'
<1>1. \A s \in Scans : alerted[s] \subseteq Fingerprints
  BY DEF OnePlacePerScan, TypeOK
<1>2. \A v \in Workers : tx[v].fresh \subseteq Fingerprints
  BY DEF OnePlacePerScan, TypeOK, TxType
<1>3. \A f \in Fingerprints : findingStatus[f] # "absent" => findingStatus'[f] # "absent"
  BY RowsStay
<1>4. \A s \in Scans : \A f \in alerted'[s] : findingStatus'[f] # "absent"
  BY <1>1, <1>3 DEF AlertInv
<1>5. ASSUME NEW v \in Workers, pc'[v] = "notifying", NEW f \in tx'[v].fresh
      PROVE  /\ findingStatus'[f] # "absent"
             /\ \A s \in Scans : s # job'[v] => f \notin alerted'[s]
             /\ \A u \in Workers : u # v /\ pc'[u] = "notifying" => f \notin tx'[u].fresh
  BY <1>2, <1>3, <1>5 DEF AlertInv
<1>6. OneAlertPerFinding'
  BY DEF AlertInv, OneAlertPerFinding
<1> QED BY <1>4, <1>5, <1>6 DEF AlertInv

LEMMA AlertInvNext ==
  ASSUME OnePlacePerScan, LedgerInv, LockInv, AlertInv, [Next]_vars
  PROVE  AlertInv'
<1> USE DEF dbVars, webVars, workVars
<1>1. ASSUME NEW w \in Workers, Work(w) \/ Kill(w) PROVE AlertInv'
  <2>1. CASE Publish(w)
    BY <2>1, PublishAlerts
  <2>2. CASE Notify(w) \/ FailLate(w)
    <3>1. /\ pc[w] = "notifying" /\ MayAnnounce(w) /\ findingStatus' = findingStatus
          /\ pc'[w] # "notifying"
          /\ \A v \in Workers \ {w} : pc'[v] = pc[v] /\ tx'[v] = tx[v] /\ job'[v] = job[v]
      BY <2>2 DEF Notify, FailLate, Release, OnePlacePerScan, TypeOK
    <3> QED BY <3>1, AnnounceAlerts
  <2>3. CASE ~(Publish(w) \/ Notify(w) \/ FailLate(w))
    <3>1. alerted' = alerted /\ pc'[w] # "notifying"
      BY <1>1, <2>3 DEF Work, Kill, Release, Dequeue, IngestOwnScan, StartProcessing,
         MatchItem, Flush, CloseStale, Rollback, MarkFailed, OnePlacePerScan, TypeOK
    <3>2. \A v \in Workers \ {w} : pc'[v] = pc[v] /\ tx'[v] = tx[v] /\ job'[v] = job[v]
      BY <1>1, WorkKeepsOthers DEF Kept
    <3> QED BY <3>1, <3>2, QuietAlerts
  <2> QED BY <2>1, <2>2, <2>3
<1>2. CASE Upstream \/ (\E a \in Analysts : Triage(a)) \/ UNCHANGED vars
  <2>1. alerted' = alerted
    BY <1>2 DEF Upstream, Upload, Enqueue, Abandon, Triage, ReadFindings, CommitTriage, vars
  <2>2. \A v \in Workers : pc'[v] = pc[v] /\ tx'[v] = tx[v] /\ job'[v] = job[v]
    BY <1>2, RequestsKeepSessions DEF Kept
  <2> QED BY <2>1, <2>2, QuietAlerts
<1> QED BY <1>1, <1>2 DEF Next

(* A finding is announced as new at most once, whatever number of workers    *)
(* match, insert and notify it at the same time, and however they fail.      *)
THEOREM FindingsAnnouncedOnce == Spec => []OneAlertPerFinding
<1>1. Init => LockInv /\ AlertInv
  BY DEF Init, LockInv, AlertInv, OneAlertPerFinding, Held, Flushed
<1>2. OnePlacePerScan /\ LedgerInv /\ LockInv /\ AlertInv /\ [Next]_vars
        => LockInv' /\ AlertInv'
  BY LockInvNext, AlertInvNext
<1>3. AlertInv => OneAlertPerFinding
  BY DEF AlertInv
<1> QED BY <1>1, <1>2, <1>3, ScansHaveOnePlace, SessionsKnowTheirRows, PTL DEF Spec

(* A status only an analyst can give is the one the newest entry of the      *)
(* journal names, with any number of analysts and scans on the same row.     *)
THEOREM DecisionsAreJournaled == Spec => []DecisionJournaled
<1> USE DEF dbVars, webVars, workVars
<1>1. Init => DecisionJournaled
  BY DEF Init, DecisionJournaled
<1>2. ASSUME OnePlacePerScan, DecisionJournaled, [Next]_vars PROVE DecisionJournaled'
  <2>1. ASSUME NEW w \in Workers, Publish(w) PROVE DecisionJournaled'
    BY <1>2, <2>1 DEF Publish, Written, DecisionJournaled
  <2>2. ASSUME NEW a \in Analysts, CommitTriage(a) PROVE DecisionJournaled'
    BY <1>2, <2>2 DEF CommitTriage, Journaled, DecisionJournaled
  <2>3. CASE UNCHANGED <<findingStatus, lastNote>>
    BY <1>2, <2>3 DEF DecisionJournaled
  <2> QED BY <1>2, <2>1, <2>2, <2>3 DEF Next, Upstream, Upload, Enqueue, Abandon, Work, Kill,
      Dequeue, IngestOwnScan, StartProcessing, MatchItem, Flush, CloseStale, Notify,
      Rollback, FailLate, MarkFailed, Triage, ReadFindings, vars
<1> QED BY <1>1, <1>2, ScansHaveOnePlace, PTL DEF Spec

--------------------------------------------------------------------------------
(* What a scan may do to a row: the two halves of its verdict.               *)

(* The commit of a scan writes rows of its own source only.                  *)
LEMMA PublishStaysHome ==
  ASSUME OnePlacePerScan, NEW w \in Workers, SessionInv(w), Publish(w), NEW f \in Changed
  PROVE  SourceOf[f] = report[job[w]].src
<1>1. Open(w) /\ f \in Fingerprints
  BY DEF Publish, Open, Changed
<1>2. report[job[w]] \in Reports /\ Items(w) \in Seq(Fingerprints) /\ ParsedAll(w)
  BY <1>1, SeenType DEF SessionInv, CursorInv, Publish, Flushed
<1>3. f \in Seen(w) \/ f \in tx[w].stale
  BY <1>1 DEF Changed, Publish, Written, SessionInv, CursorInv
<1>4. CASE f \in Seen(w)
  <2>1. PICK i \in DOMAIN Items(w) : f = Items(w)[i]
    BY <1>1, <1>2, <1>4, SeenWhole DEF SessionInv
  <2> QED BY <1>2, <2>1, ReportsAssumption DEF Items
<1>5. CASE f \in tx[w].stale
  BY <1>5 DEF SessionInv, StaleInv, Publish
<1> QED BY <1>3, <1>4, <1>5

(* An analyst's decision stands against a scan that read the row after it.   *)
LEMMA PublishKeepsDecisions ==
  ASSUME OnePlacePerScan, NEW w \in Workers, SessionInv(w), Publish(w),
         NEW f \in Fingerprints \ touched[job[w]],
         findingStatus[f] \in {"in_progress", "false_positive", "accepted"}
  PROVE  findingStatus'[f] = findingStatus[f] \/
           (findingStatus[f] = "in_progress" /\ findingStatus'[f] = "fixed" /\ f \in Stale(w))
<1>1. Open(w) /\ findingStatus'[f] = Written(w, f)
  BY DEF Publish, Open
<1>2. f \notin tx[w].fresh \cup tx[w].reopen
  BY <1>1 DEF SessionInv, CursorInv, DecidedInv
<1>3. f \in tx[w].stale <=> f \in Stale(w)
  BY DEF SessionInv, StaleInv, Publish
<1> QED BY <1>1, <1>2, <1>3 DEF Written, Stale, Unresolved

(* A step that changes statuses or stamps is a triage or a scan's commit.    *)
LEMMA OnlyTwoWriters ==
  ASSUME [Next]_vars, ~UNCHANGED <<findingStatus, lastScan>>
  PROVE  (\E w \in Workers : Publish(w)) \/ (\E a \in Analysts : CommitTriage(a))
BY DEF Next, Upstream, Upload, Enqueue, Abandon, Work, Kill, Dequeue, IngestOwnScan,
   StartProcessing, MatchItem, Flush, CloseStale, Notify, Rollback, FailLate, MarkFailed,
   Triage, ReadFindings, dbVars, vars

(* Who may change a row: an analyst, or a scan of the row's source.          *)
HomeStep ==
  \A f \in Changed :
    \/ \E a \in Analysts : CommitTriage(a)
    \/ \E w \in Workers : Publish(w) /\ SourceOf[f] = report[job[w]].src

(* However many scans of however many sources are processed at once, a       *)
(* finding changes only by a triage or by the commit of a scan of its own    *)
(* asset and scanner: no report closes, reopens or claims another source's.  *)
THEOREM ScansStayHome == Spec => [][HomeStep]_vars
<1>1. ASSUME OnePlacePerScan, LedgerInv, [Next]_vars
      PROVE  HomeStep
  <2> SUFFICES ASSUME NEW f \in Changed
               PROVE  \/ \E a \in Analysts : CommitTriage(a)
                      \/ \E w \in Workers : Publish(w) /\ SourceOf[f] = report[job[w]].src
    BY DEF HomeStep
  <2>1. ~UNCHANGED <<findingStatus, lastScan>>
    BY DEF Changed
  <2>2. ASSUME NEW w \in Workers, Publish(w) PROVE SourceOf[f] = report[job[w]].src
    BY <1>1, <2>2, PublishStaysHome DEF LedgerInv
  <2> QED BY <1>1, <2>1, <2>2, OnlyTwoWriters
<1> QED BY <1>1, ScansHaveOnePlace, SessionsKnowTheirRows, PTL DEF Spec

(* Who may undo a verdict: an analyst whose request named the row, or a scan *)
(* that was being processed when somebody else last changed the row.         *)
Decided == {"false_positive", "accepted"}

UndoStep ==
  \A f \in Fingerprints :
    findingStatus[f] \in Decided /\ findingStatus'[f] # findingStatus[f] =>
      \/ \E a \in Analysts : CommitTriage(a) /\ f \in Transitions(request[a])
      \/ \E w \in Workers : Publish(w) /\ f \in touched[job[w]]

(* A false positive or an accepted risk is undone by a triage of that row or *)
(* by a scan that already ran when the row was decided: every scan that      *)
(* starts after the decision leaves it alone, whatever its report lists.     *)
THEOREM DecisionsOutliveScans == Spec => [][UndoStep]_vars
<1>1. ASSUME OnePlacePerScan, LedgerInv, [Next]_vars
      PROVE  UndoStep
  <2> SUFFICES ASSUME NEW f \in Fingerprints, findingStatus[f] \in Decided,
                      findingStatus'[f] # findingStatus[f]
               PROVE  \/ \E a \in Analysts : CommitTriage(a) /\ f \in Transitions(request[a])
                      \/ \E w \in Workers : Publish(w) /\ f \in touched[job[w]]
    BY DEF UndoStep
  <2>1. ~UNCHANGED <<findingStatus, lastScan>>
    OBVIOUS
  <2>2. ASSUME NEW w \in Workers, Publish(w) PROVE f \in touched[job[w]]
    BY <1>1, <2>2, PublishKeepsDecisions DEF LedgerInv, Decided
  <2>3. ASSUME NEW a \in Analysts, CommitTriage(a) PROVE f \in Transitions(request[a])
    BY <2>3 DEF CommitTriage
  <2> QED BY <1>1, <2>1, <2>2, <2>3, OnlyTwoWriters
<1> QED BY <1>1, ScansHaveOnePlace, SessionsKnowTheirRows, PTL DEF Spec
================================================================================
