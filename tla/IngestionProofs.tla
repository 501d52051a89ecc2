---------------------------- MODULE IngestionProofs ----------------------------
(***************************************************************************)
(* Proofs about the ingestion pipeline for any number of scans, workers,   *)
(* analysts, findings and reports.                                         *)
(***************************************************************************)
EXTENDS Ingestion, TLAPS

USE ConstantsAssumption DEF Scans

(* An item the cursor has not passed is a fingerprint of a stored report.    *)
LEMMA ItemsAreFingerprints ==
  ASSUME OnePlacePerScan, NEW w \in Workers,
         pc[w] \in {"matching", "enriching", "closing", "notifying"}
  PROVE  /\ report[job[w]] \in Reports
         /\ Items(w) \in Seq(Fingerprints)
         /\ Seen(w) \subseteq {Items(w)[i] : i \in 1..(tx[w].pos - 1)}
<1>1. job[w] \in Scans /\ scanStatus[job[w]] \in Phase(pc[w])
  BY DEF OnePlacePerScan, JobPhase
<1>2. scanStatus[job[w]] # "absent"
  BY <1>1 DEF Phase
<1>3. report[job[w]] \in Reports
  BY <1>1, <1>2 DEF OnePlacePerScan, Reported
<1> QED BY <1>3, ReportsAssumption DEF Items, Seen

LEMMA MatchItemType ==
  ASSUME OnePlacePerScan, NEW w \in Workers, MatchItem(w)
  PROVE  tx' \in [Workers -> TxType]
<1> DEFINE f == Items(w)[tx[w].pos]
<1>1. Items(w) \in Seq(Fingerprints)
  BY ItemsAreFingerprints DEF MatchItem
<1>2. tx[w] \in TxType
  BY DEF OnePlacePerScan, TypeOK
<1>3. tx[w].pos \in 1..Len(Items(w))
  BY <1>1, <1>2 DEF MatchItem, ParsedAll, TxType
<1>4. f \in Fingerprints
  BY <1>1, <1>3
<1>5. Matched(w, f) \in TxType
  BY <1>2, <1>4 DEF Matched, TxType
<1>6. [Matched(w, f) EXCEPT !.pos = @ + 1] \in TxType
  BY <1>5 DEF TxType
<1> QED BY <1>6 DEF MatchItem, OnePlacePerScan, TypeOK

(* A scan id without a row is nowhere: not uploading, queued or processed.   *)
LEMMA AbsentIsNowhere ==
  ASSUME OnePlacePerScan, NEW s \in Scans, scanStatus[s] = "absent"
  PROVE  /\ s \notin uploading
         /\ \A i \in DOMAIN queue : queue[i] # s
         /\ \A w \in Workers : job[w] # s
<1>1. s \notin uploading /\ \A i \in DOMAIN queue : queue[i] # s
  BY DEF OnePlacePerScan, UploadFresh, QueueFresh, Unstarted
<1>2. ASSUME NEW w \in Workers, job[w] = s PROVE FALSE
  <2>1. pc[w] # "idle" /\ scanStatus[s] \in Phase(pc[w])
    BY <1>2 DEF OnePlacePerScan, JobPhase
  <2>2. pc[w] \in {"starting", "matching", "enriching", "closing", "notifying", "failing"}
    BY <2>1 DEF OnePlacePerScan, TypeOK
  <2> QED BY <2>1, <2>2 DEF Phase
<1> QED BY <1>1, <1>2

LEMMA UploadInv ==
  ASSUME OnePlacePerScan, NEW s \in Scans, NEW r \in Reports, Upload(s, r)
  PROVE  OnePlacePerScan'
<1> USE DEF OnePlacePerScan, Upload, NextId, dbVars, webVars, workVars
<1>0. /\ s \notin uploading
      /\ \A i \in DOMAIN queue : queue[i] # s
      /\ \A w_1 \in Workers : job[w_1] # s
  BY AbsentIsNowhere
<1>1. TypeOK'
  BY DEF TypeOK, ScanStatus, TxType, EmptyTx
<1>2. Reported'
  BY DEF Reported, TypeOK
<1>3. JobPhase'
  BY <1>0 DEF JobPhase, Phase, TypeOK, OneWorkerPerScan, QueueFresh, UploadFresh, Unstarted
<1>4. OneWorkerPerScan'
  BY <1>0 DEF OneWorkerPerScan, TypeOK, JobPhase, QueueFresh, Unstarted
<1>5. QueueFresh'
  BY <1>0 DEF QueueFresh, UploadFresh, Unstarted, TypeOK, JobPhase, OneWorkerPerScan, Phase
<1>6. UploadFresh'
  BY <1>0 DEF UploadFresh, QueueFresh, Unstarted, TypeOK, JobPhase, OneWorkerPerScan, Phase
<1> QED BY <1>1, <1>2, <1>3, <1>4, <1>5, <1>6

LEMMA EnqueueInv ==
  ASSUME OnePlacePerScan, NEW s \in Scans, Enqueue(s)
  PROVE  OnePlacePerScan'
<1> USE DEF OnePlacePerScan, Enqueue, dbVars, webVars, workVars
<1>1. TypeOK'
  BY DEF TypeOK, ScanStatus, TxType, EmptyTx
<1>2. Reported'
  BY DEF Reported, TypeOK
<1>3. JobPhase'
  BY DEF JobPhase, Phase, TypeOK, OneWorkerPerScan, QueueFresh, UploadFresh, Unstarted
<1>4. OneWorkerPerScan'
  BY DEF OneWorkerPerScan, TypeOK, JobPhase, QueueFresh, Unstarted
<1>5. QueueFresh'
  <2>1. /\ queue \in Seq(Scans) /\ queue' = Append(queue, s)
        /\ uploading' = uploading \ {s} /\ scanStatus' = scanStatus /\ job' = job
    BY DEF TypeOK
  <2>2. Unstarted(s) /\ \A i \in DOMAIN queue : queue[i] # s /\ Unstarted(queue[i])
    BY DEF UploadFresh, QueueFresh
  <2>3. /\ DOMAIN queue' = DOMAIN queue \cup {Len(queue) + 1} /\ queue'[Len(queue) + 1] = s
        /\ \A i \in DOMAIN queue : queue'[i] = queue[i] /\ i # Len(queue) + 1
    BY <2>1
  <2>4. \A i, j \in DOMAIN queue' : queue'[i] = queue'[j] => i = j
    BY <2>2, <2>3 DEF QueueFresh
  <2>5. \A i \in DOMAIN queue' : Unstarted(queue'[i]) /\ queue'[i] \notin uploading'
    BY <2>1, <2>2, <2>3 DEF QueueFresh
  <2> QED BY <2>1, <2>4, <2>5 DEF QueueFresh, Unstarted
<1>6. UploadFresh'
  BY DEF UploadFresh, QueueFresh, Unstarted, TypeOK, JobPhase, OneWorkerPerScan, Phase
<1> QED BY <1>1, <1>2, <1>3, <1>4, <1>5, <1>6

LEMMA AbandonInv ==
  ASSUME OnePlacePerScan, NEW s \in Scans, Abandon(s)
  PROVE  OnePlacePerScan'
<1> USE DEF OnePlacePerScan, Abandon, dbVars, webVars, workVars
<1>1. TypeOK'
  BY DEF TypeOK, ScanStatus, TxType, EmptyTx
<1>2. Reported'
  BY DEF Reported, TypeOK
<1>3. JobPhase'
  BY DEF JobPhase, Phase, TypeOK, OneWorkerPerScan, QueueFresh, UploadFresh, Unstarted
<1>4. OneWorkerPerScan'
  BY DEF OneWorkerPerScan, TypeOK, JobPhase, QueueFresh, Unstarted
<1>5. QueueFresh'
  BY DEF QueueFresh, UploadFresh, Unstarted, TypeOK, JobPhase, OneWorkerPerScan, Phase
<1>6. UploadFresh'
  BY DEF UploadFresh, QueueFresh, Unstarted, TypeOK, JobPhase, OneWorkerPerScan, Phase
<1> QED BY <1>1, <1>2, <1>3, <1>4, <1>5, <1>6

LEMMA DequeueInv ==
  ASSUME OnePlacePerScan, NEW w \in Workers, Dequeue(w)
  PROVE  OnePlacePerScan'
<1> USE DEF OnePlacePerScan, Dequeue, dbVars, webVars, workVars
<1>1. TypeOK'
  BY DEF TypeOK, ScanStatus, TxType, EmptyTx
<1>2. Reported'
  BY DEF Reported, TypeOK
<1>3. JobPhase'
  BY DEF JobPhase, Phase, TypeOK, OneWorkerPerScan, QueueFresh, UploadFresh, Unstarted
<1>4. OneWorkerPerScan'
  BY DEF OneWorkerPerScan, TypeOK, JobPhase, QueueFresh, Unstarted
<1>5. QueueFresh'
  <2>1. queue \in Seq(Scans) /\ queue # <<>>
    BY DEF TypeOK
  <2>2. /\ Len(queue) \in Nat \ {0} /\ Head(queue) = queue[1]
        /\ DOMAIN queue = 1..Len(queue)
    BY <2>1
  <2>3. /\ DOMAIN queue' = 1..(Len(queue) - 1)
        /\ \A i \in DOMAIN queue' : queue'[i] = queue[i + 1]
    BY <2>1
  <2>4. \A i \in DOMAIN queue' : i + 1 \in DOMAIN queue /\ i + 1 # 1
    BY <2>2, <2>3
  <2>5. \A i, j \in DOMAIN queue' : queue'[i] = queue'[j] => i = j
    BY <2>2, <2>3, <2>4 DEF QueueFresh
  <2>6. \A i \in DOMAIN queue' : queue'[i] # Head(queue)
    BY <2>2, <2>3, <2>4 DEF QueueFresh
  <2>7. \A i \in DOMAIN queue' : /\ scanStatus'[queue'[i]] = "pending"
                                 /\ \A v \in Workers : job'[v] # queue'[i]
                                 /\ queue'[i] \notin uploading'
    BY <2>2, <2>3, <2>4, <2>6 DEF QueueFresh, Unstarted, TypeOK
  <2> QED BY <2>3, <2>5, <2>7 DEF QueueFresh, Unstarted
<1>6. UploadFresh'
  BY DEF UploadFresh, QueueFresh, Unstarted, TypeOK, JobPhase, OneWorkerPerScan, Phase
<1> QED BY <1>1, <1>2, <1>3, <1>4, <1>5, <1>6

LEMMA IngestOwnScanInv ==
  ASSUME OnePlacePerScan, NEW w \in Workers, NEW s \in Scans, NEW r \in Reports, IngestOwnScan(w, s, r)
  PROVE  OnePlacePerScan'
<1> USE DEF OnePlacePerScan, IngestOwnScan, NextId, dbVars, webVars, workVars
<1>0. /\ s \notin uploading
      /\ \A i \in DOMAIN queue : queue[i] # s
      /\ \A w_1 \in Workers : job[w_1] # s
  BY AbsentIsNowhere
<1>1. TypeOK'
  BY DEF TypeOK, ScanStatus, TxType, EmptyTx
<1>2. Reported'
  BY DEF Reported, TypeOK
<1>3. JobPhase'
  BY <1>0 DEF JobPhase, Phase, TypeOK, OneWorkerPerScan, QueueFresh, UploadFresh, Unstarted
<1>4. OneWorkerPerScan'
  BY <1>0 DEF OneWorkerPerScan, TypeOK, JobPhase, QueueFresh, Unstarted
<1>5. QueueFresh'
  BY <1>0 DEF QueueFresh, UploadFresh, Unstarted, TypeOK, JobPhase, OneWorkerPerScan, Phase
<1>6. UploadFresh'
  BY <1>0 DEF UploadFresh, QueueFresh, Unstarted, TypeOK, JobPhase, OneWorkerPerScan, Phase
<1> QED BY <1>1, <1>2, <1>3, <1>4, <1>5, <1>6

LEMMA StartProcessingInv ==
  ASSUME OnePlacePerScan, NEW w \in Workers, StartProcessing(w)
  PROVE  OnePlacePerScan'
<1> USE DEF OnePlacePerScan, StartProcessing, dbVars, webVars, workVars
<1>1. TypeOK'
  BY DEF TypeOK, ScanStatus, TxType, EmptyTx
<1>2. Reported'
  BY DEF Reported, TypeOK, JobPhase, Phase
<1>3. JobPhase'
  BY DEF JobPhase, Phase, TypeOK, OneWorkerPerScan, QueueFresh, UploadFresh, Unstarted
<1>4. OneWorkerPerScan'
  BY DEF OneWorkerPerScan, TypeOK, JobPhase, QueueFresh, Unstarted
<1>5. QueueFresh'
  BY DEF QueueFresh, UploadFresh, Unstarted, TypeOK, JobPhase, OneWorkerPerScan, Phase
<1>6. UploadFresh'
  BY DEF UploadFresh, QueueFresh, Unstarted, TypeOK, JobPhase, OneWorkerPerScan, Phase
<1> QED BY <1>1, <1>2, <1>3, <1>4, <1>5, <1>6

LEMMA MatchItemInv ==
  ASSUME OnePlacePerScan, NEW w \in Workers, MatchItem(w)
  PROVE  OnePlacePerScan'
<1> USE DEF OnePlacePerScan, MatchItem, dbVars, webVars, workVars
<1>1. TypeOK'
  BY MatchItemType DEF TypeOK
<1>2. Reported'
  BY DEF Reported, TypeOK
<1>3. JobPhase'
  BY DEF JobPhase, Phase, TypeOK, OneWorkerPerScan, QueueFresh, UploadFresh, Unstarted
<1>4. OneWorkerPerScan'
  BY DEF OneWorkerPerScan, TypeOK, JobPhase, QueueFresh, Unstarted
<1>5. QueueFresh'
  BY DEF QueueFresh, UploadFresh, Unstarted, TypeOK, JobPhase, OneWorkerPerScan, Phase
<1>6. UploadFresh'
  BY DEF UploadFresh, QueueFresh, Unstarted, TypeOK, JobPhase, OneWorkerPerScan, Phase
<1> QED BY <1>1, <1>2, <1>3, <1>4, <1>5, <1>6

LEMMA FlushInv ==
  ASSUME OnePlacePerScan, NEW w \in Workers, Flush(w)
  PROVE  OnePlacePerScan'
<1> USE DEF OnePlacePerScan, Flush, dbVars, webVars, workVars
<1>1. TypeOK'
  BY DEF TypeOK, ScanStatus, TxType, EmptyTx
<1>2. Reported'
  BY DEF Reported, TypeOK
<1>3. JobPhase'
  BY DEF JobPhase, Phase, TypeOK, OneWorkerPerScan, QueueFresh, UploadFresh, Unstarted
<1>4. OneWorkerPerScan'
  BY DEF OneWorkerPerScan, TypeOK, JobPhase, QueueFresh, Unstarted
<1>5. QueueFresh'
  BY DEF QueueFresh, UploadFresh, Unstarted, TypeOK, JobPhase, OneWorkerPerScan, Phase
<1>6. UploadFresh'
  BY DEF UploadFresh, QueueFresh, Unstarted, TypeOK, JobPhase, OneWorkerPerScan, Phase
<1> QED BY <1>1, <1>2, <1>3, <1>4, <1>5, <1>6

LEMMA CloseStaleInv ==
  ASSUME OnePlacePerScan, NEW w \in Workers, CloseStale(w)
  PROVE  OnePlacePerScan'
<1> USE DEF OnePlacePerScan, CloseStale, dbVars, webVars, workVars
<1>1. TypeOK'
  <2>1. Stale(w) \in SUBSET Fingerprints
    BY DEF Stale
  <2>2. tx[w] \in TxType
    BY DEF TypeOK
  <2> HIDE DEF CloseStale
  <2>3. [tx[w] EXCEPT !.stale = Stale(w)] \in TxType
    BY <2>1, <2>2 DEF TxType
  <2> QED BY <2>3 DEF TypeOK, CloseStale
<1>2. Reported'
  BY DEF Reported, TypeOK
<1>3. JobPhase'
  BY DEF JobPhase, Phase, TypeOK, OneWorkerPerScan, QueueFresh, UploadFresh, Unstarted
<1>4. OneWorkerPerScan'
  BY DEF OneWorkerPerScan, TypeOK, JobPhase, QueueFresh, Unstarted
<1>5. QueueFresh'
  BY DEF QueueFresh, UploadFresh, Unstarted, TypeOK, JobPhase, OneWorkerPerScan, Phase
<1>6. UploadFresh'
  BY DEF UploadFresh, QueueFresh, Unstarted, TypeOK, JobPhase, OneWorkerPerScan, Phase
<1> QED BY <1>1, <1>2, <1>3, <1>4, <1>5, <1>6

LEMMA PublishInv ==
  ASSUME OnePlacePerScan, NEW w \in Workers, Publish(w)
  PROVE  OnePlacePerScan'
<1> USE DEF OnePlacePerScan, Publish, TouchOthers, dbVars, webVars, workVars
<1>1. TypeOK'
  <2>1. job[w] \in Scans
    BY DEF JobPhase
  <2>2. findingStatus' \in [Fingerprints -> FindingStatus \cup {"absent"}]
    BY DEF TypeOK, Written, FindingStatus
  <2>3. lastScan' \in [Fingerprints -> Scans \cup {0}]
    BY <2>1 DEF TypeOK
  <2>4. touched' \in [Scans -> SUBSET Fingerprints]
    BY DEF TypeOK, Changed
  <2> QED BY <2>1, <2>2, <2>3, <2>4 DEF TypeOK, ScanStatus
<1>2. Reported'
  BY DEF Reported, TypeOK, JobPhase, Phase
<1>3. JobPhase'
  BY DEF JobPhase, Phase, TypeOK, OneWorkerPerScan, QueueFresh, UploadFresh, Unstarted
<1>4. OneWorkerPerScan'
  BY DEF OneWorkerPerScan, TypeOK, JobPhase, QueueFresh, Unstarted
<1>5. QueueFresh'
  BY DEF QueueFresh, UploadFresh, Unstarted, TypeOK, JobPhase, OneWorkerPerScan, Phase
<1>6. UploadFresh'
  BY DEF UploadFresh, QueueFresh, Unstarted, TypeOK, JobPhase, OneWorkerPerScan, Phase
<1> QED BY <1>1, <1>2, <1>3, <1>4, <1>5, <1>6

LEMMA NotifyInv ==
  ASSUME OnePlacePerScan, NEW w \in Workers, Notify(w)
  PROVE  OnePlacePerScan'
<1> USE DEF OnePlacePerScan, Notify, Release, MayAnnounce, dbVars, webVars, workVars
<1>1. TypeOK'
  <2>1. job[w] \in Scans
    BY DEF JobPhase
  <2>2. Announced(w) \in SUBSET Alertable
    BY DEF Announced
  <2>3. alerted' \in [Scans -> SUBSET Alertable]
    BY <2>1, <2>2 DEF TypeOK
  <2>4. EmptyTx \in TxType
    BY DEF EmptyTx, TxType
  <2> QED BY <2>3, <2>4 DEF TypeOK
<1>2. Reported'
  BY DEF Reported, TypeOK
<1>3. JobPhase'
  BY DEF JobPhase, Phase, TypeOK, OneWorkerPerScan, QueueFresh, UploadFresh, Unstarted
<1>4. OneWorkerPerScan'
  BY DEF OneWorkerPerScan, TypeOK, JobPhase, QueueFresh, Unstarted
<1>5. QueueFresh'
  BY DEF QueueFresh, UploadFresh, Unstarted, TypeOK, JobPhase, OneWorkerPerScan, Phase
<1>6. UploadFresh'
  BY DEF UploadFresh, QueueFresh, Unstarted, TypeOK, JobPhase, OneWorkerPerScan, Phase
<1> QED BY <1>1, <1>2, <1>3, <1>4, <1>5, <1>6

LEMMA RollbackInv ==
  ASSUME OnePlacePerScan, NEW w \in Workers, Rollback(w)
  PROVE  OnePlacePerScan'
<1> USE DEF OnePlacePerScan, Rollback, dbVars, webVars, workVars
<1>1. TypeOK'
  BY DEF TypeOK, ScanStatus, TxType, EmptyTx
<1>2. Reported'
  BY DEF Reported, TypeOK
<1>3. JobPhase'
  BY DEF JobPhase, Phase, TypeOK, OneWorkerPerScan, QueueFresh, UploadFresh, Unstarted
<1>4. OneWorkerPerScan'
  BY DEF OneWorkerPerScan, TypeOK, JobPhase, QueueFresh, Unstarted
<1>5. QueueFresh'
  BY DEF QueueFresh, UploadFresh, Unstarted, TypeOK, JobPhase, OneWorkerPerScan, Phase
<1>6. UploadFresh'
  BY DEF UploadFresh, QueueFresh, Unstarted, TypeOK, JobPhase, OneWorkerPerScan, Phase
<1> QED BY <1>1, <1>2, <1>3, <1>4, <1>5, <1>6

LEMMA FailLateInv ==
  ASSUME OnePlacePerScan, NEW w \in Workers, FailLate(w)
  PROVE  OnePlacePerScan'
<1> USE DEF OnePlacePerScan, FailLate, MayAnnounce, dbVars, webVars, workVars
<1>1. TypeOK'
  <2>1. job[w] \in Scans
    BY DEF JobPhase
  <2>2. Announced(w) \in SUBSET Alertable
    BY DEF Announced
  <2>3. alerted' \in [Scans -> SUBSET Alertable]
    BY <2>1, <2>2 DEF TypeOK
  <2>4. EmptyTx \in TxType
    BY DEF EmptyTx, TxType
  <2> QED BY <2>3, <2>4 DEF TypeOK
<1>2. Reported'
  BY DEF Reported, TypeOK
<1>3. JobPhase'
  BY DEF JobPhase, Phase, TypeOK, OneWorkerPerScan, QueueFresh, UploadFresh, Unstarted
<1>4. OneWorkerPerScan'
  BY DEF OneWorkerPerScan, TypeOK, JobPhase, QueueFresh, Unstarted
<1>5. QueueFresh'
  BY DEF QueueFresh, UploadFresh, Unstarted, TypeOK, JobPhase, OneWorkerPerScan, Phase
<1>6. UploadFresh'
  BY DEF UploadFresh, QueueFresh, Unstarted, TypeOK, JobPhase, OneWorkerPerScan, Phase
<1> QED BY <1>1, <1>2, <1>3, <1>4, <1>5, <1>6

LEMMA MarkFailedInv ==
  ASSUME OnePlacePerScan, NEW w \in Workers, MarkFailed(w)
  PROVE  OnePlacePerScan'
<1> USE DEF OnePlacePerScan, MarkFailed, Release, dbVars, webVars, workVars
<1>1. TypeOK'
  <2>1. job[w] \in Scans
    BY DEF JobPhase
  <2>2. EmptyTx \in TxType
    BY DEF EmptyTx, TxType
  <2> QED BY <2>1, <2>2 DEF TypeOK, ScanStatus
<1>2. Reported'
  BY DEF Reported, TypeOK, JobPhase, Phase
<1>3. JobPhase'
  BY DEF JobPhase, Phase, TypeOK, OneWorkerPerScan, QueueFresh, UploadFresh, Unstarted
<1>4. OneWorkerPerScan'
  BY DEF OneWorkerPerScan, TypeOK, JobPhase, QueueFresh, Unstarted
<1>5. QueueFresh'
  BY DEF QueueFresh, UploadFresh, Unstarted, TypeOK, JobPhase, OneWorkerPerScan, Phase
<1>6. UploadFresh'
  BY DEF UploadFresh, QueueFresh, Unstarted, TypeOK, JobPhase, OneWorkerPerScan, Phase
<1> QED BY <1>1, <1>2, <1>3, <1>4, <1>5, <1>6

LEMMA KillInv ==
  ASSUME OnePlacePerScan, NEW w \in Workers, Kill(w)
  PROVE  OnePlacePerScan'
<1> USE DEF OnePlacePerScan, Kill, Release, dbVars, webVars, workVars
<1>1. TypeOK'
  <2>1. job[w] \in Scans
    BY DEF JobPhase
  <2>2. EmptyTx \in TxType
    BY DEF EmptyTx, TxType
  <2> QED BY <2>1, <2>2 DEF TypeOK
<1>2. Reported'
  BY DEF Reported, TypeOK
<1>3. JobPhase'
  BY DEF JobPhase, Phase, TypeOK, OneWorkerPerScan, QueueFresh, UploadFresh, Unstarted
<1>4. OneWorkerPerScan'
  BY DEF OneWorkerPerScan, TypeOK, JobPhase, QueueFresh, Unstarted
<1>5. QueueFresh'
  BY DEF QueueFresh, UploadFresh, Unstarted, TypeOK, JobPhase, OneWorkerPerScan, Phase
<1>6. UploadFresh'
  BY DEF UploadFresh, QueueFresh, Unstarted, TypeOK, JobPhase, OneWorkerPerScan, Phase
<1> QED BY <1>1, <1>2, <1>3, <1>4, <1>5, <1>6

LEMMA ReadFindingsInv ==
  ASSUME OnePlacePerScan, NEW a \in Analysts, NEW rows \in SUBSET Fingerprints, NEW to \in FindingStatus, ReadFindings(a, rows, to)
  PROVE  OnePlacePerScan'
<1> USE DEF OnePlacePerScan, ReadFindings, dbVars, webVars, workVars
<1>1. TypeOK'
  <2> DEFINE q == [rows |-> rows, to |-> to, old |-> [f \in rows |-> findingStatus[f]]]
  <2>1. q.old \in [rows -> FindingStatus]
    BY DEF TypeOK
  <2>2. q \in RequestType
    BY <2>1 DEF RequestType
  <2>3. request' \in [Analysts -> RequestType \cup {NoRequest}]
    BY <2>2 DEF TypeOK
  <2>4. triages' \in 0..MaxTriage
    BY DEF TypeOK
  <2> QED BY <2>3, <2>4 DEF TypeOK
<1>2. Reported'
  BY DEF Reported, TypeOK
<1>3. JobPhase'
  BY DEF JobPhase, Phase, TypeOK, OneWorkerPerScan, QueueFresh, UploadFresh, Unstarted
<1>4. OneWorkerPerScan'
  BY DEF OneWorkerPerScan, TypeOK, JobPhase, QueueFresh, Unstarted
<1>5. QueueFresh'
  BY DEF QueueFresh, UploadFresh, Unstarted, TypeOK, JobPhase, OneWorkerPerScan, Phase
<1>6. UploadFresh'
  BY DEF UploadFresh, QueueFresh, Unstarted, TypeOK, JobPhase, OneWorkerPerScan, Phase
<1> QED BY <1>1, <1>2, <1>3, <1>4, <1>5, <1>6

LEMMA CommitTriageInv ==
  ASSUME OnePlacePerScan, NEW a \in Analysts, CommitTriage(a)
  PROVE  OnePlacePerScan'
<1> USE DEF OnePlacePerScan, CommitTriage, TouchOthers, dbVars, webVars, workVars
<1>1. TypeOK'
  <2>1. request[a].to \in FindingStatus
    BY DEF TypeOK, RequestType
  <2>2. findingStatus' \in [Fingerprints -> FindingStatus \cup {"absent"}]
    BY <2>1 DEF TypeOK
  <2>3. lastNote' \in [Fingerprints -> FindingStatus \cup {"none"}]
    BY <2>1 DEF TypeOK
  <2>4. touched' \in [Scans -> SUBSET Fingerprints]
    BY DEF TypeOK, Changed
  <2>5. request' \in [Analysts -> RequestType \cup {NoRequest}]
    BY DEF TypeOK
  <2> QED BY <2>2, <2>3, <2>4, <2>5 DEF TypeOK
<1>2. Reported'
  BY DEF Reported, TypeOK
<1>3. JobPhase'
  BY DEF JobPhase, Phase, TypeOK, OneWorkerPerScan, QueueFresh, UploadFresh, Unstarted
<1>4. OneWorkerPerScan'
  BY DEF OneWorkerPerScan, TypeOK, JobPhase, QueueFresh, Unstarted
<1>5. QueueFresh'
  BY DEF QueueFresh, UploadFresh, Unstarted, TypeOK, JobPhase, OneWorkerPerScan, Phase
<1>6. UploadFresh'
  BY DEF UploadFresh, QueueFresh, Unstarted, TypeOK, JobPhase, OneWorkerPerScan, Phase
<1> QED BY <1>1, <1>2, <1>3, <1>4, <1>5, <1>6

(* No row, no request, no job: the initial state has every scan in no place. *)
LEMMA InitInv == Init => OnePlacePerScan
<1> SUFFICES ASSUME Init PROVE OnePlacePerScan
  OBVIOUS
<1> USE DEF Init
<1>1. TypeOK
  BY DEF TypeOK, ScanStatus, TxType, EmptyTx
<1>2. Reported /\ JobPhase /\ OneWorkerPerScan
  BY DEF Reported, JobPhase, OneWorkerPerScan
<1>3. QueueFresh /\ UploadFresh
  BY DEF QueueFresh, UploadFresh
<1> QED BY <1>1, <1>2, <1>3 DEF OnePlacePerScan

LEMMA StutterInv == ASSUME OnePlacePerScan, UNCHANGED vars PROVE OnePlacePerScan'
<1> USE DEF OnePlacePerScan, vars, dbVars, webVars, workVars
<1>1. TypeOK'
  BY DEF TypeOK
<1>2. Reported' /\ JobPhase' /\ OneWorkerPerScan'
  BY DEF Reported, JobPhase, OneWorkerPerScan
<1>3. QueueFresh' /\ UploadFresh'
  BY DEF QueueFresh, UploadFresh, Unstarted
<1> QED BY <1>1, <1>2, <1>3

(* Every step of every process keeps each scan in one place.                 *)
LEMMA NextInv == OnePlacePerScan /\ [Next]_vars => OnePlacePerScan'
<1> SUFFICES ASSUME OnePlacePerScan, [Next]_vars PROVE OnePlacePerScan'
  OBVIOUS
<1>1. CASE Upstream
  BY <1>1, UploadInv, EnqueueInv, AbandonInv DEF Upstream
<1>2. ASSUME NEW w \in Workers, Work(w) PROVE OnePlacePerScan'
  <2>1. CASE \E s \in Scans, r \in Reports : IngestOwnScan(w, s, r)
    BY <2>1, IngestOwnScanInv
  <2>2. CASE Dequeue(w) \/ StartProcessing(w) \/ MatchItem(w) \/ Flush(w)
    BY <2>2, DequeueInv, StartProcessingInv, MatchItemInv, FlushInv
  <2>3. CASE CloseStale(w) \/ Publish(w) \/ Notify(w)
    BY <2>3, CloseStaleInv, PublishInv, NotifyInv
  <2>4. CASE Rollback(w) \/ FailLate(w) \/ MarkFailed(w)
    BY <2>4, RollbackInv, FailLateInv, MarkFailedInv
  <2> QED BY <1>2, <2>1, <2>2, <2>3, <2>4 DEF Work
<1>3. ASSUME NEW w \in Workers, Kill(w) PROVE OnePlacePerScan'
  BY <1>3, KillInv
<1>4. ASSUME NEW a \in Analysts, Triage(a) PROVE OnePlacePerScan'
  BY <1>4, ReadFindingsInv, CommitTriageInv DEF Triage
<1>5. CASE UNCHANGED vars
  BY <1>5, StutterInv
<1> QED BY <1>1, <1>2, <1>3, <1>4, <1>5 DEF Next

(* For any number of scans, workers and analysts, a scan is in one place at  *)
(* a time and its row agrees with that place: no interleaving of uploads,    *)
(* queue and jobs processes a scan twice or revives a finished one.          *)
THEOREM ScansHaveOnePlace == Spec => []OnePlacePerScan
BY InitInv, NextInv, PTL DEF Spec

(* The type invariant, from the inductive one.                               *)
THEOREM TypeCorrect == Spec => []TypeOK
<1>1. OnePlacePerScan => TypeOK
  BY DEF OnePlacePerScan
<1> QED BY <1>1, ScansHaveOnePlace, PTL

--------------------------------------------------------------------------------
(* A scan whose findings are in the tables: completed, or marked failed by a *)
(* timeout after its commit.                                                 *)
Published(s) == scanStatus[s] \in IF LateTimeout THEN {"completed", "failed"} ELSE {"completed"}

LEMMA PublishedStays ==
  ASSUME OnePlacePerScan, [Next]_vars, NEW s \in Scans, Published(s)
  PROVE  Published(s)'
<1> USE DEF OnePlacePerScan, TypeOK, dbVars, webVars, workVars, Published
<1>1. CASE Upstream
  BY <1>1 DEF Upstream, Upload, Enqueue, Abandon, NextId
<1>2. ASSUME NEW w \in Workers, Work(w) PROVE Published(s)'
  <2>1. CASE \E t \in Scans, r \in Reports : IngestOwnScan(w, t, r)
    BY <2>1 DEF IngestOwnScan, NextId
  <2>2. CASE StartProcessing(w)
    BY <2>2 DEF StartProcessing, JobPhase, Phase
  <2>3. CASE MarkFailed(w)
    BY <2>3 DEF MarkFailed, JobPhase, Phase
  <2>4. CASE Publish(w)
    BY <2>4 DEF Publish
  <2>5. CASE Dequeue(w) \/ MatchItem(w) \/ Flush(w) \/ CloseStale(w)
    BY <2>5 DEF Dequeue, MatchItem, Flush, CloseStale
  <2>6. CASE Notify(w) \/ Rollback(w) \/ FailLate(w)
    BY <2>6 DEF Notify, Rollback, FailLate
  <2> QED BY <1>2, <2>1, <2>2, <2>3, <2>4, <2>5, <2>6 DEF Work
<1>3. ASSUME NEW w \in Workers, Kill(w) PROVE Published(s)'
  BY <1>3 DEF Kill
<1>4. ASSUME NEW a \in Analysts, Triage(a) PROVE Published(s)'
  BY <1>4 DEF Triage, ReadFindings, CommitTriage
<1>5. CASE UNCHANGED vars
  BY <1>5 DEF vars
<1> QED BY <1>1, <1>2, <1>3, <1>4, <1>5 DEF Next

(* Only the commit that completes a scan stamps findings with it.            *)
LEMMA OnlyPublishStamps ==
  ASSUME OnePlacePerScan, [Next]_vars, NEW f \in Fingerprints,
         lastScan'[f] # lastScan[f]
  PROVE  lastScan'[f] \in Scans /\ scanStatus'[lastScan'[f]] = "completed"
<1> USE DEF OnePlacePerScan, TypeOK, dbVars, webVars, workVars
<1>1. CASE Upstream
  BY <1>1 DEF Upstream, Upload, Enqueue, Abandon
<1>2. ASSUME NEW w \in Workers, Work(w)
      PROVE  lastScan'[f] \in Scans /\ scanStatus'[lastScan'[f]] = "completed"
  <2>1. CASE Publish(w)
    <3>1. job[w] \in Scans
      BY <2>1 DEF Publish, JobPhase
    <3>2. lastScan'[f] = job[w]
      BY <2>1 DEF Publish
    <3> QED BY <2>1, <3>1, <3>2 DEF Publish
  <2>2. CASE ~Publish(w)
    <3>1. lastScan' = lastScan
      BY <1>2, <2>2 DEF Work, Dequeue, IngestOwnScan, StartProcessing, MatchItem,
         Flush, CloseStale, Notify, Rollback, FailLate, MarkFailed
    <3> QED BY <3>1
  <2> QED BY <2>1, <2>2
<1>3. ASSUME NEW w \in Workers, Kill(w) PROVE lastScan' = lastScan
  BY <1>3 DEF Kill
<1>4. ASSUME NEW a \in Analysts, Triage(a) PROVE lastScan' = lastScan
  BY <1>4 DEF Triage, ReadFindings, CommitTriage
<1>5. CASE UNCHANGED vars
  BY <1>5 DEF vars
<1> QED BY <1>1, <1>2, <1>3, <1>4, <1>5 DEF Next

(* Whatever row names a scan, that scan's commit is over: a scan that waits, *)
(* runs or died leaves no trace in the findings, whenever the job timeout    *)
(* strikes.                                                                  *)
THEOREM TracesArePublished ==
  Spec => [](\A f \in Fingerprints : lastScan[f] # 0 => Published(lastScan[f]))
<1> DEFINE Traced == \A f \in Fingerprints : lastScan[f] # 0 => Published(lastScan[f])
<1>1. Init => Traced
  BY DEF Init
<1>2. ASSUME OnePlacePerScan, Traced, [Next]_vars
      PROVE  Traced'
  <2> SUFFICES ASSUME NEW f \in Fingerprints, lastScan'[f] # 0
               PROVE  scanStatus'[lastScan'[f]] \in
                        IF LateTimeout THEN {"completed", "failed"} ELSE {"completed"}
    BY DEF Published
  <2>1. CASE lastScan'[f] # lastScan[f]
    BY <1>2, <2>1, OnlyPublishStamps
  <2>2. CASE lastScan'[f] = lastScan[f]
    <3>1. lastScan[f] \in Scans /\ Published(lastScan[f])
      BY <1>2, <2>2 DEF OnePlacePerScan, TypeOK
    <3>2. \A s \in Scans : Published(s) => Published(s)'
      BY <1>2, PublishedStays
    <3> QED BY <2>2, <3>1, <3>2 DEF Published
  <2> QED BY <2>1, <2>2
<1> QED BY <1>1, <1>2, ScansHaveOnePlace, PTL DEF Spec

(* A scan that failed, died or still runs leaves no trace in the findings,   *)
(* in every deployment where the job timeout leaves the few statements after *)
(* the commit of process_scan alone.                                         *)
THEOREM FailedScansLeaveNoTrace ==
  ASSUME LateTimeout = FALSE
  PROVE  Spec => []NoTraceUnlessPublished
<1>1. (\A f \in Fingerprints : lastScan[f] # 0 => Published(lastScan[f]))
        => NoTraceUnlessPublished
  BY DEF NoTraceUnlessPublished, Published
<1> QED BY <1>1, TracesArePublished, PTL

--------------------------------------------------------------------------------
(* No scan is forgotten: one that its request answered with 202 waits in the *)
(* queue, is with a worker, has ended or lost the process of its job.        *)
Queued(s) == \E i \in DOMAIN queue : queue[i] = s

Ended(s) == scanStatus[s] \in {"completed", "failed"}

Cared(s) == Queued(s) \/ (\E w \in Workers : job[w] = s) \/ Ended(s) \/ s \in killed

Cares == \A s \in accepted : Cared(s)

LEMMA EndedStays ==
  ASSUME OnePlacePerScan, [Next]_vars, NEW s \in Scans, Ended(s)
  PROVE  Ended(s)'
<1> USE DEF OnePlacePerScan, TypeOK, dbVars, webVars, workVars, Ended
<1>1. CASE Upstream
  BY <1>1 DEF Upstream, Upload, Enqueue, Abandon, NextId
<1>2. ASSUME NEW w \in Workers, Work(w) PROVE Ended(s)'
  <2>1. CASE \E t \in Scans, r \in Reports : IngestOwnScan(w, t, r)
    BY <2>1 DEF IngestOwnScan, NextId
  <2>2. CASE StartProcessing(w)
    BY <2>2 DEF StartProcessing, JobPhase, Phase
  <2>3. CASE MarkFailed(w)
    BY <2>3 DEF MarkFailed
  <2>4. CASE Publish(w)
    BY <2>4 DEF Publish
  <2>5. CASE Dequeue(w) \/ MatchItem(w) \/ Flush(w) \/ CloseStale(w)
    BY <2>5 DEF Dequeue, MatchItem, Flush, CloseStale
  <2>6. CASE Notify(w) \/ Rollback(w) \/ FailLate(w)
    BY <2>6 DEF Notify, Rollback, FailLate
  <2> QED BY <1>2, <2>1, <2>2, <2>3, <2>4, <2>5, <2>6 DEF Work
<1>3. ASSUME NEW w \in Workers, Kill(w) PROVE Ended(s)'
  BY <1>3 DEF Kill
<1>4. ASSUME NEW a \in Analysts, Triage(a) PROVE Ended(s)'
  BY <1>4 DEF Triage, ReadFindings, CommitTriage
<1>5. CASE UNCHANGED vars
  BY <1>5 DEF vars
<1> QED BY <1>1, <1>2, <1>3, <1>4, <1>5 DEF Next

(* The head of the queue goes to the worker, the rest moves up.              *)
LEMMA DequeueCares ==
  ASSUME OnePlacePerScan, NEW w \in Workers, Dequeue(w), NEW s \in Scans, Queued(s)
  PROVE  job'[w] = s \/ Queued(s)'
<1>1. queue \in Seq(Scans) /\ queue # <<>> /\ queue' = Tail(queue) /\ job'[w] = Head(queue)
  BY DEF Dequeue, OnePlacePerScan, TypeOK
<1>2. PICK i \in 1..Len(queue) : queue[i] = s
  BY <1>1 DEF Queued
<1>3. CASE i = 1
  BY <1>1, <1>2, <1>3
<1>4. CASE i # 1
  <2>1. i - 1 \in 1..Len(Tail(queue)) /\ Tail(queue)[i - 1] = s
    BY <1>1, <1>2, <1>4
  <2>2. i - 1 \in DOMAIN queue' /\ queue'[i - 1] = s
    BY <1>1, <2>1
  <2> QED BY <2>2 DEF Queued
<1> QED BY <1>3, <1>4

(* A worker lets go of its scan only when the scan has ended or is killed.   *)
LEMMA ReleaseCares ==
  ASSUME OnePlacePerScan, NEW w \in Workers, Work(w) \/ Kill(w),
         NEW s \in Scans, job[w] = s, job'[w] # s
  PROVE  Ended(s)' \/ s \in killed'
<1> USE DEF OnePlacePerScan, TypeOK, JobPhase, dbVars, webVars, workVars
<1>1. s # 0 /\ pc[w] # "idle"
  BY DEF JobPhase
<1>2. CASE Notify(w)
  BY <1>1, <1>2 DEF Notify, Phase, Ended
<1>3. CASE MarkFailed(w)
  BY <1>1, <1>3 DEF MarkFailed, Ended
<1>4. CASE Kill(w)
  BY <1>4 DEF Kill
<1>5. CASE Work(w) /\ ~Notify(w) /\ ~MarkFailed(w)
  BY <1>1, <1>5 DEF Work, Dequeue, IngestOwnScan, StartProcessing, MatchItem, Flush,
     CloseStale, Publish, Rollback, FailLate
<1> QED BY <1>2, <1>3, <1>4, <1>5

LEMMA WorkCares ==
  ASSUME OnePlacePerScan, NEW w \in Workers, Work(w) \/ Kill(w), NEW s \in Scans, Cared(s)
  PROVE  Cared(s)'
<1> USE DEF dbVars, webVars, workVars
<1>1. CASE Ended(s)
  <2>1. Ended(s)'
    BY <1>1, EndedStays DEF Next
  <2> QED BY <2>1 DEF Cared
<1>2. CASE s \in killed
  <2>1. killed \subseteq killed'
    BY DEF Work, Kill, Dequeue, IngestOwnScan, StartProcessing, MatchItem, Flush,
       CloseStale, Publish, Notify, Rollback, FailLate, MarkFailed
  <2> QED BY <1>2, <2>1 DEF Cared
<1>3. CASE Queued(s)
  <2>1. CASE Dequeue(w)
    BY <1>3, <2>1, DequeueCares DEF Cared
  <2>2. CASE ~Dequeue(w)
    <3>1. queue' = queue
      BY <2>2 DEF Work, Kill, IngestOwnScan, StartProcessing, MatchItem, Flush,
         CloseStale, Publish, Notify, Rollback, FailLate, MarkFailed
    <3> QED BY <1>3, <3>1 DEF Cared, Queued
  <2> QED BY <2>1, <2>2
<1>4. ASSUME NEW v \in Workers, job[v] = s PROVE Cared(s)'
  <2>1. CASE job'[v] = s
    BY <2>1 DEF Cared
  <2>2. CASE job'[v] # s /\ v = w
    BY <1>4, <2>2, ReleaseCares DEF Cared
  <2>3. CASE v # w
    <3>1. job'[v] = job[v]
      BY <2>3 DEF Work, Kill, Release, Dequeue, IngestOwnScan, StartProcessing, MatchItem,
         Flush, CloseStale, Publish, Notify, Rollback, FailLate, MarkFailed,
         OnePlacePerScan, TypeOK
    <3> QED BY <1>4, <3>1 DEF Cared
  <2> QED BY <2>1, <2>2, <2>3
<1> QED BY <1>1, <1>2, <1>3, <1>4 DEF Cared

LEMMA RequestsCare ==
  ASSUME OnePlacePerScan, Cares, Upstream \/ (\E a \in Analysts : Triage(a)) \/ UNCHANGED vars
  PROVE  Cares'
<1> USE DEF dbVars, webVars, workVars
<1>1. ASSUME NEW s \in Scans, Enqueue(s) PROVE Cares'
  <2>1. queue \in Seq(Scans) /\ queue' = Append(queue, s)
    BY <1>1 DEF Enqueue, OnePlacePerScan, TypeOK
  <2>2. ASSUME NEW t, Queued(t) PROVE Queued(t)'
    <3>1. PICK i \in 1..Len(queue) : queue[i] = t
      BY <2>1, <2>2 DEF Queued
    <3>2. i \in DOMAIN Append(queue, s) /\ Append(queue, s)[i] = t
      BY <2>1, <3>1
    <3> QED BY <2>1, <3>2 DEF Queued
  <2>3. Queued(s)'
    <3>1. LET i == Len(queue) + 1
          IN  i \in DOMAIN Append(queue, s) /\ Append(queue, s)[i] = s
      BY <2>1
    <3> QED BY <2>1, <3>1 DEF Queued
  <2>4. accepted' = accepted \cup {s} /\ job' = job /\ scanStatus' = scanStatus /\ killed' = killed
    BY <1>1 DEF Enqueue
  <2> QED BY <2>2, <2>3, <2>4 DEF Cares, Cared, Ended
<1>2. ASSUME NEW s \in Scans, NEW r \in Reports, Upload(s, r) PROVE Cares'
  <2>1. /\ accepted' = accepted /\ queue' = queue /\ job' = job /\ killed' = killed
        /\ accepted \subseteq Scans
    BY <1>2 DEF Upload, OnePlacePerScan, TypeOK
  <2>2. ASSUME NEW t \in Scans, Ended(t) PROVE Ended(t)'
    BY <1>2, <2>2 DEF Upload, NextId, Ended, OnePlacePerScan, TypeOK
  <2> QED BY <2>1, <2>2 DEF Cares, Cared, Queued
<1>3. CASE UNCHANGED <<accepted, queue, job, scanStatus, killed>>
  BY <1>3 DEF Cares, Cared, Queued, Ended
<1> QED BY <1>1, <1>2, <1>3 DEF Upstream, Abandon, Triage, ReadFindings, CommitTriage, vars

(* A scan accepted with 202 is never forgotten, for any number of scans and  *)
(* workers: it waits, is worked on, has ended, or its own job's process died.*)
(* AcceptedScanEnds adds to this that the first two pass.                    *)
THEOREM NoAcceptedScanIsLost == Spec => []Cares
<1>1. Init => Cares
  BY DEF Init, Cares
<1>2. ASSUME OnePlacePerScan, Cares, [Next]_vars PROVE Cares'
  <2>1. ASSUME NEW w \in Workers, Work(w) \/ Kill(w) PROVE Cares'
    <3>1. accepted' = accepted
      BY <2>1 DEF Work, Kill, Dequeue, IngestOwnScan, StartProcessing, MatchItem, Flush,
         CloseStale, Publish, Notify, Rollback, FailLate, MarkFailed, webVars
    <3>2. accepted \subseteq Scans
      BY <1>2 DEF OnePlacePerScan, TypeOK
    <3> QED BY <1>2, <2>1, <3>1, <3>2, WorkCares DEF Cares
  <2> QED BY <1>2, <2>1, RequestsCare DEF Next
<1> QED BY <1>1, <1>2, ScansHaveOnePlace, PTL DEF Spec
================================================================================
