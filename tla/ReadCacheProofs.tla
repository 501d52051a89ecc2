----------------------------- MODULE ReadCacheProofs -----------------------------
(***************************************************************************)
(* Proofs about the read cache, for every TTL, every bound on a fill and   *)
(* every number of readers and writers: no response is older than a TTL    *)
(* and a fill, and a stale entry that survives an invalidation was stored  *)
(* by a reader that raced a commit.                                        *)
(***************************************************************************)
EXTENDS ReadCache, TLAPS

(* The rows behind a version number were committed in the past.              *)
Committed == \A v \in Versions : born[v] <= now

(* A fill has not outlived MaxFill, and what it read was current when it     *)
(* read it; if nothing was committed since, it still is.                     *)
FillIsRecent == \A r \in Readers : reader[r].filling =>
  /\ reader[r].ver <= version
  /\ reader[r].at <= now
  /\ now <= reader[r].at + MaxFill
  /\ reader[r].ver < version => reader[r].at <= born[reader[r].ver + 1]
  /\ ~reader[r].raced => reader[r].ver = version

(* An entry that has been replaced ends one fill and one TTL after that.     *)
EntryEnds == cache # NoEntry =>
  /\ cache.ver <= version
  /\ now <= cache.until
  /\ cache.until <= now + TTL
  /\ cache.ver < version => cache.until <= born[cache.ver + 1] + MaxFill + TTL

AnswerKnown == \A r \in Readers : answer[r].ver <= version /\ answer[r].at <= now

WriterKnown == cleared <= version /\ \A w \in Writers : writer[w].ver <= version

Inv == /\ TypeOK /\ Committed /\ FillIsRecent /\ EntryEnds /\ AnswerKnown
       /\ WriterKnown /\ BoundedStaleness /\ StaleOnlyByRacingFill

--------------------------------------------------------------------------------
(* The numbers behind the tables.                                            *)

LEMMA ClockIsNatural ==
  ASSUME TypeOK PROVE now \in Nat /\ version \in Nat /\ TTL \in Nat /\ MaxFill \in Nat
BY CacheAssumption DEF TypeOK, Times, Versions

LEMMA BornIsNatural ==
  ASSUME TypeOK, NEW v \in Versions, v < version
  PROVE  v + 1 \in Versions /\ born[v + 1] \in Nat
BY CacheAssumption DEF TypeOK, Times, Versions

LEMMA ReaderType ==
  ASSUME TypeOK, NEW r \in Readers
  PROVE  /\ reader[r].filling \in BOOLEAN /\ reader[r].raced \in BOOLEAN
         /\ reader[r].ver \in Versions /\ reader[r].at \in Nat
         /\ answer[r].ver \in Versions /\ answer[r].at \in Nat
BY CacheAssumption DEF TypeOK, Times, Versions

LEMMA LaterIsOneOfThem == ASSUME NEW a, NEW b PROVE LaterOf(a, b) \in {a, b}
BY DEF LaterOf

--------------------------------------------------------------------------------
(* One lemma per action.                                                     *)

LEMMA InitInv == Init => Inv
BY CacheAssumption DEF Init, Inv, TypeOK, Committed, FillIsRecent, EntryEnds, AnswerKnown,
   WriterKnown, BoundedStaleness, StaleOnlyByRacingFill, Versions, Times, Idle, EntryType

LEMMA HitInv == ASSUME NEW r \in Readers, Inv, Hit(r) PROVE Inv'
<1>1. cache.ver \in Versions /\ cache.until \in Nat
  BY DEF Inv, TypeOK, Hit, EntryType
<1>2. TypeOK'
  BY <1>1 DEF Inv, TypeOK, Hit
<1>3. AnswerKnown'
  BY <1>1, ClockIsNatural, ReaderType DEF Inv, TypeOK, Hit, AnswerKnown, EntryEnds
<1>4. BoundedStaleness'
  <2> SUFFICES ASSUME NEW q \in Readers, answer'[q].ver < version'
               PROVE  answer'[q].at <= born'[answer'[q].ver + 1] + MaxFill + TTL
    BY DEF BoundedStaleness
  <2>1. CASE q # r
    BY <2>1 DEF Inv, TypeOK, Hit, BoundedStaleness
  <2>2. CASE q = r
    <3>1. answer'[q].ver = cache.ver /\ answer'[q].at = now /\ born' = born
      BY <2>2 DEF Inv, TypeOK, Hit
    <3>2. cache.ver < version
      BY <3>1 DEF Hit
    <3>3. now <= cache.until /\ cache.until <= born[cache.ver + 1] + MaxFill + TTL
      BY <3>2 DEF Inv, EntryEnds, Hit
    <3> QED
      BY <1>1, <3>1, <3>2, <3>3, ClockIsNatural, BornIsNatural DEF Inv
  <2> QED
    BY <2>1, <2>2
<1> QED
  BY <1>2, <1>3, <1>4 DEF Inv, Hit, Committed, FillIsRecent, EntryEnds, WriterKnown,
     StaleOnlyByRacingFill

LEMMA MissInv == ASSUME NEW r \in Readers, Inv, Miss(r) PROVE Inv'
<1>1. TypeOK'
  BY DEF Inv, TypeOK, Miss
<1>2. FillIsRecent'
  <2> SUFFICES ASSUME NEW q \in Readers, reader'[q].filling
               PROVE  /\ reader'[q].ver <= version'
                      /\ reader'[q].at <= now'
                      /\ now' <= reader'[q].at + MaxFill
                      /\ reader'[q].ver < version' => reader'[q].at <= born'[reader'[q].ver + 1]
                      /\ ~reader'[q].raced => reader'[q].ver = version'
    BY DEF FillIsRecent
  <2>1. CASE q # r
    BY <2>1 DEF Inv, TypeOK, Miss, FillIsRecent
  <2>2. CASE q = r
    <3>1. reader'[q].ver = version /\ reader'[q].at = now /\ version' = version /\ now' = now
      BY <2>2 DEF Inv, TypeOK, Miss
    <3> QED
      BY <3>1, ClockIsNatural DEF Inv
  <2> QED
    BY <2>1, <2>2
<1> QED
  BY <1>1, <1>2 DEF Inv, Miss, Committed, EntryEnds, AnswerKnown, WriterKnown,
     BoundedStaleness, StaleOnlyByRacingFill

LEMMA StoreInv == ASSUME NEW r \in Readers, Inv, Store(r) PROVE Inv'
<1> DEFINE ver == reader[r].ver
<1>1. /\ ver <= version /\ now <= reader[r].at + MaxFill
      /\ ver < version => reader[r].at <= born[ver + 1]
      /\ ~reader[r].raced => ver = version
  BY DEF Inv, FillIsRecent, Store
<1>2. ver < version => now <= born[ver + 1] + MaxFill
  BY <1>1, ClockIsNatural, BornIsNatural, ReaderType DEF Inv
<1>3. cache' = cache \/ cache' = [ver |-> ver, until |-> now + TTL, raced |-> reader[r].raced]
  BY DEF Store, Expiry
<1>4. TypeOK'
  <2>1. Idle \in [filling : BOOLEAN, ver : Versions, at : Times, raced : BOOLEAN]
    BY CacheAssumption DEF Idle, Times, Versions
  <2>2. ver \in Versions /\ reader[r].raced \in BOOLEAN /\ now \in Times /\ now + TTL \in Nat
    BY CacheAssumption DEF Inv, TypeOK, Times
  <2>3. cache' \in EntryType \cup {NoEntry}
    BY <1>3, <2>2 DEF Inv, TypeOK, EntryType
  <2> QED BY <2>1, <2>2, <2>3 DEF Inv, TypeOK, Store
<1>5. FillIsRecent'
  BY DEF Inv, TypeOK, Store, FillIsRecent, Idle
<1>6. EntryEnds'
  <2>1. CASE cache' = cache
    BY <2>1 DEF Inv, Store, EntryEnds
  <2>2. CASE cache' = [ver |-> ver, until |-> now + TTL, raced |-> reader[r].raced]
    <3>1. cache'.ver = ver /\ cache'.until = now + TTL
      BY <2>2
    <3>2. version' = version /\ now' = now /\ born' = born
      BY DEF Store
    <3>3. ver < version => now + TTL <= born[ver + 1] + MaxFill + TTL
      BY <1>2, ClockIsNatural, BornIsNatural, ReaderType DEF Inv
    <3> QED
      BY <1>1, <3>1, <3>2, <3>3, ClockIsNatural DEF Inv, EntryEnds
  <2> QED
    BY <1>3, <2>1, <2>2
<1>7. AnswerKnown'
  BY <1>1, ClockIsNatural DEF Inv, TypeOK, Store, AnswerKnown
<1>8. BoundedStaleness'
  <2> SUFFICES ASSUME NEW q \in Readers, answer'[q].ver < version'
               PROVE  answer'[q].at <= born'[answer'[q].ver + 1] + MaxFill + TTL
    BY DEF BoundedStaleness
  <2>1. CASE q # r
    BY <2>1 DEF Inv, TypeOK, Store, BoundedStaleness
  <2>2. CASE q = r
    <3>1. answer'[q].ver = ver /\ answer'[q].at = now /\ born' = born /\ version' = version
      BY <2>2 DEF Inv, TypeOK, Store
    <3> QED
      BY <1>2, <3>1, ClockIsNatural, BornIsNatural, ReaderType DEF Inv
  <2> QED
    BY <2>1, <2>2
<1>9. StaleOnlyByRacingFill'
  <2>1. cleared' = cleared /\ cleared <= version /\ cleared \in Nat
    BY DEF Inv, TypeOK, WriterKnown, Store, Versions
  <2>2. ver < cleared => reader[r].raced
    BY <1>1, <2>1, ClockIsNatural, ReaderType DEF Inv
  <2> QED
    BY <1>3, <2>1, <2>2 DEF Inv, StaleOnlyByRacingFill
<1> QED
  BY <1>4, <1>5, <1>6, <1>7, <1>8, <1>9 DEF Inv, Store, Committed, WriterKnown

(* A commit disturbs what relates a version to the newest one.               *)
LEMMA NewVersionInv ==
  ASSUME Inv, NewVersion, UNCHANGED <<now, cache, answer, cleared>>,
         writer' \in [Writers -> [step : {"idle", "committed", "deleting"}, ver : Versions]],
         \A w \in Writers : writer'[w].ver <= version'
  PROVE  Inv'
<1>1. /\ version + 1 \in Versions /\ version' = version + 1
      /\ born' \in [Versions -> Times] /\ born'[version + 1] = now
      /\ \A v \in Versions : v < version => born'[v + 1] = born[v + 1]
  BY CacheAssumption DEF NewVersion, Inv, TypeOK, Versions, Times
<1>2. TypeOK'
  <2>1. reader' \in [Readers -> [filling : BOOLEAN, ver : Versions, at : Times, raced : BOOLEAN]]
    <3> DEFINE Type == [filling : BOOLEAN, ver : Versions, at : Times, raced : BOOLEAN]
    <3>1. Idle \in Type
      BY CacheAssumption DEF Idle, Versions, Times
    <3>2. ASSUME NEW r \in Readers PROVE [reader[r] EXCEPT !.raced = TRUE] \in Type
      <4>1. reader[r] \in Type
        BY DEF Inv, TypeOK
      <4> QED
        BY <4>1
    <3> QED
      BY <3>1, <3>2 DEF NewVersion
  <2> QED
    BY <1>1, <2>1 DEF Inv, TypeOK
<1>3. Committed'
  BY ClockIsNatural DEF Inv, TypeOK, Committed, NewVersion
<1>4. FillIsRecent'
  <2> SUFFICES ASSUME NEW q \in Readers, reader'[q].filling
               PROVE  /\ reader'[q].ver <= version'
                      /\ reader'[q].at <= now'
                      /\ now' <= reader'[q].at + MaxFill
                      /\ reader'[q].ver < version' => reader'[q].at <= born'[reader'[q].ver + 1]
                      /\ ~reader'[q].raced => reader'[q].ver = version'
    BY DEF FillIsRecent
  <2>1. /\ reader[q].filling /\ reader'[q].ver = reader[q].ver
        /\ reader'[q].at = reader[q].at /\ reader'[q].raced
    BY DEF NewVersion, Inv, TypeOK, Idle
  <2>2. /\ reader[q].ver <= version /\ reader[q].at <= now /\ now <= reader[q].at + MaxFill
        /\ reader[q].ver < version => reader[q].at <= born[reader[q].ver + 1]
    BY <2>1 DEF Inv, FillIsRecent
  <2>3. reader[q].at <= born'[reader[q].ver + 1]
    <3>1. CASE reader[q].ver < version
      BY <1>1, <2>2, <3>1, ReaderType DEF Inv
    <3>2. CASE reader[q].ver = version
      BY <1>1, <2>2, <3>2
    <3>3. reader[q].ver \in Nat /\ version \in Nat
      BY ClockIsNatural, ReaderType DEF Inv, Versions
    <3> QED
      BY <2>2, <3>1, <3>2, <3>3
  <2> QED
    BY <1>1, <2>1, <2>2, <2>3, ClockIsNatural, ReaderType DEF Inv, Versions
<1>5. EntryEnds'
  <2> SUFFICES ASSUME cache # NoEntry
               PROVE  /\ cache.ver <= version' /\ now <= cache.until
                      /\ cache.until <= now + TTL
                      /\ cache.until <= born'[cache.ver + 1] + MaxFill + TTL
    BY DEF EntryEnds
  <2>1. cache.ver \in Versions /\ cache.until \in Nat
    BY DEF Inv, TypeOK, EntryType
  <2>2. /\ cache.ver <= version /\ now <= cache.until /\ cache.until <= now + TTL
        /\ cache.ver < version => cache.until <= born[cache.ver + 1] + MaxFill + TTL
    BY DEF Inv, EntryEnds
  <2>3. CASE cache.ver < version
    BY <1>1, <2>1, <2>2, <2>3, ClockIsNatural DEF Inv, Versions
  <2>4. CASE cache.ver = version
    BY <1>1, <2>1, <2>2, <2>4, ClockIsNatural DEF Inv
  <2> QED
    BY <2>1, <2>2, <2>3, <2>4, ClockIsNatural DEF Inv, Versions
<1>6. AnswerKnown' /\ WriterKnown'
  BY <1>1, ClockIsNatural, ReaderType DEF Inv, TypeOK, AnswerKnown, WriterKnown, Versions
<1>7. BoundedStaleness'
  <2> SUFFICES ASSUME NEW q \in Readers
               PROVE  answer[q].at <= born'[answer[q].ver + 1] + MaxFill + TTL
    BY DEF BoundedStaleness
  <2>1. answer[q].ver <= version /\ answer[q].at <= now
    BY DEF Inv, AnswerKnown
  <2>2. CASE answer[q].ver < version
    BY <1>1, <2>2, ReaderType DEF Inv, BoundedStaleness
  <2>3. CASE answer[q].ver = version
    BY <1>1, <2>1, <2>3, ClockIsNatural, ReaderType DEF Inv
  <2> QED
    BY <2>1, <2>2, <2>3, ClockIsNatural, ReaderType DEF Inv, Versions
<1>8. StaleOnlyByRacingFill'
  BY DEF Inv, StaleOnlyByRacingFill
<1> QED
  BY <1>2, <1>3, <1>4, <1>5, <1>6, <1>7, <1>8 DEF Inv

LEMMA CommitOnlyInv == ASSUME Inv, CommitOnly PROVE Inv'
<1>1. \A w \in Writers : writer'[w].ver <= version'
  BY ClockIsNatural DEF Inv, TypeOK, WriterKnown, CommitOnly, NewVersion, Versions
<1> QED
  BY <1>1, NewVersionInv DEF Inv, TypeOK, CommitOnly

LEMMA CommitInv == ASSUME NEW w \in Writers, Inv, Commit(w) PROVE Inv'
<1>1. version + 1 \in Versions
  BY CacheAssumption DEF Inv, TypeOK, Commit, NewVersion, Versions
<1>2. writer' \in [Writers -> [step : {"idle", "committed", "deleting"}, ver : Versions]]
  BY <1>1 DEF Inv, TypeOK, Commit
<1>3. \A v \in Writers : writer'[v].ver <= version'
  BY ClockIsNatural DEF Inv, TypeOK, WriterKnown, Commit, NewVersion, Versions
<1> QED
  BY <1>2, <1>3, NewVersionInv DEF Commit

(* The two steps that end an invalidation: no entry is left.                 *)
LEMMA InvalidatedInv ==
  ASSUME NEW w \in Writers, Inv, cache' = NoEntry,
         writer' = [writer EXCEPT ![w].step = "idle"],
         cleared' = LaterOf(cleared, writer[w].ver),
         UNCHANGED <<now, version, born, reader, answer>>
  PROVE  Inv'
<1>1. cleared' \in {cleared, writer[w].ver}
  BY LaterIsOneOfThem
<1>2. TypeOK'
  BY <1>1 DEF Inv, TypeOK
<1>3. WriterKnown'
  BY <1>1 DEF Inv, TypeOK, WriterKnown
<1> QED
  BY <1>2, <1>3 DEF Inv, Committed, FillIsRecent, EntryEnds, AnswerKnown,
     BoundedStaleness, StaleOnlyByRacingFill

LEMMA ScanKeysInv == ASSUME NEW w \in Writers, Inv, ScanKeys(w) PROVE Inv'
<1>1. CASE cache = NoEntry
  BY <1>1, InvalidatedInv DEF ScanKeys
<1>2. CASE cache # NoEntry
  <2>1. TypeOK'
    BY <1>2 DEF Inv, TypeOK, ScanKeys
  <2>2. WriterKnown'
    BY <1>2 DEF Inv, TypeOK, WriterKnown, ScanKeys
  <2> QED
    BY <1>2, <2>1, <2>2 DEF Inv, ScanKeys, Committed, FillIsRecent, EntryEnds,
       AnswerKnown, BoundedStaleness, StaleOnlyByRacingFill
<1> QED
  BY <1>1, <1>2

LEMMA DeleteKeyInv == ASSUME NEW w \in Writers, Inv, DeleteKey(w) PROVE Inv'
BY InvalidatedInv DEF DeleteKey, Deleted

LEMMA SkipInvalidationInv == ASSUME NEW w \in Writers, Inv, SkipInvalidation(w) PROVE Inv'
<1>1. TypeOK' /\ WriterKnown'
  BY DEF Inv, TypeOK, WriterKnown, SkipInvalidation
<1> QED
  BY <1>1 DEF Inv, SkipInvalidation, Committed, FillIsRecent, EntryEnds, AnswerKnown,
     BoundedStaleness, StaleOnlyByRacingFill

LEMMA TickInv == ASSUME Inv, Tick PROVE Inv'
<1>1. TypeOK'
  BY CacheAssumption DEF Inv, TypeOK, Tick, Times
<1>2. Committed'
  BY ClockIsNatural DEF Inv, TypeOK, Committed, Tick, Times
<1>3. FillIsRecent'
  <2> SUFFICES ASSUME NEW q \in Readers, reader[q].filling
               PROVE  reader[q].at <= now' /\ now' <= reader[q].at + MaxFill
    BY DEF Inv, FillIsRecent, Tick
  <2> QED
    BY ClockIsNatural, ReaderType DEF Inv, FillIsRecent, Tick
<1>4. EntryEnds'
  <2> SUFFICES ASSUME cache' # NoEntry
               PROVE  now' <= cache'.until /\ cache'.until <= now' + TTL
    BY DEF Inv, EntryEnds, Tick
  <2>1. cache' = cache /\ ~(cache.until <= now + 1) /\ cache.until \in Nat
    BY DEF Inv, TypeOK, EntryType, Tick
  <2> QED
    BY <2>1, ClockIsNatural DEF Inv, EntryEnds, Tick
<1>5. AnswerKnown'
  BY ClockIsNatural, ReaderType DEF Inv, AnswerKnown, Tick
<1>6. StaleOnlyByRacingFill'
  BY DEF Inv, StaleOnlyByRacingFill, Tick
<1> QED
  BY <1>1, <1>2, <1>3, <1>4, <1>5, <1>6 DEF Inv, Tick, WriterKnown, BoundedStaleness

LEMMA StutterInv == ASSUME Inv, UNCHANGED vars PROVE Inv'
BY DEF vars, Inv, TypeOK, Committed, FillIsRecent, EntryEnds, AnswerKnown, WriterKnown,
   BoundedStaleness, StaleOnlyByRacingFill

(* Every step keeps the invariant.                                           *)
LEMMA NextInv == ASSUME Inv, [Next]_vars PROVE Inv'
<1>1. ASSUME NEW r \in Readers, Hit(r) \/ Miss(r) \/ Store(r) PROVE Inv'
  BY <1>1, HitInv, MissInv, StoreInv
<1>2. ASSUME NEW w \in Writers,
             Commit(w) \/ ScanKeys(w) \/ DeleteKey(w) \/ SkipInvalidation(w)
      PROVE  Inv'
  BY <1>2, CommitInv, ScanKeysInv, DeleteKeyInv, SkipInvalidationInv
<1> QED
  BY <1>1, <1>2, CommitOnlyInv, TickInv, StutterInv DEF Next

--------------------------------------------------------------------------------
(* cached_json never answers with rows replaced more than one TTL and one    *)
(* fill ago, for every TTL and whoever forgets to invalidate (app/cache.py). *)
THEOREM StalenessIsBounded == Spec => []BoundedStaleness
<1>1. Inv => BoundedStaleness
  BY DEF Inv
<1> QED
  BY <1>1, InitInv, NextInv, PTL DEF Spec

(* After a complete invalidation (app/main.py ingest_scan), an older entry   *)
(* can only come from a reader that was filling when a commit happened.      *)
THEOREM OnlyRacingFillsSurvive == Spec => []StaleOnlyByRacingFill
<1>1. Inv => StaleOnlyByRacingFill
  BY DEF Inv
<1> QED
  BY <1>1, InitInv, NextInv, PTL DEF Spec

(* The entries, the requests and the clock keep their types.                 *)
THEOREM CacheTypeCorrect == Spec => []TypeOK
<1>1. Inv => TypeOK
  BY DEF Inv
<1> QED
  BY <1>1, InitInv, NextInv, PTL DEF Spec
================================================================================
