-------------------------------- MODULE ReadCache --------------------------------
(***************************************************************************)
(* One key of the Redis read cache (app/cache.py), "findings:asset:<id>"   *)
(* or "assets:list", shared by every API process.  Readers run             *)
(* cached_json; writers of the API commit and then invalidate; the worker  *)
(* commits the same rows and never touches the cache.                      *)
(*                                                                         *)
(* What the database holds is a version number, one more at each commit    *)
(* that changes the answer.  Time passes in ticks; a Redis entry is gone   *)
(* when its TTL has elapsed.                                               *)
(***************************************************************************)
EXTENDS Naturals

CONSTANTS
  Readers,      \* GET requests in flight, in any API process
  Writers,      \* API requests that change the rows behind the key
  NoEntry,      \* the key does not exist in Redis
  TTL,          \* CACHE_TTL_FINDINGS or CACHE_TTL_ASSETS
  MaxFill,      \* assumption: ticks between a reader's SELECT and its answer
  MaxTime,      \* bound of the clock
  MaxVersion    \* bound: commits that change the rows

ASSUME CacheAssumption ==
  TTL \in Nat \ {0} /\ MaxFill \in Nat /\ MaxTime \in Nat /\ MaxVersion \in Nat

VARIABLES
  now,          \* the clock
  version,      \* the committed version of the rows
  born,         \* when each version was committed
  cache,        \* the Redis entry: its version, its end, whether its fill raced
  reader,       \* what each reader has read and when, between miss and SETEX
  answer,       \* the version and time of each reader's last response
  writer,       \* where each API writer is
  cleared       \* history: the newest version whose invalidation is complete

vars == <<now, version, born, cache, reader, answer, writer, cleared>>

Times == 0..MaxTime

Versions == 0..MaxVersion

Idle == [filling |-> FALSE, ver |-> 0, at |-> 0, raced |-> FALSE]

Init ==
  /\ now = 0 /\ version = 0
  /\ born = [v \in Versions |-> 0]
  /\ cache = NoEntry
  /\ reader = [r \in Readers |-> Idle]
  /\ answer = [r \in Readers |-> [ver |-> 0, at |-> 0]]
  /\ writer = [w \in Writers |-> [step |-> "idle", ver |-> 0]]
  /\ cleared = 0

--------------------------------------------------------------------------------
(* cached_json.                                                              *)

Hit(r) ==
  /\ ~reader[r].filling /\ cache # NoEntry
  /\ answer' = [answer EXCEPT ![r] = [ver |-> cache.ver, at |-> now]]
  /\ UNCHANGED <<now, version, born, cache, reader, writer, cleared>>

(* The key is missing, or Redis does not answer: the producer reads the      *)
(* database.                                                                 *)
Miss(r) ==
  /\ ~reader[r].filling
  /\ reader' = [reader EXCEPT ![r] =
                  [filling |-> TRUE, ver |-> version, at |-> now, raced |-> FALSE]]
  /\ UNCHANGED <<now, version, born, cache, answer, writer, cleared>>

MutRemaining(t) == TTL - t
MutExpiry(t) == t + TTL + TTL + MaxFill
Expiry(t) == t + TTL

(* SETEX, unless Redis does not answer; the response goes out either way.    *)
Store(r) ==
  /\ reader[r].filling
  /\ \/ cache' = [ver |-> reader[r].ver, until |-> Expiry(now), raced |-> reader[r].raced]
     \/ UNCHANGED cache
  /\ answer' = [answer EXCEPT ![r] = [ver |-> reader[r].ver, at |-> now]]
  /\ reader' = [reader EXCEPT ![r] = Idle]
  /\ UNCHANGED <<now, version, born, writer, cleared>>

--------------------------------------------------------------------------------
(* Commits, and invalidate.                                                  *)

NewVersion ==
  /\ version < MaxVersion
  /\ version' = version + 1
  /\ born' = [born EXCEPT ![version + 1] = now]
  /\ reader' = [r \in Readers |->
                  IF reader[r].filling THEN [reader[r] EXCEPT !.raced = TRUE] ELSE Idle]

(* process_scan, scan_target and the change of an asset's criticality commit *)
(* and leave the cache alone.                                                *)
CommitOnly ==
  /\ NewVersion
  /\ UNCHANGED <<now, cache, answer, writer, cleared>>

Commit(w) ==
  /\ writer[w].step = "idle"
  /\ NewVersion
  /\ writer' = [writer EXCEPT ![w] = [step |-> "committed", ver |-> version + 1]]
  /\ UNCHANGED <<now, cache, answer, cleared>>

LaterOf(a, b) == IF a < b THEN b ELSE a

(* SCAN MATCH: an absent key leaves nothing to delete.                       *)
ScanKeys(w) ==
  /\ writer[w].step = "committed"
  /\ IF cache = NoEntry
       THEN /\ writer' = [writer EXCEPT ![w].step = "idle"]
            /\ cleared' = LaterOf(cleared, writer[w].ver)
       ELSE /\ writer' = [writer EXCEPT ![w].step = "deleting"]
            /\ UNCHANGED cleared
  /\ UNCHANGED <<now, version, born, cache, reader, answer>>

(* DEL, of whatever the key holds by now.                                    *)
MutDeleted == cache
Deleted == NoEntry

DeleteKey(w) ==
  /\ writer[w].step = "deleting"
  /\ cache' = Deleted
  /\ writer' = [writer EXCEPT ![w].step = "idle"]
  /\ cleared' = LaterOf(cleared, writer[w].ver)
  /\ UNCHANGED <<now, version, born, reader, answer>>

(* A RedisError in invalidate is logged; the process may also die here.      *)
SkipInvalidation(w) ==
  /\ writer[w].step # "idle"
  /\ writer' = [writer EXCEPT ![w].step = "idle"]
  /\ UNCHANGED <<now, version, born, cache, reader, answer, cleared>>

--------------------------------------------------------------------------------
(* Time: no reader outlives MaxFill, an entry is gone at its end.            *)
Tick ==
  /\ now < MaxTime
  /\ \A r \in Readers : reader[r].filling => now < reader[r].at + MaxFill
  /\ now' = now + 1
  /\ cache' = IF cache # NoEntry /\ cache.until <= now + 1 THEN NoEntry ELSE cache
  /\ UNCHANGED <<version, born, reader, answer, writer, cleared>>

Next ==
  \/ \E r \in Readers : Hit(r) \/ Miss(r) \/ Store(r)
  \/ \E w \in Writers : Commit(w) \/ ScanKeys(w) \/ DeleteKey(w) \/ SkipInvalidation(w)
  \/ CommitOnly
  \/ Tick

Spec == Init /\ [][Next]_vars

--------------------------------------------------------------------------------
EntryType == [ver : Versions, until : Nat, raced : BOOLEAN]

(* Every entry, reader and writer holds a value the code can put there.      *)
TypeOK ==
  /\ now \in Times
  /\ version \in Versions
  /\ born \in [Versions -> Times]
  /\ cache \in EntryType \cup {NoEntry}
  /\ reader \in [Readers -> [filling : BOOLEAN, ver : Versions, at : Times, raced : BOOLEAN]]
  /\ answer \in [Readers -> [ver : Versions, at : Times]]
  /\ writer \in [Writers -> [step : {"idle", "committed", "deleting"}, ver : Versions]]
  /\ cleared \in Versions

(* A response is never older than one TTL plus the time of one fill: whoever *)
(* commits or fails to invalidate, a version is last served at most that     *)
(* long after the commit that replaced it.                                   *)
BoundedStaleness ==
  \A r \in Readers :
    answer[r].ver < version => answer[r].at <= born[answer[r].ver + 1] + MaxFill + TTL

(* An entry that is older than a write whose invalidation is complete was    *)
(* stored by a reader that was between its SELECT and its SETEX when a       *)
(* commit happened: invalidating after the commit (ingest_scan) leaves that  *)
(* race and no other.                                                        *)
StaleOnlyByRacingFill ==
  cache # NoEntry /\ cache.ver < cleared => cache.raced

(* Writes invalidate the cache at once (docs/load-testing.md): with no       *)
(* request in flight, the entry is the committed version.                    *)
WritesInvalidate ==
  /\ \A w \in Writers : writer[w].step = "idle"
  /\ \A r \in Readers : ~reader[r].filling
  /\ cache # NoEntry
  => cache.ver = version
================================================================================
