------------------------------- MODULE Transactions -------------------------------
(***************************************************************************)
(* What the handlers of VulnTrack write while others write: the unique     *)
(* names (create_user, create_asset and ingest_scan of app/main.py,        *)
(* api_create_scan_target of app/web.py, _ingest of app/scanning.py) and   *)
(* the rows of findings (api_bulk_status and api_change_status of          *)
(* app/web.py, process_scan of app/jobs.py).                               *)
(*                                                                         *)
(* Each of them reads, decides what to insert or update, sends these       *)
(* statements in the order of SQLAlchemy's unit of work (the changed rows  *)
(* by primary key, then the new ones as they were added) and commits.      *)
(* PostgreSQL makes a statement wait for the row or the index entry        *)
(* another transaction has written and not committed, refuses a second     *)
(* entry of a unique index, and aborts a transaction of a cycle of waits.  *)
(*                                                                         *)
(* ingest_scan is a coroutine that calls the database without awaiting: it *)
(* owns the event loop of its process until it returns or raises.          *)
(***************************************************************************)
EXTENDS Naturals, Sequences, FiniteSets

CONSTANTS
  Findings,   \* fingerprints, in the order of the primary keys
  SourceOf,   \* the scanner each fingerprint belongs to, on the one asset
  Names,      \* unique names of assets, users and scan targets
  Requests,   \* HTTP requests
  Process,    \* the uvicorn process that serves each request
  Workers,    \* sessions of the RQ workers, whose jobs run uploads and scans
  OpsOf,      \* the operations each request may run
  Known,      \* names and fingerprints with a row at the start
  MaxFail     \* bound: reports whose file cannot be written

Sessions == Requests \cup Workers

Fingerprints == {Findings[i] : i \in DOMAIN Findings}

Keys == Names \cup Fingerprints

Loops == {Process[r] : r \in Requests}

(* The values of findings.status.                                            *)
Statuses == {"open", "in_progress", "fixed", "accepted"}

ASSUME TransactionsAssumption ==
  /\ Requests \cap Workers = {} /\ Names \cap Fingerprints = {}
  /\ Findings \in Seq(Fingerprints)
  /\ \A i, j \in DOMAIN Findings : Findings[i] = Findings[j] => i = j
  /\ \A r \in Requests : \A o \in OpsOf[r] :
       \/ o.kind \in {"create", "upload"} /\ o.name \in Names
       \/ /\ o.kind = "triage" /\ o.ids \subseteq Fingerprints /\ o.status \in Statuses
          /\ o.note \in BOOLEAN
  /\ Known \subseteq Keys /\ MaxFail \in Nat
  /\ "none" \notin Sessions

VARIABLES
  rows,      \* committed rows
  status,    \* committed findings.status
  op,        \* the operation of each session
  pc,        \* where the session is in it
  todo,      \* statements not yet executed, a set
  held,      \* rows and index entries written and not committed
  writes,    \* the statuses its updates carry
  outcome,   \* how its operation ended
  loop,      \* the coroutine that owns each event loop, or "none"
  fails      \* reports that could not be saved (at most MaxFail)

dbVars == <<rows, status, op, pc, todo, held, writes, outcome, loop, fails>>

NoOp == [kind |-> "none"]

(* A statement has its place among those of its flush.                       *)
Insert(i, k) == [place |-> i, verb |-> "insert", key |-> k]

Update(i, k) == [place |-> i, verb |-> "update", key |-> k]

(* The unit of work sorts the rows it updates by primary key.                *)
Updates(ids) ==
  {Update(i, Findings[i]) : i \in {j \in DOMAIN Findings : Findings[j] \in ids}}

Listed(o) == {o.items[i] : i \in DOMAIN o.items}

Unresolved == {"open", "in_progress"}

Init ==
  /\ rows = Known
  /\ status = [f \in Fingerprints |-> IF f \in Known THEN "open" ELSE "absent"]
  /\ op = [s \in Sessions |-> NoOp]
  /\ pc = [s \in Sessions |-> "idle"]
  /\ todo = [s \in Sessions |-> {}]
  /\ held = [s \in Sessions |-> {}]
  /\ writes = [s \in Sessions |-> <<>>]
  /\ outcome = [s \in Sessions |-> "none"]
  /\ loop = [p \in Loops |-> "none"]
  /\ fails = 0

--------------------------------------------------------------------------------
(* Locks.                                                                    *)

Statement(s) ==
  CHOOSE first \in todo[s] : \A other \in todo[s] : first.place <= other.place

HoldersOf(k) == {s \in Sessions : k \in held[s]}

Rivals(s) == HoldersOf(Statement(s).key) \ {s}

Blocked(s) == todo[s] # {} /\ Rivals(s) # {}

(* Sessions each of which waits for one and is waited for by one of them.    *)
Cycle(S) ==
  /\ S # {}
  /\ \A s \in S : /\ Blocked(s) /\ Rivals(s) \cap S # {}
                  /\ \E t \in S : Blocked(t) /\ s \in Rivals(t)

(* No unique index.                                                          *)
MutTaken(s) == FALSE

(* A unique index refuses a second entry.                                    *)
Taken(s) == Statement(s).verb = "insert" /\ Statement(s).key \in rows

(* A coroutine gives its event loop back when it returns or raises.          *)
LeaveLoop(s) == loop' = [p \in Loops |-> IF loop[p] = s THEN "none" ELSE loop[p]]

(* A session that is not closed.                                             *)
MutEnd(s, how) ==
  /\ pc' = [pc EXCEPT ![s] = "over"]
  /\ todo' = [todo EXCEPT ![s] = {}]
  /\ writes' = [writes EXCEPT ![s] = <<>>]
  /\ outcome' = [outcome EXCEPT ![s] = how]
  /\ LeaveLoop(s)
  /\ UNCHANGED held

(* The end of a transaction, by commit or rollback, and of its session.      *)
End(s, how) ==
  /\ pc' = [pc EXCEPT ![s] = "over"]
  /\ todo' = [todo EXCEPT ![s] = {}]
  /\ held' = [held EXCEPT ![s] = {}]
  /\ writes' = [writes EXCEPT ![s] = <<>>]
  /\ outcome' = [outcome EXCEPT ![s] = how]
  /\ LeaveLoop(s)

--------------------------------------------------------------------------------
(* The beginnings: a handler reads and plans its statements.                 *)

(* The server dispatches a request when no coroutine occupies the loop.      *)
Dispatched(s) == s \in Requests => loop[Process[s]] = "none"

Plan(s, o, statements, statuses) ==
  /\ Dispatched(s)
  /\ op' = [op EXCEPT ![s] = o]
  /\ pc' = [pc EXCEPT ![s] = "writing"]
  /\ todo' = [todo EXCEPT ![s] = statements]
  /\ writes' = [writes EXCEPT ![s] = statuses]
  /\ outcome' = [outcome EXCEPT ![s] = "none"]
  /\ UNCHANGED <<rows, status, held, fails>>

(* create_user, create_asset, api_create_scan_target: 409 if the name has a  *)
(* row, else an insert.                                                      *)
Create(s, o) ==
  /\ o.kind = "create" /\ o.name \notin rows
  /\ Plan(s, o, {Insert(1, o.name)}, <<>>)
  /\ UNCHANGED loop

Refuse(s, o) ==
  /\ Dispatched(s)
  /\ o.kind = "create" /\ o.name \in rows
  /\ op' = [op EXCEPT ![s] = o]
  /\ End(s, "conflict")
  /\ UNCHANGED <<rows, status, fails>>

(* ingest_scan and _ingest: the asset is inserted unless it is found.        *)
Upload(s, o) ==
  /\ o.kind = "upload"
  /\ Plan(s, o, IF o.name \in rows THEN {} ELSE {Insert(1, o.name)}, <<>>)
  /\ loop' = [p \in Loops |-> IF s \in Requests /\ Process[s] = p THEN s ELSE loop[p]]

(* api_bulk_status, api_change_status: the rows whose status differs.        *)
Changed(o) == {f \in o.ids \cap rows : status[f] # o.status}

(* With a note, the other rows are updated too: their updated_at.            *)
Touched(o) == IF o.note THEN o.ids \cap rows ELSE Changed(o)

(* The updates in the order of the request.                                  *)
MutTriage(s, o) ==
  /\ o.kind = "triage"
  /\ Plan(s, o, {Update(i, o.payload[i]) :
                   i \in {j \in DOMAIN o.payload : o.payload[j] \in Touched(o)}},
          [f \in Changed(o) |-> o.status])
  /\ UNCHANGED loop

Triage(s, o) ==
  /\ o.kind = "triage"
  /\ Plan(s, o, Updates(Touched(o)), [f \in Changed(o) |-> o.status])
  /\ UNCHANGED loop

(* process_scan, up to its flush: the known findings, all of which get their *)
(* last_seen and only the fixed ones a status, then the new ones in the      *)
(* order of the report.                                                      *)
Scan(s, o) ==
  LET known == Listed(o) \cap rows
      fresh == {i \in DOMAIN o.items : o.items[i] \notin rows}
  IN  /\ o.kind = "scan"
      /\ Plan(s, o, Updates(known) \cup {Insert(Len(Findings) + i, o.items[i]) : i \in fresh},
              [f \in {g \in Listed(o) : g \in known => status[g] = "fixed"} |-> "open"])
      /\ UNCHANGED loop

(* What a request does first.                                                *)
Begin(r) ==
  /\ pc[r] = "idle"
  /\ \E o \in OpsOf[r] :
       Create(r, o) \/ Refuse(r, o) \/ Upload(r, o) \/ Triage(r, o)

--------------------------------------------------------------------------------
(* The statements.                                                           *)

Write(s) ==
  /\ pc[s] \in {"writing", "closing"} /\ todo[s] # {} /\ ~Blocked(s) /\ ~Taken(s)
  /\ held' = [held EXCEPT ![s] = @ \cup {Statement(s).key}]
  /\ todo' = [todo EXCEPT ![s] = @ \ {Statement(s)}]
  /\ UNCHANGED <<rows, status, op, pc, writes, outcome, loop, fails>>

(* SQLAlchemy rolls the flush that failed back at once.                      *)
UniqueViolation(s) ==
  /\ todo[s] # {} /\ Taken(s)
  /\ End(s, "duplicate")
  /\ UNCHANGED <<rows, status, op, fails>>

(* The detector of PostgreSQL aborts one of the sessions of a cycle.         *)
Victim(s) ==
  /\ \E S \in SUBSET Sessions : s \in S /\ Cycle(S)
  /\ End(s, "deadlock")
  /\ UNCHANGED <<rows, status, op, fails>>

(* The report goes to disk between the insert of the asset and that of the   *)
(* scan. The session of a request that could not save it is closed by a      *)
(* thread the event loop has yet to start; a worker closes its own.          *)
Flushed(s) == pc[s] = "writing" /\ todo[s] = {}

SaveReport(s) ==
  /\ op[s].kind = "upload" /\ Flushed(s)
  /\ pc' = [pc EXCEPT ![s] = "saved"]
  /\ UNCHANGED <<rows, status, op, todo, held, writes, outcome, loop, fails>>

SaveFails(s) ==
  /\ op[s].kind = "upload" /\ Flushed(s) /\ fails < MaxFail
  /\ fails' = fails + 1
  /\ \/ s \in Workers /\ End(s, "unsaved")
     \/ /\ s \in Requests
        /\ pc' = [pc EXCEPT ![s] = "raised"]
        /\ LeaveLoop(s)
        /\ UNCHANGED <<todo, held, writes, outcome>>
  /\ UNCHANGED <<rows, status, op>>

Close(s) ==
  /\ pc[s] = "raised" /\ Dispatched(s)
  /\ End(s, "unsaved")
  /\ UNCHANGED <<rows, status, op, fails>>

(* process_scan after its flush: the stale query, sent with the commit. A    *)
(* report that lists nothing closes nothing.                                 *)
CloseStale(s) ==
  LET stale == {f \in rows \cap Fingerprints :
                  /\ Listed(op[s]) # {} /\ SourceOf[f] = op[s].scanner
                  /\ status[f] \in Unresolved /\ f \notin Listed(op[s])}
  IN  /\ op[s].kind = "scan" /\ Flushed(s)
      /\ pc' = [pc EXCEPT ![s] = "closing"]
      /\ todo' = [todo EXCEPT ![s] = Updates(stale)]
      /\ writes' = [writes EXCEPT ![s] =
           [f \in DOMAIN writes[s] \cup stale |-> IF f \in stale THEN "fixed" ELSE writes[s][f]]]
      /\ UNCHANGED <<rows, status, op, held, outcome, loop, fails>>

Ready(s) ==
  /\ todo[s] = {}
  /\ CASE op[s].kind = "upload" -> pc[s] = "saved"
       [] op[s].kind = "scan"   -> pc[s] = "closing"
       [] OTHER                 -> pc[s] = "writing"

Commit(s) ==
  /\ Ready(s)
  /\ rows' = rows \cup held[s]
  /\ status' = [f \in Fingerprints |-> IF f \in DOMAIN writes[s] THEN writes[s][f] ELSE status[f]]
  /\ End(s, "done")
  /\ UNCHANGED <<op, fails>>

(* What a request does once it has begun.                                    *)
Go(r) == \/ Write(r) \/ UniqueViolation(r) \/ SaveReport(r) \/ SaveFails(r) \/ Close(r)
         \/ Commit(r) \/ Victim(r)

--------------------------------------------------------------------------------
(* Every row, lock and session holds a value the code can put there, and no  *)
(* row or index entry is written by two open transactions.                   *)
DbTypeOK ==
  /\ rows \subseteq Keys
  /\ status \in [Fingerprints -> Statuses \cup {"absent"}]
  /\ pc \in [Sessions -> {"idle", "writing", "saved", "raised", "closing", "over"}]
  /\ todo \in [Sessions -> SUBSET [place : Nat, verb : {"insert", "update"}, key : Keys]]
  /\ held \in [Sessions -> SUBSET Keys]
  /\ \A s, t \in Sessions : s # t => held[s] \cap held[t] = {}
  /\ \A s \in Sessions : pc[s] \in {"idle", "over"} => held[s] = {}
  /\ \A s \in Sessions : DOMAIN writes[s] \subseteq Fingerprints
  /\ outcome \in [Sessions -> {"none", "done", "conflict", "duplicate", "deadlock",
                              "unsaved", "stopped"}]
  /\ loop \in [Loops -> Requests \cup {"none"}]
  /\ fails \in 0..MaxFail

(* Bulk triages, creations and uploads never deadlock among themselves, nor  *)
(* with the flush of the one worker's scan: a cycle needs a scan that closes *)
(* findings, with the rows of its report in hand.                            *)
DeadlockNeedsAScan ==
  \A S \in SUBSET Sessions : Cycle(S) =>
    \E s \in S : op[s].kind = "scan" /\ pc[s] = "closing"

(* Of the requests that found a unique name free, one creates it; the others *)
(* fail, and whoever is refused is refused for a row that is there.          *)
CreatedOnce ==
  \A n \in Names :
    LET Of(how) == {s \in Sessions : op[s].kind = "create" /\ op[s].name = n /\ outcome[s] = how}
    IN  /\ Cardinality(Of("done")) <= 1 /\ (n \in Known => Of("done") = {})
        /\ Of("done") \cup Of("conflict") \cup Of("duplicate") # {} => n \in rows

(* An upload that raised before its commit and whose event loop belongs to   *)
(* an upload that waits for the row it has not yet rolled back.              *)
Hung ==
  \E r \in Requests : /\ pc[r] = "raised"
                      /\ LET q == loop[Process[r]] IN q # "none" /\ Blocked(q) /\ r \in Rivals(q)
================================================================================
