--------------------------------- MODULE Workspace ---------------------------------
(***************************************************************************)
(* The findings explorer of the browser (renderFindings in                 *)
(* app/static/app.js) over GET /ui/api/findings (search_findings in        *)
(* app/web_stats.py) and POST /ui/api/findings/bulk, and the explanations  *)
(* its drawer asks for.                                                    *)
(*                                                                         *)
(* Every click changes the state of the page and sends a search; the       *)
(* answer that arrives last is the one on screen.  A search counts the     *)
(* matching rows, then cuts a page of them, in READ COMMITTED statements   *)
(* between which others commit.                                            *)
(***************************************************************************)
EXTENDS Naturals, Sequences, FiniteSets, Explanation

CONSTANTS
  Ids,         \* findings, numbered in the order of the sort column
  Statuses,    \* values of findings.status
  Chips,       \* the status chips the analyst clicks, and the statuses she sets
  ScannerOf,   \* the scanner of each finding
  PageSize,    \* rows of a page
  MaxClick,    \* bound: clicks that reload the table or send a change
  MaxCommit,   \* bound: changes committed by scans, other analysts and the drawer
  MaxOutage    \* bound: calls that fail

AnyScanner == ""    \* no scanner chosen

Scanners == {ScannerOf[id] : id \in Ids}

ASSUME WorkspaceAssumption ==
  /\ Ids \subseteq Nat /\ IsFiniteSet(Ids) /\ AnyScanner \notin Scanners
  /\ "open" \in Statuses /\ Chips \subseteq Statuses
  /\ PageSize \in Nat \ {0} /\ MaxClick \in Nat /\ MaxCommit \in Nat /\ MaxOutage \in Nat

VARIABLES
  statusOf,    \* committed findings.status
  version,     \* commits so far
  state,       \* filters, order and page of the explorer
  reloads,     \* the searches sent, in order
  lastData,    \* the answer on screen
  export,      \* the filters of the export link
  selected,    \* the rows ticked, on any page
  tickedAfter, \* history: the bulk changes sent when each row was last ticked
  bulks,       \* the bulk changes sent, in order
  clicks,      \* clicks so far (at most MaxClick)
  commits,     \* changes by others so far (at most MaxCommit)
  outages      \* failed calls so far (at most MaxOutage)

screen == <<state, lastData, export, selected, tickedAfter>>

bounds == <<clicks, commits, outages>>

tableVars == <<statusOf, version, reloads, bulks, screen, bounds>>

vars == <<tableVars, explainVars>>

NoFilters == [status |-> {}, scanner |-> AnyScanner]

FirstState == [filters |-> NoFilters, desc |-> FALSE, page |-> 1]

(* No answer: by, the search an answer belongs to, is 0.                     *)
NoData == [query |-> FirstState, items |-> {}, total |-> 0, counted |-> 0, cut |-> 0, by |-> 0]

Sent(q) == [step |-> "sent", data |-> [NoData EXCEPT !.query = q]]

Gone(how) == [step |-> how, data |-> NoData]

TableInit ==
  /\ statusOf = [id \in Ids |-> "open"] /\ version = 0
  /\ state = FirstState
  /\ reloads = <<Sent(FirstState)>>
  /\ lastData = NoData
  /\ export = NoFilters
  /\ selected = {} /\ tickedAfter = [id \in Ids |-> 0] /\ bulks = <<>>
  /\ clicks = 0 /\ commits = 0 /\ outages = 0

--------------------------------------------------------------------------------
(* search_findings on the server, in two steps.                              *)

Matching(q) ==
  {id \in Ids : /\ q.filters.status = {} \/ statusOf[id] \in q.filters.status
                /\ q.filters.scanner \in {AnyScanner, ScannerOf[id]}}

Ahead(q, i, j) == IF q.desc THEN i > j ELSE i < j

Rank(q, id, rows) == Cardinality({i \in rows : Ahead(q, i, id)})

(* The page after the one asked for.                                         *)
MutPageOf(q, rows) ==
  {id \in rows : Rank(q, id, rows) \in (q.page * PageSize)..((q.page + 1) * PageSize - 1)}

(* OFFSET (page - 1) * page_size LIMIT page_size.                            *)
PageOf(q, rows) ==
  {id \in rows : Rank(q, id, rows) \in ((q.page - 1) * PageSize)..(q.page * PageSize - 1)}

Pages(total) == IF total = 0 THEN 1 ELSE (total + PageSize - 1) \div PageSize

Count(i) ==
  LET d == reloads[i].data IN
  /\ reloads[i].step = "sent"
  /\ reloads' = [reloads EXCEPT ![i] = [step |-> "counted", data |->
                   [d EXCEPT !.total = Cardinality(Matching(d.query)), !.counted = version]]]
  /\ UNCHANGED <<statusOf, version, bulks, screen, bounds>>

CutPage(i) ==
  LET d == reloads[i].data IN
  /\ reloads[i].step = "counted"
  /\ reloads' = [reloads EXCEPT ![i] = [step |-> "answered", data |->
                   [d EXCEPT !.items = PageOf(d.query, Matching(d.query)),
                             !.cut = version, !.by = i]]]
  /\ UNCHANGED <<statusOf, version, bulks, screen, bounds>>

(* The answer arrives: the table, the pager and the export link follow it,   *)
(* whatever was sent since.                                                  *)
Show(i) ==
  /\ reloads[i].step = "answered"
  /\ lastData' = reloads[i].data
  /\ export' = state.filters
  /\ reloads' = [reloads EXCEPT ![i] = Gone("shown")]
  /\ UNCHANGED <<statusOf, version, bulks, state, selected, tickedAfter, bounds>>

(* A search that fails leaves the table that was there.                      *)
SearchFails(i) ==
  /\ reloads[i].step = "sent" /\ outages < MaxOutage
  /\ outages' = outages + 1
  /\ reloads' = [reloads EXCEPT ![i] = Gone("failed")]
  /\ UNCHANGED <<statusOf, version, bulks, screen, clicks, commits>>

--------------------------------------------------------------------------------
(* The clicks.                                                               *)

Reload(q) == reloads' = Append(reloads, Sent(q))

Click(q) ==
  /\ clicks < MaxClick
  /\ clicks' = clicks + 1
  /\ state' = q
  /\ Reload(q)
  /\ UNCHANGED <<statusOf, version, bulks, lastData, export, selected, tickedAfter, commits,
                 outages>>

Toggled(S, x) == IF x \in S THEN S \ {x} ELSE S \cup {x}

(* A chip changes the filter and keeps the page.                             *)
ToggleChip(st) ==
  Click([state EXCEPT !.filters.status = Toggled(state.filters.status, st)])

(* The other filters go back to the first page.                              *)
ChooseScanner(sc) ==
  /\ sc # state.filters.scanner
  /\ Click([state EXCEPT !.filters.scanner = sc, !.page = 1])

ResetFilters == Click([state EXCEPT !.filters = NoFilters, !.page = 1])

(* A sort that does not search again.                                        *)
MutSort ==
  /\ clicks < MaxClick
  /\ clicks' = clicks + 1
  /\ state' = [state EXCEPT !.desc = ~state.desc]
  /\ UNCHANGED <<statusOf, version, reloads, bulks, lastData, export, selected, tickedAfter,
                 commits, outages>>

(* A column's header turns the order round and keeps the page.               *)
Sort == Click([state EXCEPT !.desc = ~state.desc])

(* A pager without bounds.                                                   *)
MutTurn ==
  /\ lastData.by > 0 /\ Pages(lastData.total) > 1
  /\ \E step \in {0, 2} : Click([state EXCEPT !.page = lastData.query.page + step - 1])

(* The pager counts from the page on screen, not from the one asked for.     *)
Turn ==
  /\ lastData.by > 0 /\ Pages(lastData.total) > 1
  /\ \/ lastData.query.page > 1 /\ Click([state EXCEPT !.page = lastData.query.page - 1])
     \/ lastData.query.page < Pages(lastData.total)
          /\ Click([state EXCEPT !.page = lastData.query.page + 1])

(* The box of a row, that of the header (the page's rows), and "clear".      *)
Tick(S) ==
  /\ selected' = S
  /\ tickedAfter' = [id \in Ids |-> IF id \in S \ selected THEN Len(bulks) ELSE tickedAfter[id]]
  /\ UNCHANGED <<statusOf, version, reloads, bulks, state, lastData, export, bounds>>

TickRow == \E id \in lastData.items : Tick(Toggled(selected, id))

TickPage ==
  /\ lastData.items # {}
  /\ Tick(IF lastData.items \subseteq selected THEN selected \ lastData.items
                                              ELSE selected \cup lastData.items)

ClearTicks == selected # {} /\ Tick({})

--------------------------------------------------------------------------------
(* The bulk change, and those of others.                                     *)

BulkSet(st) ==
  /\ selected # {} /\ clicks < MaxClick
  /\ clicks' = clicks + 1
  /\ bulks' = Append(bulks, [ids |-> selected, status |-> st, step |-> "sent", at |-> 0])
  /\ UNCHANGED <<statusOf, version, reloads, screen, commits, outages>>

Commits(ids, st) ==
  /\ statusOf' = [id \in Ids |-> IF id \in ids THEN st ELSE statusOf[id]]
  /\ version' = version + 1

BulkCommits(b) ==
  /\ bulks[b].step = "sent"
  /\ Commits(bulks[b].ids, bulks[b].status)
  /\ bulks' = [bulks EXCEPT ![b] = [@ EXCEPT !.step = "committed", !.at = version + 1]]
  /\ UNCHANGED <<reloads, screen, bounds>>

(* The selection is cleared whole, and the table is searched again.          *)
BulkAnswered(b) ==
  /\ bulks[b].step = "committed"
  /\ bulks' = [bulks EXCEPT ![b].step = "done"]
  /\ selected' = {}
  /\ Reload(state)
  /\ UNCHANGED <<statusOf, version, state, lastData, export, tickedAfter, bounds>>

(* A failure that clears the selection.                                      *)
MutBulkFails(b) ==
  /\ bulks[b].step \in {"sent", "committed"} /\ outages < MaxOutage
  /\ outages' = outages + 1
  /\ bulks' = [bulks EXCEPT ![b].step = "failed"]
  /\ selected' = {}
  /\ UNCHANGED <<statusOf, version, reloads, state, lastData, export, tickedAfter, clicks,
                 commits>>

(* The request, or its answer, is lost: nothing changes on screen.           *)
BulkFails(b) ==
  /\ bulks[b].step \in {"sent", "committed"} /\ outages < MaxOutage
  /\ outages' = outages + 1
  /\ bulks' = [bulks EXCEPT ![b].step = "failed"]
  /\ UNCHANGED <<statusOf, version, reloads, screen, clicks, commits>>

(* A scan, another analyst, or this one's drawer, which does not search      *)
(* again.                                                                    *)
Elsewhere(id, st) ==
  /\ commits < MaxCommit /\ statusOf[id] # st
  /\ commits' = commits + 1
  /\ Commits({id}, st)
  /\ UNCHANGED <<reloads, bulks, screen, clicks, outages>>

--------------------------------------------------------------------------------
Server == \/ \E i \in DOMAIN reloads : Count(i) \/ CutPage(i)
          \/ \E b \in DOMAIN bulks : BulkCommits(b)
          \/ \E id \in Ids, st \in Statuses : Elsewhere(id, st)

Answers == \/ \E i \in DOMAIN reloads : Show(i) \/ SearchFails(i)
           \/ \E b \in DOMAIN bulks : BulkAnswered(b) \/ BulkFails(b)

Analyst == \/ \E st \in Chips : ToggleChip(st) \/ BulkSet(st)
           \/ \E sc \in Scanners \cup {AnyScanner} : ChooseScanner(sc)
           \/ ResetFilters \/ Sort \/ Turn \/ TickRow \/ TickPage \/ ClearTicks

TableNext == Server \/ Answers \/ Analyst

Init == TableInit /\ ExplainInit

Next == \/ TableNext /\ UNCHANGED explainVars
        \/ ExplainNext /\ UNCHANGED tableVars

Spec == Init /\ [][Next]_vars

--------------------------------------------------------------------------------
(* The screen, the calls in flight and the columns hold values the code can  *)
(* put there.                                                                *)
TypeOK ==
  /\ statusOf \in [Ids -> Statuses] /\ version \in 0..(MaxClick + MaxCommit)
  /\ state.filters.status \subseteq Statuses /\ state.filters.scanner \in Scanners \cup {AnyScanner}
  /\ state.page \in 1..Pages(Cardinality(Ids))
  /\ \A i \in DOMAIN reloads :
       reloads[i].step \in {"sent", "counted", "answered", "shown", "failed"}
  /\ lastData.by \in 0..Len(reloads) /\ lastData.items \subseteq Ids
  /\ selected \subseteq Ids /\ tickedAfter \in [Ids -> 0..Len(bulks)]
  /\ \A b \in DOMAIN bulks : /\ bulks[b].ids # {} /\ bulks[b].ids \subseteq Ids
                             /\ bulks[b].step \in {"sent", "committed", "done", "failed"}
  /\ ExplainTypeOK

Settled ==
  /\ \A i \in DOMAIN reloads : reloads[i].step \in {"shown", "failed"}
  /\ \A b \in DOMAIN bulks : bulks[b].step \in {"done", "failed"}

Overtaken == \E i \in DOMAIN reloads : i > lastData.by /\ reloads[i].step = "shown"

(* When every call has ended, the table answers the filters, order and page  *)
(* on screen and shows the bulk changes that were reported, unless the last  *)
(* search failed or its answer came before that of an older one; the export  *)
(* link has the filters on screen even then.                                 *)
TableMatchesFilters ==
  Settled /\ reloads[Len(reloads)].step = "shown" =>
    /\ export = state.filters
    /\ ~Overtaken =>
         /\ lastData.query = state
         /\ \A b \in DOMAIN bulks : bulks[b].step = "done" => bulks[b].at <= lastData.counted

(* The table holds as many rows as the count beside it leaves for its page   *)
(* (none beyond the last page, where a chip or a sort may have left the      *)
(* explorer), unless somebody committed between the count and the page.      *)
RowsFitCount ==
  LET before == (lastData.query.page - 1) * PageSize
      rest == IF lastData.total > before THEN lastData.total - before ELSE 0
  IN  lastData.by > 0 /\ lastData.counted = lastData.cut =>
        Cardinality(lastData.items) = IF rest < PageSize THEN rest ELSE PageSize

(* The rows ticked survive filters, pages, reloads and failed calls: only    *)
(* the boxes, "clear" and the answer of a bulk change untick a row. A row    *)
(* unticked by an answer was changed by it, or ticked after it was sent (by  *)
(* then b changes were).                                                     *)
TicksSurvive ==
  [][\A id \in selected \ selected' :
       \/ TickRow \/ TickPage \/ ClearTicks
       \/ \E b \in DOMAIN bulks :
            BulkAnswered(b) /\ (id \in bulks[b].ids \/ tickedAfter[id] >= b)]_vars
================================================================================
