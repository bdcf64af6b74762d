---------------------------- MODULE EventStream ----------------------------
(***************************************************************************)
(* How the events of one run reach a browser.  Transactions insert rows in *)
(* migration_events; streamMigrationEventsHandler polls the table with the *)
(* id of the last event it sent and writes server-sent events; the browser *)
(* connects again after every end or loss of the connection and sends back *)
(* the last id it received.  RunService.Report pages over the same table.  *)
(*                                                                         *)
(* The table's identity column hands out ids at the INSERT, not at the     *)
(* COMMIT, so rows can become visible out of the order of their ids.       *)
(* Operations that change the run's status hold its row lock (SELECT FOR   *)
(* UPDATE).  AppendEvent and the INSERT that precedes the lock in          *)
(* JobRepository.Complete do not: they draw an id at once, and the foreign *)
(* key makes their commit wait for whoever holds the lock.                 *)
(***************************************************************************)
EXTENDS Naturals, Sequences, FiniteSets

CONSTANTS
  MaxEvents,    \* bound: events of the run
  MaxFaults,    \* bound: lost connections, page reloads and sessions that end
  StreamPage,   \* 200, the page of the stream and the default of ListEvents
  ReportPage,   \* 500, the page of the report
  MaxPage       \* 500, the largest page ListEvents serves

ASSUME StreamAssumption ==
  /\ MaxEvents \in Nat /\ MaxFaults \in Nat
  /\ StreamPage \in Nat \ {0} /\ MaxPage \in Nat \ {0} /\ ReportPage \in Nat \ {0}
  /\ StreamPage <= MaxPage /\ ReportPage <= MaxPage

VARIABLES
  reader,    \* whom the transactions are observed by; it never changes
  rows,      \* migration_events of the run; the index is the id
  active,    \* whether the committed status of the run is not terminal
  holder,    \* the row whose transaction holds the lock of the run, or 0
  request,   \* an operation of the administrator that is being executed
  audit,     \* the last row of audit_events: an operation, its event and the result
  session,   \* the administrator's row in sessions
  conn,      \* the connection and the handler behind it; unsent is history: the
             \* rows that were committed when the run was read and are not sent yet
  seen,      \* the ids the page has received, in order
  report,    \* a report that is being put together; unread is history: the rows
             \* committed before it that it does not have yet
  late,      \* history: rows committed when the cursor was already beyond them
  faults     \* bound: faults so far

tableVars == <<reader, rows, active, holder>>
requestVars == <<request, audit>>
clientVars == <<conn, seen>>
vars == <<reader, rows, active, holder, request, audit, session, conn, seen, report, late, faults>>

(***************************************************************************)
(* append - an event beside the run's state: AppendEvent, or an INSERT     *)
(*          before the transaction's lock                                  *)
(* keep   - a change of status between two that are not terminal           *)
(* end    - a change to a terminal status                                  *)
(* reopen - RestoreSource: from COMPLETED back to ROLLING_BACK             *)
(***************************************************************************)
Kinds == {"append", "keep", "end", "reopen"}
RowStates == {"open", "committed", "aborted"}
Ids == 1..MaxEvents

Operations == {"cancel", "rollback", "cutover", "restore_source", "cleanup"}
Results == {"SUCCESS", "FAILURE"}
NoRequest == [op |-> "none", row |-> 0, stage |-> "none"]
NoEntry == [op |-> "none", row |-> 0, result |-> "none"]

\* The last id the EventSource has received; 0 is no Last-Event-ID header.
LastEventID == IF seen = << >> THEN 0 ELSE seen[Len(seen)]

\* idle: the EventSource is about to connect; refused: it has given up.
Stages == {"idle", "reading", "polling", "closing", "refused"}
NoConnection(stage) ==
  [stage |-> stage, cursor |-> 0, ended |-> FALSE, full |-> FALSE, wire |-> << >>, unsent |-> {}]
NoReport == [stage |-> "none", cursor |-> 0, unread |-> {}]

CommittedIds == {i \in DOMAIN rows : rows[i].state = "committed"}

\* A page, an administrator's requests and a report have only the table in
\* common, which other sessions change in every way they can: one of the three
\* at a time is observed, and the others are among the OtherTransactions.
Readers == {"page", "operator", "report"}

StreamTypeOK ==
  /\ reader \in Readers
  /\ rows \in Seq([kind : Kinds, state : RowStates]) /\ Len(rows) <= MaxEvents
  /\ active \in BOOLEAN
  /\ holder \in 0..Len(rows)
  /\ request \in [op : Operations \cup {"none"}, row : 0..MaxEvents,
                  stage : {"none", "executing"} \cup Results]
  /\ audit \in [op : Operations, row : Ids, result : Results] \cup {NoEntry}
  /\ session \in {"absent", "live", "expired"}
  /\ conn \in [stage : Stages, cursor : 0..MaxEvents, ended : BOOLEAN, full : BOOLEAN,
               wire : Seq(Ids), unsent : SUBSET Ids]
  /\ seen \in Seq(Ids)
  /\ report \in [stage : {"none", "paging", "done"}, cursor : 0..MaxEvents, unread : SUBSET Ids]
  /\ late \subseteq Ids
  /\ faults \in 0..MaxFaults

Init ==
  /\ reader \in Readers
  /\ rows = << >> /\ active = TRUE /\ holder = 0
  /\ request = NoRequest /\ audit = NoEntry
  /\ session = "live"
  /\ conn = NoConnection("idle") /\ seen = << >>
  /\ report = NoReport /\ late = {} /\ faults = 0

(***************************************************************************)
(* The table.                                                              *)
(***************************************************************************)
Permitted(kind) ==
  CASE kind = "append" -> TRUE
    [] kind \in {"keep", "end"} -> active
    [] kind = "reopen" -> ~active

Insert(kind) ==
  /\ Len(rows) < MaxEvents
  /\ kind # "append" => holder = 0
  /\ Permitted(kind)
  /\ rows' = Append(rows, [kind |-> kind, state |-> "open"])
  /\ holder' = IF kind = "append" THEN holder ELSE Len(rows) + 1
  /\ UNCHANGED <<reader, active>>

\* A worker or the handler of another request writes an event.
OtherTransaction(kind) ==
  /\ Insert(kind)
  /\ UNCHANGED <<requestVars, session, clientVars, report, late, faults>>

Covered(i) == i <= conn.cursor \/ i <= LastEventID

Commit(i) ==
  /\ rows[i].state = "open"
  /\ holder \in {0, i}
  /\ rows' = [rows EXCEPT ![i].state = "committed"]
  /\ active' = CASE rows[i].kind = "end" -> FALSE
                 [] rows[i].kind = "reopen" -> TRUE
                 [] OTHER -> active
  /\ holder' = 0
  /\ late' = IF Covered(i) THEN late \cup {i} ELSE late
  /\ UNCHANGED <<reader, requestVars, session, clientVars, report, faults>>

\* A failed statement, a lost connection to the database, a dying process.
Abort(i) ==
  /\ rows[i].state = "open"
  /\ rows' = [rows EXCEPT ![i].state = "aborted"]
  /\ holder' = IF holder = i THEN 0 ELSE holder
  /\ UNCHANGED <<reader, active, requestVars, session, clientVars, report, late, faults>>

\* The first rows after a cursor that a statement sees, in the order of their ids.
DefaultAtMaximum(limit) == IF limit >= MaxPage THEN StreamPage ELSE limit
EffectiveLimit(limit) == IF limit > MaxPage THEN StreamPage ELSE limit

PageWithCursor(cursor, limit) ==
  LET visible == {i \in CommittedIds : i >= cursor}
  IN  {i \in visible : Cardinality({j \in visible : j < i}) < EffectiveLimit(limit)}

LatestPage(cursor, limit) ==
  LET visible == {i \in CommittedIds : i > cursor}
  IN  {i \in visible : Cardinality({j \in visible : j > i}) < EffectiveLimit(limit)}

Page(cursor, limit) ==
  LET visible == {i \in CommittedIds : i > cursor}
  IN  {i \in visible : Cardinality({j \in visible : j < i}) < EffectiveLimit(limit)}

Ascending(ids) ==
  [k \in 1..Cardinality(ids) |-> CHOOSE i \in ids : Cardinality({j \in ids : j <= i}) = k]

BeyondGreatest(ids, otherwise) ==
  IF ids = {} THEN otherwise ELSE 1 + CHOOSE i \in ids : \A j \in ids : j <= i

Greatest(ids, otherwise) ==
  IF ids = {} THEN otherwise ELSE CHOOSE i \in ids : \A j \in ids : j <= i

(***************************************************************************)
(* The stream.                                                             *)
(***************************************************************************)
Authenticated == session = "live"

\* requireAuthentication, parseLastEventID and the first read of the run.
\* An answer other than 200 makes an EventSource give up.
Connect ==
  /\ reader = "page" /\ conn.stage = "idle"
  /\ conn' = IF ~Authenticated THEN NoConnection("refused")
             ELSE [NoConnection("reading") EXCEPT
                     !.cursor = LastEventID, !.ended = ~active,
                     !.unsent = {i \in CommittedIds : i > LastEventID}]
  /\ UNCHANGED <<tableVars, requestVars, session, seen, report, late, faults>>

AfterStatusNow(ended) == IF active THEN "polling" ELSE "closing"
AfterPage(ended) == IF ended THEN "closing" ELSE "polling"

\* The handler lists a page, writes it, and returns if the run it had read
\* before was terminal.
SendPage ==
  LET page == Page(conn.cursor, StreamPage)
  IN  /\ conn.stage = "reading"
      /\ conn' = [conn EXCEPT !.stage = AfterPage(conn.ended),
                              !.cursor = Greatest(page, @),
                              !.full = conn.ended /\ Cardinality(page) = StreamPage,
                              !.wire = @ \o Ascending(page),
                              !.unsent = IF conn.ended THEN @ \ page ELSE {}]
      /\ UNCHANGED <<tableVars, requestVars, session, seen, report, late, faults>>

PollForTheEnd ==
  /\ conn.stage = "polling" /\ ~active
  /\ conn' = [conn EXCEPT !.stage = "reading", !.ended = TRUE,
                          !.unsent = {i \in CommittedIds : i > conn.cursor}]
  /\ UNCHANGED <<tableVars, requestVars, session, seen, report, late, faults>>

\* The ticker: the run is read again, then the next page.
Poll ==
  /\ conn.stage = "polling"
  /\ conn' = [conn EXCEPT !.stage = "reading", !.ended = ~active,
                          !.unsent = {i \in CommittedIds : i > conn.cursor}]
  /\ UNCHANGED <<tableVars, requestVars, session, seen, report, late, faults>>

\* The other ticker: a comment is written, and the next page is read although
\* the run is not.
Heartbeat ==
  /\ conn.stage = "polling"
  /\ conn' = [conn EXCEPT !.stage = "reading"]
  /\ UNCHANGED <<tableVars, requestVars, session, seen, report, late, faults>>

\* An event reaches the page's listener.  The page shows the events without
\* duplicates in the order of their ids; seen is what arrives, in the order it does.
Receive ==
  /\ conn.wire # << >>
  /\ conn' = [conn EXCEPT !.wire = Tail(@)]
  /\ seen' = Append(seen, Head(conn.wire))
  /\ UNCHANGED <<tableVars, requestVars, session, report, late, faults>>

\* The handler has returned and everything it wrote has arrived.
ConnectionEnds ==
  /\ conn.stage = "closing" /\ conn.wire = << >>
  /\ conn' = NoConnection("idle")
  /\ UNCHANGED <<tableVars, requestVars, session, seen, report, late, faults>>

Fault ==
  /\ faults < MaxFaults
  /\ faults' = faults + 1

\* The connection breaks, the server stops, or a read of the handler fails.
ConnectionLost ==
  /\ conn.stage \in {"reading", "polling", "closing"}
  /\ Fault
  /\ conn' = NoConnection("idle")
  /\ UNCHANGED <<tableVars, requestVars, session, seen, report, late>>

\* The page is opened again: a new EventSource, without events and cursor.
ReloadPage ==
  /\ reader = "page" /\ Fault
  /\ conn' = NoConnection("idle")
  /\ seen' = << >>
  /\ UNCHANGED <<tableVars, requestVars, session, report, late>>

(***************************************************************************)
(* Sessions.  A stream is authenticated when it opens, and not afterwards. *)
(***************************************************************************)
SetSession(value) ==
  /\ session' = value
  /\ UNCHANGED <<tableVars, requestVars, clientVars, report, late>>

Login == session # "live" /\ SetSession("live") /\ UNCHANGED faults
Logout == Authenticated /\ Fault /\ SetSession("absent")
SessionExpires == session = "live" /\ Fault /\ SetSession("expired")

(***************************************************************************)
(* Operations.  A handler calls the service, whose transaction inserts the *)
(* event and which then reads the run for the answer; the result is written*)
(* to the audit log, and a failure to do so is only logged.                *)
(***************************************************************************)
Execute(op, kind) ==
  /\ reader = "operator" /\ request = NoRequest
  /\ Authenticated
  /\ Insert(kind)
  /\ request' = [op |-> op, row |-> Len(rows) + 1, stage |-> "executing"]
  /\ UNCHANGED <<audit, session, clientVars, report, late, faults>>

CancelHandler == Execute("cancel", "end") \/ Execute("cancel", "keep")
RollbackHandler == Execute("rollback", "keep")
ConfirmCutoverHandler == Execute("cutover", "end")
RestoreSourceHandler == Execute("restore_source", "reopen")
CleanupHandler == ~active /\ Execute("cleanup", "append")

AnswersBeforeCommit(result) ==
  /\ request.stage = "executing"
  /\ request' = [request EXCEPT !.stage = result]
  /\ UNCHANGED <<tableVars, audit, session, clientVars, report, late, faults>>

\* The service returns: an error if the transaction failed, and also if the
\* run cannot be read after the commit.
ServiceReturns(result) ==
  /\ request.stage = "executing"
  /\ \/ rows[request.row].state = "committed"
     \/ rows[request.row].state = "aborted" /\ result = "FAILURE"
  /\ request' = [request EXCEPT !.stage = result]
  /\ UNCHANGED <<tableVars, audit, session, clientVars, report, late, faults>>

RecordAudit ==
  /\ request.stage \in Results
  /\ audit' = [op |-> request.op, row |-> request.row, result |-> request.stage]
  /\ request' = NoRequest
  /\ UNCHANGED <<tableVars, session, clientVars, report, late, faults>>

\* The audit row cannot be written, or the server dies before it is.
AuditIsLost ==
  /\ request # NoRequest
  /\ request' = NoRequest
  /\ UNCHANGED <<tableVars, audit, session, clientVars, report, late, faults>>

(***************************************************************************)
(* The report.                                                             *)
(***************************************************************************)
BeginReport ==
  /\ reader = "report" /\ report.stage = "none"
  /\ Authenticated
  /\ report' = [NoReport EXCEPT !.stage = "paging", !.unread = CommittedIds]
  /\ UNCHANGED <<tableVars, requestVars, session, clientVars, late, faults>>

ReadReportPage ==
  LET page == Page(report.cursor, ReportPage)
  IN  /\ report.stage = "paging"
      /\ report' = [report EXCEPT !.unread = @ \ page,
                                  !.cursor = Greatest(page, @),
                                  !.stage = IF Cardinality(page) < ReportPage THEN "done" ELSE @]
      /\ UNCHANGED <<tableVars, requestVars, session, clientVars, late, faults>>

AnswerReport ==
  /\ report.stage = "done"
  /\ report' = NoReport
  /\ UNCHANGED <<tableVars, requestVars, session, clientVars, late, faults>>

Serve == Connect \/ SendPage \/ Poll \/ ConnectionEnds

Operate ==
  \/ CancelHandler \/ RollbackHandler \/ ConfirmCutoverHandler
  \/ RestoreSourceHandler \/ CleanupHandler
  \/ \E result \in Results : ServiceReturns(result)
  \/ RecordAudit \/ AuditIsLost

Next ==
  \/ \E kind \in Kinds : OtherTransaction(kind)
  \/ \E i \in DOMAIN rows : Commit(i) \/ Abort(i)
  \/ Serve \/ Heartbeat \/ Receive
  \/ ConnectionLost \/ ReloadPage
  \/ Login \/ Logout \/ SessionExpires
  \/ Operate
  \/ BeginReport \/ ReadReportPage \/ AnswerReport

Spec == Init /\ [][Next]_vars

\* The handler's loop and the browser's EventSource go on by themselves, and
\* what was written to a connection that is not lost arrives.
FairSpec == Spec /\ WF_vars(Serve) /\ WF_vars(Receive)

(***************************************************************************)
(* Properties.                                                             *)
(***************************************************************************)

\* Whatever connections are lost, a page receives the events of a run in the
\* order of their ids and none twice (streamMigrationEventsHandler).
EventsInOrder == \A j, k \in DOMAIN seen : j < k => seen[j] < seen[k]

\* The only events before the last one received that a page does not have are
\* those whose transactions committed when the cursor was already beyond their
\* ids: the stream skips nothing that it could have read.
OnlyLateEventsAreMissing ==
  \A i \in CommittedIds :
    i <= LastEventID => i \in late \/ \E k \in DOMAIN seen : seen[k] = i

\* A stream that the server ends has sent all that was committed when it read
\* the terminal status, the event of the ending among it, unless its last page
\* was full: the run is read before the page, never after it.
EndedStreamIsComplete ==
  conn.stage = "closing" =>
    \/ conn.full
    \/ conn.unsent = {} /\ \E i \in CommittedIds : rows[i].kind = "end" /\ i <= conn.cursor

\* A finished report has every event committed when it was begun, although
\* events go on arriving between its pages (RunService.Report).
ReportIsComplete == report.stage = "done" => report.unread = {}

\* An operation with a SUCCESS row in the audit log was committed, and its
\* event will be in every later stream; a FAILURE row promises nothing.
AuditedSuccessWasCommitted ==
  audit.result = "SUCCESS" => audit.row \in CommittedIds

(***************************************************************************)
(* What the four invariants above rest on: inductive with the types.       *)
(***************************************************************************)
\* The ids that the page has received or that are on their way to it.
Sent == seen \o conn.wire

Connected == conn.stage \in {"reading", "polling", "closing"}

\* The cursor is beyond nothing but what was sent and what committed late.
StreamIsOrdered ==
  /\ \A j, k \in DOMAIN Sent : j < k => Sent[j] < Sent[k]
  /\ ~Connected => conn.wire = << >>
  /\ Connected =>
       /\ \A k \in DOMAIN Sent : Sent[k] <= conn.cursor
       /\ \A i \in CommittedIds : i <= conn.cursor => i \in late \/ \E k \in DOMAIN Sent : Sent[k] = i
  /\ OnlyLateEventsAreMissing

\* A stream that has read a terminal status has its event sent or to be sent.
StreamKnowsItsEnd ==
  /\ ~active => \E i \in CommittedIds : rows[i].kind = "end"
  /\ conn.stage = "polling" => ~conn.ended
  /\ conn.stage = "reading" /\ conn.ended =>
       /\ \A i \in conn.unsent : i \in CommittedIds /\ i > conn.cursor
       /\ \E i \in CommittedIds : rows[i].kind = "end" /\ (i <= conn.cursor \/ i \in conn.unsent)
  /\ EndedStreamIsComplete

ReportIsBehind ==
  /\ report.stage = "paging" => \A i \in report.unread : i \in CommittedIds /\ i > report.cursor
  /\ ReportIsComplete

RequestIsCommitted ==
  /\ request # NoRequest => request.op \in Operations /\ request.row \in DOMAIN rows
  /\ request.stage = "SUCCESS" => request.row \in CommittedIds
  /\ AuditedSuccessWasCommitted

StreamInvariant == StreamIsOrdered /\ StreamKnowsItsEnd /\ ReportIsBehind /\ RequestIsCommitted

\* Every event that commits ahead of the cursor reaches a page that stays
\* open and signed in, however many pages it takes and even if the run has
\* ended: a page cut off by the limit is continued after the reconnection.
PageIsOpen == reader = "page" /\ session = "live" /\ conn.stage # "refused"
PageIsUpToDate == \A i \in CommittedIds : i \in late \/ \E k \in DOMAIN seen : seen[k] = i

EventsArrive == <>[]PageIsOpen => []<>PageIsUpToDate
=============================================================================
