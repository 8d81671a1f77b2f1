------------------------------- MODULE Audit --------------------------------
(***************************************************************************)
(* audit: Middleware with its status recorder, the logger in the context,  *)
(* MultiLogger over JSON and SQL sinks, and DBLogger.Recent.  A step is    *)
(* one call that others can see: a WriteHeader, one sink asked for one     *)
(* event, one query.                                                       *)
(***************************************************************************)
EXTENDS Integers, Sequences, SequencesExt, FiniteSets

CONSTANTS
  Procs,
  Sinks,      \* the loggers of the MultiLogger: [kind |-> "json"] or [kind |-> "db", l |-> ...]
  Modes,      \* how a route is wrapped: "none", "inject" or "auto" (Middleware(l, true))
  Statuses,   \* what handlers pass to WriteHeader
  Metas,      \* the Meta of handlers' events: "none", "map", "unmarshalable"
  Subjects,
  Tables,
  MaxHeaders, MaxEvents, MaxClock   \* bounds: WriteHeaders per request, events, clock

NULL == "NULL"

MinOf(a, b) == IF a < b THEN a ELSE b

-----------------------------------------------------------------------------
(* DBLogger's options, applied in order.                                     *)

\* Mutant: the statement built at construction time is kept.
WithTableNameStale(l, name) == IF l.customSchema THEN l ELSE [l EXCEPT !.table = name]
WithTableName(l, name) ==
  IF l.customSchema THEN l ELSE [l EXCEPT !.table = name, !.insertSQL = name]
WithCustomSchema(l, into, mapper) ==
  [l EXCEPT !.insertSQL = into, !.mapper = mapper, !.customSchema = TRUE]
ApplyOption(l, o) ==
  IF o.opt = "WithTableName" THEN WithTableName(l, o.name) ELSE WithCustomSchema(l, o.name, o.mapper)

\* insertSQL is the table that the statement names.
DefaultLogger ==
  [table |-> "audit_logs", insertSQL |-> "audit_logs", mapper |-> FALSE, customSchema |-> FALSE]
NewDBLogger(opts) ==
  LET after[i \in 0..Len(opts)] ==
        IF i = 0 THEN DefaultLogger ELSE ApplyOption(after[i - 1], opts[i])
  IN  after[Len(opts)]
Logger(k) == NewDBLogger(Sinks[k].opts)

\* Handlers send final statuses that net/http accepts (no informational 1xx).  The tables that the statements name exist,
\* each for one sink; SQL's NULL is no string.
AuditConstants ==
  /\ IsFiniteSet(Procs) /\ {MaxHeaders, MaxEvents, MaxClock} \subseteq Nat
  /\ Statuses \subseteq 200..999 /\ Metas \subseteq {"none", "map", "unmarshalable"}
  /\ NULL \notin Subjects
  /\ Len(Sinks) \in Nat /\ DOMAIN Sinks = 1..Len(Sinks)
  /\ \A k \in DOMAIN Sinks :
       /\ Sinks[k].kind \in {"json", "db"}
       /\ Sinks[k].kind = "db" => Len(Sinks[k].opts) \in Nat /\ Logger(k).insertSQL \in Tables
  /\ \A j, k \in DOMAIN Sinks :
       Sinks[j].kind = "db" /\ Sinks[k].kind = "db" /\ Logger(j).insertSQL = Logger(k).insertSQL => j = k

ASSUME AuditAssumption == AuditConstants

-----------------------------------------------------------------------------
(* Events, their rows, and back.  id tells events apart; it is not a column. *)

eventTypeForStatus(status) == IF status >= 400 THEN "authz.access_denied" ELSE "authz.access_granted"
resultForStatus(status) == IF status >= 400 THEN "deny" ELSE "allow"

nullString(s) == IF s = "" THEN NULL ELSE s
Scanned(v) == IF v = NULL THEN "" ELSE v
MetaJSON(m) == CASE m = "none" -> NULL [] m = "map" -> "map" [] m = "unmarshalable" -> "{}"
ScannedMeta(v) == IF v = NULL THEN "none" ELSE v

RowOf(e) == [e EXCEPT !.Subject = nullString(@), !.Result = nullString(@), !.Meta = MetaJSON(@)]
EventOf(row) == [row EXCEPT !.Subject = Scanned(@), !.Result = Scanned(@), !.Meta = ScannedMeta(@)]

-----------------------------------------------------------------------------
VARIABLES
  clock, nextID,
  reqs,     \* the request of each goroutine
  lines,    \* lines[k]: the events JSON sink k has written
  encErr,   \* JSON sinks whose encoder has failed to write once
  tables,   \* the rows of each table
  saved     \* history: saved[k] are the events that have reached sink k
auditVars == <<clock, nextID, reqs, lines, encErr, tables, saved>>

Idle == [pc |-> "idle"]

AuditInit ==
  /\ clock = 0 /\ nextID = 1
  /\ reqs = [p \in Procs |-> Idle]
  /\ lines = [k \in DOMAIN Sinks |-> {}]
  /\ encErr = {}
  /\ tables = [t \in Tables |-> {}]
  /\ saved = [k \in DOMAIN Sinks |-> {}]

LogsUnchanged == UNCHANGED <<lines, encErr, tables, saved>>
ClockUnchanged == UNCHANGED <<clock, nextID>>

-----------------------------------------------------------------------------
(* Requests.  sent is the status the client gets, status the recorder's;     *)
(* headers counts the WriteHeaders.  event is being logged, k the sink asked  *)
(* next, first the sink of the first error.  late (a WriteHeader came when a  *)
(* status had been sent), failed and panicked are history.                    *)

\* The bound leaves every running request the event it will end with.
Room == nextID + Cardinality({p \in Procs : reqs[p].pc # "idle" /\ reqs[p].mode = "auto"
                                            /\ (reqs[p].pc = "handler" \/ reqs[p].then = "handler")})
          <= MaxEvents

Begin(p, mode) ==
  /\ reqs[p] = Idle /\ (mode = "auto" => Room)
  /\ reqs' = [reqs EXCEPT ![p] =
       [pc |-> "handler", mode |-> mode, sent |-> 0, status |-> 200, headers |-> 0, late |-> FALSE,
        event |-> NULL, k |-> 1, first |-> 0, failed |-> {}, then |-> NULL, panicked |-> FALSE]]
  /\ ClockUnchanged /\ LogsUnchanged

\* statusRecorder.WriteHeader keeps the last status; net/http sends the first.
\* Mutant: the first one is not recorded either.
WriteHeaderUnrecorded(p, status) ==
  /\ reqs[p].pc = "handler" /\ reqs[p].headers < MaxHeaders
  /\ reqs' = [reqs EXCEPT ![p].sent = IF @ = 0 THEN status ELSE @, ![p].headers = @ + 1,
                          ![p].late = @ \/ reqs[p].sent # 0]
  /\ ClockUnchanged /\ LogsUnchanged
WriteHeader(p, status) ==
  /\ reqs[p].pc = "handler" /\ reqs[p].headers < MaxHeaders
  /\ reqs' = [reqs EXCEPT ![p].sent = IF @ = 0 THEN status ELSE @, ![p].status = status,
                          ![p].headers = @ + 1, ![p].late = @ \/ reqs[p].sent # 0]
  /\ ClockUnchanged /\ LogsUnchanged

\* The first Write of a body sends 200 if nothing was sent.  statusRecorder does not override
\* Write, so it learns nothing of it.
Write(p) ==
  /\ reqs[p].pc = "handler" /\ reqs[p].sent = 0
  /\ reqs' = [reqs EXCEPT ![p].sent = 200]
  /\ ClockUnchanged /\ LogsUnchanged

\* MultiLogger.Log begins; then is where the call returns to.
StartLog(p, q, event, then) ==
  /\ reqs' = [reqs EXCEPT ![p] = [q EXCEPT !.pc = "log", !.event = event, !.k = 1, !.first = 0,
                                           !.failed = {}, !.then = then]]
  /\ nextID' = nextID + 1
  /\ UNCHANGED clock /\ LogsUnchanged

\* Eventf(...).Log(ctx) in a handler: FromContext finds the logger if the route is wrapped,
\* and the NOOPLogger otherwise.
HandlerLog(p, subject, meta) ==
  /\ reqs[p].pc = "handler" /\ reqs[p].mode # "none" /\ Room
  /\ StartLog(p, reqs[p], [id |-> nextID, Timestamp |-> clock, Type |-> "auth.login", Subject |-> subject,
                           Result |-> "allow", Meta |-> meta], "handler")

\* The handler returns; a response without WriteHeader is a 200.
Finish(p) ==
  LET q == [reqs[p] EXCEPT !.sent = IF @ = 0 THEN 200 ELSE @] IN
  /\ reqs[p].pc = "handler"
  /\ IF q.mode = "auto"
     THEN StartLog(p, q, [id |-> nextID, Timestamp |-> clock, Type |-> eventTypeForStatus(q.status),
                          Subject |-> "", Result |-> resultForStatus(q.status), Meta |-> "map"], "done")
     ELSE /\ reqs' = [reqs EXCEPT ![p] = [q EXCEPT !.pc = "done"]]
          /\ ClockUnchanged /\ LogsUnchanged

\* A panic unwinds through Middleware, which defers nothing; net/http drops the connection.
Panic(p) ==
  /\ reqs[p].pc = "handler"
  /\ reqs' = [reqs EXCEPT ![p].pc = "done", ![p].panicked = TRUE]
  /\ ClockUnchanged /\ LogsUnchanged

-----------------------------------------------------------------------------
(* The loop of MultiLogger.Log: sink k has answered.                         *)

\* Mutant: the loop ends at the first error.
SinkErrorStops(p) == reqs' = [reqs EXCEPT ![p].first = reqs[p].k, ![p].failed = @ \cup {reqs[p].k},
                                          ![p].k = Len(Sinks) + 1, ![p].pc = "log"]
\* Mutant: the same sink is tried again.
SinkErrorRetries(p) ==
  reqs' = [reqs EXCEPT ![p].first = IF @ = 0 THEN reqs[p].k ELSE @, ![p].failed = @ \cup {reqs[p].k},
                       ![p].pc = "log"]
SinkError(p) ==
  reqs' = [reqs EXCEPT ![p].first = IF @ = 0 THEN reqs[p].k ELSE @, ![p].failed = @ \cup {reqs[p].k},
                       ![p].k = @ + 1, ![p].pc = "log"]
SinkOK(p) ==
  /\ reqs' = [reqs EXCEPT ![p].k = @ + 1, ![p].pc = "log"]
  /\ saved' = [saved EXCEPT ![reqs[p].k] = @ \cup {reqs[p].event}]

AtSink(p, kind) == reqs[p].pc = "log" /\ reqs[p].k \in DOMAIN Sinks /\ Sinks[reqs[p].k].kind = kind

\* JSONLogger.Log.  json.Encoder first looks at the error of an earlier write, then encodes,
\* then writes; nothing orders two goroutines in it.
Encode(p) ==
  /\ AtSink(p, "json")
  /\ IF reqs[p].k \in encErr \/ reqs[p].event.Meta = "unmarshalable" THEN SinkError(p)
     ELSE reqs' = [reqs EXCEPT ![p].pc = "encoded"]
  /\ ClockUnchanged /\ LogsUnchanged
EncoderWrite(p) ==
  /\ reqs[p].pc = "encoded"
  /\ \/ SinkOK(p) /\ lines' = [lines EXCEPT ![reqs[p].k] = @ \cup {reqs[p].event}] /\ UNCHANGED encErr
     \/ SinkError(p) /\ encErr' = encErr \cup {reqs[p].k} /\ UNCHANGED <<lines, saved>>
  /\ ClockUnchanged /\ UNCHANGED tables

\* DBLogger.Log.  The insert fails by itself, or because the request's context is cancelled
\* (its client has hung up); then the row may be in the table all the same.  With a mapper
\* the columns are the caller's.
Insert(p) ==
  LET l == Logger(reqs[p].k)
      row == IF l.mapper THEN [mapped |-> reqs[p].event] ELSE RowOf(reqs[p].event)
      Added == tables' = [tables EXCEPT ![l.insertSQL] = @ \cup {row}]
  IN  /\ AtSink(p, "db")
      /\ \/ SinkOK(p) /\ Added
         \/ SinkError(p) /\ UNCHANGED <<tables, saved>>
         \/ /\ SinkError(p) /\ Added
            /\ saved' = [saved EXCEPT ![reqs[p].k] = @ \cup {reqs[p].event}]
      /\ ClockUnchanged /\ UNCHANGED <<lines, encErr>>

\* Log returns: the handler goes on, or the middleware is done and drops the error.
LogReturns(p) ==
  /\ reqs[p].pc = "log" /\ reqs[p].k > Len(Sinks)
  /\ reqs' = [reqs EXCEPT ![p].pc = reqs[p].then]
  /\ ClockUnchanged /\ LogsUnchanged

Return(p) ==
  /\ reqs[p].pc = "done"
  /\ reqs' = [reqs EXCEPT ![p] = Idle]
  /\ ClockUnchanged /\ LogsUnchanged

-----------------------------------------------------------------------------
AuditTick ==
  /\ clock < MaxClock /\ clock' = clock + 1
  /\ UNCHANGED <<nextID, reqs>> /\ LogsUnchanged

AuditNext ==
  \/ \E p \in Procs, mode \in Modes : Begin(p, mode)
  \/ \E p \in Procs, status \in Statuses : WriteHeader(p, status)
  \/ \E p \in Procs, subject \in Subjects, meta \in Metas : HandlerLog(p, subject, meta)
  \/ \E p \in Procs : \/ Write(p) \/ Finish(p) \/ Panic(p) \/ Encode(p) \/ EncoderWrite(p)
                      \/ Insert(p) \/ LogReturns(p) \/ Return(p)
  \/ AuditTick

AuditSpec == AuditInit /\ [][AuditNext]_auditVars

-----------------------------------------------------------------------------
(* Recent reads: WHERE, ORDER BY timestamp DESC, LIMIT.  Rows of equal        *)
(* timestamps come in any order, so this is the set of possible answers.      *)

EffectiveLimit(limit) == IF limit <= 0 THEN 100 ELSE limit
Selected(l, subject) == {row \in tables[l.table] : subject = "" \/ row.Subject = subject}
NewestFirst(rows) ==
  {s \in SetToSeqs(rows) : \A i, j \in DOMAIN s : i < j => s[i].Timestamp >= s[j].Timestamp}
Recent(l, subject, limit) ==
  {[i \in 1..MinOf(Len(s), EffectiveLimit(limit)) |-> EventOf(s[i])] :
     s \in NewestFirst(Selected(l, subject))}

-----------------------------------------------------------------------------
(* Properties.                                                               *)

Active == {q \in {reqs[p] : p \in Procs} : q # Idle}

AuditTypeOK ==
  /\ clock \in 0..MaxClock /\ nextID \in 1..(MaxEvents + 1)
  /\ encErr \subseteq {k \in DOMAIN Sinks : Sinks[k].kind = "json"}
  /\ \A q \in Active :
       /\ q.pc \in {"handler", "log", "encoded", "done"} /\ q.mode \in Modes
       /\ q.k \in 1..(Len(Sinks) + 1) /\ q.failed \subseteq 1..(q.k - 1)
       /\ q.status \in Statuses \cup {200} /\ q.sent \in Statuses \cup {0, 200}
       /\ q.late \in BOOLEAN

\* What sink k holds of event e, once.
Holds(k, e) ==
  IF Sinks[k].kind = "json" THEN e \in lines[k]
  ELSE LET l == Logger(k) IN
       (IF l.mapper THEN [mapped |-> e] ELSE RowOf(e)) \in tables[l.insertSQL]

\* MultiLogger: when Log returns, every sink has the event but those that failed on it
\* themselves, and the error is the first one's; a failing, silenced or cancelled sink never
\* keeps an event from the sinks behind it.
SinksFailAlone ==
  \A q \in Active : q.pc = "log" /\ q.k > Len(Sinks) =>
    /\ \A k \in DOMAIN Sinks : Holds(k, q.event) \/ k \in q.failed
    /\ q.first = 0 <=> q.failed = {}
    /\ q.failed # {} => q.first \in q.failed /\ \A k \in q.failed : q.first <= k

\* Middleware(l, true): when a handler has returned that called WriteHeader, if at all, once
\* and before it wrote the body, its request is on record in every sink that did not fail, as
\* denied exactly if the client got a status of 400 or more; also if the handler logged events
\* of its own before.  (A WriteHeader that comes too late is recorded though it is not sent.)
VerdictOnRecord ==
  \A q \in Active : q.pc = "done" /\ q.mode = "auto" /\ ~q.panicked /\ ~q.late =>
    /\ q.event.Result = resultForStatus(q.sent) /\ q.event.Type = eventTypeForStatus(q.sent)
    /\ \A k \in DOMAIN Sinks \ q.failed : Holds(k, q.event)

\* Recent, on the SDK's own schema: the answer is the newest of the events that have reached
\* the sink (of the subject asked for), whichever table is configured, in whatever order
\* goroutines insert, and also of those whose insert reported an error afterwards; empty
\* fields and Meta come back as they were, or `{}' for a Meta that JSON cannot hold.
RecentIsTheTrail ==
  \A k \in {x \in DOMAIN Sinks : Sinks[x].kind = "db"}, subject \in Subjects \cup {""}, limit \in 0..2 :
    LET l == Logger(k)
        trail == {e \in saved[k] : subject = "" \/ e.Subject = subject}
        stored == {[e EXCEPT !.Meta = IF @ = "unmarshalable" THEN "{}" ELSE @] : e \in trail}
    IN  ~l.customSchema =>
          \A a \in Recent(l, subject, limit) :
            /\ ToSet(a) \subseteq stored
            /\ Len(a) = MinOf(Cardinality(stored), EffectiveLimit(limit))
            /\ \A i \in DOMAIN a : \A e \in stored \ ToSet(SubSeq(a, 1, i)) : e.Timestamp <= a[i].Timestamp
=============================================================================
