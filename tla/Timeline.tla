------------------------------ MODULE Timeline ------------------------------
(***************************************************************************)
(* From the proxy's events to the timeline database                        *)
(* (src-tauri/src/setup.rs, timeline.rs; request_done in mitm_proxy.rs).    *)
(*                                                                         *)
(* Events go out on a broadcast channel that keeps the last Capacity of     *)
(* them.  One task receives them in order and awaits an append per event,   *)
(* which writes two tables in one transaction: T_EVENTS by request id,      *)
(* T_BY_TIME by the request's timestamp and id.  If the task falls behind,  *)
(* recv reports a lag and continues with the oldest event that is left.     *)
(* The database is a file, or memory in a run in which the file could not   *)
(* be opened.                                                               *)
(*                                                                         *)
(* Events of replays and WebSockets carry no request: they take room in the *)
(* channel and are not stored.                                              *)
(***************************************************************************)
EXTENDS Naturals, Sequences, FiniteSets, SequencesExt, Ordering

CONSTANTS
    Requests,       \* request ids (fresh UUIDs: one run of the program each)
    NoRequest,      \* an event without a request
    RequestOrder,   \* the order of the ids as strings
    Times,          \* timestamps in milliseconds; the clock may be set back
    Capacity,       \* of the channel, 8192
    MaxEvents,      \* bound: events sent in one run of the program
    MaxRestarts     \* bound: restarts

ASSUME TimelineAssumption ==
    /\ NoRequest \notin Requests
    /\ RequestOrder \in [Requests -> Nat]
    /\ \A q, r \in Requests : RequestOrder[q] = RequestOrder[r] => q = r
    /\ Times \subseteq Nat \ {0}
    /\ Capacity \in Nat \ {0}
    /\ MaxEvents \in Nat
    /\ MaxRestarts \in Nat

VARIABLES
    sent,       \* the events of this run, in the order they were sent
    stamp,      \* per request, its timestamp, once it was announced
    next,       \* the position the forwarder receives next
    appending,  \* the positions being appended
    stored,     \* the positions appended in this run
    db,         \* the open database: its two tables
    memory,     \* the open database is not the file
    disk,       \* the file, while memory is TRUE
    count,      \* event_count
    restarts

vars == <<sent, stamp, next, appending, stored, db, memory, disk, count, restarts>>

\* A table maps keys to values: a set of entries with one entry per key.
NoRows == [events |-> {}, byTime |-> {}]

Init ==
    /\ sent = <<>>
    /\ stamp = [r \in Requests |-> 0]
    /\ next = 1
    /\ appending = {}
    /\ stored = {}
    /\ db = NoRows
    /\ memory = FALSE
    /\ disk = NoRows
    /\ count = 0
    /\ restarts = 0
-----------------------------------------------------------------------------
(* The channel. *)

\* A request is announced, once or more (paused, forwarded), and then or in
\* between its exchange, once (AnsweredOnce of ProxyExchange).  Every event
\* has the timestamp `at' of its own; all events of a request have its first
\* timestamp in them.
Send(r, done, at) ==
    /\ Len(sent) < MaxEvents
    /\ \A i \in DOMAIN sent : done => ~(sent[i].req = r /\ sent[i].done)
    /\ stamp[r] = 0 \/ \E i \in DOMAIN sent : sent[i].req = r
    /\ stamp' = [stamp EXCEPT ![r] = IF @ = 0 THEN at ELSE @]
    /\ sent' = Append(sent, [req |-> r, done |-> done, at |-> at])
    /\ UNCHANGED <<next, appending, stored, db, memory, disk, count, restarts>>

\* The event of a replay.
SendReplay(at) ==
    /\ Len(sent) < MaxEvents
    /\ sent' = Append(sent, [req |-> NoRequest, done |-> TRUE, at |-> at])
    /\ UNCHANGED <<stamp, next, appending, stored, db, memory, disk, count, restarts>>

\* The oldest event the channel still has.
Oldest == IF Len(sent) > Capacity THEN Len(sent) - Capacity + 1 ELSE 1

\* For the mutant of Lag: the error ends the forwarder's loop.
LagEnding ==
    /\ appending = {}
    /\ next < Oldest
    /\ UNCHANGED vars

\* recv() after an overrun: the missed events are skipped.
Lag ==
    /\ appending = {}
    /\ next < Oldest
    /\ next' = Oldest
    /\ UNCHANGED <<sent, stamp, appending, stored, db, memory, disk, count, restarts>>

\* For the mutant of Receive: the append is spawned, not awaited.
ReceiveUnawaited ==
    /\ next \in Oldest..Len(sent)
    /\ next' = next + 1
    /\ appending' = IF sent[next].req = NoRequest THEN appending ELSE appending \union {next}
    /\ UNCHANGED <<sent, stamp, stored, db, memory, disk, count, restarts>>

\* The event goes to the frontend, and to append() if it has a request.
Receive ==
    /\ appending = {}
    /\ next \in Oldest..Len(sent)
    /\ next' = next + 1
    /\ appending' = IF sent[next].req = NoRequest THEN {} ELSE {next}
    /\ UNCHANGED <<sent, stamp, stored, db, memory, disk, count, restarts>>
-----------------------------------------------------------------------------
(* append(). *)

TimeKey(i) == <<stamp[sent[i].req], sent[i].req>>

Insert(table, key, value) ==
    {e \in table : e.key # key} \union {[key |-> key, value |-> value]}

\* The status of the row is 0 unless the event has the response.
Row(i) == [req |-> sent[i].req, done |-> sent[i].done]

Commit(i) ==
    /\ db' = [events |-> Insert(db.events, sent[i].req, Row(i)),
              byTime |-> Insert(db.byTime, TimeKey(i), Row(i))]
    /\ appending' = appending \ {i}
    /\ stored' = stored \union {i}
    /\ count' = count + 1
    /\ UNCHANGED <<sent, stamp, next, memory, disk, restarts>>

\* The transaction is not committed; the forwarder ignores the error.
AppendFails(i) ==
    /\ appending' = appending \ {i}
    /\ UNCHANGED <<sent, stamp, next, stored, db, memory, disk, count, restarts>>
-----------------------------------------------------------------------------
\* The process ends, at any point, and starts again: the file is opened, or,
\* if that fails, an empty database in memory that ends with the run.
Restart ==
    /\ restarts < MaxRestarts
    /\ restarts' = restarts + 1
    /\ LET file == IF memory THEN disk ELSE db IN
         \/ db' = file /\ disk' = NoRows /\ memory' = FALSE
         \/ db' = NoRows /\ disk' = file /\ memory' = TRUE
    /\ sent' = <<>>
    /\ next' = 1
    /\ appending' = {}
    /\ stored' = {}
    /\ count' = 0
    /\ UNCHANGED stamp

Forward == Lag \/ Receive \/ \E i \in appending : Commit(i) \/ AppendFails(i)

Next ==
    \/ \E r \in Requests, done \in BOOLEAN, at \in Times : Send(r, done, at)
    \/ \E at \in Times : SendReplay(at)
    \/ Forward
    \/ Restart

\* The runtime runs the forwarder's task and the blocking pool its appends.
Fairness == WF_vars(Forward)

Spec == Init /\ [][Next]_vars /\ Fairness
-----------------------------------------------------------------------------
(* recent(). *)

\* T_BY_TIME in the order of its keys, newest first.
Newer(d, e) ==
    \/ d.key[1] > e.key[1]
    \/ d.key[1] = e.key[1] /\ RequestOrder[d.key[2]] > RequestOrder[e.key[2]]

Recent(limit) ==
    LET all == Listed(db.byTime, {p \in db.byTime \X db.byTime : Newer(p[1], p[2])}) IN
    [i \in 1..(IF Len(all) < limit THEN Len(all) ELSE limit) |-> all[i].value]
-----------------------------------------------------------------------------
Rows == [req : Requests, done : BOOLEAN]
Tables == [events : SUBSET [key : Requests, value : Rows],
           byTime : SUBSET [key : Times \X Requests, value : Rows]]

\* The types of the variables.
TypeOK ==
    /\ sent \in Seq([req : Requests \union {NoRequest}, done : BOOLEAN, at : Times])
    /\ stamp \in [Requests -> Times \union {0}]
    /\ next \in Nat \ {0}
    /\ appending \subseteq DOMAIN sent
    /\ stored \subseteq DOMAIN sent
    /\ db \in Tables
    /\ memory \in BOOLEAN
    /\ disk \in Tables
    /\ count \in 0..MaxEvents
    /\ restarts \in 0..MaxRestarts

\* The two tables tell the same story, across failed appends, restarts and runs
\* in memory: whatever the limit, recent() shows no request twice, and with
\* room for all shows just what export_jsonl writes.
RecentAgreesWithExport ==
    LET exported == {e.value : e \in db.events}
        all == Recent(Cardinality(db.byTime))
    IN  /\ Range(all) = exported
        /\ \A i, j \in DOMAIN all : all[i].req = all[j].req => i = j

\* A row shows the last event of its request that was appended: a slow append
\* never puts an older event over a newer one.
RowShowsLastAppended ==
    \A i \in stored :
        (\A j \in stored : sent[j].req = sent[i].req => j <= i) =>
            [key |-> sent[i].req, value |-> Row(i)] \in db.events

\* What the panels are given of the timeline is what was appended last.
TimelineIsCurrent == RecentAgreesWithExport /\ RowShowsLastAppended

\* Lagging, failing appends or not, the forwarder always catches up with the
\* events of its run.
ForwarderCatchesUp == (next <= Len(sent)) ~> (next > Len(sent) /\ appending = {})
=============================================================================
