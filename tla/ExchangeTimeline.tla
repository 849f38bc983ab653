-------------------------- MODULE ExchangeTimeline --------------------------
(***************************************************************************)
(* The proxy's handlers together with the timeline they feed: what emit()  *)
(* publishes goes out on the broadcast channel whose forwarder appends it   *)
(* to the database (src-tauri/src/mitm_proxy.rs, setup.rs, timeline.rs).    *)
(*                                                                         *)
(* Timeline alone lets events come in any order that it can cope with; here *)
(* they are those of ProxyExchange.  A restart ends the handlers and the    *)
(* forwarder at once: queues, ring, counters and channel are in memory, the *)
(* database is a file.                                                      *)
(***************************************************************************)
EXTENDS ProxyExchange

CONSTANTS
    NoRequest,      \* the event of a replay
    RequestOrder,   \* the order of the ids as strings
    Times,          \* timestamps in milliseconds
    Capacity,       \* of the channel
    MaxEvents,      \* bound: events sent in one run of the program
    MaxRestarts     \* bound: restarts

VARIABLES
    sent, stamp, next, appending, stored, db, memory, disk, count, restarts,
    gaps        \* history: in this run an event was skipped or not stored

Log == INSTANCE Timeline

ASSUME FeedAssumption ==
    /\ NoRequest \notin Requests
    /\ RequestOrder \in [Requests -> Nat]
    /\ \A q, r \in Requests : RequestOrder[q] = RequestOrder[r] => q = r
    /\ Times \subseteq Nat \ {0}
    /\ Capacity \in Nat \ {0}
    /\ MaxEvents \in Nat
    /\ MaxRestarts \in Nat

logVars == <<sent, stamp, next, appending, stored, db, memory, disk, count, restarts>>
feedVars == <<vars, logVars, gaps>>

FeedInit == Init /\ Log!Init /\ gaps = FALSE
-----------------------------------------------------------------------------
\* emit(): send() on the channel never waits and does not look at what was sent
\* before.
Broadcast(req, done) ==
    /\ Len(sent) < MaxEvents
    /\ \E at \in Times :
         /\ sent' = Append(sent, [req |-> req, done |-> done, at |-> at])
         /\ stamp' = IF req = NoRequest THEN stamp
                     ELSE [stamp EXCEPT ![req] = IF @ = 0 THEN at ELSE @]
    /\ UNCHANGED <<next, appending, stored, db, memory, disk, count, restarts, gaps>>

\* The steps of the handlers that emit, with the event that goes out.
Emission ==
    \E r \in Requests :
        \/ (EmitPaused(r) \/ EmitRequest(r)) /\ Broadcast(r, FALSE)
        \/ EmitAnswer(r) /\ Broadcast(r, TRUE)
        \/ EmitExchange(r) /\ Broadcast(paired[r], TRUE)
        \/ Replay(r) /\ Broadcast(NoRequest, TRUE)

\* The others.
Silence ==
    /\ \/ \E r \in Requests :
            \/ Receive(r) \/ Evaluate(r) \/ CountBlocked(r) \/ RecordAnswer(r)
            \/ CountModified(r) \/ ReleaseHeld(r) \/ PushPending(r) \/ RecordRequest(r)
            \/ CountResponse(r) \/ Pair(r) \/ Judge(r) \/ CountRefused(r)
            \/ CountRewritten(r) \/ RecordExchange(r)
            \/ UpstreamAnswers(r) \/ Lose(r)
       \/ ClearHistory
       \/ ResetStats
    /\ UNCHANGED <<logVars, gaps>>

Storing ==
    /\ \/ (Log!Receive \/ \E i \in appending : Log!Commit(i)) /\ UNCHANGED gaps
       \/ (Log!Lag \/ \E i \in appending : Log!AppendFails(i)) /\ gaps' = TRUE
    /\ UNCHANGED vars

\* The program ends and starts again.
ProgramRestart ==
    /\ Log!Restart
    /\ pc' = [r \in Requests |-> IF pc[r] = "new" THEN "new" ELSE "lost"]
    /\ pending' = [h \in Hosts |-> <<>>]
    /\ paired' = [r \in Requests |-> None]
    /\ history' = <<>>
    /\ published' = [r \in Requests |-> <<>>]
    /\ stats' = NoStats
    /\ clears' = 0
    /\ resetting' = FALSE
    /\ replays' = {}
    /\ gaps' = FALSE

FeedNext == Emission \/ Silence \/ Storing \/ ProgramRestart

FeedSpec == FeedInit /\ [][FeedNext]_feedVars
-----------------------------------------------------------------------------
\* The handlers send what the timeline expects: no second exchange of a request
\* is announced, and no event of a request of an earlier run, however responses
\* are paired and wherever the program restarts (mitm_proxy.rs, 784-842).
TimelineIsFed == Log!Init /\ [][Log!Next]_logVars

\* Once the forwarder has caught up, and unless it lagged or an append failed,
\* the row of every request announced in this run shows what the handlers
\* announced last: answered or not (setup.rs, 27-57; timeline.rs, append).
RowsAreAnnounced ==
    ~gaps /\ next > Len(sent) /\ appending = {} =>
        \A q \in Requests : published[q] # <<>> =>
            [key |-> q,
             value |-> [req |-> q, done |-> published[q][Len(published[q])] # None]]
                \in db.events
=============================================================================
