--------------------------- MODULE ProxyExchange ---------------------------
(***************************************************************************)
(* The proxy's HTTP handler (src-tauri/src/mitm_proxy.rs): handle_request  *)
(* and handle_response running concurrently for many exchanges over shared *)
(* state: the static map PENDING of request queues per host, the history   *)
(* ring, the statistics and the broadcast of events; with clear_history    *)
(* and replay_request called from the user interface.                      *)
(*                                                                         *)
(* Each step runs from one await on shared state to the next.  A response  *)
(* carries no link to its request: handle_response finds one by taking a   *)
(* request from PENDING.  hudsucker, which calls the two handlers and talks *)
(* to client and upstream, is external: it calls handle_response for an    *)
(* upstream's answer only, never after an upstream error, for a CONNECT    *)
(* tunnel or a protocol upgrade, and drops a handler whose client left.    *)
(*                                                                         *)
(* Rule evaluation is RulesEngine's; here any action a rule list can yield *)
(* is chosen.  The Pause arm is PauseResume's; here a held exchange is     *)
(* released.  Bodies and headers are left out.                             *)
(***************************************************************************)
EXTENDS Integers, Sequences, FiniteSets

CONSTANTS
    Requests,           \* requests, by the uuid their handler draws
    Hosts,              \* upstream hosts
    HostOf,             \* the host of each request
    RequestActions,     \* what evaluate_request may return
    ResponseActions,    \* what evaluate_response may return
    Losses,             \* whether exchanges may end without handle_response
    None,               \* no response, no pairing
    Local,              \* a response the proxy made up itself
    HistoryCap,         \* HISTORY_CAP
    MaxInFlight,        \* bound: exchanges in progress at one time
    MaxClears           \* bound: calls of clear_history

AllActions ==
    {"none", "pass", "script", "block", "redirect", "mock", "modify", "pause"}

ASSUME ExchangeAssumption ==
    /\ IsFiniteSet(Requests)
    /\ HostOf \in [Requests -> Hosts]
    /\ RequestActions \subseteq AllActions
    /\ ResponseActions \subseteq AllActions
    /\ Losses \in BOOLEAN
    /\ None \notin Requests
    /\ Local \notin Requests
    /\ Local # None
    /\ HistoryCap \in Nat \ {0}
    /\ MaxInFlight \in Nat
    /\ MaxClears \in Nat

VARIABLES
    pc,         \* where the handlers of each exchange are
    pending,    \* PENDING: per host, the queue of unanswered requests
    paired,     \* the request handle_response took for each exchange's answer
    history,    \* the ring of [req, resp] entries
    published,  \* per request id, its events on the broadcast channel in order
    stats,      \* ProxyStats
    clears,     \* calls of clear_history so far; the last one is between its
    resetting,  \*   two halves while resetting is TRUE
    replays     \* the requests replay_request sent again

vars == <<pc, pending, paired, history, published, stats, clears, resetting, replays>>

NoStats == [requests |-> 0, responses |-> 0, blocked |-> 0,
            modifiedRequests |-> 0, modifiedResponses |-> 0]

Init ==
    /\ pc = [r \in Requests |-> "new"]
    /\ pending = [h \in Hosts |-> <<>>]
    /\ paired = [r \in Requests |-> None]
    /\ history = <<>>
    /\ published = [r \in Requests |-> <<>>]
    /\ stats = NoStats
    /\ clears = 0
    /\ resetting = FALSE
    /\ replays = {}
-----------------------------------------------------------------------------
\* Where the handler of an exchange, or hudsucker between the two, may be: up
\* to the push on PENDING, from there to the pop, and after it.
BeforePush == {"new", "rules", "blocking", "answering", "answered", "modifying",
               "pausing", "held", "forward"}
Sent == {"announcing", "recording", "upstream", "response", "pairing"}
AfterPop == {"judging", "refusing", "rewriting", "emitting", "closing"}
Ended == {"new", "done", "lost"}

\* emit() never suspends: a handler is not dropped between these and the next
\* step.  Everywhere else it awaits a lock, the rules or the network.
NotSuspended == {"answered", "announcing", "emitting"}

Goto(r, from, to) ==
    /\ pc[r] = from
    /\ pc' = [pc EXCEPT ![r] = to]

\* bump(): one counter under the write lock of stats.
Bump(field) == stats' = [stats EXCEPT ![field] = @ + 1]

\* push_history: the oldest entry makes room.
PushHistory(req, resp) ==
    history' = Append(IF Len(history) >= HistoryCap THEN Tail(history) ELSE history,
                      [req |-> req, resp |-> resp])

\* emit(): an event about request req, with the response it shows.
Emit(req, resp) == published' = [published EXCEPT ![req] = Append(@, resp)]
-----------------------------------------------------------------------------
(* handle_request. *)

\* For the mutant of Receive: the request is not counted.
ReceiveUncounted(r) ==
    /\ Goto(r, "new", "rules")
    /\ Cardinality({q \in Requests : pc[q] \notin Ended}) < MaxInFlight
    /\ UNCHANGED <<pending, paired, history, published, stats, clears, resetting, replays>>

\* A request arrives: its event is built and counted.
Receive(r) ==
    /\ Goto(r, "new", "rules")
    /\ Cardinality({q \in Requests : pc[q] \notin Ended}) < MaxInFlight
    /\ Bump("requests")
    /\ UNCHANGED <<pending, paired, history, published, clears, resetting, replays>>

\* evaluate_request picks the arm.  Script is treated as Pass.
Evaluate(r) ==
    /\ \E a \in RequestActions :
         Goto(r, "rules", CASE a \in {"none", "pass", "script"} -> "forward"
                            [] a = "block" -> "blocking"
                            [] a \in {"redirect", "mock"} -> "answering"
                            [] a = "modify" -> "modifying"
                            [] a = "pause" -> "pausing")
    /\ UNCHANGED <<pending, paired, history, published, stats, clears, resetting, replays>>

CountBlocked(r) ==
    /\ Goto(r, "blocking", "answering")
    /\ Bump("blocked")
    /\ UNCHANGED <<pending, paired, history, published, clears, resetting, replays>>

\* Block, Redirect, Mock: the exchange is recorded whole, then announced, and
\* the proxy's own response goes back; PENDING is not touched.
RecordAnswer(r) ==
    /\ Goto(r, "answering", "answered")
    /\ PushHistory(r, Local)
    /\ UNCHANGED <<pending, paired, published, stats, clears, resetting, replays>>

EmitAnswer(r) ==
    /\ Goto(r, "answered", "done")
    /\ Emit(r, Local)
    /\ UNCHANGED <<pending, paired, history, stats, clears, resetting, replays>>

CountModified(r) ==
    /\ Goto(r, "modifying", "forward")
    /\ Bump("modifiedRequests")
    /\ UNCHANGED <<pending, paired, history, published, clears, resetting, replays>>

\* The paused event, then the wait that PauseResume models.
EmitPaused(r) ==
    /\ Goto(r, "pausing", "held")
    /\ Emit(r, None)
    /\ UNCHANGED <<pending, paired, history, stats, clears, resetting, replays>>

ReleaseHeld(r) ==
    /\ Goto(r, "held", "forward")
    /\ UNCHANGED <<pending, paired, history, published, stats, clears, resetting, replays>>

\* "Track for response pairing": before the request is announced or sent.
PushPending(r) ==
    /\ Goto(r, "forward", "announcing")
    /\ pending' = [pending EXCEPT ![HostOf[r]] = Append(@, r)]
    /\ UNCHANGED <<paired, history, published, stats, clears, resetting, replays>>

EmitRequest(r) ==
    /\ Goto(r, "announcing", "recording")
    /\ Emit(r, None)
    /\ UNCHANGED <<pending, paired, history, stats, clears, resetting, replays>>

RecordRequest(r) ==
    /\ Goto(r, "recording", "upstream")
    /\ PushHistory(r, None)
    /\ UNCHANGED <<pending, paired, published, stats, clears, resetting, replays>>
-----------------------------------------------------------------------------
(* Upstream and client (external). *)

UpstreamAnswers(r) ==
    /\ Goto(r, "upstream", "response")
    /\ UNCHANGED <<pending, paired, history, published, stats, clears, resetting, replays>>

\* Upstream error, CONNECT tunnel or upgrade; or the client left while the
\* handler was suspended: the exchange ends, whatever it left in PENDING stays.
Lose(r) ==
    /\ Losses
    /\ pc[r] \notin Ended \union NotSuspended
    /\ pc' = [pc EXCEPT ![r] = "lost"]
    /\ UNCHANGED <<pending, paired, history, published, stats, clears, resetting, replays>>
-----------------------------------------------------------------------------
(* handle_response. *)

CountResponse(r) ==
    /\ Goto(r, "response", "pairing")
    /\ Bump("responses")
    /\ UNCHANGED <<pending, paired, history, published, clears, resetting, replays>>

\* For the mutant of Pair: the request is looked at but not removed.
PairWithoutPop(r) ==
    /\ Goto(r, "pairing", "judging")
    /\ \E h \in Hosts :
         /\ pending[h] # <<>>
         /\ paired' = [paired EXCEPT ![r] = Head(pending[h])]
    /\ UNCHANGED <<pending, history, published, stats, clears, resetting, replays>>

\* For the mutant of Pair: every queue is popped, one request is kept.
PairDraining(r) ==
    /\ Goto(r, "pairing", "judging")
    /\ \E h \in Hosts :
         /\ pending[h] # <<>>
         /\ paired' = [paired EXCEPT ![r] = Head(pending[h])]
    /\ pending' = [h \in Hosts |-> IF pending[h] = <<>> THEN <<>> ELSE Tail(pending[h])]
    /\ UNCHANGED <<history, published, stats, clears, resetting, replays>>

\* The front of some non-empty queue: values_mut().find_map over a HashMap
\* visits the hosts in no particular order.  With every queue empty the code
\* would pass the response on unrecorded; ResponseFindsARequest shows that
\* this never happens, and it has no action.
Pair(r) ==
    /\ Goto(r, "pairing", "judging")
    /\ \E h \in Hosts :
         /\ pending[h] # <<>>
         /\ paired' = [paired EXCEPT ![r] = Head(pending[h])]
         /\ pending' = [pending EXCEPT ![h] = Tail(@)]
    /\ UNCHANGED <<history, published, stats, clears, resetting, replays>>

\* evaluate_response: only Block and Modify have an arm.
Judge(r) ==
    /\ \E a \in ResponseActions :
         Goto(r, "judging", CASE a = "block" -> "refusing"
                              [] a = "modify" -> "rewriting"
                              [] OTHER -> "emitting")
    /\ UNCHANGED <<pending, paired, history, published, stats, clears, resetting, replays>>

\* Block counts as a modified response, and is recorded but not announced.
CountRefused(r) ==
    /\ Goto(r, "refusing", "closing")
    /\ Bump("modifiedResponses")
    /\ UNCHANGED <<pending, paired, history, published, clears, resetting, replays>>

CountRewritten(r) ==
    /\ Goto(r, "rewriting", "emitting")
    /\ Bump("modifiedResponses")
    /\ UNCHANGED <<pending, paired, history, published, clears, resetting, replays>>

EmitExchange(r) ==
    /\ Goto(r, "emitting", "closing")
    /\ Emit(paired[r], r)
    /\ UNCHANGED <<pending, paired, history, stats, clears, resetting, replays>>

RecordExchange(r) ==
    /\ Goto(r, "closing", "done")
    /\ PushHistory(paired[r], r)
    /\ UNCHANGED <<pending, paired, published, stats, clears, resetting, replays>>
-----------------------------------------------------------------------------
(* clear_history: the ring first, then the counters. *)

ClearHistory ==
    /\ ~resetting
    /\ clears < MaxClears
    /\ history' = <<>>
    /\ clears' = clears + 1
    /\ resetting' = TRUE
    /\ UNCHANGED <<pc, pending, paired, published, stats, replays>>

ResetStats ==
    /\ resetting
    /\ stats' = NoStats
    /\ resetting' = FALSE
    /\ UNCHANGED <<pc, pending, paired, history, published, clears, replays>>

\* replay_request: any request still in the ring is sent again; the response
\* is returned and broadcast without a request, so it has no place in
\* published, and the ring is left alone.
Replay(r) ==
    /\ \E i \in DOMAIN history : history[i].req = r
    /\ replays' = replays \union {r}
    /\ UNCHANGED <<pc, pending, paired, history, published, stats, clears, resetting>>
-----------------------------------------------------------------------------
HandleRequest(r) ==
    \/ Receive(r) \/ Evaluate(r)
    \/ CountBlocked(r) \/ RecordAnswer(r) \/ EmitAnswer(r)
    \/ CountModified(r) \/ EmitPaused(r) \/ ReleaseHeld(r)
    \/ PushPending(r) \/ EmitRequest(r) \/ RecordRequest(r)

HandleResponse(r) ==
    \/ CountResponse(r) \/ Pair(r) \/ Judge(r)
    \/ CountRefused(r) \/ CountRewritten(r)
    \/ EmitExchange(r) \/ RecordExchange(r)

Next ==
    \/ \E r \in Requests : HandleRequest(r) \/ HandleResponse(r)
    \/ \E r \in Requests : UpstreamAnswers(r) \/ Lose(r)
    \/ ClearHistory
    \/ ResetStats
    \/ \E r \in Requests : Replay(r)

Spec == Init /\ [][Next]_vars
-----------------------------------------------------------------------------
TypeOK ==
    /\ pc \in [Requests -> BeforePush \union Sent \union AfterPop \union {"done", "lost"}]
    /\ pending \in [Hosts -> Seq(Requests)]
    /\ paired \in [Requests -> Requests \union {None}]
    /\ history \in Seq([req : Requests, resp : Requests \union {None, Local}])
    /\ Len(history) <= HistoryCap
    /\ published \in [Requests -> Seq(Requests \union {None, Local})]
    /\ stats \in [DOMAIN NoStats -> Nat]
    /\ clears \in 0..MaxClears
    /\ resetting \in BOOLEAN
    /\ replays \subseteq Requests

Queued(q) == \E i \in DOMAIN pending[HostOf[q]] : pending[HostOf[q]][i] = q
Taken(q) == \E r \in Requests : paired[r] = q

\* However the handlers interleave, a request is given to at most one response,
\* and one given away is in no queue any more.
PairedOnce ==
    /\ \A r, s \in Requests : paired[r] # None /\ paired[r] = paired[s] => r = s
    /\ \A q \in Requests : ~(Queued(q) /\ Taken(q))

\* The queues hold each request at most once, and under its own host.
QueuesByHost ==
    \A h \in Hosts : \A i, j \in DOMAIN pending[h] :
        /\ HostOf[pending[h][i]] = h
        /\ pending[h][i] = pending[h][j] => i = j

\* A request that was pushed is not forgotten: it waits in its host's queue
\* until some response takes it, also when responses overtake each other.
NoRequestForgotten ==
    \A r \in Requests :
        pc[r] \in Sent \union AfterPop \/ paired[r] # None => Queued(r) \/ Taken(r)

\* A response always finds a request to pair with (784-788 never yields None
\* for an upstream's answer): a queue is never emptied by the others first.
ResponseFindsARequest ==
    \A r \in Requests : pc[r] = "pairing" => \E h \in Hosts : pending[h] # <<>>

\* The responses announced for a request number at most one, the proxy's own
\* included, and a request the proxy answered itself is never sent upstream.
AnsweredOnce ==
    \A q \in Requests : \A i, j \in DOMAIN published[q] :
        published[q][i] # None /\ published[q][j] # None => i = j

\* When every exchange ran to its end nothing is left in PENDING.
IdleMeansDrained ==
    (\A r \in Requests : pc[r] \in {"new", "done"}) => \A h \in Hosts : pending[h] = <<>>

\* The counters agree with each other, as long as none was reset: a response
\* or an intervention counted is one of a request counted.
CountersAgree ==
    clears = 0 =>
        /\ stats.responses <= stats.requests
        /\ stats.blocked + stats.modifiedRequests <= stats.requests
        /\ stats.modifiedResponses <= stats.responses

\* NOT what the code does: "FIFO of pending requests per upstream host, so
\* responses pair up" (mitm_proxy.rs:522).
PairedWithinHost ==
    \A r \in Requests : paired[r] # None => HostOf[paired[r]] = HostOf[r]
=============================================================================
