------------------------ MODULE ProxyExchangeProofs ------------------------
(***************************************************************************)
(* Proofs about ProxyExchange for any number of exchanges and hosts, any   *)
(* actions the rules may yield, and any losses: no request is given to two *)
(* responses or forgotten, a response always finds one, a request is       *)
(* answered at most once on the event channel, and nothing is left over    *)
(* when every exchange has run to its end.  And about ExchangeTimeline, for *)
(* any clock, channel and number of restarts: the handlers feed the         *)
(* timeline what it expects, and its rows show what they announced.         *)
(***************************************************************************)
EXTENDS ExchangeTimeline, OrderingProofs, FiniteSetTheorems, TLAPS

\* Before handle_response pops a request, it has none.
UnpairedBefore ==
    \A r \in Requests : pc[r] \in BeforePush \union Sent => paired[r] = None

\* Before handle_request pushes its request, PENDING never held it.
UnknownBefore ==
    \A r \in Requests : pc[r] \in BeforePush => ~Queued(r) /\ ~Taken(r)

\* What an event with a response tells: the proxy's own answer closed an
\* exchange PENDING never held; another is the one its exchange was paired with.
AnswerTells ==
    \A q \in Requests : \A i \in DOMAIN published[q] :
        /\ published[q][i] = Local => pc[q] = "done" /\ ~Queued(q) /\ ~Taken(q)
        /\ \A r \in Requests :
             published[q][i] = r =>
                 paired[r] = q /\ pc[r] \in {"closing", "done", "lost"}

\* A request that was pushed belongs to an exchange that is over only if
\* that exchange's response took some request, or it was lost.
DoneMeansPaired ==
    \A r \in Requests :
        pc[r] = "done" /\ (Queued(r) \/ Taken(r)) => paired[r] # None

AfterPopPaired ==
    \A r \in Requests : pc[r] \in AfterPop => paired[r] # None

IInv ==
    /\ TypeOK
    /\ UnpairedBefore
    /\ UnknownBefore
    /\ AfterPopPaired
    /\ QueuesByHost
    /\ PairedOnce
    /\ NoRequestForgotten
    /\ DoneMeansPaired
    /\ AnsweredOnce
    /\ AnswerTells

\* The steps that touch neither PENDING nor the pairing.
QuietRequest(r) ==
    \/ Receive(r) \/ Evaluate(r)
    \/ CountBlocked(r) \/ RecordAnswer(r) \/ EmitAnswer(r)
    \/ CountModified(r) \/ EmitPaused(r) \/ ReleaseHeld(r)
    \/ EmitRequest(r) \/ RecordRequest(r)

QuietResponse(r) ==
    \/ CountResponse(r) \/ Judge(r) \/ CountRefused(r) \/ CountRewritten(r)
    \/ EmitExchange(r) \/ RecordExchange(r)
    \/ UpstreamAnswers(r) \/ Lose(r)

Elsewhere == ClearHistory \/ ResetStats \/ \E r \in Requests : Replay(r)

Quiet == Elsewhere \/ \E r \in Requests : QuietRequest(r) \/ QuietResponse(r)

LEMMA NextIsQuietPushOrPop ==
    Next <=> \/ Quiet
             \/ \E r \in Requests : PushPending(r) \/ Pair(r)
BY DEF Next, HandleRequest, HandleResponse, Quiet, Elsewhere, QuietRequest, QuietResponse
-----------------------------------------------------------------------------
(* Types. *)

LEMMA HistoryType ==
    ASSUME TypeOK, NEW req \in Requests, NEW resp \in Requests \union {None, Local},
           PushHistory(req, resp)
    PROVE  /\ history' \in Seq([req : Requests, resp : Requests \union {None, Local}])
           /\ Len(history') <= HistoryCap
<1> DEFINE E == [req : Requests, resp : Requests \union {None, Local}]
           kept == IF Len(history) >= HistoryCap THEN Tail(history) ELSE history
           e == [req |-> req, resp |-> resp]
<1>1. history \in Seq(E) /\ e \in E /\ Len(history) <= HistoryCap /\ HistoryCap \in Nat \ {0}
  BY ExchangeAssumption DEF TypeOK
<1> HIDE DEF E, e
<1>2. kept \in Seq(E) /\ Len(kept) < HistoryCap
  <2>1. CASE Len(history) >= HistoryCap
    <3>1. history # <<>>
      BY <1>1, <2>1
    <3> QED BY <1>1, <2>1, <3>1
  <2>2. CASE ~(Len(history) >= HistoryCap)
    BY <1>1, <2>2
  <2> QED BY <2>1, <2>2
<1>3. history' = Append(kept, e)
  BY DEF PushHistory, e
<1> HIDE DEF kept
<1>4. history' \in Seq(E) /\ Len(history') <= HistoryCap
  BY <1>1, <1>2, <1>3
<1> QED BY <1>4 DEF E

LEMMA PublishedType ==
    ASSUME TypeOK, NEW q \in Requests, NEW resp \in Requests \union {None, Local},
           Emit(q, resp)
    PROVE  published' \in [Requests -> Seq(Requests \union {None, Local})]
BY DEF TypeOK, Emit

LEMMA StatsType ==
    ASSUME TypeOK, NEW field \in DOMAIN NoStats, Bump(field)
    PROVE  stats' \in [DOMAIN NoStats -> Nat]
BY DEF TypeOK, Bump

\* Where a handler may be, in one set.
Places == BeforePush \union Sent \union AfterPop \union {"done", "lost"}

LEMMA GotoType ==
    ASSUME TypeOK, NEW r \in Requests, NEW from, NEW to \in Places, Goto(r, from, to)
    PROVE  pc' \in [Requests -> Places]
BY DEF TypeOK, Goto, Places

LEMMA TypeStep ==
    ASSUME TypeOK, AfterPopPaired, Next
    PROVE  TypeOK'
<1> USE DEF Places, BeforePush, Sent, AfterPop
<1>1. ASSUME NEW r \in Requests, QuietRequest(r) PROVE TypeOK'
  <2>1. CASE Receive(r)
    BY <2>1, GotoType, StatsType DEF TypeOK, Receive, NoStats
  <2>2. CASE Evaluate(r)
    BY <2>2, ExchangeAssumption DEF TypeOK, Evaluate, Goto, AllActions
  <2>3. CASE CountBlocked(r) \/ CountModified(r)
    BY <2>3, GotoType, StatsType DEF TypeOK, CountBlocked, CountModified, NoStats
  <2>4. CASE RecordAnswer(r) \/ RecordRequest(r)
    BY <2>4, GotoType, HistoryType DEF TypeOK, RecordAnswer, RecordRequest
  <2>5. CASE EmitAnswer(r) \/ EmitPaused(r) \/ EmitRequest(r)
    BY <2>5, GotoType, PublishedType DEF TypeOK, EmitAnswer, EmitPaused, EmitRequest
  <2>6. CASE ReleaseHeld(r)
    BY <2>6, GotoType DEF TypeOK, ReleaseHeld
  <2> QED BY <1>1, <2>1, <2>2, <2>3, <2>4, <2>5, <2>6 DEF QuietRequest
<1>2. ASSUME NEW r \in Requests, QuietResponse(r) PROVE TypeOK'
  <2>1. CASE CountResponse(r) \/ CountRefused(r) \/ CountRewritten(r)
    BY <2>1, GotoType, StatsType
       DEF TypeOK, CountResponse, CountRefused, CountRewritten, NoStats
  <2>2. CASE Judge(r)
    BY <2>2 DEF TypeOK, Judge, Goto
  <2>3. CASE EmitExchange(r)
    <3>1. paired[r] \in Requests
      BY <2>3 DEF EmitExchange, Goto, AfterPopPaired, TypeOK
    <3> QED BY <2>3, <3>1, GotoType, PublishedType DEF TypeOK, EmitExchange
  <2>4. CASE RecordExchange(r)
    <3>1. paired[r] \in Requests
      BY <2>4 DEF RecordExchange, Goto, AfterPopPaired, TypeOK
    <3> QED BY <2>4, <3>1, GotoType, HistoryType DEF TypeOK, RecordExchange
  <2>5. CASE UpstreamAnswers(r) \/ Lose(r)
    BY <2>5, GotoType DEF TypeOK, UpstreamAnswers, Lose
  <2> QED BY <1>2, <2>1, <2>2, <2>3, <2>4, <2>5 DEF QuietResponse
<1>3. CASE Elsewhere
  <2>1. CASE ClearHistory
    BY <2>1, ExchangeAssumption DEF TypeOK, ClearHistory
  <2>2. CASE ResetStats
    <3>1. NoStats \in [DOMAIN NoStats -> Nat]
      BY DEF NoStats
    <3> QED BY <2>2, <3>1 DEF TypeOK, ResetStats
  <2>3. ASSUME NEW r \in Requests, Replay(r) PROVE TypeOK'
    BY <2>3 DEF TypeOK, Replay
  <2> QED BY <1>3, <2>1, <2>2, <2>3 DEF Elsewhere
<1>4. ASSUME NEW r \in Requests, PushPending(r) PROVE TypeOK'
  BY <1>4, GotoType, ExchangeAssumption DEF TypeOK, PushPending
<1>5. ASSUME NEW r \in Requests, Pair(r) PROVE TypeOK'
  BY <1>5, GotoType DEF TypeOK, Pair
<1> QED BY <1>1, <1>2, <1>3, <1>4, <1>5, NextIsQuietPushOrPop DEF Quiet
-----------------------------------------------------------------------------
(* What each kind of step does to the queues and the pairing. *)

\* A quiet step crosses neither the push nor the pop.
LEMMA QuietStep ==
    ASSUME TypeOK, Quiet
    PROVE  /\ pending' = pending /\ paired' = paired
           /\ \A r \in Requests :
                /\ pc'[r] \in BeforePush => pc[r] \in BeforePush
                /\ pc'[r] \in Sent => pc[r] \in Sent
                /\ pc'[r] \in AfterPop => pc[r] \in AfterPop
                /\ pc'[r] = "done" =>
                     pc[r] = "done" \/ pc[r] = "answered" \/ pc[r] = "closing"
                /\ pc[r] = "done" => pc'[r] = "done"
                /\ pc[r] \in {"closing", "done", "lost"} =>
                     pc'[r] \in {"closing", "done", "lost"}
<1> USE DEF TypeOK, BeforePush, Sent, AfterPop, Goto
<1>1. CASE Elsewhere
  BY <1>1 DEF Elsewhere, ClearHistory, ResetStats, Replay
<1>2. ASSUME NEW q \in Requests, QuietRequest(q)
      PROVE  /\ pending' = pending /\ paired' = paired
             /\ \A r \in Requests \ {q} : pc'[r] = pc[r]
             /\ \/ pc[q] \in BeforePush /\ pc'[q] \in BeforePush
                \/ pc[q] = "answered" /\ pc'[q] = "done"
                \/ pc[q] = "announcing" /\ pc'[q] = "recording"
                \/ pc[q] = "recording" /\ pc'[q] = "upstream"
  <2>1. CASE Receive(q) \/ CountBlocked(q) \/ RecordAnswer(q)
             \/ CountModified(q) \/ EmitPaused(q) \/ ReleaseHeld(q)
    BY <2>1 DEF Receive, CountBlocked, RecordAnswer, CountModified, EmitPaused, ReleaseHeld
  <2>2. CASE Evaluate(q)
    BY <2>2, ExchangeAssumption DEF Evaluate, AllActions
  <2>3. CASE EmitAnswer(q) \/ EmitRequest(q) \/ RecordRequest(q)
    BY <2>3 DEF EmitAnswer, EmitRequest, RecordRequest
  <2> QED BY <1>2, <2>1, <2>2, <2>3 DEF QuietRequest
<1>3. ASSUME NEW q \in Requests, QuietResponse(q)
      PROVE  /\ pending' = pending /\ paired' = paired
             /\ \A r \in Requests \ {q} : pc'[r] = pc[r]
             /\ \/ pc[q] = "upstream" /\ pc'[q] = "response"
                \/ pc[q] = "response" /\ pc'[q] = "pairing"
                \/ pc[q] \in AfterPop \ {"closing"} /\ pc'[q] \in AfterPop
                \/ pc[q] = "closing" /\ pc'[q] = "done"
                \/ pc[q] # "done" /\ pc'[q] = "lost"
  <2>1. CASE CountResponse(q) \/ CountRefused(q) \/ CountRewritten(q)
    BY <2>1 DEF CountResponse, CountRefused, CountRewritten
  <2>2. CASE Judge(q)
    BY <2>2 DEF Judge
  <2>3. CASE EmitExchange(q) \/ RecordExchange(q) \/ UpstreamAnswers(q)
    BY <2>3 DEF EmitExchange, RecordExchange, UpstreamAnswers
  <2>4. CASE Lose(q)
    BY <2>4 DEF Lose, Ended
  <2> QED BY <1>3, <2>1, <2>2, <2>3, <2>4 DEF QuietResponse
<1> QED BY <1>1, <1>2, <1>3 DEF Quiet

\* A push puts one request at the end of its host's queue.
LEMMA PushStep ==
    ASSUME TypeOK, NEW r \in Requests, PushPending(r)
    PROVE  /\ paired' = paired
           /\ pc[r] = "forward" /\ pc'[r] = "announcing"
           /\ \A q \in Requests \ {r} : pc'[q] = pc[q]
           /\ \A h \in Hosts : \A i \in DOMAIN pending'[h] :
                \/ i \in DOMAIN pending[h] /\ pending'[h][i] = pending[h][i]
                \/ h = HostOf[r] /\ pending'[h][i] = r
                   /\ i \notin DOMAIN pending[h] /\ i = Len(pending[h]) + 1
           /\ \A q \in Requests : Queued(q)' <=> Queued(q) \/ q = r
           /\ \A q \in Requests : Taken(q)' <=> Taken(q)
<1> DEFINE h0 == HostOf[r]
           old == pending[h0]
<1>1. h0 \in Hosts /\ old \in Seq(Requests)
  BY ExchangeAssumption DEF TypeOK
<1>2. pending' = [pending EXCEPT ![h0] = Append(old, r)]
  BY DEF PushPending
<1>3. /\ DOMAIN Append(old, r) = 1..Len(old)+1
      /\ DOMAIN old = 1..Len(old)
      /\ Len(old) \in Nat
      /\ \A i \in 1..Len(old) : Append(old, r)[i] = old[i]
      /\ Append(old, r)[Len(old)+1] = r
  BY <1>1
<1>4. /\ pending'[h0] = Append(old, r)
      /\ \A h \in Hosts \ {h0} : pending'[h] = pending[h]
  BY <1>1, <1>2 DEF TypeOK
<1>5. \A h \in Hosts : \A i \in DOMAIN pending'[h] :
        \/ i \in DOMAIN pending[h] /\ pending'[h][i] = pending[h][i]
        \/ h = HostOf[r] /\ pending'[h][i] = r
           /\ i \notin DOMAIN pending[h] /\ i = Len(pending[h]) + 1
  <2> HIDE DEF h0, old
  <2>1. ASSUME NEW i \in DOMAIN pending'[h0]
        PROVE  \/ i \in DOMAIN old /\ pending'[h0][i] = old[i]
               \/ pending'[h0][i] = r /\ i \notin DOMAIN old /\ i = Len(old) + 1
    BY <1>3, <1>4
  <2> QED BY <2>1, <1>4 DEF h0, old
<1>6. ASSUME NEW q \in Requests PROVE Queued(q)' <=> Queued(q) \/ q = r
  <2>1. CASE HostOf[q] # h0
    BY <2>1, <1>4, ExchangeAssumption DEF Queued
  <2>2. CASE HostOf[q] = h0
    <3>1. Queued(q)' <=> \E i \in DOMAIN Append(old, r) : Append(old, r)[i] = q
      BY <2>2, <1>4, ExchangeAssumption DEF Queued, PushPending
    <3>2. Queued(q) <=> \E i \in DOMAIN old : old[i] = q
      BY <2>2 DEF Queued
    <3> HIDE DEF old, h0
    <3> QED BY <3>1, <3>2, <1>3
  <2>3. q = r => HostOf[q] = h0
    OBVIOUS
  <2> QED BY <2>1, <2>2, <2>3
<1>7. \A q \in Requests : Taken(q)' <=> Taken(q)
  BY DEF PushPending, Taken
<1> QED BY <1>5, <1>6, <1>7 DEF PushPending, Goto, TypeOK

\* A pop takes the first request of some queue and gives it to one response.
LEMMA PopStep ==
    ASSUME TypeOK, QueuesByHost, UnpairedBefore, NEW r \in Requests, Pair(r)
    PROVE  /\ pc[r] = "pairing" /\ pc'[r] = "judging"
           /\ \A q \in Requests \ {r} : pc'[q] = pc[q] /\ paired'[q] = paired[q]
           /\ paired[r] = None
           /\ \A h \in Hosts : \A i, j \in DOMAIN pending'[h] :
                /\ HostOf[pending'[h][i]] = h
                /\ pending'[h][i] = pending'[h][j] => i = j
           /\ \E p \in Requests :
                /\ paired'[r] = p /\ Queued(p)
                /\ \A q \in Requests : Queued(q)' <=> Queued(q) /\ q # p
                /\ \A q \in Requests : Taken(q)' <=> Taken(q) \/ q = p
<1>1. PICK h \in Hosts : /\ pending[h] # <<>>
                         /\ paired' = [paired EXCEPT ![r] = Head(pending[h])]
                         /\ pending' = [pending EXCEPT ![h] = Tail(@)]
  BY DEF Pair
<1> DEFINE old == pending[h]
           new == pending'[h]
           p == paired'[r]
<1>2. /\ old \in Seq(Requests) /\ old # <<>> /\ new = Tail(old) /\ p = Head(old)
      /\ \A k \in Hosts \ {h} : pending'[k] = pending[k]
      /\ \A q \in Requests \ {r} : paired'[q] = paired[q]
  BY <1>1 DEF TypeOK
<1>3. /\ pc[r] = "pairing" /\ pc'[r] = "judging"
      /\ \A q \in Requests \ {r} : pc'[q] = pc[q]
      /\ paired[r] = None
      /\ HostOf' = HostOf
  BY DEF Pair, Goto, TypeOK, UnpairedBefore, Sent
<1>4. /\ Len(old) \in Nat /\ Len(old) > 0 /\ DOMAIN old = 1..Len(old)
      /\ DOMAIN new = 1..Len(old)-1
      /\ \A i \in 1..Len(old)-1 : new[i] = old[i+1]
      /\ p = old[1] /\ p \in Requests
  <2> HIDE DEF old, new, p
  <2> QED BY <1>2
<1>5. \A i, j \in 1..Len(old) : HostOf[old[i]] = h /\ (old[i] = old[j] => i = j)
  BY <1>4 DEF QueuesByHost
<1>6. HostOf[p] = h /\ Queued(p)
  <2>1. 1 \in 1..Len(old)
    BY <1>4
  <2>2. HostOf[p] = h
    BY <2>1, <1>4, <1>5
  <2> QED BY <2>1, <2>2, <1>4 DEF Queued
<1>7. \A q \in Requests : HostOf[q] = h =>
        /\ Queued(q) <=> \E i \in 1..Len(old) : old[i] = q
        /\ Queued(q)' <=> \E i \in 1..Len(old)-1 : old[i+1] = q
  BY <1>4 DEF Queued
<1>8. ASSUME NEW q \in Requests
      PROVE  Queued(q)' <=> Queued(q) /\ q # p
  <2>1. CASE HostOf[q] # h
    BY <2>1, <1>2, <1>6, ExchangeAssumption DEF Queued
  <2>2. CASE HostOf[q] = h
    <3> DEFINE n == Len(old)
    <3>1. (\E i \in 1..n-1 : old[i+1] = q) <=> (\E i \in 1..n : i # 1 /\ old[i] = q)
      <4>0. n \in Nat
        BY <1>4
      <4> HIDE DEF n, old
      <4>1. ASSUME NEW i \in 1..n, i # 1, old[i] = q PROVE \E k \in 1..n-1 : old[k+1] = q
        <5>1. i-1 \in 1..n-1 /\ (i-1)+1 = i
          BY <4>0, <4>1
        <5> QED BY <5>1, <4>1
      <4>2. ASSUME NEW k \in 1..n-1, old[k+1] = q PROVE \E i \in 1..n : i # 1 /\ old[i] = q
        <5>1. k+1 \in 1..n /\ k+1 # 1
          BY <4>0, <4>2
        <5> QED BY <5>1, <4>2
      <4> QED BY <4>1, <4>2
    <3>2. \A i \in 1..n : old[i] = p <=> i = 1
      BY <1>4, <1>5
    <3>3. 1 \in 1..n
      BY <1>4
    <3> QED BY <2>2, <1>4, <1>7, <3>1, <3>2, <3>3
  <2> QED BY <2>1, <2>2
<1>9. \A k \in Hosts : \A i, j \in DOMAIN pending'[k] :
        /\ HostOf[pending'[k][i]] = k
        /\ pending'[k][i] = pending'[k][j] => i = j
  <2>1. ASSUME NEW i \in DOMAIN new, NEW j \in DOMAIN new
        PROVE  HostOf[new[i]] = h /\ (new[i] = new[j] => i = j)
    <3>1. i \in 1..Len(old)-1 /\ j \in 1..Len(old)-1
      BY <1>4
    <3>2. i+1 \in 1..Len(old) /\ j+1 \in 1..Len(old)
      BY <3>1, <1>4
    <3>3. new[i] = old[i+1] /\ new[j] = old[j+1]
      BY <3>1, <1>4
    <3>4. HostOf[new[i]] = h /\ (new[i] = new[j] => i+1 = j+1)
      BY <3>2, <3>3, <1>5
    <3> QED BY <3>1, <3>4
  <2>2. ASSUME NEW k \in Hosts \ {h}, NEW i \in DOMAIN pending'[k], NEW j \in DOMAIN pending'[k]
        PROVE  HostOf[pending'[k][i]] = k /\ (pending'[k][i] = pending'[k][j] => i = j)
    BY <1>2 DEF QueuesByHost
  <2> QED BY <2>1, <2>2
<1>10. \A q \in Requests : Taken(q)' <=> Taken(q) \/ q = p
  BY <1>2, <1>3, <1>4, ExchangeAssumption DEF Taken
<1>11. \E x \in Requests :
         /\ paired'[r] = x /\ Queued(x)
         /\ \A q \in Requests : Queued(q)' <=> Queued(q) /\ q # x
         /\ \A q \in Requests : Taken(q)' <=> Taken(q) \/ q = x
  <2>1. p \in Requests
    BY <1>4
  <2> WITNESS p \in Requests
  <2> QED BY <1>4, <1>6, <1>8, <1>10
<1> QED BY <1>2, <1>3, <1>9, <1>11
-----------------------------------------------------------------------------
(* The invariant. *)

LEMMA InitEstablishes == Init => IInv
<1> SUFFICES ASSUME Init PROVE IInv
  OBVIOUS
<1>1. \A q \in Requests : ~Queued(q) /\ ~Taken(q)
  BY ExchangeAssumption DEF Init, Queued, Taken
<1>2. TypeOK
  <2>1. NoStats \in [DOMAIN NoStats -> Nat]
    BY DEF NoStats
  <2>2. stats \in [DOMAIN NoStats -> Nat]
    BY <2>1 DEF Init
  <2>3. /\ history \in Seq([req : Requests, resp : Requests \union {None, Local}])
        /\ Len(history) <= HistoryCap
    BY ExchangeAssumption DEF Init
  <2>4. /\ pending \in [Hosts -> Seq(Requests)]
        /\ published \in [Requests -> Seq(Requests \union {None, Local})]
    BY DEF Init
  <2>5. /\ pc \in [Requests -> BeforePush \union Sent \union AfterPop \union {"done", "lost"}]
        /\ paired \in [Requests -> Requests \union {None}]
    BY DEF Init, BeforePush
  <2>6. clears \in 0..MaxClears
    BY ExchangeAssumption DEF Init
  <2>7. resetting \in BOOLEAN /\ replays \subseteq Requests
    BY DEF Init
  <2> QED BY <2>2, <2>3, <2>4, <2>5, <2>6, <2>7 DEF TypeOK
<1>3. UnpairedBefore /\ UnknownBefore /\ AfterPopPaired /\ NoRequestForgotten /\ DoneMeansPaired
  BY <1>1 DEF Init, UnpairedBefore, UnknownBefore, AfterPopPaired, NoRequestForgotten,
              DoneMeansPaired, BeforePush, Sent, AfterPop
<1>4. /\ \A h \in Hosts : DOMAIN pending[h] = {}
      /\ \A q \in Requests : DOMAIN published[q] = {} /\ paired[q] = None
  BY DEF Init
<1>5. QueuesByHost /\ PairedOnce /\ AnsweredOnce /\ AnswerTells
  BY <1>1, <1>4 DEF QueuesByHost, PairedOnce, AnsweredOnce, AnswerTells
<1> QED BY <1>2, <1>3, <1>5 DEF IInv

\* What a quiet step announces: nothing new with a response but the proxy's
\* own answer, or the response of an exchange about to be recorded.
LEMMA QuietPublishes ==
    ASSUME TypeOK, AfterPopPaired, Quiet
    PROVE  \A q \in Requests : \A i \in DOMAIN published'[q] :
             \/ i \in DOMAIN published[q] /\ published'[q][i] = published[q][i]
             \/ i = Len(published[q]) + 1 /\ published'[q][i] = None
             \/ i = Len(published[q]) + 1 /\ published'[q][i] = Local
                /\ pc[q] = "answered" /\ pc'[q] = "done"
             \/ \E r \in Requests :
                  i = Len(published[q]) + 1 /\ published'[q][i] = r
                  /\ paired[r] = q /\ pc[r] = "emitting" /\ pc'[r] = "closing"
<1>1. ASSUME NEW q \in Requests, NEW x \in Requests \union {None, Local}, Emit(q, x),
             NEW k \in Requests, NEW i \in DOMAIN published'[k]
      PROVE  \/ i \in DOMAIN published[k] /\ published'[k][i] = published[k][i]
             \/ k = q /\ i = Len(published[q]) + 1 /\ published'[k][i] = x
  <2> DEFINE old == published[q]
  <2>1. old \in Seq(Requests \union {None, Local})
    BY DEF TypeOK
  <2>2. /\ published'[q] = Append(old, x)
        /\ k # q => published'[k] = published[k]
    BY <1>1 DEF Emit, TypeOK
  <2> HIDE DEF old
  <2>3. \A j \in DOMAIN Append(old, x) :
          \/ j \in DOMAIN old /\ Append(old, x)[j] = old[j]
          \/ j = Len(old) + 1 /\ Append(old, x)[j] = x
    BY <2>1
  <2> QED BY <2>2, <2>3 DEF old
<1>2. ASSUME NEW q \in Requests, EmitPaused(q) \/ EmitRequest(q)
      PROVE  Emit(q, None)
  BY <1>2 DEF EmitPaused, EmitRequest
<1>3. ASSUME NEW q \in Requests, EmitAnswer(q)
      PROVE  Emit(q, Local) /\ pc[q] = "answered" /\ pc'[q] = "done"
  BY <1>3 DEF EmitAnswer, Goto, TypeOK
<1>4. ASSUME NEW r \in Requests, EmitExchange(r)
      PROVE  Emit(paired[r], r) /\ pc[r] = "emitting" /\ pc'[r] = "closing" /\ paired[r] \in Requests
  BY <1>4 DEF EmitExchange, Goto, TypeOK, AfterPopPaired, AfterPop
<1>5. \/ UNCHANGED published
      \/ \E q \in Requests : EmitPaused(q) \/ EmitRequest(q) \/ EmitAnswer(q) \/ EmitExchange(q)
  BY DEF Quiet, Elsewhere, QuietRequest, QuietResponse, ClearHistory, ResetStats, Replay,
         Receive, Evaluate, CountBlocked, RecordAnswer, CountModified, ReleaseHeld, RecordRequest,
         CountResponse, Judge, CountRefused, CountRewritten, RecordExchange, UpstreamAnswers, Lose
<1>6. CASE UNCHANGED published
  BY <1>6
<1>7. ASSUME NEW q \in Requests, EmitPaused(q) \/ EmitRequest(q)
      PROVE  \A k \in Requests : \A i \in DOMAIN published'[k] :
               \/ i \in DOMAIN published[k] /\ published'[k][i] = published[k][i]
               \/ i = Len(published[k]) + 1 /\ published'[k][i] = None
  BY <1>1, <1>2, <1>7
<1>8. ASSUME NEW q \in Requests, EmitAnswer(q)
      PROVE  \A k \in Requests : \A i \in DOMAIN published'[k] :
               \/ i \in DOMAIN published[k] /\ published'[k][i] = published[k][i]
               \/ k = q /\ i = Len(published[k]) + 1 /\ published'[k][i] = Local
  BY <1>1, <1>3, <1>8
<1>9. ASSUME NEW r \in Requests, EmitExchange(r)
      PROVE  \A k \in Requests : \A i \in DOMAIN published'[k] :
               \/ i \in DOMAIN published[k] /\ published'[k][i] = published[k][i]
               \/ k = paired[r] /\ i = Len(published[k]) + 1 /\ published'[k][i] = r
  BY <1>1, <1>4, <1>9
<1> QED BY <1>3, <1>4, <1>5, <1>6, <1>7, <1>8, <1>9

LEMMA QuietKeeps ==
    ASSUME IInv, Quiet
    PROVE  /\ UnpairedBefore' /\ UnknownBefore' /\ AfterPopPaired'
           /\ QueuesByHost' /\ PairedOnce' /\ NoRequestForgotten' /\ DoneMeansPaired'
           /\ AnsweredOnce' /\ AnswerTells'
<1> USE DEF IInv
<1>1. /\ \A q \in Requests : Queued(q)' <=> Queued(q)
      /\ \A q \in Requests : Taken(q)' <=> Taken(q)
  BY QuietStep DEF Queued, Taken
<1>2. UnpairedBefore' /\ UnknownBefore' /\ AfterPopPaired' /\ NoRequestForgotten'
  BY <1>1, QuietStep DEF UnpairedBefore, UnknownBefore, AfterPopPaired, NoRequestForgotten
<1>3. QueuesByHost' /\ PairedOnce'
  BY <1>1, QuietStep DEF QueuesByHost, PairedOnce
<1>4. DoneMeansPaired'
  BY <1>1, QuietStep DEF DoneMeansPaired, UnknownBefore, AfterPopPaired, BeforePush, AfterPop
<1>5. AnswerTells'
  <2> SUFFICES ASSUME NEW q \in Requests, NEW i \in DOMAIN published'[q]
               PROVE  /\ published'[q][i] = Local => pc'[q] = "done" /\ ~Queued(q)' /\ ~Taken(q)'
                      /\ \A r \in Requests : published'[q][i] = r =>
                           paired'[r] = q /\ pc'[r] \in {"closing", "done", "lost"}
    BY DEF AnswerTells
  <2>1. CASE i \in DOMAIN published[q] /\ published'[q][i] = published[q][i]
    BY <2>1, <1>1, QuietStep DEF AnswerTells
  <2>2. CASE published'[q][i] = None
    BY <2>2, ExchangeAssumption
  <2>3. CASE published'[q][i] = Local /\ pc[q] = "answered" /\ pc'[q] = "done"
    BY <2>3, <1>1, ExchangeAssumption DEF UnknownBefore, BeforePush
  <2>4. ASSUME NEW s \in Requests, published'[q][i] = s, paired[s] = q, pc'[s] = "closing"
        PROVE  /\ published'[q][i] = Local => pc'[q] = "done" /\ ~Queued(q)' /\ ~Taken(q)'
               /\ \A r \in Requests : published'[q][i] = r =>
                    paired'[r] = q /\ pc'[r] \in {"closing", "done", "lost"}
    BY <2>4, QuietStep, ExchangeAssumption
  <2> QED BY <2>1, <2>2, <2>3, <2>4, QuietPublishes
<1>6. AnsweredOnce'
  <2> SUFFICES ASSUME NEW q \in Requests, NEW i \in DOMAIN published'[q], NEW j \in DOMAIN published'[q],
                      published'[q][i] # None, published'[q][j] # None
               PROVE  i = j
    BY DEF AnsweredOnce
  <2>1. ASSUME NEW k \in DOMAIN published[q], published[q][k] # None,
               NEW n \in DOMAIN published'[q], published'[q][n] # None,
               ~(n \in DOMAIN published[q] /\ published'[q][n] = published[q][n])
        PROVE  FALSE
    <3>1. published[q][k] = Local \/ published[q][k] \in Requests
      BY <2>1 DEF TypeOK
    <3>2. (pc[q] = "done" /\ ~Taken(q)) \/ \E r \in Requests : paired[r] = q /\ pc[r] \in {"closing", "done", "lost"}
      BY <2>1, <3>1 DEF AnswerTells
    <3>3. \/ pc[q] = "answered"
          \/ \E r \in Requests : paired[r] = q /\ pc[r] = "emitting"
      BY <2>1, QuietPublishes
    <3>4. pc[q] = "answered" => ~Taken(q)
      BY DEF UnknownBefore, BeforePush
    <3> QED BY <3>2, <3>3, <3>4, ExchangeAssumption DEF PairedOnce, Taken
  <2>2. CASE /\ i \in DOMAIN published[q] /\ published'[q][i] = published[q][i]
             /\ j \in DOMAIN published[q] /\ published'[q][j] = published[q][j]
    BY <2>2 DEF AnsweredOnce
  <2>3. CASE /\ ~(i \in DOMAIN published[q] /\ published'[q][i] = published[q][i])
             /\ ~(j \in DOMAIN published[q] /\ published'[q][j] = published[q][j])
    BY <2>3, QuietPublishes
  <2> QED BY <2>1, <2>2, <2>3
<1> QED BY <1>2, <1>3, <1>4, <1>5, <1>6

LEMMA PushKeeps ==
    ASSUME IInv, NEW r \in Requests, PushPending(r)
    PROVE  /\ UnpairedBefore' /\ UnknownBefore' /\ AfterPopPaired'
           /\ QueuesByHost' /\ PairedOnce' /\ NoRequestForgotten' /\ DoneMeansPaired'
           /\ AnsweredOnce' /\ AnswerTells'
<1> USE DEF IInv
<1>1. ~Queued(r) /\ ~Taken(r) /\ pc[r] = "forward"
  BY PushStep DEF UnknownBefore, BeforePush
<1>2. UnpairedBefore' /\ UnknownBefore' /\ AfterPopPaired' /\ NoRequestForgotten' /\ DoneMeansPaired'
  BY <1>1, PushStep DEF UnpairedBefore, UnknownBefore, AfterPopPaired, NoRequestForgotten,
                        DoneMeansPaired, BeforePush, Sent, AfterPop
<1>3. PairedOnce'
  BY <1>1, PushStep DEF PairedOnce
<1>4. QueuesByHost'
  <2> SUFFICES ASSUME NEW h \in Hosts, NEW i \in DOMAIN pending'[h], NEW j \in DOMAIN pending'[h]
               PROVE  /\ HostOf[pending'[h][i]] = h
                      /\ pending'[h][i] = pending'[h][j] => i = j
    BY DEF QueuesByHost
  <2>1. \A k \in DOMAIN pending[h] : HostOf[pending[h][k]] = h /\ pending[h][k] # r
    BY <1>1 DEF QueuesByHost, Queued
  <2>2. /\ \/ i \in DOMAIN pending[h] /\ pending'[h][i] = pending[h][i]
           \/ h = HostOf[r] /\ pending'[h][i] = r /\ i = Len(pending[h]) + 1
        /\ \/ j \in DOMAIN pending[h] /\ pending'[h][j] = pending[h][j]
           \/ h = HostOf[r] /\ pending'[h][j] = r /\ j = Len(pending[h]) + 1
    BY PushStep
  <2> QED BY <2>1, <2>2 DEF QueuesByHost
<1>5. published' = published
  BY DEF PushPending
<1>6. AnsweredOnce' /\ AnswerTells'
  BY <1>1, <1>5, PushStep DEF AnsweredOnce, AnswerTells
<1> QED BY <1>2, <1>3, <1>4, <1>6

LEMMA PopKeeps ==
    ASSUME IInv, NEW r \in Requests, Pair(r)
    PROVE  /\ UnpairedBefore' /\ UnknownBefore' /\ AfterPopPaired'
           /\ QueuesByHost' /\ PairedOnce' /\ NoRequestForgotten' /\ DoneMeansPaired'
           /\ AnsweredOnce' /\ AnswerTells'
<1> USE DEF IInv
<1>1. PICK p \in Requests :
        /\ paired'[r] = p /\ Queued(p)
        /\ \A q \in Requests : Queued(q)' <=> Queued(q) /\ q # p
        /\ \A q \in Requests : Taken(q)' <=> Taken(q) \/ q = p
  BY PopStep
<1>2. /\ pc[r] = "pairing" /\ pc'[r] = "judging" /\ paired[r] = None
      /\ \A q \in Requests \ {r} : pc'[q] = pc[q] /\ paired'[q] = paired[q]
  BY PopStep
<1>3. p # None /\ ~Taken(p)
  BY <1>1, ExchangeAssumption DEF PairedOnce
<1>4. UnpairedBefore' /\ UnknownBefore' /\ AfterPopPaired'
  BY <1>1, <1>2, <1>3 DEF UnpairedBefore, UnknownBefore, AfterPopPaired, BeforePush, Sent, AfterPop
<1>5. NoRequestForgotten' /\ DoneMeansPaired'
  BY <1>1, <1>2, <1>3 DEF NoRequestForgotten, DoneMeansPaired, Sent, AfterPop
<1>6. PairedOnce'
  BY <1>1, <1>2, <1>3 DEF PairedOnce, Taken
<1>7. QueuesByHost'
  BY PopStep DEF QueuesByHost
<1>8. published' = published
  BY DEF Pair
<1>9. AnsweredOnce' /\ AnswerTells'
  <2>1. p # r => pc[p] \notin BeforePush
    BY <1>1 DEF UnknownBefore
  <2> QED BY <1>1, <1>2, <1>8, ExchangeAssumption DEF AnsweredOnce, AnswerTells
<1> QED BY <1>4, <1>5, <1>6, <1>7, <1>9

LEMMA StepKeeps == IInv /\ [Next]_vars => IInv'
<1> SUFFICES ASSUME IInv, [Next]_vars PROVE IInv'
  OBVIOUS
<1>1. CASE Next
  BY <1>1, NextIsQuietPushOrPop, TypeStep, QuietKeeps, PushKeeps, PopKeeps DEF IInv
<1>2. CASE UNCHANGED vars
  BY <1>2 DEF vars, IInv, TypeOK, UnpairedBefore, UnknownBefore, AfterPopPaired, QueuesByHost,
              PairedOnce, NoRequestForgotten, DoneMeansPaired, AnsweredOnce, AnswerTells,
              Queued, Taken
<1> QED BY <1>1, <1>2

\* IInv is an invariant of the proxy's exchanges.
THEOREM InvariantHolds == Spec => []IInv
BY InitEstablishes, StepKeeps, PTL DEF Spec
-----------------------------------------------------------------------------
(* What follows from the invariant by counting. *)

\* The responses that took a request.
Paired == {r \in Requests : paired[r] # None}

\* Give each request of S that some response took the response that took it:
\* no two get the same one.
LEMMA TakersInject ==
    ASSUME TypeOK, NEW S \in SUBSET Requests, \A q \in S : Taken(q)
    PROVE  [q \in S |-> CHOOSE r \in Requests : paired[r] = q] \in Injection(S, Paired)
<1> DEFINE f == [q \in S |-> CHOOSE r \in Requests : paired[r] = q]
<1>1. ASSUME NEW q \in S PROVE f[q] \in Requests /\ paired[f[q]] = q
  BY DEF Taken
<1>2. f \in [S -> Paired]
  BY <1>1, ExchangeAssumption DEF Paired
<1>3. \A q, s \in S : f[q] = f[s] => q = s
  BY <1>1
<1> HIDE DEF f
<1>4. f \in Injection(S, Paired)
  BY <1>2, <1>3 DEF Injection, IsInjective
<1> QED BY <1>4 DEF f

LEMMA PairedFinite == IsFiniteSet(Paired)
<1>1. Paired \in SUBSET Requests
  BY DEF Paired
<1> QED BY <1>1, FS_Subset, ExchangeAssumption

\* Were all queues empty, the responses that have taken a request and the one
\* about to take one would all have had their requests taken: one too many.
LEMMA SomeQueueIsNotEmpty == IInv => ResponseFindsARequest
<1> SUFFICES ASSUME IInv, NEW r \in Requests, pc[r] = "pairing",
                    \A h \in Hosts : pending[h] = <<>>
             PROVE  FALSE
  BY DEF ResponseFindsARequest
<1> DEFINE S == Paired \union {r}
<1>1. \A q \in Requests : ~Queued(q)
  BY ExchangeAssumption DEF Queued
<1>2. S \in SUBSET Requests /\ r \notin Paired
  BY DEF Paired, IInv, UnpairedBefore, Sent
<1>3. \A q \in S : Taken(q)
  BY <1>1, <1>2 DEF Paired, IInv, NoRequestForgotten, Sent
<1>4. Cardinality(S) <= Cardinality(Paired)
  BY <1>2, <1>3, TakersInject, PairedFinite, FS_Injection DEF IInv
<1>5. Cardinality(S) = Cardinality(Paired) + 1
  BY <1>2, PairedFinite, FS_AddElement
<1> QED BY <1>4, <1>5, PairedFinite, FS_CardinalityType

\* With every exchange at its end, the requests PENDING ever held are the
\* exchanges that took one; so each of them was taken, and none is left.
LEMMA NothingIsLeft == IInv => IdleMeansDrained
<1> SUFFICES ASSUME IInv, \A r \in Requests : pc[r] \in {"new", "done"},
                    NEW h \in Hosts, pending[h] # <<>>
             PROVE  FALSE
  BY DEF IdleMeansDrained
<1>1. PICK q \in Requests : Queued(q)
  <2>1. 1 \in DOMAIN pending[h] /\ pending[h][1] \in Requests
    BY DEF IInv, TypeOK
  <2> QED BY <2>1 DEF IInv, QueuesByHost, Queued
<1>2. q \in Paired /\ ~Taken(q)
  BY <1>1 DEF Paired, IInv, DoneMeansPaired, UnknownBefore, BeforePush, PairedOnce
<1> DEFINE S == {s \in Requests : Taken(s)}
<1>3. S \in SUBSET Requests /\ \A s \in S : Taken(s)
  OBVIOUS
<1>4. S \subseteq Paired
  BY DEF IInv, DoneMeansPaired, UnknownBefore, BeforePush, Paired
<1>5. [r \in Paired |-> paired[r]] \in Injection(Paired, S)
  <2> DEFINE g == [r \in Paired |-> paired[r]]
  <2>1. g \in [Paired -> S]
    BY ExchangeAssumption DEF Paired, IInv, TypeOK, Taken
  <2>2. \A a, b \in Paired : g[a] = g[b] => a = b
    BY DEF Paired, IInv, PairedOnce
  <2> HIDE DEF g
  <2>3. g \in Injection(Paired, S)
    BY <2>1, <2>2 DEF Injection, IsInjective
  <2> QED BY <2>3 DEF g
<1>6. IsFiniteSet(S) /\ Cardinality(Paired) <= Cardinality(S)
  <2>1. IsFiniteSet(S)
    BY <1>4, PairedFinite, FS_Subset
  <2> QED BY <2>1, <1>5, FS_Injection
<1>7. Cardinality(S) <= Cardinality(Paired) /\ (Cardinality(Paired) = Cardinality(S) => Paired = S)
  BY <1>4, PairedFinite, FS_Subset
<1>8. Paired = S
  BY <1>6, <1>7, PairedFinite, FS_CardinalityType
<1> QED BY <1>2, <1>8
-----------------------------------------------------------------------------
(* The counters.  A lost exchange does not tell what of it was counted, so the *)
(* sums cannot be equations: what is counted and what is still to be counted   *)
(* are together no more than what was counted before.                          *)

\* The exchanges of which an intervention, the response, or an intervention on
\* the response may yet be counted.
ToIntervene == {r \in Requests : pc[r] \in {"rules", "blocking", "modifying"}}
ToRespond == {r \in Requests : pc[r] \in (BeforePush \union Sent) \ {"new", "pairing"}}
ToRewrite == {r \in Requests : pc[r] \in {"pairing", "judging", "refusing", "rewriting"}}

CounterInv ==
    /\ resetting => clears > 0
    /\ clears = 0 =>
         /\ stats.blocked + stats.modifiedRequests + Cardinality(ToIntervene) <= stats.requests
         /\ stats.responses + Cardinality(ToRespond) <= stats.requests
         /\ stats.modifiedResponses + Cardinality(ToRewrite) <= stats.responses

LEMMA FewerToCount ==
    ASSUME NEW A \in SUBSET Requests, NEW B \in SUBSET Requests, NEW r \in Requests
    PROVE  /\ Cardinality(A) \in Nat
           /\ B \subseteq A => Cardinality(B) <= Cardinality(A)
           /\ B \subseteq A \union {r} => Cardinality(B) <= Cardinality(A) + 1
           /\ r \in A /\ B \subseteq A \ {r} => Cardinality(B) + 1 <= Cardinality(A)
<1>1. IsFiniteSet(A) /\ IsFiniteSet(B)
  BY ExchangeAssumption, FS_Subset
<1>2. Cardinality(A) \in Nat /\ Cardinality(B) \in Nat
  BY <1>1, FS_CardinalityType
<1>3. B \subseteq A => Cardinality(B) <= Cardinality(A)
  BY <1>1, FS_Subset
<1>4. ASSUME B \subseteq A \union {r} PROVE Cardinality(B) <= Cardinality(A) + 1
  <2>1. /\ IsFiniteSet(A \union {r})
        /\ Cardinality(A \union {r}) <= Cardinality(A) + 1
    BY <1>1, <1>2, FS_AddElement
  <2>2. Cardinality(B) <= Cardinality(A \union {r})
    BY <1>4, <2>1, FS_Subset
  <2> QED BY <1>2, <2>1, <2>2, FS_CardinalityType
<1>5. ASSUME r \in A, B \subseteq A \ {r} PROVE Cardinality(B) + 1 <= Cardinality(A)
  <2>1. /\ IsFiniteSet(A \ {r})
        /\ Cardinality(A \ {r}) = Cardinality(A) - 1
    BY <1>1, <1>5, FS_RemoveElement
  <2>2. Cardinality(B) <= Cardinality(A \ {r})
    BY <1>5, <2>1, FS_Subset
  <2> QED BY <1>2, <2>1, <2>2
<1> QED BY <1>2, <1>3, <1>4, <1>5

\* A step that counts nothing adds no exchange to those still to be counted.
Uncounted ==
    /\ stats' = stats /\ clears' = clears /\ resetting' = resetting
    /\ ToIntervene' \subseteq ToIntervene
    /\ ToRespond' \subseteq ToRespond
    /\ ToRewrite' \subseteq ToRewrite

\* What is still to be counted, after a step of exchange r alone.
LEMMA ToCountMoves ==
    ASSUME TypeOK, NEW r \in Requests, NEW to, pc' = [pc EXCEPT ![r] = to]
    PROVE  /\ ToIntervene' = IF to \in {"rules", "blocking", "modifying"}
                             THEN ToIntervene \union {r} ELSE ToIntervene \ {r}
           /\ ToRespond' = IF to \in (BeforePush \union Sent) \ {"new", "pairing"}
                           THEN ToRespond \union {r} ELSE ToRespond \ {r}
           /\ ToRewrite' = IF to \in {"pairing", "judging", "refusing", "rewriting"}
                           THEN ToRewrite \union {r} ELSE ToRewrite \ {r}
<1> pc \in [Requests -> Places]
  BY DEF TypeOK, Places
<1> QED BY DEF ToIntervene, ToRespond, ToRewrite

LEMMA OtherStepsCountNothing ==
    ASSUME TypeOK, NEW r \in Requests,
           \/ Evaluate(r) \/ RecordAnswer(r) \/ EmitAnswer(r) \/ EmitPaused(r)
           \/ ReleaseHeld(r) \/ PushPending(r) \/ EmitRequest(r) \/ RecordRequest(r)
           \/ Pair(r) \/ Judge(r) \/ EmitExchange(r) \/ RecordExchange(r)
           \/ UpstreamAnswers(r) \/ Lose(r) \/ Replay(r)
    PROVE  Uncounted
<1> USE DEF Uncounted, Goto, BeforePush, Sent
<1>1. CASE RecordAnswer(r) \/ EmitAnswer(r) \/ EmitPaused(r) \/ ReleaseHeld(r)
  BY <1>1, ToCountMoves
     DEF RecordAnswer, EmitAnswer, EmitPaused, ReleaseHeld, ToIntervene, ToRespond, ToRewrite
<1>2. CASE PushPending(r) \/ EmitRequest(r) \/ RecordRequest(r) \/ UpstreamAnswers(r)
  BY <1>2, ToCountMoves
     DEF PushPending, EmitRequest, RecordRequest, UpstreamAnswers,
         ToIntervene, ToRespond, ToRewrite
<1>3. CASE EmitExchange(r) \/ RecordExchange(r) \/ Lose(r)
  BY <1>3, ToCountMoves
     DEF EmitExchange, RecordExchange, Lose, ToIntervene, ToRespond, ToRewrite
<1>7. CASE Pair(r)
  <2>1. /\ pc[r] = "pairing" /\ pc' = [pc EXCEPT ![r] = "judging"]
        /\ stats' = stats /\ clears' = clears /\ resetting' = resetting
    BY <1>7 DEF Pair
  <2> QED BY <2>1, ToCountMoves DEF ToIntervene, ToRespond, ToRewrite
<1>4. CASE Evaluate(r)
  <2>1. PICK a \in RequestActions :
          /\ pc[r] = "rules"
          /\ pc' = [pc EXCEPT ![r] =
                CASE a \in {"none", "pass", "script"} -> "forward"
                  [] a = "block" -> "blocking"
                  [] a \in {"redirect", "mock"} -> "answering"
                  [] a = "modify" -> "modifying"
                  [] a = "pause" -> "pausing"]
    BY <1>4 DEF Evaluate
  <2>2. PICK to \in {"forward", "blocking", "answering", "modifying", "pausing"} :
          pc' = [pc EXCEPT ![r] = to]
    BY <2>1, ExchangeAssumption DEF AllActions
  <2>3. stats' = stats /\ clears' = clears /\ resetting' = resetting
    BY <1>4 DEF Evaluate
  <2>4. /\ ToIntervene' \subseteq ToIntervene \union {r}
        /\ ToRespond' \subseteq ToRespond \union {r}
        /\ ToRewrite' \subseteq ToRewrite
    BY <2>2, ToCountMoves
  <2>5. r \in ToIntervene /\ r \in ToRespond
    BY <2>1 DEF ToIntervene, ToRespond
  <2> HIDE DEF BeforePush, Sent
  <2> QED BY <2>3, <2>4, <2>5
<1>5. CASE Judge(r)
  <2>1. PICK to \in {"refusing", "rewriting", "emitting"} : pc' = [pc EXCEPT ![r] = to]
    BY <1>5 DEF Judge
  <2> QED BY <1>5, <2>1, ToCountMoves DEF Judge, ToIntervene, ToRespond, ToRewrite
<1>6. CASE Replay(r)
  BY <1>6 DEF Replay, ToIntervene, ToRespond, ToRewrite
<1> QED BY <1>1, <1>2, <1>3, <1>4, <1>5, <1>6, <1>7

LEMMA UncountedKeeps == ASSUME TypeOK, CounterInv, Uncounted PROVE CounterInv'
<1>1. CASE Requests = {}
  <2>1. /\ ToIntervene = {} /\ ToRespond = {} /\ ToRewrite = {}
        /\ ToIntervene' = {} /\ ToRespond' = {} /\ ToRewrite' = {}
    BY <1>1 DEF ToIntervene, ToRespond, ToRewrite
  <2> QED BY <2>1 DEF CounterInv, Uncounted
<1>2. CASE Requests # {}
  <2>1. PICK r \in Requests : TRUE
    BY <1>2
  <2>2. \A X \in SUBSET Requests : \A Y \in SUBSET X :
          Cardinality(X) \in Nat /\ Cardinality(Y) \in Nat /\ Cardinality(Y) <= Cardinality(X)
    BY <2>1, FewerToCount
  <2>3. /\ Cardinality(ToIntervene') <= Cardinality(ToIntervene)
        /\ Cardinality(ToRespond') <= Cardinality(ToRespond)
        /\ Cardinality(ToRewrite') <= Cardinality(ToRewrite)
        /\ {Cardinality(ToIntervene), Cardinality(ToIntervene'), Cardinality(ToRespond),
             Cardinality(ToRespond'), Cardinality(ToRewrite), Cardinality(ToRewrite')} \subseteq Nat
    BY <2>2 DEF Uncounted, ToIntervene, ToRespond, ToRewrite
  <2> QED BY <2>3 DEF CounterInv, Uncounted, TypeOK, NoStats
<1> QED BY <1>1, <1>2

\* The steps that count, for an exchange r.
LEMMA CountingKeeps ==
    ASSUME TypeOK, CounterInv, NEW r \in Requests,
           \/ Receive(r) \/ CountBlocked(r) \/ CountModified(r)
           \/ CountResponse(r) \/ CountRefused(r) \/ CountRewritten(r)
    PROVE  CounterInv'
<1> USE DEF Goto, Bump, BeforePush, Sent
<1> DEFINE I == Cardinality(ToIntervene)    J == Cardinality(ToIntervene')
           R == Cardinality(ToRespond)      S == Cardinality(ToRespond')
           W == Cardinality(ToRewrite)      X == Cardinality(ToRewrite')
<1>1. /\ ToIntervene \in SUBSET Requests /\ ToIntervene' \in SUBSET Requests
      /\ ToRespond \in SUBSET Requests /\ ToRespond' \in SUBSET Requests
      /\ ToRewrite \in SUBSET Requests /\ ToRewrite' \in SUBSET Requests
  BY DEF ToIntervene, ToRespond, ToRewrite
<1>2. I \in Nat /\ J \in Nat /\ R \in Nat /\ S \in Nat /\ W \in Nat /\ X \in Nat
  BY <1>1, FewerToCount
<1>3. stats \in [{"requests", "responses", "blocked", "modifiedRequests", "modifiedResponses"} -> Nat]
  BY DEF TypeOK, NoStats
<1>4. CASE Receive(r)
  <2>1. J <= I + 1 /\ S <= R + 1 /\ X <= W
    <3>1. /\ ToIntervene' = ToIntervene \union {r}
          /\ ToRespond' = ToRespond \union {r}
          /\ ToRewrite' = ToRewrite \ {r}
      BY <1>4, ToCountMoves DEF Receive
    <3> QED BY <1>1, <3>1, FewerToCount
  <2>2. stats' = [stats EXCEPT !.requests = @ + 1]
    BY <1>4 DEF Receive
  <2> QED BY <1>2, <1>3, <1>4, <2>1, <2>2 DEF Receive, CounterInv
<1>5. CASE CountBlocked(r) \/ CountModified(r)
  <2>1. J + 1 <= I /\ S <= R /\ X <= W
    <3>1. /\ r \in ToIntervene /\ r \in ToRespond
          /\ ToIntervene' = ToIntervene \ {r}
          /\ ToRespond' = ToRespond \union {r}
          /\ ToRewrite' = ToRewrite \ {r}
      BY <1>5, ToCountMoves DEF CountBlocked, CountModified, ToIntervene, ToRespond
    <3> QED BY <1>1, <3>1, FewerToCount
  <2>2. \/ stats' = [stats EXCEPT !.blocked = @ + 1]
        \/ stats' = [stats EXCEPT !.modifiedRequests = @ + 1]
    BY <1>5 DEF CountBlocked, CountModified
  <2> QED BY <1>2, <1>3, <1>5, <2>1, <2>2 DEF CountBlocked, CountModified, CounterInv
<1>6. CASE CountResponse(r)
  <2>1. J <= I /\ S + 1 <= R /\ X <= W + 1
    <3>1. /\ r \in ToRespond
          /\ ToIntervene' = ToIntervene \ {r}
          /\ ToRespond' = ToRespond \ {r}
          /\ ToRewrite' = ToRewrite \union {r}
      BY <1>6, ToCountMoves DEF CountResponse, ToRespond
    <3> QED BY <1>1, <3>1, FewerToCount
  <2>2. stats' = [stats EXCEPT !.responses = @ + 1]
    BY <1>6 DEF CountResponse
  <2> QED BY <1>2, <1>3, <1>6, <2>1, <2>2 DEF CountResponse, CounterInv
<1>7. CASE CountRefused(r) \/ CountRewritten(r)
  <2>1. J <= I /\ S <= R /\ X + 1 <= W
    <3>1. /\ r \in ToRewrite
          /\ ToIntervene' = ToIntervene \ {r}
          /\ ToRespond' = ToRespond \ {r}
          /\ ToRewrite' = ToRewrite \ {r}
      BY <1>7, ToCountMoves DEF CountRefused, CountRewritten, ToRewrite
    <3> QED BY <1>1, <3>1, FewerToCount
  <2>2. stats' = [stats EXCEPT !.modifiedResponses = @ + 1]
    BY <1>7 DEF CountRefused, CountRewritten
  <2> QED BY <1>2, <1>3, <1>7, <2>1, <2>2 DEF CountRefused, CountRewritten, CounterInv
<1> QED BY <1>4, <1>5, <1>6, <1>7

LEMMA CountersStep == TypeOK /\ CounterInv /\ [Next]_vars => CounterInv'
<1> SUFFICES ASSUME TypeOK, CounterInv, [Next]_vars PROVE CounterInv'
  OBVIOUS
<1>1. CASE UNCHANGED vars
  BY <1>1 DEF vars, CounterInv, ToIntervene, ToRespond, ToRewrite
<1>2. CASE ClearHistory \/ ResetStats
  <2>1. resetting' => clears' > 0
    BY <1>2 DEF ClearHistory, ResetStats, TypeOK
  <2>2. clears' # 0
    BY <1>2 DEF ClearHistory, ResetStats, CounterInv, TypeOK
  <2> QED BY <2>1, <2>2 DEF CounterInv
<1>3. ASSUME NEW r \in Requests,
             \/ HandleRequest(r) \/ HandleResponse(r)
             \/ UpstreamAnswers(r) \/ Lose(r) \/ Replay(r)
      PROVE  CounterInv'
  BY <1>3, CountingKeeps, OtherStepsCountNothing, UncountedKeeps
     DEF HandleRequest, HandleResponse
<1> QED BY <1>1, <1>2, <1>3 DEF Next

LEMMA CountersStart == Init => CounterInv
<1> SUFFICES ASSUME Init PROVE CounterInv
  OBVIOUS
<1>1. ToIntervene = {} /\ ToRespond = {} /\ ToRewrite = {}
  BY DEF Init, ToIntervene, ToRespond, ToRewrite, Sent
<1> QED BY <1>1, FS_EmptySet DEF Init, CounterInv, NoStats

LEMMA CounterInvGivesAgreement == TypeOK /\ CounterInv => CountersAgree
<1> SUFFICES ASSUME TypeOK, CounterInv, clears = 0 PROVE CountersAgree
  BY DEF CountersAgree
<1>1. /\ IsFiniteSet(ToIntervene) /\ IsFiniteSet(ToRespond) /\ IsFiniteSet(ToRewrite)
  BY ExchangeAssumption, FS_Subset DEF ToIntervene, ToRespond, ToRewrite
<1>2. /\ Cardinality(ToIntervene) \in Nat /\ Cardinality(ToRespond) \in Nat
      /\ Cardinality(ToRewrite) \in Nat
  BY <1>1, FS_CardinalityType
<1> QED BY <1>2 DEF CounterInv, CountersAgree, TypeOK, NoStats
-----------------------------------------------------------------------------
(* The timeline the handlers feed.                                           *)

Event == [req : Requests \union {NoRequest}, done : BOOLEAN, at : Times]

FeedTypes ==
    /\ sent \in Seq(Event)
    /\ stamp \in [Requests -> Times \union {0}]
    /\ next \in 1..Len(sent) + 1
    /\ appending \subseteq {next - 1} \ {0}
    /\ stored \subseteq 1..next - 1
    /\ gaps \in BOOLEAN

\* The events of a request on the channel, and what they say of published: who
\* was announced is there, and the latest event shows whether it was answered.
Announced(q) == {i \in DOMAIN sent : sent[i].req = q}

Told(q) ==
    /\ published[q] # <<>> => Announced(q) # {}
    /\ \A i \in Announced(q) :
         /\ published[q] # <<>>
         /\ sent[i].done => \E k \in DOMAIN published[q] : published[q][k] # None
         /\ (\A j \in Announced(q) : j <= i) =>
                (sent[i].done <=> published[q][Len(published[q])] # None)

EventsTell == \A q \in Requests : Told(q)

\* An exchange of an earlier run announces nothing in this one, and no response
\* of this run can be paired with it.
PastIsOver ==
    \A q \in Requests :
        /\ pc[q] = "new" => stamp[q] = 0
        /\ stamp[q] # 0 /\ published[q] = <<>> =>
               pc[q] = "lost" /\ ~Queued(q) /\ ~Taken(q)

\* Every event received was stored or is being stored, unless there was a gap.
NoGaps ==
    ~gaps => \A i \in 1..next - 1 :
                 sent[i].req # NoRequest => i \in stored \union appending

LogInv == FeedTypes /\ NoGaps /\ Log!RowShowsLastAppended

FeedInv == IInv /\ LogInv /\ EventsTell /\ PastIsOver

LEMMA FeedFacts ==
    ASSUME FeedTypes
    PROVE  /\ Len(sent) \in Nat /\ DOMAIN sent = 1..Len(sent)
           /\ next \in Nat /\ next >= 1 /\ next - 1 \in 0..Len(sent)
           /\ \A i \in 1..Len(sent) : sent[i] \in Event
           /\ \A i \in stored \union appending : i \in 1..next - 1 /\ i \in 1..Len(sent)
BY DEF FeedTypes

\* What a step of the handlers leaves behind it: none is new again, what is lost
\* stays lost, and in no queue or pairing it was not in.
LEMMA ExchangeLeavesBehind ==
    ASSUME IInv, Next
    PROVE  \A q \in Requests :
             /\ pc'[q] = "new" => pc[q] = "new"
             /\ pc[q] = "lost" => pc'[q] = "lost"
             /\ pc[q] = "lost" /\ ~Queued(q) /\ ~Taken(q) => ~Queued(q)' /\ ~Taken(q)'
<1> USE DEF IInv
<1>1. CASE Quiet
  <2>1. \A q \in Requests : (Queued(q)' <=> Queued(q)) /\ (Taken(q)' <=> Taken(q))
    BY <1>1, QuietStep DEF Queued, Taken
  <2>2. \A q \in Requests :
          /\ pc'[q] = "new" => pc[q] = "new"
          /\ pc[q] = "lost" => pc'[q] = "lost"
    <3> USE DEF TypeOK, Goto
    <3>1. CASE Elsewhere
      BY <1>1, <3>1 DEF Elsewhere, ClearHistory, ResetStats, Replay
    <3>2. ASSUME NEW r \in Requests, QuietRequest(r)
          PROVE  /\ \A q \in Requests \ {r} : pc'[q] = pc[q]
                 /\ pc'[r] # "new" /\ pc[r] # "lost"
      <4>1. CASE Evaluate(r)
        BY <4>1, ExchangeAssumption DEF Evaluate, AllActions
      <4> QED BY <3>2, <4>1 DEF QuietRequest, Receive, CountBlocked, RecordAnswer, EmitAnswer,
                CountModified, EmitPaused, ReleaseHeld, EmitRequest, RecordRequest
    <3>3. ASSUME NEW r \in Requests, QuietResponse(r)
          PROVE  /\ \A q \in Requests \ {r} : pc'[q] = pc[q]
                 /\ pc'[r] # "new" /\ pc[r] # "lost"
      <4>1. CASE Judge(r)
        BY <4>1 DEF Judge
      <4>2. CASE Lose(r)
        BY <4>2 DEF Lose, Ended
      <4> QED BY <3>3, <4>1, <4>2 DEF QuietResponse, CountResponse, CountRefused, CountRewritten,
                EmitExchange, RecordExchange, UpstreamAnswers
    <3> QED BY <1>1, <3>1, <3>2, <3>3 DEF Quiet
  <2> QED BY <2>1, <2>2
<1>2. ASSUME NEW r \in Requests, PushPending(r) PROVE \A q \in Requests :
             /\ pc'[q] = "new" => pc[q] = "new"
             /\ pc[q] = "lost" => pc'[q] = "lost"
             /\ pc[q] = "lost" /\ ~Queued(q) /\ ~Taken(q) => ~Queued(q)' /\ ~Taken(q)'
  <2>1. /\ pc[r] = "forward" /\ pc'[r] = "announcing"
        /\ \A q \in Requests \ {r} : pc'[q] = pc[q]
        /\ \A q \in Requests : Queued(q)' <=> Queued(q) \/ q = r
        /\ \A q \in Requests : Taken(q)' <=> Taken(q)
    BY <1>2, PushStep
  <2> QED BY <2>1
<1>3. ASSUME NEW r \in Requests, Pair(r) PROVE \A q \in Requests :
             /\ pc'[q] = "new" => pc[q] = "new"
             /\ pc[q] = "lost" => pc'[q] = "lost"
             /\ pc[q] = "lost" /\ ~Queued(q) /\ ~Taken(q) => ~Queued(q)' /\ ~Taken(q)'
  <2>1. PICK p \in Requests :
          /\ Queued(p)
          /\ \A q \in Requests : Queued(q)' <=> Queued(q) /\ q # p
          /\ \A q \in Requests : Taken(q)' <=> Taken(q) \/ q = p
    BY <1>3, PopStep
  <2>2. /\ pc[r] = "pairing" /\ pc'[r] = "judging"
        /\ \A q \in Requests \ {r} : pc'[q] = pc[q]
    BY <1>3, PopStep
  <2> QED BY <2>1, <2>2
<1> QED BY <1>1, <1>2, <1>3, NextIsQuietPushOrPop

\* Requests are stamped when they are announced, and never anew.
LEMMA PastStaysOver ==
    ASSUME FeedInv, Next,
           \A q \in Requests : published[q] # <<>> => published'[q] # <<>>,
           \A q \in Requests : \/ stamp'[q] = stamp[q]
                               \/ published'[q] # <<>> /\ pc'[q] # "new"
    PROVE  PastIsOver'
<1> SUFFICES ASSUME NEW q \in Requests
             PROVE  /\ pc'[q] = "new" => stamp'[q] = 0
                    /\ stamp'[q] # 0 /\ published'[q] = <<>> =>
                           pc'[q] = "lost" /\ ~Queued(q)' /\ ~Taken(q)'
  BY DEF PastIsOver
<1>1. /\ pc'[q] = "new" => pc[q] = "new"
      /\ pc[q] = "lost" => pc'[q] = "lost"
      /\ pc[q] = "lost" /\ ~Queued(q) /\ ~Taken(q) => ~Queued(q)' /\ ~Taken(q)'
  BY ExchangeLeavesBehind DEF FeedInv
<1> QED BY <1>1 DEF FeedInv, PastIsOver

LEMMA SilenceKeeps == FeedInv /\ Silence => FeedInv'
<1> SUFFICES ASSUME FeedInv, Silence PROVE FeedInv'
  OBVIOUS
<1>1. Next /\ published' = published /\ UNCHANGED <<logVars, gaps>>
  BY DEF Silence, Next, HandleRequest, HandleResponse, Receive, Evaluate, CountBlocked,
         RecordAnswer, CountModified, ReleaseHeld, PushPending, RecordRequest, CountResponse,
         Pair, Judge, CountRefused, CountRewritten, RecordExchange, UpstreamAnswers, Lose,
         ClearHistory, ResetStats
<1>2. IInv'
  BY <1>1, StepKeeps DEF FeedInv
<1>3. LogInv' /\ EventsTell'
  BY <1>1 DEF FeedInv, LogInv, FeedTypes, NoGaps, Log!RowShowsLastAppended, Log!Row, EventsTell,
              Told, Announced, logVars
<1>4. PastIsOver'
  BY <1>1, PastStaysOver DEF logVars
<1> QED BY <1>2, <1>3, <1>4 DEF FeedInv

\* One more event on the channel.
LEMMA BroadcastFacts ==
    ASSUME FeedTypes, NEW req \in Requests \union {NoRequest}, NEW done \in BOOLEAN,
           Broadcast(req, done)
    PROVE  LET n == Len(sent) + 1 IN
           /\ sent' \in Seq(Event) /\ Len(sent') = n /\ DOMAIN sent' = 1..n
           /\ sent'[n].req = req /\ sent'[n].done = done
           /\ n \notin DOMAIN sent /\ \A i \in DOMAIN sent : i \in 1..n /\ i < n /\ sent'[i] = sent[i]
           /\ \A i \in 1..n : i \in DOMAIN sent \/ i = n
           /\ stamp' \in [Requests -> Times \union {0}]
           /\ \A q \in Requests : q # req => stamp'[q] = stamp[q]
<1>1. PICK at \in Times :
        /\ sent' = Append(sent, [req |-> req, done |-> done, at |-> at])
        /\ stamp' = IF req = NoRequest THEN stamp
                    ELSE [stamp EXCEPT ![req] = IF @ = 0 THEN at ELSE @]
  BY DEF Broadcast
<1> DEFINE e == [req |-> req, done |-> done, at |-> at]
           n == Len(sent) + 1
<1>2. e \in Event /\ e.req = req /\ e.done = done
  BY DEF Event
<1>3. sent \in Seq(Event) /\ sent' = Append(sent, e)
  BY <1>1 DEF FeedTypes
<1> HIDE DEF e
<1>4. /\ sent' \in Seq(Event) /\ Len(sent) \in Nat /\ DOMAIN sent = 1..Len(sent)
      /\ Len(sent') = n /\ DOMAIN sent' = 1..n /\ sent'[n] = e
      /\ \A i \in DOMAIN sent : sent'[i] = sent[i]
  BY <1>2, <1>3, AppendFacts
<1>5. /\ stamp' \in [Requests -> Times \union {0}]
      /\ \A q \in Requests : q # req => stamp'[q] = stamp[q]
  BY <1>1, FeedAssumption DEF FeedTypes
<1>6. /\ n \notin DOMAIN sent /\ \A i \in DOMAIN sent : i \in 1..n /\ i < n
      /\ \A i \in 1..n : i \in DOMAIN sent \/ i = n
  BY <1>4
<1> QED BY <1>2, <1>4, <1>5, <1>6

LEMMA BroadcastKeepsLog ==
    ASSUME LogInv, NEW req \in Requests \union {NoRequest}, NEW done \in BOOLEAN,
           Broadcast(req, done)
    PROVE  LogInv'
<1>1. /\ FeedTypes /\ UNCHANGED <<next, appending, stored, db, gaps>>
  BY DEF LogInv, Broadcast
<1>2. /\ sent' \in Seq(Event) /\ Len(sent') = Len(sent) + 1
      /\ \A i \in DOMAIN sent : sent'[i] = sent[i]
      /\ stamp' \in [Requests -> Times \union {0}]
  BY <1>1, BroadcastFacts
<1>3. FeedTypes'
  <2>1. next \in 1..Len(sent') + 1
    BY <1>1, <1>2, FeedFacts
  <2> QED BY <1>1, <1>2, <2>1 DEF FeedTypes
<1>4. \A i \in 1..next - 1 : sent'[i] = sent[i]
  BY <1>1, <1>2, FeedFacts
<1>5. NoGaps'
  BY <1>1, <1>4 DEF LogInv, NoGaps
<1>6. Log!RowShowsLastAppended'
  <2>1. \A i \in stored : sent'[i] = sent[i] /\ Log!Row(i)' = Log!Row(i)
    BY <1>1, <1>4, FeedFacts DEF Log!Row
  <2> QED BY <1>1, <2>1 DEF LogInv, Log!RowShowsLastAppended
<1> QED BY <1>3, <1>5, <1>6 DEF LogInv

\* What an event says of its request after it was sent.
LEMMA EmissionTells ==
    ASSUME FeedInv, NEW req \in Requests, NEW resp \in Requests \union {None, Local},
           Emit(req, resp), NEW done \in BOOLEAN, done <=> resp # None, Broadcast(req, done)
    PROVE  EventsTell' /\ \A q \in Requests : published[q] # <<>> => published'[q] # <<>>
<1> DEFINE n == Len(sent) + 1    m == Len(published[req]) + 1
<1>1. /\ DOMAIN sent' = 1..n /\ sent'[n].req = req /\ sent'[n].done = done
      /\ n \notin DOMAIN sent
      /\ \A i \in DOMAIN sent : i \in 1..n /\ i < n /\ sent'[i] = sent[i]
      /\ \A i \in 1..n : i \in DOMAIN sent \/ i = n
  BY BroadcastFacts DEF FeedInv, LogInv
<1>2. /\ \A q \in Requests \ {req} : published'[q] = published[q]
      /\ Len(published'[req]) = m /\ DOMAIN published'[req] = 1..m /\ published'[req][m] = resp
      /\ m \in 1..m /\ published'[req] # <<>>
      /\ \A k \in DOMAIN published[req] : k \in 1..m /\ published'[req][k] = published[req][k]
  <2> DEFINE p == published[req]    R == Requests \union {None, Local}
  <2>1. p \in Seq(R) /\ published'[req] = Append(p, resp)
        /\ \A q \in Requests \ {req} : published'[q] = published[q]
    BY DEF Emit, FeedInv, IInv, TypeOK
  <2> HIDE DEF p, R
  <2>2. /\ Len(p) \in Nat /\ DOMAIN p = 1..Len(p) /\ resp \in R
        /\ Len(Append(p, resp)) = Len(p) + 1 /\ DOMAIN Append(p, resp) = 1..Len(p) + 1
        /\ Append(p, resp)[Len(p) + 1] = resp
        /\ \A i \in DOMAIN p : Append(p, resp)[i] = p[i]
    BY <2>1, AppendFacts DEF R
  <2>3. Len(p) + 1 \in 1..Len(p) + 1 /\ Append(p, resp) # <<>>
        /\ \A k \in DOMAIN p : k \in 1..Len(p) + 1
    BY <2>2
  <2> QED BY <2>1, <2>2, <2>3 DEF p
<1> HIDE DEF n, m
<1>3. n \in 1..n
  BY <1>1, FeedFacts DEF n, FeedInv, LogInv
<1>4. \A q \in Requests \ {req} : Announced(q)' = Announced(q)
  BY <1>1 DEF Announced
<1>5. Announced(req)' = Announced(req) \union {n}
  BY <1>1, <1>3 DEF Announced
<1>6. ASSUME NEW q \in Requests \ {req} PROVE Told(q)'
  <2>1. Told(q) /\ \A i \in Announced(q) : sent'[i] = sent[i]
    BY <1>1 DEF FeedInv, EventsTell, Announced
  <2> QED BY <1>2, <1>4, <2>1 DEF Told
<1>7. Told(req)'
  <2>1. ASSUME NEW i \in Announced(req)', sent'[i].done
        PROVE  \E k \in DOMAIN published'[req] : published'[req][k] # None
    <3>1. CASE i = n
      BY <1>1, <1>2, <2>1, <3>1
    <3>2. CASE i \in Announced(req)
      <4>1. sent[i].done
        BY <1>1, <2>1, <3>2 DEF Announced
      <4>2. \E k \in DOMAIN published[req] : published[req][k] # None
        BY <3>2, <4>1 DEF FeedInv, EventsTell, Told
      <4> QED BY <1>2, <4>2
    <3> QED BY <1>5, <3>1, <3>2
  <2>2. ASSUME NEW i \in Announced(req)', \A j \in Announced(req)' : j <= i
        PROVE  sent'[i].done <=> published'[req][Len(published'[req])] # None
    <3>1. i = n
      <4>1. n <= i
        BY <1>5, <2>2
      <4>2. i \in Announced(req) => i < n /\ i \in 1..n
        BY <1>1 DEF Announced
      <4>3. \A a, b \in Nat : ~(a < b /\ b <= a)
        OBVIOUS
      <4>4. n \in Nat
        BY FeedFacts DEF n, FeedInv, LogInv
      <4>5. i \in Announced(req) => i \in Nat
        BY <4>2, <4>4
      <4> QED BY <1>5, <4>1, <4>2, <4>3, <4>4, <4>5
    <3> QED BY <1>1, <1>2, <3>1
  <2>3. Announced(req)' # {} /\ published'[req] # <<>>
    BY <1>2, <1>5
  <2> QED BY <2>1, <2>2, <2>3 DEF Told
<1>8. \A q \in Requests : published[q] # <<>> => published'[q] # <<>>
  BY <1>2
<1> QED BY <1>6, <1>7, <1>8 DEF EventsTell

\* The guard of the timeline's Send: the handlers keep to it.
LEMMA EmissionIsExpected ==
    ASSUME FeedInv, IInv', NEW req \in Requests, NEW resp \in Requests \union {None, Local},
           Emit(req, resp), NEW done \in BOOLEAN, done <=> resp # None, Broadcast(req, done),
           pc[req] # "lost" \/ Taken(req)
    PROVE  Log!Next
<1>1. \A i \in DOMAIN sent : done => ~(sent[i].req = req /\ sent[i].done)
  <2> SUFFICES ASSUME NEW i \in DOMAIN sent, done, sent[i].req = req, sent[i].done
               PROVE  FALSE
    OBVIOUS
  <2>1. PICK k \in DOMAIN published[req] : published[req][k] # None
    BY DEF FeedInv, EventsTell, Told, Announced
  <2> DEFINE p == published[req]    R == Requests \union {None, Local}
  <2>2. p \in Seq(R) /\ published'[req] = Append(p, resp) /\ resp \in R
    BY DEF Emit, FeedInv, IInv, TypeOK
  <2> HIDE DEF p, R
  <2>3. /\ DOMAIN published'[req] = 1..Len(p) + 1 /\ Len(p) \in Nat /\ DOMAIN p = 1..Len(p)
        /\ published'[req][Len(p) + 1] = resp /\ \A j \in DOMAIN p : published'[req][j] = p[j]
    BY <2>2, AppendFacts
  <2>4. k \in 1..Len(p) + 1 /\ Len(p) + 1 \in 1..Len(p) + 1 /\ k # Len(p) + 1
        /\ published'[req][k] # None
    BY <2>1, <2>3 DEF p
  <2> QED BY <2>3, <2>4 DEF IInv, AnsweredOnce
<1>2. stamp[req] = 0 \/ \E i \in DOMAIN sent : sent[i].req = req
  BY DEF FeedInv, PastIsOver, EventsTell, Told, Announced
<1>3. PICK at \in Times :
        /\ Len(sent) < MaxEvents
        /\ sent' = Append(sent, [req |-> req, done |-> done, at |-> at])
        /\ stamp' = IF req = NoRequest THEN stamp
                    ELSE [stamp EXCEPT ![req] = IF @ = 0 THEN at ELSE @]
        /\ UNCHANGED <<next, appending, stored, db, memory, disk, count, restarts, gaps>>
  BY DEF Broadcast
<1>4. Log!Send(req, done, at)
  BY <1>1, <1>2, <1>3, FeedAssumption DEF Log!Send
<1> QED BY <1>4 DEF Log!Next

\* An announcement of the handlers is one the timeline expects, and keeps the
\* invariant.
LEMMA AnnouncementKeeps ==
    ASSUME FeedInv, Next, NEW req \in Requests, NEW resp \in Requests \union {None, Local},
           Emit(req, resp), NEW done \in BOOLEAN, done <=> resp # None, Broadcast(req, done),
           pc[req] # "lost" \/ Taken(req), pc'[req] # "new"
    PROVE  FeedInv' /\ Log!Next
<1>1. IInv'
  BY StepKeeps DEF FeedInv
<1>2. EventsTell' /\ \A q \in Requests : published[q] # <<>> => published'[q] # <<>>
  BY EmissionTells
<1>3. published'[req] # <<>>
  <2> DEFINE p == published[req]    R == Requests \union {None, Local}
  <2>1. p \in Seq(R) /\ published'[req] = Append(p, resp) /\ resp \in R
    BY DEF Emit, FeedInv, IInv, TypeOK
  <2> HIDE DEF p, R
  <2> QED BY <2>1
<1>4. \A q \in Requests : q # req => stamp'[q] = stamp[q]
  BY BroadcastFacts DEF FeedInv, LogInv
<1>5. PastIsOver'
  BY <1>2, <1>3, <1>4, PastStaysOver
<1>6. LogInv'
  BY BroadcastKeepsLog DEF FeedInv
<1> QED BY <1>1, <1>2, <1>5, <1>6, EmissionIsExpected DEF FeedInv

LEMMA EmissionKeeps == FeedInv /\ Emission => FeedInv' /\ Log!Next
<1> SUFFICES ASSUME FeedInv, Emission PROVE FeedInv' /\ Log!Next
  OBVIOUS
<1>0. /\ pc \in [Requests -> Places] /\ TypeOK /\ IInv
  BY DEF FeedInv, IInv, TypeOK, Places
<1>1. ASSUME NEW r \in Requests, EmitPaused(r) \/ EmitRequest(r), Broadcast(r, FALSE)
      PROVE  FeedInv' /\ Log!Next
  <2>1. Emit(r, None) /\ pc[r] # "lost" /\ pc'[r] # "new"
    BY <1>0, <1>1 DEF EmitPaused, EmitRequest, Goto
  <2>2. Next
    BY <1>1 DEF Next, HandleRequest
  <2> QED BY <1>1, <2>1, <2>2, AnnouncementKeeps
<1>2. ASSUME NEW r \in Requests, EmitAnswer(r), Broadcast(r, TRUE)
      PROVE  FeedInv' /\ Log!Next
  <2>1. Emit(r, Local) /\ pc[r] # "lost" /\ pc'[r] # "new" /\ Local # None
    BY <1>0, <1>2, ExchangeAssumption DEF EmitAnswer, Goto
  <2>2. Next
    BY <1>2 DEF Next, HandleRequest
  <2> QED BY <1>2, <2>1, <2>2, AnnouncementKeeps
<1>3. ASSUME NEW r \in Requests, EmitExchange(r), Broadcast(paired[r], TRUE)
      PROVE  FeedInv' /\ Log!Next
  <2>1. /\ Emit(paired[r], r) /\ pc[r] = "emitting" /\ pc' = [pc EXCEPT ![r] = "closing"]
    BY <1>3 DEF EmitExchange, Goto
  <2>2. paired[r] \in Requests /\ Taken(paired[r]) /\ r # None
    BY <1>0, <2>1, ExchangeAssumption DEF IInv, AfterPopPaired, AfterPop, TypeOK, Taken
  <2>3. pc[paired[r]] # "new"
    BY <1>0, <2>2 DEF IInv, UnknownBefore, BeforePush
  <2>4. pc'[paired[r]] # "new"
    BY <1>0, <2>1, <2>2, <2>3
  <2>5. Next
    BY <1>3 DEF Next, HandleResponse
  <2> QED BY <1>3, <2>1, <2>2, <2>4, <2>5, AnnouncementKeeps
<1>4. ASSUME NEW r \in Requests, Replay(r), Broadcast(NoRequest, TRUE)
      PROVE  FeedInv' /\ Log!Next
  <2>1. Next /\ published' = published
    BY <1>4 DEF Next, Replay
  <2>2. IInv' /\ LogInv'
    BY <1>4, <2>1, StepKeeps, BroadcastKeepsLog DEF FeedInv
  <2>3. /\ FeedTypes
        /\ \A i \in DOMAIN sent : i \in DOMAIN sent' /\ sent'[i] = sent[i]
        /\ \A i \in DOMAIN sent' : i \in DOMAIN sent \/ sent'[i].req = NoRequest
        /\ \A q \in Requests : stamp'[q] = stamp[q]
    <3> DEFINE n == Len(sent) + 1
    <3>1. FeedTypes /\ TRUE \in BOOLEAN /\ NoRequest \in Requests \union {NoRequest}
      BY DEF FeedInv, LogInv
    <3>2. /\ DOMAIN sent' = 1..n /\ sent'[n].req = NoRequest
          /\ \A i \in DOMAIN sent : i \in 1..n /\ sent'[i] = sent[i]
          /\ \A i \in 1..n : i \in DOMAIN sent \/ i = n
          /\ \A q \in Requests : q # NoRequest => stamp'[q] = stamp[q]
      BY <1>4, <3>1, BroadcastFacts
    <3> HIDE DEF n
    <3> QED BY <3>1, <3>2, FeedAssumption
  <2>4. \A q \in Requests : Announced(q)' = Announced(q)
    BY <2>3, FeedAssumption DEF Announced
  <2>5. EventsTell'
    <3> SUFFICES ASSUME NEW q \in Requests PROVE Told(q)'
      BY DEF EventsTell
    <3>1. Told(q) /\ \A i \in Announced(q) : sent'[i] = sent[i]
      BY <2>3 DEF FeedInv, EventsTell, Announced
    <3> QED BY <2>1, <2>4, <3>1 DEF Told
  <2>6. PastIsOver'
    BY <2>1, <2>3, PastStaysOver
  <2>7. PICK at \in Times : Log!SendReplay(at)
    BY <1>4 DEF Broadcast, Log!SendReplay
  <2> QED BY <2>2, <2>5, <2>6, <2>7 DEF FeedInv, Log!Next
<1> QED BY <1>1, <1>2, <1>3, <1>4 DEF Emission

\* The forwarder's steps: appends one by one, in the order of the events.
LEMMA StoringKeeps == FeedInv /\ Storing => FeedInv' /\ Log!Next
<1> SUFFICES ASSUME FeedInv, Storing PROVE FeedInv' /\ Log!Next
  OBVIOUS
<1>1. UNCHANGED vars /\ UNCHANGED <<sent, stamp>>
  BY DEF Storing, Log!Receive, Log!Commit, Log!Lag, Log!AppendFails
<1>2. IInv' /\ EventsTell' /\ PastIsOver'
  <2>1. IInv'
    BY <1>1, StepKeeps DEF FeedInv
  <2> QED BY <1>1, <2>1 DEF FeedInv, EventsTell, Told, Announced, PastIsOver, Queued, Taken, vars
<1>3. /\ FeedTypes /\ NoGaps /\ Log!RowShowsLastAppended
      /\ Len(sent) \in Nat /\ DOMAIN sent = 1..Len(sent)
      /\ next \in Nat /\ next >= 1 /\ next - 1 \in 0..Len(sent)
      /\ \A i \in stored \union appending : i \in 1..next - 1 /\ i \in 1..Len(sent)
  BY FeedFacts DEF FeedInv, LogInv
<1>4. CASE Log!Receive /\ UNCHANGED gaps
  <2>1. /\ appending = {} /\ next <= Len(sent) /\ next' = next + 1
        /\ appending' = IF sent[next].req = NoRequest THEN {} ELSE {next}
        /\ UNCHANGED <<stored, db>>
    BY <1>3, <1>4 DEF Log!Receive, Log!Oldest
  <2>2. next' - 1 = next /\ next' \in 1..Len(sent) + 1 /\ 1..next - 1 \subseteq 1..next
    BY <1>3, <2>1
  <2>3. FeedTypes'
    BY <1>1, <1>3, <1>4, <2>1, <2>2 DEF FeedTypes
  <2>4. NoGaps'
    <3> SUFFICES ASSUME ~gaps, NEW i \in 1..next, sent[i].req # NoRequest
                 PROVE  i \in stored' \union appending'
      BY <1>1, <1>4, <2>2 DEF NoGaps
    <3>1. CASE i = next
      BY <2>1, <3>1
    <3>2. CASE i # next
      <4>1. i \in 1..next - 1
        BY <1>3, <3>2
      <4> QED BY <1>3, <2>1, <4>1 DEF NoGaps
    <3> QED BY <3>1, <3>2
  <2>5. Log!RowShowsLastAppended'
    BY <1>1, <1>3, <2>1 DEF Log!RowShowsLastAppended, Log!Row
  <2> QED BY <1>2, <1>4, <2>3, <2>4, <2>5 DEF FeedInv, LogInv, Log!Next, Log!Forward
<1>5. ASSUME NEW i \in appending, Log!Commit(i), UNCHANGED gaps PROVE FeedInv' /\ Log!Next
  <2> DEFINE row == [key |-> sent[i].req, value |-> Log!Row(i)]
  <2>1. /\ appending' = appending \ {i} /\ stored' = stored \union {i} /\ UNCHANGED next
        /\ db'.events = {e \in db.events : e.key # sent[i].req} \union {row}
    BY <1>5 DEF Log!Commit, Log!Insert
  <2>2. i = next - 1 /\ i \in 1..next - 1
    BY <1>3 DEF FeedTypes
  <2>3. FeedTypes'
    BY <1>1, <1>3, <1>5, <2>1, <2>2 DEF FeedTypes
  <2>4. NoGaps'
    BY <1>1, <1>3, <1>5, <2>1 DEF NoGaps
  <2>5. Log!RowShowsLastAppended'
    <3> SUFFICES ASSUME NEW k \in stored',
                        \A j \in stored' : sent[j].req = sent[k].req => j <= k
                 PROVE  [key |-> sent[k].req, value |-> Log!Row(k)] \in db'.events
      BY <1>1 DEF Log!RowShowsLastAppended, Log!Row
    <3>1. CASE k = i
      BY <2>1, <3>1
    <3>2. CASE k # i
      <4>1. k \in stored /\ k \in 1..next - 1
        BY <1>3, <2>1, <3>2
      <4>2. sent[k].req # sent[i].req
        <5>1. i <= k => k = i
          BY <1>3, <2>2, <4>1
        <5> QED BY <2>1, <3>2, <5>1
      <4>3. [key |-> sent[k].req, value |-> Log!Row(k)] \in db.events
        BY <1>3, <2>1, <4>1 DEF Log!RowShowsLastAppended
      <4> QED BY <2>1, <4>2, <4>3
    <3> QED BY <3>1, <3>2
  <2> QED BY <1>2, <1>5, <2>3, <2>4, <2>5 DEF FeedInv, LogInv, Log!Next, Log!Forward
<1>6. CASE Log!Lag /\ gaps' = TRUE
  <2>1. /\ appending = {} /\ next < Log!Oldest /\ next' = Log!Oldest
        /\ UNCHANGED <<stored, db, appending>>
    BY <1>6 DEF Log!Lag
  <2>2. Log!Oldest \in 1..Len(sent) + 1
    BY <1>3, FeedAssumption DEF Log!Oldest
  <2>3. FeedTypes'
    <3>1. 1..next - 1 \subseteq 1..next' - 1 /\ next' \in 1..Len(sent) + 1
      BY <1>3, <2>1, <2>2
    <3> QED BY <1>1, <1>3, <1>6, <2>1, <3>1 DEF FeedTypes
  <2>4. Log!RowShowsLastAppended'
    BY <1>1, <1>3, <2>1 DEF Log!RowShowsLastAppended, Log!Row
  <2> QED BY <1>2, <1>6, <2>3, <2>4 DEF FeedInv, LogInv, NoGaps, Log!Next, Log!Forward
<1>7. ASSUME NEW i \in appending, Log!AppendFails(i), gaps' = TRUE PROVE FeedInv' /\ Log!Next
  <2>1. appending' = appending \ {i} /\ UNCHANGED <<next, stored, db>>
    BY <1>7 DEF Log!AppendFails
  <2>2. FeedTypes'
    BY <1>1, <1>3, <1>7, <2>1 DEF FeedTypes
  <2>3. Log!RowShowsLastAppended'
    BY <1>1, <1>3, <2>1 DEF Log!RowShowsLastAppended, Log!Row
  <2> QED BY <1>2, <1>7, <2>2, <2>3 DEF FeedInv, LogInv, NoGaps, Log!Next, Log!Forward
<1> QED BY <1>4, <1>5, <1>6, <1>7 DEF Storing

\* A new run starts with nothing in memory; what was announced before is over.
LEMMA RestartKeeps == FeedInv /\ ProgramRestart => FeedInv' /\ Log!Next
<1> SUFFICES ASSUME FeedInv, ProgramRestart PROVE FeedInv' /\ Log!Next
  OBVIOUS
<1>1. /\ pc' = [r \in Requests |-> IF pc[r] = "new" THEN "new" ELSE "lost"]
      /\ pending' = [h \in Hosts |-> <<>>]
      /\ paired' = [r \in Requests |-> None]
      /\ history' = <<>>
      /\ published' = [r \in Requests |-> <<>>]
      /\ stats' = NoStats /\ clears' = 0 /\ resetting' = FALSE /\ replays' = {}
      /\ sent' = <<>> /\ next' = 1 /\ appending' = {} /\ stored' = {} /\ gaps' = FALSE
      /\ UNCHANGED stamp
  BY DEF ProgramRestart, Log!Restart
<1>2. \A q \in Requests : ~Queued(q)' /\ ~Taken(q)'
  BY <1>1, ExchangeAssumption DEF Queued, Taken
<1>3. IInv'
  <2>1. /\ NoStats \in [DOMAIN NoStats -> Nat] /\ 0 \in 0..MaxClears
        /\ <<>> \in Seq([req : Requests, resp : Requests \union {None, Local}])
        /\ Len(<<>>) <= HistoryCap
    BY ExchangeAssumption DEF NoStats
  <2>2. /\ pc' \in [Requests -> {"new", "lost"}]
        /\ pending' \in [Hosts -> Seq(Requests)]
        /\ published' \in [Requests -> Seq(Requests \union {None, Local})]
        /\ paired' \in [Requests -> Requests \union {None}]
    BY <1>1
  <2>3. TypeOK'
    <3>1. pc' \in [Requests -> BeforePush \union Sent \union AfterPop \union {"done", "lost"}]
      BY <2>2 DEF BeforePush
    <3> QED BY <1>1, <2>1, <2>2, <3>1 DEF TypeOK
  <2>4. (UnpairedBefore /\ UnknownBefore /\ AfterPopPaired /\ NoRequestForgotten /\ DoneMeansPaired)'
    <3>1. \A r \in Requests : pc'[r] \in {"new", "lost"} /\ paired'[r] = None
      BY <1>1
    <3> QED BY <1>2, <3>1 DEF UnpairedBefore, UnknownBefore, AfterPopPaired, NoRequestForgotten,
                DoneMeansPaired, BeforePush, Sent, AfterPop
  <2>5. /\ \A h \in Hosts : DOMAIN pending'[h] = {}
        /\ \A q \in Requests : DOMAIN published'[q] = {} /\ paired'[q] = None
    BY <1>1
  <2>6. (QueuesByHost /\ PairedOnce /\ AnsweredOnce /\ AnswerTells)'
    BY <1>2, <2>5 DEF QueuesByHost, PairedOnce, AnsweredOnce, AnswerTells
  <2> QED BY <2>3, <2>4, <2>6 DEF IInv
<1>4. LogInv'
  <2>1. Len(sent') = 0 /\ sent' \in Seq(Event) /\ next' \in 1..Len(sent') + 1
    BY <1>1
  <2>2. FeedTypes'
    BY <1>1, <2>1 DEF FeedInv, LogInv, FeedTypes
  <2> QED BY <1>1, <2>2 DEF LogInv, NoGaps, Log!RowShowsLastAppended
<1>5. EventsTell'
  <2>1. \A q \in Requests : Announced(q)' = {} /\ published'[q] = <<>>
    BY <1>1 DEF Announced
  <2> QED BY <2>1 DEF EventsTell, Told
<1>6. PastIsOver'
  BY <1>1, <1>2 DEF PastIsOver, FeedInv
<1> QED BY <1>3, <1>4, <1>5, <1>6 DEF FeedInv, ProgramRestart, Log!Next

LEMMA FeedStarts == FeedInit => FeedInv
<1> SUFFICES ASSUME FeedInit PROVE FeedInv
  OBVIOUS
<1>1. IInv
  BY InitEstablishes DEF FeedInit
<1>2. /\ \A q \in Requests : published[q] = <<>> /\ stamp[q] = 0
      /\ sent = <<>> /\ next = 1 /\ appending = {} /\ stored = {} /\ gaps = FALSE
      /\ stamp \in [Requests -> Times \union {0}]
  BY DEF FeedInit, Init, Log!Init
<1>3. LogInv
  <2>1. Len(sent) = 0 /\ sent \in Seq(Event) /\ next \in 1..Len(sent) + 1
    BY <1>2
  <2>2. FeedTypes
    BY <1>2, <2>1 DEF FeedTypes
  <2>3. 1..next - 1 = {}
    BY <1>2
  <2> QED BY <1>2, <2>2, <2>3 DEF LogInv, NoGaps, Log!RowShowsLastAppended
<1>4. EventsTell /\ PastIsOver
  <2>1. \A q \in Requests : Announced(q) = {}
    BY <1>2 DEF Announced
  <2> QED BY <1>2, <2>1 DEF EventsTell, Told, PastIsOver
<1> QED BY <1>1, <1>3, <1>4 DEF FeedInv

\* Every step is one of the timeline's, or none to it.
LEMMA FeedStep == FeedInv /\ [FeedNext]_feedVars => FeedInv' /\ [Log!Next]_logVars
<1> SUFFICES ASSUME FeedInv, [FeedNext]_feedVars PROVE FeedInv' /\ [Log!Next]_logVars
  OBVIOUS
<1>1. CASE Silence
  BY <1>1, SilenceKeeps DEF Silence
<1>2. CASE UNCHANGED feedVars
  <2>1. UNCHANGED vars /\ UNCHANGED <<logVars, gaps>>
    BY <1>2 DEF feedVars
  <2>2. IInv'
    BY <2>1, StepKeeps DEF FeedInv
  <2> QED BY <2>1, <2>2 DEF FeedInv, LogInv, FeedTypes, NoGaps, Log!RowShowsLastAppended, Log!Row,
             EventsTell, Told, Announced, PastIsOver, Queued, Taken, logVars, vars
<1> QED BY <1>1, <1>2, EmissionKeeps, StoringKeeps, RestartKeeps DEF FeedNext

\* The latest event of an announced request was received, hence stored.
LEMMA RowsFollow == FeedInv => RowsAreAnnounced
<1> SUFFICES ASSUME FeedInv, ~gaps, next > Len(sent), appending = {},
                    NEW q \in Requests, published[q] # <<>>
             PROVE  [key |-> q,
                     value |-> [req |-> q, done |-> published[q][Len(published[q])] # None]]
                        \in db.events
  BY DEF RowsAreAnnounced
<1>1. /\ FeedTypes /\ NoGaps /\ Log!RowShowsLastAppended /\ Told(q)
      /\ Len(sent) \in Nat /\ DOMAIN sent = 1..Len(sent) /\ next - 1 = Len(sent)
      /\ \A i \in stored : i \in 1..Len(sent)
      /\ \A i \in 1..Len(sent) : sent[i].done \in BOOLEAN
  <2>1. FeedTypes /\ NoGaps /\ Log!RowShowsLastAppended /\ Told(q)
    BY DEF FeedInv, LogInv, EventsTell
  <2> QED BY <2>1, FeedFacts DEF Event
<1>2. PICK i \in Announced(q) : \A j \in Announced(q) : j <= i
  <2> DEFINE n == Len(sent)    back == {n - j : j \in Announced(q)}
  <2>1. back \in SUBSET Nat /\ back # {} /\ Announced(q) \subseteq 1..n
    BY <1>1 DEF Told, Announced
  <2>2. PICK d \in back : \A e \in back : d <= e
    BY <2>1, Least
  <2>3. PICK i \in Announced(q) : d = n - i
    BY <2>2
  <2>4. ASSUME NEW j \in Announced(q) PROVE j <= i
    <3>1. n - i <= n - j
      BY <2>2, <2>3
    <3> QED BY <1>1, <2>1, <3>1
  <2> QED BY <2>3, <2>4
<1>3. i \in stored /\ sent[i].req = q
  BY <1>1, <1>2, FeedAssumption DEF NoGaps, Announced
<1>4. [key |-> q, value |-> [req |-> q, done |-> sent[i].done]] \in db.events
  <2>1. \A j \in stored : sent[j].req = sent[i].req => j <= i
    BY <1>1, <1>2, <1>3 DEF Announced
  <2> QED BY <1>1, <1>3, <2>1 DEF Log!RowShowsLastAppended, Log!Row
<1>5. sent[i].done = (published[q][Len(published[q])] # None)
  <2>1. sent[i].done <=> published[q][Len(published[q])] # None
    BY <1>1, <1>2 DEF Told
  <2> QED BY <1>1, <1>3, <2>1
<1> QED BY <1>4, <1>5
-----------------------------------------------------------------------------
\* Every reachable state has the types of TypeOK; the history ring never holds
\* more than HistoryCap entries.
THEOREM TypeCorrect == Spec => []TypeOK
BY InvariantHolds, PTL DEF IInv

\* No request is given to two responses, whatever the interleaving.
THEOREM NoRequestIsSharedByResponses == Spec => []PairedOnce
BY InvariantHolds, PTL DEF IInv

\* PENDING files each request once, under its own host.
THEOREM QueuesAreByHost == Spec => []QueuesByHost
BY InvariantHolds, PTL DEF IInv

\* A request handed upstream stays in its queue until a response takes it.
THEOREM RequestsAreKept == Spec => []NoRequestForgotten
BY InvariantHolds, PTL DEF IInv

\* handle_response always finds a request in PENDING.
THEOREM EveryResponseIsPaired == Spec => []ResponseFindsARequest
BY InvariantHolds, SomeQueueIsNotEmpty, PTL

\* At most one event carries a response for a request.
THEOREM EveryRequestIsAnsweredOnce == Spec => []AnsweredOnce
BY InvariantHolds, PTL DEF IInv

\* Once every exchange has ended regularly, PENDING is empty.
THEOREM PendingDrains == Spec => []IdleMeansDrained
BY InvariantHolds, NothingIsLeft, PTL

\* Until the first clear_history, no counter counts a response or an intervention
\* that is not of a request or a response counted before.
THEOREM CountersStayConsistent == Spec => []CountersAgree
<1>1. Spec => []CounterInv
  BY CountersStart, CountersStep, TypeCorrect, PTL DEF Spec
<1> QED BY <1>1, CounterInvGivesAgreement, TypeCorrect, PTL

\* With the timeline listening: what the handlers emit, and a restart at any
\* point, are steps of Timeline's specification.
THEOREM HandlersFeedTheTimeline == FeedSpec => TimelineIsFed
<1>1. FeedSpec => []FeedInv
  BY FeedStarts, FeedStep, PTL DEF FeedSpec
<1>2. FeedInit => Log!Init
  BY DEF FeedInit
<1> QED BY <1>1, <1>2, FeedStep, PTL DEF FeedSpec, TimelineIsFed

\* Once the forwarder has caught up without a gap, the timeline shows of every
\* request announced in this run whether it was answered.
THEOREM TheTimelineShowsWhatWasAnnounced == FeedSpec => []RowsAreAnnounced
<1>1. FeedSpec => []FeedInv
  BY FeedStarts, FeedStep, PTL DEF FeedSpec
<1> QED BY <1>1, RowsFollow, PTL
=============================================================================
