------------------------------ MODULE MessageBus ------------------------------
(***************************************************************************)
(* One topic of the kernel's message bus, its subscribers and its streams   *)
(* (SimpleMessageBus in packages/frontend/src/kernel/KernelBootstrap.ts).   *)
(* Topics share nothing, so one stands for all.  Payloads are numbered in   *)
(* the order they are published.                                            *)
(*                                                                         *)
(* A stream is an async generator: nothing of it runs before its consumer   *)
(* asks for the first item, and a consumer can only leave it where it       *)
(* yields.                                                                  *)
(***************************************************************************)
EXTENDS Naturals, Sequences, SequencesExt, Ordering

CONSTANTS
    Handlers,       \* plain subscribers
    Streams,        \* consumers of the topic as a stream
    MaxPublished    \* bound: payloads published

\* A stream subscribes a handler of its own.
ASSUME BusAssumption ==
    /\ Handlers \intersect Streams = {}
    /\ MaxPublished \in Nat

VARIABLES
    subscribers,    \* the handlers of the topic, in the order they subscribed
    stream,         \* per stream: where it is, its queue, what it has yielded,
                    \* and how much was published before it subscribed
    published,      \* payloads published
    aborted         \* history: publishes that a handler's exception cut short

busVars == <<subscribers, stream, published, aborted>>

BusInit ==
    /\ subscribers = <<>>
    /\ stream = [s \in Streams |-> [at |-> "new", queue |-> <<>>, got |-> <<>>, since |-> 0]]
    /\ published = 0
    /\ aborted = {}
-----------------------------------------------------------------------------
Added(h) == IF h \in ToSet(subscribers) THEN subscribers ELSE Append(subscribers, h)

Subscribe(h) ==
    /\ h \notin ToSet(subscribers)
    /\ subscribers' = Added(h)
    /\ UNCHANGED <<stream, published, aborted>>

Unsubscribe(h) ==
    /\ h \in ToSet(subscribers)
    /\ subscribers' = Without(subscribers, h)
    /\ UNCHANGED <<stream, published, aborted>>

\* The handlers called by one publish: all, or those up to the first that
\* throws, which ends the `map' over them; a stream's handler never does.
Reached(throwing) ==
    LET throws == {i \in DOMAIN subscribers : subscribers[i] \in throwing}
    IN IF throws = {} THEN subscribers
       ELSE SubSeq(subscribers, 1, CHOOSE i \in throws : \A j \in throws : i <= j)

Publish(throwing) ==
    /\ published < MaxPublished
    /\ published' = published + 1
    /\ aborted' = IF throwing \intersect ToSet(subscribers) = {} THEN aborted
                  ELSE aborted \union {published + 1}
    /\ stream' = [s \in Streams |->
                    IF s \in ToSet(Reached(throwing))
                      THEN [stream[s] EXCEPT !.queue = Append(@, published + 1)]
                      ELSE stream[s]]
    /\ UNCHANGED subscribers
-----------------------------------------------------------------------------
(* stream(). *)

StartStream(s) ==
    /\ stream[s].at = "new"
    /\ subscribers' = Added(s)
    /\ stream' = [stream EXCEPT ![s].at = "polling", ![s].since = published]
    /\ UNCHANGED <<published, aborted>>

\* For the mutant of Yield: the newest item is taken.
YieldNewest(s) ==
    /\ stream[s].at = "polling"
    /\ stream[s].queue # <<>>
    /\ stream' = [stream EXCEPT ![s].at = "yielded",
                                ![s].got = Append(@, Last(stream[s].queue)),
                                ![s].queue = Front(@)]
    /\ UNCHANGED <<subscribers, published, aborted>>

\* The loop looks at its queue, every 10 ms while there is nothing in it.
Yield(s) ==
    /\ stream[s].at = "polling"
    /\ stream[s].queue # <<>>
    /\ stream' = [stream EXCEPT ![s].at = "yielded",
                                ![s].got = Append(@, Head(stream[s].queue)),
                                ![s].queue = Tail(@)]
    /\ UNCHANGED <<subscribers, published, aborted>>

Pull(s) ==
    /\ stream[s].at = "yielded"
    /\ stream' = [stream EXCEPT ![s].at = "polling"]
    /\ UNCHANGED <<subscribers, published, aborted>>

\* The consumer leaves its loop: the `finally' unsubscribes.
Leave(s) ==
    /\ stream[s].at = "yielded"
    /\ stream' = [stream EXCEPT ![s].at = "left", ![s].queue = <<>>, ![s].got = <<>>]
    /\ subscribers' = Without(subscribers, s)
    /\ UNCHANGED <<published, aborted>>

BusNext ==
    \/ \E h \in Handlers : Subscribe(h) \/ Unsubscribe(h)
    \/ \E throwing \in SUBSET Handlers : Publish(throwing)
    \/ \E s \in Streams : StartStream(s) \/ Yield(s) \/ Pull(s) \/ Leave(s)

BusSpec == BusInit /\ [][BusNext]_busVars
-----------------------------------------------------------------------------
\* The types of the variables; a stream is subscribed while it runs.
BusTypeOK ==
    /\ IsInjective(subscribers)
    /\ published \in 0..MaxPublished
    /\ aborted \subseteq 1..published
    /\ \A s \in Streams :
          /\ stream[s].at \in {"new", "polling", "yielded", "left"}
          /\ stream[s].at \in {"polling", "yielded"} <=> s \in ToSet(subscribers)

\* From its consumer's first pull on, a stream has yielded or holds every
\* payload published, once and in order, however publishing and polling
\* interleave; but for a publish that another subscriber's exception cut short.
StreamsLoseNothing ==
    \A s \in Streams : stream[s].at \in {"polling", "yielded"} =>
        LET all == stream[s].got \o stream[s].queue
        IN /\ \A i, j \in DOMAIN all : i < j => all[i] < all[j]
           /\ (stream[s].since + 1)..published \ aborted \subseteq ToSet(all)
=============================================================================
