-------------------------- MODULE MCProxyExchange --------------------------
(***************************************************************************)
(* Small instances of ProxyExchange, alone and with the timeline it feeds:  *)
(* two requests, each to a host of its own.                                 *)
(*                                                                         *)
(* `part' chooses what moves: the handlers alone, with every rule action; or *)
(* handlers and timeline, with fewer ways through the handlers.             *)
(***************************************************************************)
EXTENDS ExchangeTimeline

CONSTANTS
    r1, r2, h1, h2,
    FedPlaces   \* bound: where handlers may be when both move

VARIABLE part

MCHostOf == [r \in Requests |-> IF r = r1 THEN h1 ELSE h2]
MCOrder == [r \in Requests |-> IF r = r1 THEN 1 ELSE 2]

MCInit == FeedInit /\ part \in {"exchange", "both"}

\* Nothing is stored then.
ExchangeMoves ==
    /\ part = "exchange"
    /\ Next
    /\ gaps' = TRUE
    /\ UNCHANGED <<logVars, part>>

BothMove ==
    /\ part = "both"
    /\ FeedNext
    /\ \A r \in Requests : pc'[r] \in FedPlaces
    /\ clears' = 0
    /\ UNCHANGED part

MCNext == ExchangeMoves \/ BothMove

MCSpec == MCInit /\ [][MCNext]_<<feedVars, part>>
=============================================================================
