--------------------------- MODULE MCInterception ----------------------------
(***************************************************************************)
(* Small instances of what decides over an exchange on its way: the rules   *)
(* engine, with rules whose ids, priorities and regexes coincide; and the   *)
(* hold of a Pause rule, with two exchanges and two concurrent resumes.     *)
(*                                                                         *)
(* They share no state: in every behaviour one part moves and the other     *)
(* stays as it was made.  Fairness is asked of the handlers that hold.      *)
(***************************************************************************)
EXTENDS RulesEngine, PauseResume

CONSTANTS a, b, good, bad, none, c, x1, x2, e1, r1, r2, c1, c2, m1, m2

R(id, p, re, d) ==
    [id |-> id, priority |-> p, enabled |-> TRUE, regex |-> re, direction |-> d, cond |-> c]

MCRegexHits == [r \in {good, bad} |-> {x1}]
MCCondHits == [k \in {c} |-> {<<"request", x1>>, <<"response", x1>>, <<"request", x2>>}]

\* Two priorities, a tie, an invalid regex, one rule per direction.
MCSubmitted ==
    {R(a, 1, good, "both"), R(a, 2, bad, "request"),
     R(b, 1, none, "request"), R(b, 2, good, "response")}

VARIABLE part   \* the part that moves

InterceptionInit == part \in {"rules", "pause"} /\ Init /\ PauseInit

InterceptionNext ==
    /\ UNCHANGED part
    /\ \/ part = "rules" /\ Next /\ UNCHANGED pauseVars
       \/ part = "pause" /\ PauseNext /\ UNCHANGED vars

InterceptionSpec ==
    /\ InterceptionInit /\ [][InterceptionNext]_<<part, vars, pauseVars>>
    /\ PauseFairness
=============================================================================
