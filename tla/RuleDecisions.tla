--------------------------- MODULE RuleDecisions ---------------------------
(***************************************************************************)
(* What the rules engine promises the proxy's handlers, without its locks, *)
(* its cache or its loop over the rules: the user's list may change at any *)
(* moment, and every question of a handler is decided in one step, by the  *)
(* first rule of the list of that moment that applies.                     *)
(***************************************************************************)
EXTENDS Naturals, Sequences

CONSTANTS
    Rule,       \* interception rules
    Phases,     \* request or response
    Traffic,    \* exchanges a handler asks about
    Evaluators, \* handler tasks
    NoVerdict,  \* no rule applies
    Accepts     \* the <<rule, phase, exchange>> triples where the rule applies

VARIABLES
    list,       \* the rules in force, in their order
    question    \* what each handler has asked, and the answer it got

decisionVars == <<list, question>>

NoQuestion == [state |-> "none"]

DecisionInit ==
    /\ list = <<>>
    /\ question = [e \in Evaluators |-> NoQuestion]

Change == list' \in Seq(Rule) /\ UNCHANGED question

Ask(e, phase, x) ==
    /\ question[e].state # "asked"
    /\ question' = [question EXCEPT ![e] = [state |-> "asked", phase |-> phase, item |-> x]]
    /\ UNCHANGED list

\* The first rule of s that applies to x, or none.
Verdict(s, phase, x) ==
    LET accepting == {i \in DOMAIN s : <<s[i], phase, x>> \in Accepts}
    IN  IF accepting = {} THEN NoVerdict
        ELSE s[CHOOSE i \in accepting : \A j \in accepting : i <= j]

Decide(e) ==
    /\ question[e].state = "asked"
    /\ question' = [question EXCEPT ![e] =
         [state |-> "decided", phase |-> @.phase, item |-> @.item,
          verdict |-> Verdict(list, @.phase, @.item)]]
    /\ UNCHANGED list

DecisionNext ==
    \/ Change
    \/ \E e \in Evaluators :
          Decide(e) \/ \E phase \in Phases, x \in Traffic : Ask(e, phase, x)

DecisionSpec == DecisionInit /\ [][DecisionNext]_decisionVars
=============================================================================
