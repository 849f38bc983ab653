---------------------------- MODULE RulesEngine ----------------------------
(***************************************************************************)
(* The interception rules engine (src-tauri/src/rules_engine.rs): an       *)
(* ordered list of rules behind one RwLock, a cache of compiled regular    *)
(* expressions behind another, edit operations issued by UI commands and   *)
(* evaluations issued by the proxy's request and response handlers.        *)
(*                                                                         *)
(* An edit holds the write lock of `rules' across two steps: it changes    *)
(* the list, then (except toggle_rule) awaits the write lock of            *)
(* `compiled_regexes' and replaces the cache.  An evaluation holds the     *)
(* read lock of `rules' while it looks at one rule per step.               *)
(*                                                                         *)
(* Every condition of a rule except its URL regex (glob, method, headers,  *)
(* content type) is a member of Conds; which exchanges satisfy it is the   *)
(* constant CondHits.  Evaluations look a regex up even where the code     *)
(* has already refused the rule by its glob, which only adds lookups.      *)
(***************************************************************************)
EXTENDS Integers, Sequences, FiniteSets, SequencesExt

CONSTANTS
    Ids,            \* rule identifiers, chosen by the client and not checked
    Priorities,     \* i32 priorities
    Regexes,        \* url_regex strings
    ValidRegexes,   \* those Regex::new accepts
    NoRegex,        \* url_regex = None
    Conds,          \* the remaining match conditions of a rule, as one value
    Traffic,        \* exchanges that are evaluated
    RegexHits,      \* RegexHits[x]: the traffic whose URL matches regex x
    CondHits,       \* CondHits[c]: the <<phase, exchange>> pairs c accepts
    Submitted,      \* the rules a client may submit
    Evaluators,     \* handler tasks that evaluate rules
    NoVerdict,      \* evaluation returned None
    MaxRules,       \* bound: rules in the list
    MaxReorder      \* bound: length of the id list given to reorder_rules

Phases == {"request", "response"}
Directions == Phases \cup {"both"}

Rule == [id: Ids, priority: Priorities, enabled: BOOLEAN,
         regex: Regexes \cup {NoRegex}, direction: Directions, cond: Conds]

ASSUME RulesAssumption ==
    /\ Priorities \subseteq Int
    /\ ValidRegexes \subseteq Regexes
    /\ NoRegex \notin Regexes
    /\ Submitted \subseteq Rule
    /\ NoVerdict \notin Rule
    /\ MaxRules \in Nat
    /\ MaxReorder \in Nat

VARIABLES
    rules,      \* Vec<InterceptRule>
    compiled,   \* the keys of compiled_regexes
    editing,    \* a writer holds `rules' and has the cache still to replace
    eval,       \* the evaluation each handler task is in
    custom      \* history: the list was last arranged by reorder_rules

vars == <<rules, compiled, editing, eval, custom>>

-----------------------------------------------------------------------------
(* Pure parts: ordering, matching, compiling. *)

\* Arrange(s, I, key) is the sequence of the elements of s at the positions
\* in I, by increasing key; equal keys keep their relative order.
Before(key, i, j) == key[i] < key[j] \/ (key[i] = key[j] /\ i <= j)

Rank(I, key, i) == Cardinality({j \in I : Before(key, j, i)})

Arrange(s, I, key) ==
    [k \in 1..Cardinality(I) |-> s[CHOOSE i \in I : Rank(I, key, i) = k]]

\* Vec::sort_by is a stable sort; b.priority.cmp(&a.priority) is descending.
SortRules(s) == Arrange(s, DOMAIN s, [i \in DOMAIN s |-> -s[i].priority])

IdentityOrder(s) == [i \in DOMAIN s |-> i]

\* The place reorder_rules moves position i to: the n-th rule that carries an
\* id goes to the n-th mention of that id, and rules that are not mentioned
\* (or not often enough) follow in their old order.
Slot(s, ids, i) ==
    LET nth      == Cardinality({j \in 1..i : s[j].id = s[i].id})
        mentions == {p \in DOMAIN ids :
                        /\ ids[p] = s[i].id
                        /\ Cardinality({q \in 1..p : ids[q] = s[i].id}) = nth}
    IN  IF mentions = {} THEN Len(ids) + i ELSE CHOOSE p \in mentions : TRUE

\* For the mutant of Reordered: rules that are not mentioned are dropped.
ReorderedDropping(s, ids) ==
    LET kept == {i \in DOMAIN s : Slot(s, ids, i) <= Len(ids)}
    IN  Arrange(s, kept, [i \in DOMAIN s |-> Slot(s, ids, i)])

Reordered(s, ids) ==
    Arrange(s, DOMAIN s, [i \in DOMAIN s |-> Slot(s, ids, i)])

\* The same as the code does it: for each id in turn the first rule of that id
\* moves out of the old list, and what is left follows in the end.
Move(lists, id) ==
    LET at == {i \in DOMAIN lists.left : lists.left[i].id = id}
        first == CHOOSE i \in at : \A j \in at : i <= j
    IN  IF at = {} THEN lists
        ELSE [moved |-> Append(lists.moved, lists.left[first]),
              left |-> RemoveAt(lists.left, first)]

Moves(s, ids) ==
    LET after[n \in 0..Len(ids)] ==
            IF n = 0 THEN [moved |-> <<>>, left |-> s] ELSE Move(after[n-1], ids[n])
    IN  after

LoopReordered(s, ids) ==
    Moves(s, ids)[Len(ids)].moved \o Moves(s, ids)[Len(ids)].left

RegexesOf(s) == {s[i].regex : i \in DOMAIN s} \ {NoRegex}

\* compile_regexes: one entry per distinct regex that compiles.
CompiledOf(s) == RegexesOf(s) \cap ValidRegexes

DirectionOk(r, phase) == r.direction \in {phase, "both"}

\* matches(), for a rule whose regex lookup is settled.
Applies(r, phase, x) ==
    /\ r.enabled
    /\ DirectionOk(r, phase)
    /\ r.regex # NoRegex => r.regex \in ValidRegexes /\ x \in RegexHits[r.regex]
    /\ <<phase, x>> \in CondHits[r.cond]
-----------------------------------------------------------------------------
Idle == [pc |-> "idle"]

Init ==
    /\ rules = <<>>
    /\ compiled = {}
    /\ editing = FALSE
    /\ eval = [e \in Evaluators |-> Idle]
    /\ custom = FALSE

NoReaders == \A e \in Evaluators : eval[e].pc # "scan"

\* For the mutant of WriteGranted: an edit does not wait for evaluations.
WriteGrantedOverReaders == ~editing

\* rules.write().await is granted.
WriteGranted == ~editing /\ NoReaders

\* The positions of the rules named id, and the first of them.
Named(id) == {i \in DOMAIN rules : rules[i].id = id}
FirstNamed(id) == CHOOSE i \in Named(id) : \A j \in Named(id) : i <= j

AddRule(r) ==
    /\ WriteGranted
    /\ Len(rules) < MaxRules
    /\ rules' = SortRules(Append(rules, r))
    /\ editing' = TRUE
    /\ custom' = FALSE
    /\ UNCHANGED <<compiled, eval>>

\* For the mutant of UpdateRule: the cache is not rebuilt.
UpdateRuleUncompiled(id, r) ==
    /\ WriteGranted
    /\ Named(id) # {}
    /\ rules' = SortRules([rules EXCEPT ![FirstNamed(id)] = r])
    /\ custom' = FALSE
    /\ UNCHANGED <<compiled, editing, eval>>

\* "Rule not found" changes nothing and is not an action.
UpdateRule(id, r) ==
    /\ WriteGranted
    /\ Named(id) # {}
    /\ rules' = SortRules([rules EXCEPT ![FirstNamed(id)] = r])
    /\ editing' = TRUE
    /\ custom' = FALSE
    /\ UNCHANGED <<compiled, eval>>

\* retain(|r| r.id != id): every rule of that id goes, the order stays.
DeleteRule(id) ==
    /\ WriteGranted
    /\ rules' = Arrange(rules, DOMAIN rules \ Named(id), IdentityOrder(rules))
    /\ editing' = TRUE
    /\ UNCHANGED <<compiled, eval, custom>>

\* For the mutant of ToggleRule: the re-sort is forgotten.
ToggleRuleUnsorted(id, enabled) ==
    /\ WriteGranted
    /\ Named(id) # {}
    /\ rules' = [rules EXCEPT ![FirstNamed(id)].enabled = enabled]
    /\ custom' = FALSE
    /\ UNCHANGED <<compiled, editing, eval>>

\* Only the first rule of that id; the list is sorted again, the cache kept.
ToggleRule(id, enabled) ==
    /\ WriteGranted
    /\ Named(id) # {}
    /\ rules' = SortRules([rules EXCEPT ![FirstNamed(id)].enabled = enabled])
    /\ custom' = FALSE
    /\ UNCHANGED <<compiled, editing, eval>>

ReorderRules(ids) ==
    /\ WriteGranted
    /\ rules' = Reordered(rules, ids)
    /\ editing' = TRUE
    /\ custom' = TRUE
    /\ UNCHANGED <<compiled, eval>>

\* The second half of an edit: the new cache is stored, the lock released.
CompileRegexes ==
    /\ editing
    /\ compiled' = CompiledOf(rules)
    /\ editing' = FALSE
    /\ UNCHANGED <<rules, eval, custom>>
-----------------------------------------------------------------------------
(* evaluate_request and evaluate_response: one rule per step. *)

Begin(e, phase, x) ==
    /\ eval[e].pc \in {"idle", "done"}
    /\ ~editing
    /\ eval' = [eval EXCEPT ![e] = [pc |-> "scan", phase |-> phase, item |-> x, at |-> 1]]
    /\ UNCHANGED <<rules, compiled, editing, custom>>

Finish(e, v) ==
    eval' = [eval EXCEPT ![e] = [pc |-> "done", phase |-> @.phase, item |-> @.item, verdict |-> v]]

\* The regex of the current rule is wanted and not in the cache.
Missing(r, phase) ==
    r.enabled /\ DirectionOk(r, phase) /\ r.regex \in ValidRegexes /\ r.regex \notin compiled

\* The current rule either decides the evaluation or is passed over.  The
\* code returns the rule's action; the model keeps the whole rule.  A regex
\* missing from the cache would send the code into the "compile if not cached"
\* branch, which inserts it; EvaluationNeverMisses shows that branch dead, and
\* it has no action here (an evaluation that missed would be stuck).
Scan(e) ==
    LET v == eval[e] IN
    /\ v.pc = "scan"
    /\ v.at <= Len(rules)
    /\ ~Missing(rules[v.at], v.phase)
    /\ IF Applies(rules[v.at], v.phase, v.item)
         THEN Finish(e, rules[v.at])
         ELSE eval' = [eval EXCEPT ![e].at = @ + 1]
    /\ UNCHANGED <<rules, compiled, editing, custom>>

ScanEnd(e) ==
    LET v == eval[e] IN
    /\ v.pc = "scan"
    /\ v.at > Len(rules)
    /\ Finish(e, NoVerdict)
    /\ UNCHANGED <<rules, compiled, editing, custom>>
-----------------------------------------------------------------------------
Edit ==
    \/ \E r \in Submitted : AddRule(r)
    \/ \E id \in Ids, r \in Submitted : UpdateRule(id, r)
    \/ \E id \in Ids : DeleteRule(id)
    \/ \E id \in Ids, b \in BOOLEAN : ToggleRule(id, b)
    \/ \E n \in 0..MaxReorder : \E ids \in [1..n -> Ids] : ReorderRules(ids)
    \/ CompileRegexes

Evaluate(e) ==
    \/ \E phase \in Phases, x \in Traffic : Begin(e, phase, x)
    \/ Scan(e)
    \/ ScanEnd(e)

Next == Edit \/ \E e \in Evaluators : Evaluate(e)

Spec == Init /\ [][Next]_vars
-----------------------------------------------------------------------------
Evaluation ==
    {Idle}
      \cup [pc: {"scan"}, phase: Phases, item: Traffic, at: Nat \ {0}]
      \cup [pc: {"done"}, phase: Phases, item: Traffic, verdict: Rule \cup {NoVerdict}]

\* The types of the variables.
TypeOK ==
    /\ rules \in Seq(Rule)
    /\ compiled \subseteq Regexes
    /\ editing \in BOOLEAN
    /\ eval \in [Evaluators -> Evaluation]
    /\ custom \in BOOLEAN

\* Whenever no edit is between its two halves, the cache holds exactly the
\* valid regexes of the rules in the list: toggle_rule may skip the rebuild
\* and no edit leaves a stale entry behind (rules_engine.rs, 85-142, 248-260).
CacheCoherent == ~editing => compiled = CompiledOf(rules)

\* The "compile if not cached" branch of matches(), which takes the cache's
\* write lock while other evaluations hold its read lock, is never taken: an
\* evaluation that holds the rule list finds every valid regex cached.
EvaluationNeverMisses ==
    \A e \in Evaluators :
        eval[e].pc = "scan" /\ eval[e].at <= Len(rules)
            => ~Missing(rules[eval[e].at], eval[e].phase)

\* The list cannot change under a running evaluation: every rule it has passed
\* is one that does not apply to its exchange, so the first rule it accepts is
\* the first of the list that applies (evaluate_request, evaluate_response).
PassedRulesDoNotApply ==
    \A e \in Evaluators :
        eval[e].pc = "scan" =>
            /\ ~editing
            /\ eval[e].at <= Len(rules) + 1
            /\ \A i \in 1..(eval[e].at - 1) : ~Applies(rules[i], eval[e].phase, eval[e].item)

\* sort_rules' promise, "highest first", holds from every add, update and
\* toggle until the next reorder_rules.
SortedUnlessReordered ==
    ~custom => \A i, j \in DOMAIN rules : i < j => rules[i].priority >= rules[j].priority

\* reorder_rules' loop, on any list of rules and whatever ids it is given (also
\* unknown ones and ids given twice), keeps every rule once and puts the n-th
\* rule of an id where the id is mentioned for the n-th time.
ReorderIsTheLoop ==
    \A n \in 0..MaxReorder : \A ids \in [1..n -> Ids] :
        Reordered(rules, ids) = LoopReordered(rules, ids)
-----------------------------------------------------------------------------
(* The engine as the handlers see it. *)

Accepts == {t \in Rule \X Phases \X Traffic : Applies(t[1], t[2], t[3])}

\* An evaluation under way is a question not decided yet.
Question(v) ==
    CASE v.pc = "idle" -> [state |-> "none"]
      [] v.pc = "scan" -> [state |-> "asked", phase |-> v.phase, item |-> v.item]
      [] v.pc = "done" -> [state |-> "decided", phase |-> v.phase, item |-> v.item,
                           verdict |-> v.verdict]

Decisions == INSTANCE RuleDecisions WITH
    list <- rules,
    question <- [e \in Evaluators |-> Question(eval[e])]

\* However edits and evaluations interleave, each evaluation that looks at one
\* rule after the other, and at the cache, decides as if it had looked at the
\* whole list at one moment (evaluate_request, evaluate_response, matches).
DecidesAtOnce == Decisions!DecisionSpec
=============================================================================
