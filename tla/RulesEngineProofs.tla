------------------------- MODULE RulesEngineProofs -------------------------
(***************************************************************************)
(* Proofs about RulesEngine, for every set of rules, every cache and every *)
(* number of evaluations.  The first part is about Arrange, from which the *)
(* sort, the reordering and the deletion are built: it visits the chosen   *)
(* positions once each, in the order of their keys.  The second part       *)
(* derives the coherence of the regex cache, the absence of cache misses   *)
(* and the order of the rule list.  The third shows that an evaluation     *)
(* decides as RuleDecisions says, in one step, and the last that the       *)
(* closed form of the reordering is what the loop of reorder_rules leaves. *)
(***************************************************************************)
EXTENDS RulesEngine, FiniteSetTheorems, FunctionTheorems, SequenceTheorems, WellFoundedInduction, TLAPS

\* Ranks are places 1..Cardinality(I), and they follow the order of the keys.
LEMMA RankProperties ==
    ASSUME NEW I \in SUBSET Int, IsFiniteSet(I),
           NEW key, \A i \in I : key[i] \in Int
    PROVE  /\ \A i \in I : Rank(I, key, i) \in 1..Cardinality(I)
           /\ \A i, j \in I : i # j /\ Before(key, i, j) => Rank(I, key, i) < Rank(I, key, j)
<1> DEFINE B(i) == {j \in I : Before(key, j, i)}
<1>1. \A i \in I : /\ B(i) \in SUBSET I
                   /\ i \in B(i)
                   /\ IsFiniteSet(B(i))
                   /\ Cardinality(B(i)) \in Nat
                   /\ Cardinality(I) \in Nat
                   /\ Cardinality(B(i)) <= Cardinality(I)
                   /\ Cardinality(B(i)) # 0
  <2> TAKE i \in I
  <2>1. B(i) \in SUBSET I /\ i \in B(i)
    BY DEF Before
  <2>2. IsFiniteSet(B(i)) /\ Cardinality(B(i)) <= Cardinality(I)
    BY <2>1, FS_Subset
  <2>3. Cardinality(B(i)) \in Nat /\ Cardinality(I) \in Nat
    BY <2>2, FS_CardinalityType
  <2>4. Cardinality(B(i)) # 0
    BY <2>1, <2>2, FS_EmptySet
  <2> QED BY <2>1, <2>2, <2>3, <2>4
<1>2. \A i \in I : Rank(I, key, i) \in 1..Cardinality(I)
  BY <1>1 DEF Rank
<1>3. ASSUME NEW i \in I, NEW j \in I, i # j, Before(key, i, j)
      PROVE  Rank(I, key, i) < Rank(I, key, j)
  <2>1. B(i) \in SUBSET B(j)
    <3> SUFFICES ASSUME NEW h \in B(i) PROVE h \in B(j)
      OBVIOUS
    <3>1. h \in I /\ Before(key, h, i)
      OBVIOUS
    <3>2. /\ key[h] \in Int /\ key[i] \in Int /\ key[j] \in Int
          /\ h \in Int /\ i \in Int /\ j \in Int
      BY <3>1
    <3> QED BY <1>3, <3>1, <3>2 DEF Before
  <2>2. j \notin B(i)
    BY <1>3 DEF Before
  <2>3. B(i) # B(j)
    BY <1>1, <2>2
  <2>4. Cardinality(B(i)) <= Cardinality(B(j)) /\ Cardinality(B(i)) # Cardinality(B(j))
    BY <1>1, <2>1, <2>3, FS_Subset
  <2> QED BY <1>1, <2>4 DEF Rank
<1> QED BY <1>2, <1>3

\* Every place is the rank of exactly one position.
LEMMA RankBijective ==
    ASSUME NEW I \in SUBSET Int, IsFiniteSet(I),
           NEW key, \A i \in I : key[i] \in Int
    PROVE  /\ \A i, j \in I : Rank(I, key, i) = Rank(I, key, j) => i = j
           /\ \A k \in 1..Cardinality(I) : \E i \in I : Rank(I, key, i) = k
<1> DEFINE n == Cardinality(I)
           f == [i \in I |-> Rank(I, key, i)]
<1>1. \A i \in I : Rank(I, key, i) \in 1..n
  BY RankProperties
<1>2. \A i, j \in I : Before(key, i, j) \/ Before(key, j, i)
  BY DEF Before
<1>3. ASSUME NEW i \in I, NEW j \in I, Rank(I, key, i) = Rank(I, key, j)
      PROVE  i = j
  <2>1. ASSUME i # j PROVE FALSE
    <3>1. Rank(I, key, i) < Rank(I, key, j) \/ Rank(I, key, j) < Rank(I, key, i)
      BY <1>2, <2>1, RankProperties
    <3> QED BY <1>1, <1>3, <3>1
  <2> QED BY <2>1
<1>4. f \in [I -> 1..n]
  BY <1>1
<1>5. f \in Injection(I, 1..n)
  <2>1. \A i, j \in I : f[i] = f[j] => i = j
    BY <1>3
  <2> QED BY <1>4, <2>1, Fun_IsInj
<1>6. n \in Nat
  BY FS_CardinalityType
<1>7. IsFiniteSet(1..n) /\ Cardinality(1..n) = n
  BY <1>6, FS_Interval
<1>8. f \in Surjection(I, 1..n)
  BY <1>5, <1>7, FS_Injection
<1>9. \A k \in 1..n : \E i \in I : f[i] = k
  <2> HIDE DEF f, n
  <2> QED BY <1>8, Fun_SurjectionProperties
<1> QED BY <1>3, <1>9

\* The position Arrange takes its k-th element from.
Source(I, key, k) == CHOOSE i \in I : Rank(I, key, i) = k

\* t visits the positions I of s once each, by increasing key.
IsArrangement(t, s, I, key) ==
    /\ DOMAIN t = 1..Cardinality(I)
    /\ \A k \in 1..Cardinality(I) :
          /\ Source(I, key, k) \in I
          /\ t[k] = s[Source(I, key, k)]
    /\ \A i \in I : \E k \in 1..Cardinality(I) : Source(I, key, k) = i
    /\ \A k, l \in 1..Cardinality(I) :
          k < l => Before(key, Source(I, key, k), Source(I, key, l))

\* Arrange returns a sequence of the chosen elements, all of them, in order.
LEMMA ArrangeProperties ==
    ASSUME NEW S, NEW s \in Seq(S), NEW I \in SUBSET DOMAIN s,
           NEW key, \A i \in I : key[i] \in Int
    PROVE  /\ Arrange(s, I, key) \in Seq(S)
           /\ IsArrangement(Arrange(s, I, key), s, I, key)
<1> DEFINE n == Cardinality(I)
           src(k) == Source(I, key, k)
           t == Arrange(s, I, key)
<1>1. DOMAIN s = 1..Len(s) /\ Len(s) \in Nat
  BY LenProperties
<1>2. I \in SUBSET Int /\ IsFiniteSet(I) /\ n \in Nat
  <2>1. IsFiniteSet(1..Len(s)) /\ I \in SUBSET (1..Len(s))
    BY <1>1, FS_Interval
  <2>2. IsFiniteSet(I)
    BY <2>1, FS_Subset
  <2> QED BY <2>1, <2>2, FS_CardinalityType
<1>3. \A k \in 1..n : src(k) \in I /\ Rank(I, key, src(k)) = k
  BY <1>2, RankBijective DEF Source
<1>4. \A i \in I : Rank(I, key, i) \in 1..n /\ src(Rank(I, key, i)) = i
  BY <1>2, <1>3, RankBijective, RankProperties
<1>5. t = [k \in 1..n |-> s[src(k)]]
  BY DEF Arrange, Source
<1>6. \A k \in 1..n : s[src(k)] \in S
  BY <1>1, <1>3, ElementOfSeq
<1>7. t \in Seq(S) /\ DOMAIN t = 1..n
  BY <1>2, <1>5, <1>6
<1>8. ASSUME NEW k \in 1..n, NEW l \in 1..n, k < l
      PROVE  Before(key, src(k), src(l))
  <2>1. src(k) # src(l)
    BY <1>2, <1>3, <1>8
  <2>2. ASSUME ~Before(key, src(k), src(l)) PROVE FALSE
    <3>1. Before(key, src(l), src(k))
      BY <1>2, <1>3, <2>2 DEF Before
    <3>2. l < k
      BY <1>2, <1>3, <2>1, <3>1, RankProperties
    <3> QED BY <1>2, <1>8, <3>2
  <2> QED BY <2>2
<1> QED BY <1>3, <1>4, <1>5, <1>7, <1>8 DEF IsArrangement
-----------------------------------------------------------------------------
\* Two lists with the same elements need the same regexes.
LEMMA SameElementsSameRegexes ==
    ASSUME NEW s, NEW t,
           \A k \in DOMAIN t : \E i \in DOMAIN s : t[k] = s[i],
           \A i \in DOMAIN s : \E k \in DOMAIN t : t[k] = s[i]
    PROVE  CompiledOf(t) = CompiledOf(s)
<1>1. {t[k].regex : k \in DOMAIN t} = {s[i].regex : i \in DOMAIN s}
  OBVIOUS
<1> QED BY <1>1 DEF CompiledOf, RegexesOf

\* sort_rules keeps the rules, and puts them in order of priority.
LEMMA SortRulesProperties ==
    ASSUME NEW s \in Seq(Rule)
    PROVE  /\ SortRules(s) \in Seq(Rule)
           /\ CompiledOf(SortRules(s)) = CompiledOf(s)
           /\ \A k, l \in DOMAIN SortRules(s) :
                 k < l => SortRules(s)[k].priority >= SortRules(s)[l].priority
<1> DEFINE key == [i \in DOMAIN s |-> -s[i].priority]
           D == DOMAIN s
           t == Arrange(s, D, key)
<1>1. \A i \in D : s[i] \in Rule /\ s[i].priority \in Int
  <2>1. \A i \in D : s[i] \in Rule
    BY LenProperties, ElementOfSeq
  <2> QED BY <2>1, RulesAssumption DEF Rule
<1>2. \A i \in D : key[i] = -s[i].priority /\ key[i] \in Int
  BY <1>1
<1>3. D \in SUBSET DOMAIN s
  OBVIOUS
<1>4. SortRules(s) = t
  BY DEF SortRules
<1> HIDE DEF key, D, t
<1>5. t \in Seq(Rule) /\ IsArrangement(t, s, D, key)
  BY <1>2, <1>3, ArrangeProperties DEF t
<1>6. CompiledOf(t) = CompiledOf(s)
  <2>1. \A k \in DOMAIN t : \E i \in DOMAIN s : t[k] = s[i]
    BY <1>5 DEF D, IsArrangement
  <2>2. \A i \in DOMAIN s : \E k \in DOMAIN t : t[k] = s[i]
    BY <1>5 DEF D, IsArrangement
  <2> QED BY <2>1, <2>2, SameElementsSameRegexes
<1>7. ASSUME NEW k \in DOMAIN t, NEW l \in DOMAIN t, k < l
      PROVE  t[k].priority >= t[l].priority
  <2>1. Before(key, Source(D, key, k), Source(D, key, l))
    BY <1>5, <1>7 DEF IsArrangement
  <2>2. /\ Source(D, key, k) \in D /\ t[k] = s[Source(D, key, k)]
        /\ Source(D, key, l) \in D /\ t[l] = s[Source(D, key, l)]
    BY <1>5 DEF IsArrangement
  <2>3. key[Source(D, key, k)] <= key[Source(D, key, l)]
    BY <1>2, <2>1, <2>2 DEF Before
  <2>4. -s[Source(D, key, k)].priority <= -s[Source(D, key, l)].priority
    BY <1>2, <2>2, <2>3
  <2>5. s[Source(D, key, k)].priority >= s[Source(D, key, l)].priority
    BY <1>1, <2>2, <2>4
  <2> QED BY <2>2, <2>5
<1> QED BY <1>4, <1>5, <1>6, <1>7

\* The places of reorder_rules are integers.
LEMMA SlotType ==
    ASSUME NEW s \in Seq(Rule), NEW n \in Nat, NEW ids \in [1..n -> Ids], NEW i \in DOMAIN s
    PROVE  Slot(s, ids, i) \in Int
<1> DEFINE nth == Cardinality({j \in 1..i : s[j].id = s[i].id})
           mentions == {p \in DOMAIN ids :
                          /\ ids[p] = s[i].id
                          /\ Cardinality({q \in 1..p : ids[q] = s[i].id}) = nth}
<1>1. Slot(s, ids, i) = IF mentions = {} THEN Len(ids) + i ELSE CHOOSE p \in mentions : TRUE
  BY DEF Slot
<1>2. Len(ids) \in Nat /\ i \in Int
  <2>1. ids \in Seq(Ids)
    OBVIOUS
  <2>2. DOMAIN s = 1..Len(s) /\ Len(s) \in Nat
    BY LenProperties
  <2> QED BY <2>1, <2>2, LenProperties
<1>3. mentions \subseteq Int
  OBVIOUS
<1>4. mentions # {} => (CHOOSE p \in mentions : TRUE) \in mentions
  OBVIOUS
<1> HIDE DEF mentions
<1>5. CASE mentions = {}
  BY <1>1, <1>2, <1>5
<1>6. CASE mentions # {}
  BY <1>1, <1>3, <1>4, <1>6
<1> QED BY <1>5, <1>6

\* reorder_rules keeps a list of rules.
LEMMA ReorderedType ==
    ASSUME NEW s \in Seq(Rule), NEW n \in Nat, NEW ids \in [1..n -> Ids]
    PROVE  Reordered(s, ids) \in Seq(Rule)
<1> DEFINE key == [i \in DOMAIN s |-> Slot(s, ids, i)]
           D == DOMAIN s
<1>1. \A i \in D : key[i] \in Int
  BY SlotType
<1>2. D \in SUBSET DOMAIN s /\ Reordered(s, ids) = Arrange(s, D, key)
  BY DEF Reordered
<1> HIDE DEF key, D
<1> QED BY <1>1, <1>2, ArrangeProperties

\* delete_rule keeps a list of rules.
LEMMA RetainedType ==
    ASSUME NEW s \in Seq(Rule), NEW I \in SUBSET DOMAIN s
    PROVE  Arrange(s, I, IdentityOrder(s)) \in Seq(Rule)
<1> DEFINE key == IdentityOrder(s)
<1>1. \A i \in I : key[i] \in Int
  BY LenProperties DEF IdentityOrder
<1> HIDE DEF key
<1>2. Arrange(s, I, key) \in Seq(Rule)
  BY <1>1, ArrangeProperties
<1> QED BY <1>2 DEF key

\* The first rule of an id is in the list.
LEMMA FirstNamedExists ==
    ASSUME rules \in Seq(Rule), NEW id, Named(id) # {}
    PROVE  FirstNamed(id) \in DOMAIN rules
<1>1. DOMAIN rules = 1..Len(rules) /\ Len(rules) \in Nat
  BY LenProperties
<1> DEFINE I == Named(id)
           key == IdentityOrder(rules)
<1>2. I \in SUBSET DOMAIN rules /\ I \in SUBSET Int /\ IsFiniteSet(I)
  <2>1. I \in SUBSET (1..Len(rules))
    BY <1>1 DEF Named
  <2> HIDE DEF I
  <2>2. IsFiniteSet(1..Len(rules))
    BY <1>1, FS_Interval
  <2>3. IsFiniteSet(I)
    BY <2>1, <2>2, FS_Subset
  <2> QED BY <1>1, <2>1, <2>3
<1>3. \A i \in I : key[i] = i /\ key[i] \in Int
  BY <1>1, <1>2 DEF IdentityOrder
<1>4. Cardinality(I) \in Nat /\ Cardinality(I) # 0
  BY <1>2, FS_CardinalityType, FS_EmptySet
<1> HIDE DEF I, key
<1>5. PICK i \in I : Rank(I, key, i) = 1
  BY <1>2, <1>3, <1>4, RankBijective
<1>6. \A j \in I : i <= j
  <2> SUFFICES ASSUME NEW j \in I, ~(i <= j) PROVE FALSE
    OBVIOUS
  <2>1. i # j /\ Before(key, j, i)
    BY <1>2, <1>3 DEF Before
  <2>2. Rank(I, key, j) < Rank(I, key, i)
    BY <1>2, <1>3, <2>1, RankProperties
  <2>3. Rank(I, key, j) \in 1..Cardinality(I)
    BY <1>2, <1>3, RankProperties
  <2> QED BY <1>4, <1>5, <2>2, <2>3
<1> QED BY <1>2, <1>5, <1>6 DEF FirstNamed, I

\* Switching the first rule of an id changes no regex and keeps a rule list.
LEMMA ToggledProperties ==
    ASSUME rules \in Seq(Rule), NEW id, Named(id) # {}, NEW b \in BOOLEAN
    PROVE  LET s == [rules EXCEPT ![FirstNamed(id)].enabled = b]
           IN  /\ s \in Seq(Rule)
               /\ DOMAIN s = DOMAIN rules
               /\ \A i \in DOMAIN rules : s[i].regex = rules[i].regex
<1> DEFINE f == FirstNamed(id)
           r == [rules[f] EXCEPT !.enabled = b]
<1>1. f \in DOMAIN rules
  BY FirstNamedExists
<1>2. rules[f] \in Rule
  BY <1>1, LenProperties, ElementOfSeq
<1>3. r \in Rule /\ r.regex = rules[f].regex
  BY <1>2 DEF Rule
<1>4. [rules EXCEPT ![f].enabled = b] = [rules EXCEPT ![f] = r]
  OBVIOUS
<1>5. [rules EXCEPT ![f] = r] \in Seq(Rule)
  BY <1>1, <1>3, LenProperties, ExceptSeq
<1>6. \A i \in DOMAIN rules : [rules EXCEPT ![f] = r][i].regex = rules[i].regex
  BY <1>1, <1>3
<1> QED BY <1>4, <1>5, <1>6

\* Every edit leaves a list of rules, and compile_regexes a set of regexes.
LEMMA EditKeepsTypes ==
    ASSUME TypeOK, Edit
    PROVE  TypeOK'
<1> USE DEF TypeOK
<1>1. ASSUME NEW r \in Submitted, AddRule(r) PROVE TypeOK'
  <2>1. Append(rules, r) \in Seq(Rule)
    BY RulesAssumption, AppendProperties
  <2> QED BY <1>1, <2>1, SortRulesProperties DEF AddRule
<1>2. ASSUME NEW id \in Ids, NEW r \in Submitted, UpdateRule(id, r) PROVE TypeOK'
  <2>1. FirstNamed(id) \in DOMAIN rules
    BY <1>2, FirstNamedExists DEF UpdateRule
  <2>2. [rules EXCEPT ![FirstNamed(id)] = r] \in Seq(Rule)
    BY <2>1, RulesAssumption, LenProperties, ExceptSeq
  <2> QED BY <1>2, <2>2, SortRulesProperties DEF UpdateRule
<1>3. ASSUME NEW id \in Ids, DeleteRule(id) PROVE TypeOK'
  <2>1. DOMAIN rules \ Named(id) \in SUBSET DOMAIN rules
    OBVIOUS
  <2>2. rules' \in Seq(Rule)
    BY <1>3, <2>1, RetainedType DEF DeleteRule
  <2> QED BY <1>3, <2>2 DEF DeleteRule
<1>4. ASSUME NEW id \in Ids, NEW b \in BOOLEAN, ToggleRule(id, b) PROVE TypeOK'
  <2>1. [rules EXCEPT ![FirstNamed(id)].enabled = b] \in Seq(Rule)
    BY <1>4, ToggledProperties DEF ToggleRule
  <2> QED BY <1>4, <2>1, SortRulesProperties DEF ToggleRule
<1>5. ASSUME NEW n \in 0..MaxReorder, NEW ids \in [1..n -> Ids], ReorderRules(ids) PROVE TypeOK'
  <2>1. n \in Nat
    BY RulesAssumption
  <2>2. rules' \in Seq(Rule)
    BY <1>5, <2>1, ReorderedType DEF ReorderRules
  <2> QED BY <1>5, <2>2 DEF ReorderRules
<1>6. CASE CompileRegexes
  <2>1. CompiledOf(rules) \subseteq Regexes
    BY RulesAssumption DEF CompiledOf
  <2> QED BY <1>6, <2>1 DEF CompileRegexes
<1> QED BY <1>1, <1>2, <1>3, <1>4, <1>5, <1>6 DEF Edit

\* One step of an evaluation changes that evaluation only, and keeps types.
LEMMA EvaluationKeepsTypes ==
    ASSUME TypeOK, NEW e \in Evaluators, Evaluate(e)
    PROVE  /\ TypeOK'
           /\ UNCHANGED <<rules, compiled, editing, custom>>
<1>1. eval[e] \in Evaluation
  BY DEF TypeOK
<1>2. ASSUME NEW phase \in Phases, NEW x \in Traffic, Begin(e, phase, x)
      PROVE  eval' \in [Evaluators -> Evaluation]
  BY <1>2 DEF Begin, TypeOK, Evaluation
<1>3. ASSUME NEW v \in Rule \cup {NoVerdict}, eval[e].pc = "scan", Finish(e, v)
      PROVE  eval' \in [Evaluators -> Evaluation]
  BY <1>1, <1>3 DEF Finish, TypeOK, Evaluation, Idle
<1>4. CASE Scan(e)
  <2>1. eval[e] \in [pc: {"scan"}, phase: Phases, item: Traffic, at: Nat \ {0}]
    BY <1>1, <1>4 DEF Scan, Evaluation, Idle
  <2>2. rules[eval[e].at] \in Rule
    BY <1>4, <2>1, LenProperties, ElementOfSeq DEF Scan, TypeOK
  <2>3. CASE Finish(e, rules[eval[e].at])
    BY <1>3, <1>4, <2>2, <2>3 DEF Scan, TypeOK
  <2>4. CASE eval' = [eval EXCEPT ![e].at = @ + 1]
    <3>1. [eval[e] EXCEPT !.at = @ + 1] \in Evaluation
      BY <2>1 DEF Evaluation
    <3>2. eval' \in [Evaluators -> Evaluation]
      BY <2>4, <3>1 DEF TypeOK
    <3> QED BY <1>4, <3>2 DEF Scan, TypeOK
  <2> QED BY <1>4, <2>3, <2>4 DEF Scan
<1>5. CASE ScanEnd(e)
  BY <1>3, <1>5 DEF ScanEnd, TypeOK
<1>6. ASSUME NEW phase \in Phases, NEW x \in Traffic, Begin(e, phase, x)
      PROVE  TypeOK' /\ UNCHANGED <<rules, compiled, editing, custom>>
  BY <1>2, <1>6 DEF Begin, TypeOK
<1>7. UNCHANGED <<rules, compiled, editing, custom>>
  BY DEF Evaluate, Begin, Scan, ScanEnd
<1> QED BY <1>4, <1>5, <1>6, <1>7 DEF Evaluate

\* The empty engine is well typed.
LEMMA TypeCorrectInit == Init => TypeOK
<1>1. Idle \in Evaluation
  BY DEF Evaluation
<1>2. <<>> \in Seq(Rule)
  BY EmptySeq
<1> QED BY <1>1, <1>2 DEF Init, TypeOK

\* Every variable keeps its type (every handler and command of the rules
\* engine, whatever the rules and the traffic).
THEOREM TypeCorrect == Spec => []TypeOK
<1>1. Init => TypeOK
  BY TypeCorrectInit
<1>2. TypeOK /\ [Next]_vars => TypeOK'
  <2> SUFFICES ASSUME TypeOK, [Next]_vars PROVE TypeOK'
    OBVIOUS
  <2>1. CASE Edit
    BY <2>1, EditKeepsTypes
  <2>2. CASE \E e \in Evaluators : Evaluate(e)
    BY <2>2, EvaluationKeepsTypes
  <2>3. CASE UNCHANGED vars
    BY <2>3 DEF vars, TypeOK
  <2> QED BY <2>1, <2>2, <2>3 DEF Next
<1> QED BY <1>1, <1>2, PTL DEF Spec
-----------------------------------------------------------------------------
\* The inductive invariant: a running evaluation excludes a half-done edit,
\* which is why the cache it reads is the one of the list it walks through.
IInv == TypeOK /\ CacheCoherent /\ PassedRulesDoNotApply /\ SortedUnlessReordered

\* An edit either is half done, or leaves the regexes alone, or rebuilds the
\* cache.
LEMMA EditKeepsCache ==
    ASSUME TypeOK, CacheCoherent, Edit
    PROVE  CacheCoherent'
<1>1. ASSUME editing' PROVE CacheCoherent'
  BY <1>1 DEF CacheCoherent
<1>2. ASSUME NEW id \in Ids, NEW b \in BOOLEAN, ToggleRule(id, b) PROVE CacheCoherent'
  <2> DEFINE s == [rules EXCEPT ![FirstNamed(id)].enabled = b]
  <2>4. /\ s \in Seq(Rule)
        /\ DOMAIN s = DOMAIN rules
        /\ \A i \in DOMAIN rules : s[i].regex = rules[i].regex
    BY <1>2, ToggledProperties DEF ToggleRule, TypeOK
  <2>5. RegexesOf(s) = RegexesOf(rules)
    BY <2>4 DEF RegexesOf
  <2>6. CompiledOf(rules') = CompiledOf(rules)
    <3>1. rules' = SortRules(s)
      BY <1>2 DEF ToggleRule
    <3> HIDE DEF s
    <3>2. CompiledOf(SortRules(s)) = CompiledOf(s)
      BY <2>4, SortRulesProperties
    <3> QED BY <2>5, <3>1, <3>2 DEF CompiledOf
  <2> QED BY <1>2, <2>6 DEF ToggleRule, WriteGranted, CacheCoherent
<1>3. CASE CompileRegexes
  BY <1>3 DEF CompileRegexes, CacheCoherent, CompiledOf, RegexesOf
<1> QED BY <1>1, <1>2, <1>3 DEF Edit, AddRule, UpdateRule, DeleteRule, ReorderRules

\* No edit step happens while an evaluation is under way.
LEMMA EditKeepsPassed ==
    ASSUME PassedRulesDoNotApply, Edit
    PROVE  PassedRulesDoNotApply'
<1>1. UNCHANGED eval
  BY DEF Edit, AddRule, UpdateRule, DeleteRule, ToggleRule, ReorderRules, CompileRegexes
<1>2. WriteGranted \/ editing
  BY DEF Edit, AddRule, UpdateRule, DeleteRule, ToggleRule, ReorderRules, CompileRegexes
<1>3. \A e \in Evaluators : eval[e].pc # "scan"
  BY <1>2 DEF WriteGranted, NoReaders, PassedRulesDoNotApply
<1> QED BY <1>1, <1>3 DEF PassedRulesDoNotApply

\* Every edit that leaves `custom' FALSE sorts, or removes rules in place.
LEMMA EditKeepsOrder ==
    ASSUME TypeOK, SortedUnlessReordered, Edit
    PROVE  SortedUnlessReordered'
<1>1. ASSUME NEW s \in Seq(Rule), rules' = SortRules(s) PROVE SortedUnlessReordered'
  BY <1>1, SortRulesProperties DEF SortedUnlessReordered
<1>2. ASSUME NEW r \in Submitted, AddRule(r) PROVE SortedUnlessReordered'
  <2>1. Append(rules, r) \in Seq(Rule)
    BY RulesAssumption, AppendProperties DEF TypeOK
  <2> QED BY <1>1, <1>2, <2>1 DEF AddRule
<1>3. ASSUME NEW id \in Ids, NEW r \in Submitted, UpdateRule(id, r) PROVE SortedUnlessReordered'
  <2>1. FirstNamed(id) \in DOMAIN rules
    BY <1>3, FirstNamedExists DEF UpdateRule, TypeOK
  <2>2. [rules EXCEPT ![FirstNamed(id)] = r] \in Seq(Rule)
    BY <2>1, RulesAssumption, LenProperties, ExceptSeq DEF TypeOK
  <2> QED BY <1>1, <1>3, <2>2 DEF UpdateRule
<1>4. ASSUME NEW id \in Ids, NEW b \in BOOLEAN, ToggleRule(id, b) PROVE SortedUnlessReordered'
  <2>1. [rules EXCEPT ![FirstNamed(id)].enabled = b] \in Seq(Rule)
    BY <1>4, ToggledProperties DEF ToggleRule, TypeOK
  <2> QED BY <1>1, <1>4, <2>1 DEF ToggleRule
<1>5. ASSUME NEW id \in Ids, DeleteRule(id) PROVE SortedUnlessReordered'
  <2> DEFINE I == DOMAIN rules \ Named(id)
             key == IdentityOrder(rules)
  <2>1. \A i \in I : key[i] = i /\ key[i] \in Int /\ i \in Int
    BY LenProperties DEF IdentityOrder, TypeOK
  <2>2. I \in SUBSET DOMAIN rules /\ rules' = Arrange(rules, I, key)
    BY <1>5 DEF DeleteRule
  <2> HIDE DEF I, key
  <2>3. IsArrangement(rules', rules, I, key)
    BY <2>1, <2>2, ArrangeProperties DEF TypeOK
  <2>4. ASSUME ~custom, NEW k \in DOMAIN rules', NEW l \in DOMAIN rules', k < l
        PROVE  rules'[k].priority >= rules'[l].priority
    <3>1. /\ Source(I, key, k) \in I /\ rules'[k] = rules[Source(I, key, k)]
          /\ Source(I, key, l) \in I /\ rules'[l] = rules[Source(I, key, l)]
          /\ Before(key, Source(I, key, k), Source(I, key, l))
      BY <2>3, <2>4 DEF IsArrangement
    <3>2. Source(I, key, k) <= Source(I, key, l)
      BY <2>1, <3>1 DEF Before
    <3>3. Source(I, key, k) \in DOMAIN rules /\ Source(I, key, l) \in DOMAIN rules
      BY <2>2, <3>1
    <3>4. \A i \in DOMAIN rules : rules[i].priority \in Int
      BY LenProperties, ElementOfSeq, RulesAssumption DEF TypeOK, Rule
    <3>5. CASE Source(I, key, k) = Source(I, key, l)
      BY <3>1, <3>3, <3>4, <3>5
    <3>6. CASE Source(I, key, k) < Source(I, key, l)
      BY <2>4, <3>1, <3>3, <3>6 DEF SortedUnlessReordered
    <3> QED BY <2>1, <3>1, <3>2, <3>5, <3>6
  <2> QED BY <1>5, <2>4 DEF DeleteRule, SortedUnlessReordered
<1>6. ASSUME NEW ids, ReorderRules(ids) PROVE SortedUnlessReordered'
  BY <1>6 DEF ReorderRules, SortedUnlessReordered
<1>7. CASE CompileRegexes
  BY <1>7 DEF CompileRegexes, SortedUnlessReordered
<1> QED BY <1>2, <1>3, <1>4, <1>5, <1>6, <1>7 DEF Edit

\* An evaluation moves on only past a rule that does not apply.
LEMMA EvaluationKeepsPassed ==
    ASSUME TypeOK, PassedRulesDoNotApply, NEW e \in Evaluators, Evaluate(e)
    PROVE  PassedRulesDoNotApply'
<1>1. UNCHANGED <<rules, editing>> /\ eval \in [Evaluators -> Evaluation]
  BY EvaluationKeepsTypes DEF TypeOK
<1>2. Len(rules) \in Nat
  BY LenProperties DEF TypeOK
<1> DEFINE Passed(v) == v.pc = "scan" =>
               /\ ~editing
               /\ v.at <= Len(rules) + 1
               /\ \A i \in 1..(v.at - 1) : ~Applies(rules[i], v.phase, v.item)
<1>3. \A x \in Evaluators : Passed(eval[x])
  BY DEF PassedRulesDoNotApply
<1>4. ASSUME NEW phase \in Phases, NEW x \in Traffic, Begin(e, phase, x)
      PROVE  Passed(eval'[e]) /\ \A y \in Evaluators \ {e} : eval'[y] = eval[y]
  BY <1>1, <1>2, <1>4 DEF Begin
<1>5. ASSUME NEW v, Finish(e, v)
      PROVE  Passed(eval'[e]) /\ \A y \in Evaluators \ {e} : eval'[y] = eval[y]
  BY <1>1, <1>5 DEF Finish
<1>6. CASE Scan(e) /\ eval' = [eval EXCEPT ![e].at = @ + 1]
  <2>1. ~Applies(rules[eval[e].at], eval[e].phase, eval[e].item) \/ \E v : Finish(e, v)
    BY <1>6 DEF Scan
  <2>2. eval[e] \in [pc: {"scan"}, phase: Phases, item: Traffic, at: Nat \ {0}]
    BY <1>1, <1>6 DEF Scan, Evaluation, Idle
  <2>3. eval'[e] = [eval[e] EXCEPT !.at = @ + 1] /\ \A y \in Evaluators \ {e} : eval'[y] = eval[y]
    BY <1>1, <1>6
  <2>4. CASE ~Applies(rules[eval[e].at], eval[e].phase, eval[e].item)
    <3>1. eval'[e].at = eval[e].at + 1 /\ eval'[e].phase = eval[e].phase /\ eval'[e].item = eval[e].item
      BY <2>2, <2>3
    <3>2. \A i \in 1..eval[e].at : ~Applies(rules[i], eval[e].phase, eval[e].item)
      BY <1>3, <2>2, <2>4
    <3>3. eval[e].at <= Len(rules) /\ ~editing
      BY <1>3, <1>6 DEF Scan
    <3>4. Passed(eval'[e])
      BY <1>2, <2>2, <3>1, <3>2, <3>3
    <3> QED BY <1>1, <1>3, <2>3, <3>4 DEF PassedRulesDoNotApply
  <2>5. CASE \E v : Finish(e, v)
    BY <1>1, <1>3, <1>5, <2>5 DEF PassedRulesDoNotApply
  <2> QED BY <2>1, <2>4, <2>5
<1>7. CASE \E v : Finish(e, v)
  BY <1>1, <1>3, <1>5, <1>7 DEF PassedRulesDoNotApply
<1>8. CASE \E phase \in Phases, x \in Traffic : Begin(e, phase, x)
  BY <1>1, <1>3, <1>4, <1>8 DEF PassedRulesDoNotApply
<1> QED BY <1>6, <1>7, <1>8 DEF Evaluate, Scan, ScanEnd

\* The inductive invariant holds in every behaviour of the rules engine.
THEOREM InvariantHolds == Spec => []IInv
<1>1. Init => IInv
  <2>1. Init => TypeOK
    BY TypeCorrectInit
  <2>2. Init => CacheCoherent /\ PassedRulesDoNotApply /\ SortedUnlessReordered
    BY DEF Init, Idle, CacheCoherent, CompiledOf, RegexesOf, PassedRulesDoNotApply, SortedUnlessReordered
  <2> QED BY <2>1, <2>2 DEF IInv
<1>2. IInv /\ [Next]_vars => IInv'
  <2> SUFFICES ASSUME IInv, [Next]_vars PROVE IInv'
    OBVIOUS
  <2>1. CASE Edit
    BY <2>1, EditKeepsTypes, EditKeepsCache, EditKeepsPassed, EditKeepsOrder DEF IInv
  <2>2. ASSUME NEW e \in Evaluators, Evaluate(e) PROVE IInv'
    <3>1. TypeOK' /\ UNCHANGED <<rules, compiled, editing, custom>>
      BY <2>2, EvaluationKeepsTypes DEF IInv
    <3>2. PassedRulesDoNotApply'
      BY <2>2, EvaluationKeepsPassed DEF IInv
    <3>3. CacheCoherent' /\ SortedUnlessReordered'
      BY <3>1 DEF IInv, CacheCoherent, SortedUnlessReordered
    <3> QED BY <3>1, <3>2, <3>3 DEF IInv
  <2>3. CASE UNCHANGED vars
    BY <2>3 DEF vars, IInv, TypeOK, CacheCoherent, PassedRulesDoNotApply, SortedUnlessReordered
  <2> QED BY <2>1, <2>2, <2>3 DEF Next
<1> QED BY <1>1, <1>2, PTL DEF Spec

\* Outside the two halves of an edit the cache is that of the rule list.
THEOREM CacheIsCoherent == Spec => []CacheCoherent
<1>1. IInv => CacheCoherent
  BY DEF IInv
<1> QED BY <1>1, InvariantHolds, PTL

\* The lock-upgrading branch of matches() is dead code.
THEOREM NoEvaluationMisses == Spec => []EvaluationNeverMisses
<1>1. IInv => EvaluationNeverMisses
  <2> SUFFICES ASSUME IInv, NEW e \in Evaluators, eval[e].pc = "scan", eval[e].at <= Len(rules)
               PROVE  ~Missing(rules[eval[e].at], eval[e].phase)
    BY DEF EvaluationNeverMisses
  <2>1. compiled = CompiledOf(rules)
    BY DEF IInv, PassedRulesDoNotApply, CacheCoherent
  <2>2. eval[e] \in [pc: {"scan"}, phase: Phases, item: Traffic, at: Nat \ {0}]
    BY DEF IInv, TypeOK, Evaluation, Idle
  <2>3. eval[e].at \in DOMAIN rules
    BY <2>2, LenProperties DEF IInv, TypeOK
  <2> QED BY <2>1, <2>3, RulesAssumption DEF Missing, CompiledOf, RegexesOf
<1> QED BY <1>1, InvariantHolds, PTL

\* An evaluation decides by the first rule of the list that applies.
THEOREM FirstApplicableRuleDecides == Spec => []PassedRulesDoNotApply
<1>1. IInv => PassedRulesDoNotApply
  BY DEF IInv
<1> QED BY <1>1, InvariantHolds, PTL

\* sort_rules' order lasts until the next reorder_rules.
THEOREM OrderLasts == Spec => []SortedUnlessReordered
<1>1. IInv => SortedUnlessReordered
  BY DEF IInv
<1> QED BY <1>1, InvariantHolds, PTL
-----------------------------------------------------------------------------
(* An evaluation as one step. *)

\* No step of an edit is seen as anything but a change of the list.
LEMMA EditIsChange ==
    ASSUME TypeOK', Edit
    PROVE  [Decisions!DecisionNext]_Decisions!decisionVars
<1>1. UNCHANGED eval
  BY DEF Edit, AddRule, UpdateRule, DeleteRule, ToggleRule, ReorderRules, CompileRegexes
<1>2. rules' \in Seq(Rule)
  BY DEF TypeOK
<1>3. Decisions!Change
  BY <1>1, <1>2 DEF Decisions!Change
<1> QED BY <1>3 DEF Decisions!DecisionNext

\* The first rule an evaluation comes to that applies is the first of all.
LEMMA VerdictIsFirst ==
    ASSUME NEW s \in Seq(Rule), NEW phase \in Phases, NEW x \in Traffic, NEW n \in Nat \ {0},
           \A i \in 1..(n - 1) : ~Applies(s[i], phase, x)
    PROVE  /\ n \in DOMAIN s /\ Applies(s[n], phase, x) => Decisions!Verdict(s, phase, x) = s[n]
           /\ n > Len(s) => Decisions!Verdict(s, phase, x) = NoVerdict
<1> DEFINE at == {i \in DOMAIN s : <<s[i], phase, x>> \in Accepts}
<1>1. DOMAIN s = 1..Len(s) /\ Len(s) \in Nat /\ \A i \in DOMAIN s : s[i] \in Rule
  BY LenProperties, ElementOfSeq
<1>2. \A i \in DOMAIN s : i \in at <=> Applies(s[i], phase, x)
  BY <1>1 DEF Accepts
<1>3. Decisions!Verdict(s, phase, x) =
        IF at = {} THEN NoVerdict ELSE s[CHOOSE i \in at : \A j \in at : i <= j]
  BY DEF Decisions!Verdict
<1>4. at \in SUBSET (1..Len(s))
  BY <1>1
<1> HIDE DEF at
<1>5. \A i \in at : i >= n
  BY <1>1, <1>2, <1>4
<1>6. ASSUME n \in DOMAIN s, Applies(s[n], phase, x)
      PROVE  Decisions!Verdict(s, phase, x) = s[n]
  <2>1. n \in at
    BY <1>2, <1>6
  <2>2. \A i \in at : (\A j \in at : i <= j) => i = n
    BY <1>4, <1>5, <2>1
  <2>3. (CHOOSE i \in at : \A j \in at : i <= j) = n
    BY <1>5, <2>1, <2>2
  <2> QED BY <1>3, <2>1, <2>3
<1>7. ASSUME n > Len(s) PROVE Decisions!Verdict(s, phase, x) = NoVerdict
  <2>1. at = {}
    BY <1>1, <1>4, <1>5, <1>7
  <2> QED BY <1>3, <2>1
<1> QED BY <1>6, <1>7

\* What a handler has asked, and the answer, follow from its evaluation.
Asked == [e \in Evaluators |-> Question(eval[e])]

LEMMA EvaluationIsDecision ==
    ASSUME IInv, TypeOK', NEW e \in Evaluators, Evaluate(e)
    PROVE  [Decisions!DecisionNext]_Decisions!decisionVars
<1>1. /\ eval \in [Evaluators -> Evaluation] /\ eval' \in [Evaluators -> Evaluation]
      /\ rules \in Seq(Rule) /\ UNCHANGED rules
  BY DEF IInv, TypeOK, Evaluate, Begin, Scan, ScanEnd
<1>2. Len(rules) \in Nat /\ DOMAIN rules = 1..Len(rules)
  BY <1>1, LenProperties
<1>3. ASSUME NEW v, eval' = [eval EXCEPT ![e] = v]
      PROVE  Asked' = [Asked EXCEPT ![e] = Question(v)]
  BY <1>1, <1>3 DEF Asked
<1>4. ASSUME NEW phase \in Phases, NEW x \in Traffic, Begin(e, phase, x)
      PROVE  Decisions!DecisionNext
  <2> DEFINE v == [pc |-> "scan", phase |-> phase, item |-> x, at |-> 1]
  <2>1. Asked' = [Asked EXCEPT ![e] = Question(v)]
    BY <1>3, <1>4 DEF Begin
  <2>2. Question(v) = [state |-> "asked", phase |-> phase, item |-> x]
    BY DEF Question
  <2>3. Asked[e].state # "asked"
    BY <1>4 DEF Begin, Asked, Question
  <2> HIDE DEF v
  <2>4. Decisions!Ask(e, phase, x)
    BY <1>1, <2>1, <2>2, <2>3 DEF Decisions!Ask, Asked
  <2> QED BY <2>4 DEF Decisions!DecisionNext
<1>5. ASSUME NEW verdict, eval[e].pc = "scan", Finish(e, verdict),
             verdict = Decisions!Verdict(rules, eval[e].phase, eval[e].item)
      PROVE  Decisions!DecisionNext
  <2> DEFINE v == [pc |-> "done", phase |-> eval[e].phase, item |-> eval[e].item, verdict |-> verdict]
  <2>1. Asked' = [Asked EXCEPT ![e] = Question(v)]
    <3>1. eval' = [eval EXCEPT ![e] = v]
      BY <1>1, <1>5 DEF Finish
    <3> HIDE DEF v
    <3> QED BY <1>3, <3>1
  <2>2. Question(v) = [state |-> "decided", phase |-> eval[e].phase, item |-> eval[e].item,
                       verdict |-> verdict]
    BY DEF Question
  <2>3. Asked[e] = [state |-> "asked", phase |-> eval[e].phase, item |-> eval[e].item]
    BY <1>5 DEF Asked, Question
  <2> HIDE DEF v
  <2>4. Asked' = [Asked EXCEPT ![e] =
           [state |-> "decided", phase |-> @.phase, item |-> @.item,
            verdict |-> Decisions!Verdict(rules, @.phase, @.item)]]
    BY <1>5, <2>1, <2>2, <2>3
  <2>5. Decisions!Decide(e)
    BY <1>1, <2>3, <2>4 DEF Decisions!Decide, Asked
  <2> QED BY <2>5 DEF Decisions!DecisionNext
<1>6. ASSUME eval[e].pc = "scan"
      PROVE  /\ eval[e].phase \in Phases /\ eval[e].item \in Traffic /\ eval[e].at \in Nat \ {0}
             /\ \A i \in 1..(eval[e].at - 1) : ~Applies(rules[i], eval[e].phase, eval[e].item)
  BY <1>1, <1>6 DEF Evaluation, Idle, IInv, PassedRulesDoNotApply
<1>7. ASSUME Scan(e) PROVE [Decisions!DecisionNext]_Decisions!decisionVars
  <2>1. CASE Applies(rules[eval[e].at], eval[e].phase, eval[e].item)
    <3>1. eval[e].pc = "scan" /\ Finish(e, rules[eval[e].at]) /\ eval[e].at \in DOMAIN rules
      BY <1>2, <1>6, <1>7, <2>1 DEF Scan
    <3>2. rules[eval[e].at] = Decisions!Verdict(rules, eval[e].phase, eval[e].item)
      BY <1>1, <1>6, <2>1, <3>1, VerdictIsFirst
    <3> QED BY <1>5, <3>1, <3>2
  <2>2. CASE ~Applies(rules[eval[e].at], eval[e].phase, eval[e].item)
    <3> DEFINE v == [eval[e] EXCEPT !.at = @ + 1]
    <3>1. eval[e].pc = "scan" /\ eval' = [eval EXCEPT ![e] = v]
      BY <1>7, <2>2 DEF Scan
    <3>2. v.pc = "scan" /\ v.phase = eval[e].phase /\ v.item = eval[e].item
      BY <1>1, <3>1 DEF Evaluation, Idle
    <3> HIDE DEF v
    <3>3. Question(v) = Question(eval[e])
      BY <3>1, <3>2 DEF Question
    <3>4. Asked' = [Asked EXCEPT ![e] = Question(v)]
      BY <1>3, <3>1
    <3>5. Asked' = Asked
      BY <3>3, <3>4 DEF Asked
    <3> QED BY <1>1, <3>5 DEF Decisions!decisionVars, Asked
  <2> QED BY <2>1, <2>2
<1>8. ASSUME ScanEnd(e) PROVE Decisions!DecisionNext
  <2>1. eval[e].pc = "scan" /\ Finish(e, NoVerdict) /\ eval[e].at > Len(rules)
    BY <1>8 DEF ScanEnd
  <2>2. NoVerdict = Decisions!Verdict(rules, eval[e].phase, eval[e].item)
    BY <1>1, <1>6, <2>1, VerdictIsFirst
  <2> QED BY <1>5, <2>1, <2>2
<1> QED BY <1>4, <1>7, <1>8 DEF Evaluate

\* The engine implements what it promises the handlers: an evaluation that
\* looks at the rules one by one decides by the list of one moment, whatever
\* edits are waiting and whatever other evaluations do.
THEOREM EngineDecidesAtOnce == Spec => DecidesAtOnce
<1>1. Init => Decisions!DecisionInit
  <2> SUFFICES ASSUME Init PROVE Decisions!DecisionInit
    OBVIOUS
  <2>1. Question(Idle) = [state |-> "none"]
    BY DEF Question, Idle
  <2>2. [e \in Evaluators |-> Question(eval[e])] = [e \in Evaluators |-> [state |-> "none"]]
    BY <2>1 DEF Init
  <2> QED BY <2>2 DEF Init, Decisions!DecisionInit, Decisions!NoQuestion
<1>2. IInv /\ IInv' /\ [Next]_vars => [Decisions!DecisionNext]_Decisions!decisionVars
  <2> SUFFICES ASSUME IInv, IInv', [Next]_vars
               PROVE  [Decisions!DecisionNext]_Decisions!decisionVars
    OBVIOUS
  <2>1. TypeOK'
    BY DEF IInv
  <2>2. CASE Edit
    BY <2>1, <2>2, EditIsChange
  <2>3. CASE \E e \in Evaluators : Evaluate(e)
    BY <2>1, <2>3, EvaluationIsDecision
  <2>4. CASE UNCHANGED vars
    BY <2>4 DEF vars, Decisions!decisionVars
  <2> QED BY <2>2, <2>3, <2>4 DEF Next
<1> QED BY <1>1, <1>2, InvariantHolds, PTL DEF Spec, DecidesAtOnce, Decisions!DecisionSpec
-----------------------------------------------------------------------------
(* The loop of reorder_rules. *)

\* src lists the positions I, each once, by increasing key.
Lists(src, m, I, key) ==
    /\ src \in [1..m -> I]
    /\ \A i \in I : \E k \in 1..m : src[k] = i
    /\ \A k, l \in 1..m : k < l => src[k] # src[l] /\ Before(key, src[k], src[l])

\* Whatever lists the positions in their order is what Arrange visits.
LEMMA ArrangeIsListing ==
    ASSUME NEW s, NEW I \in SUBSET Int, NEW key, \A i \in I : key[i] \in Int,
           NEW m \in Nat, NEW src, Lists(src, m, I, key)
    PROVE  Arrange(s, I, key) = [k \in 1..m |-> s[src[k]]]
<1>1. \A k, l \in 1..m : Before(key, src[l], src[k]) <=> l <= k
  <2> TAKE k, l \in 1..m
  <2>1. src[k] \in I /\ src[l] \in I
    BY DEF Lists
  <2>2. key[src[k]] \in Int /\ key[src[l]] \in Int /\ src[k] \in Int /\ src[l] \in Int
    BY <2>1
  <2>3. CASE k = l
    BY <2>2, <2>3 DEF Before
  <2>4. CASE k < l
    <3>1. src[k] # src[l] /\ Before(key, src[k], src[l])
      BY <2>4 DEF Lists
    <3> QED BY <2>2, <2>4, <3>1 DEF Before
  <2>5. CASE l < k
    BY <2>5 DEF Lists
  <2> QED BY <2>3, <2>4, <2>5
<1>2. src \in Surjection(1..m, I)
  BY Fun_IsSurj DEF Lists
<1>3. IsFiniteSet(1..m) /\ Cardinality(1..m) = m
  BY FS_Interval
<1>4. IsFiniteSet(I)
  BY <1>2, <1>3, FS_Surjection
<1>5. \A k, l \in 1..m : src[k] = src[l] => k = l
  BY DEF Lists
<1>6. Cardinality(I) = m
  <2>1. src \in Injection(1..m, I)
    BY <1>5, Fun_IsInj DEF Lists
  <2> QED BY <2>1, <1>2, <1>3, FS_Surjection
<1>7. ASSUME NEW k \in 1..m PROVE Rank(I, key, src[k]) = k
  <2> DEFINE B == {j \in I : Before(key, j, src[k])}
             low == [l \in 1..k |-> src[l]]
  <2>1. B = {src[l] : l \in 1..k}
    <3>1. ASSUME NEW j \in B PROVE \E l \in 1..k : src[l] = j
      <4>1. PICK l \in 1..m : src[l] = j
        BY DEF Lists
      <4> QED BY <1>1, <4>1
    <3>2. ASSUME NEW l \in 1..k PROVE src[l] \in B
      <4>1. l \in 1..m /\ l <= k
        OBVIOUS
      <4> QED BY <1>1, <4>1 DEF Lists
    <3> HIDE DEF B
    <3> QED BY <3>1, <3>2
  <2>2. low \in Surjection(1..k, B) /\ low \in Injection(1..k, B)
    <3>1. low \in [1..k -> B] /\ \A b \in B : \E l \in 1..k : low[l] = b
      BY <2>1
    <3>2. \A l, n \in 1..k : low[l] = low[n] => l = n
      BY <1>5
    <3> HIDE DEF low, B
    <3> QED BY <3>1, <3>2, Fun_IsInj, Fun_IsSurj
  <2>3. k \in Nat /\ IsFiniteSet(1..k) /\ Cardinality(1..k) = k
    BY FS_Interval
  <2>4. Cardinality(B) = k
    <3> HIDE DEF low, B
    <3> QED BY <2>2, <2>3, FS_Surjection
  <2> QED BY <2>4 DEF Rank
<1>8. ASSUME NEW k \in 1..m PROVE (CHOOSE i \in I : Rank(I, key, i) = k) = src[k]
  <2>1. src[k] \in I /\ Rank(I, key, src[k]) = k
    BY <1>7 DEF Lists
  <2>2. \A i, j \in I : Rank(I, key, i) = Rank(I, key, j) => i = j
    BY <1>4, RankBijective
  <2> QED BY <2>1, <2>2
<1>9. Arrange(s, I, key) = [k \in 1..m |-> s[CHOOSE i \in I : Rank(I, key, i) = k]]
  BY <1>6 DEF Arrange
<1> QED BY <1>8, <1>9

\* Every count up to that of a set of positions is the count at one of them.
LEMMA Counted ==
    ASSUME NEW n \in Nat, NEW I \in SUBSET (1..n)
    PROVE  /\ IsFiniteSet(I) /\ Cardinality(I) \in Nat
           /\ \A i \in I : Cardinality({j \in I : j <= i}) \in 1..Cardinality(I)
           /\ \A i, j \in I : i < j => Cardinality({h \in I : h <= i}) < Cardinality({h \in I : h <= j})
           /\ \A k \in 1..Cardinality(I) : \E i \in I : Cardinality({j \in I : j <= i}) = k
<1> DEFINE key == [i \in I |-> i]
<1>1. IsFiniteSet(I) /\ Cardinality(I) \in Nat
  <2>1. IsFiniteSet(1..n)
    BY FS_Interval
  <2> QED BY <2>1, FS_Subset, FS_CardinalityType
<1>2. \A i \in I : {j \in I : j <= i} = {j \in I : Before(key, j, i)}
  <2>1. \A i, j \in I : Before(key, j, i) <=> j <= i
    BY DEF Before
  <2> HIDE DEF key
  <2> QED BY <2>1
<1>3. \A i \in I : Cardinality({j \in I : j <= i}) = Rank(I, key, i)
  BY <1>2 DEF Rank
<1>4. \A i, j \in I : i < j => i # j /\ Before(key, i, j)
  BY DEF Before
<1>5. I \in SUBSET Int /\ \A i \in I : key[i] \in Int
  OBVIOUS
<1> HIDE DEF key
<1>6. /\ \A i \in I : Rank(I, key, i) \in 1..Cardinality(I)
      /\ \A i, j \in I : i # j /\ Before(key, i, j) => Rank(I, key, i) < Rank(I, key, j)
  BY <1>1, <1>5, RankProperties
<1>7. \A k \in 1..Cardinality(I) : \E i \in I : Rank(I, key, i) = k
  BY <1>1, <1>5, RankBijective
<1> QED BY <1>1, <1>3, <1>4, <1>6, <1>7

\* The how-manieth occurrence of its value position p of f is.
Nth(f, p) == Cardinality({q \in 1..p : f[q] = f[p]})

\* The positions of the value v among the first n of f.
Places(f, n, v) == {i \in 1..n : f[i] = v}

\* Among the positions of one value these count one by one.
LEMMA NthCounts ==
    ASSUME NEW n \in Nat, NEW f, NEW v
    PROVE  /\ \A i \in Places(f, n, v) : Nth(f, i) \in Nat \ {0}
           /\ \A i, j \in Places(f, n, v) : i < j => Nth(f, i) < Nth(f, j)
           /\ \A j \in Places(f, n, v) : \A k \in 1..Nth(f, j) :
                \E i \in Places(f, n, v) : Nth(f, i) = k
<1> DEFINE I == {i \in 1..n : f[i] = v}
           Upto(i) == {j \in I : j <= i}
<1>1. I \in SUBSET (1..n)
  OBVIOUS
<1>2. \A i \in I : {q \in 1..i : f[q] = f[i]} = Upto(i)
  OBVIOUS
<1>3. \A i \in I : Nth(f, i) = Cardinality(Upto(i))
  BY <1>2 DEF Nth
<1> HIDE DEF I
<1>4. /\ Cardinality(I) \in Nat
      /\ \A i \in I : Cardinality(Upto(i)) \in 1..Cardinality(I)
      /\ \A i, j \in I : i < j => Cardinality(Upto(i)) < Cardinality(Upto(j))
      /\ \A k \in 1..Cardinality(I) : \E i \in I : Cardinality(Upto(i)) = k
  BY <1>1, Counted
<1> HIDE DEF Upto
<1>5. \A i, j \in I : i < j => Nth(f, i) < Nth(f, j)
  BY <1>3, <1>4, Zenon
<1>6. \A i \in I : Nth(f, i) \in 1..Cardinality(I)
  BY <1>3, <1>4, Zenon
<1>7. \A k \in 1..Cardinality(I) : \E i \in I : Nth(f, i) = k
  BY <1>3, <1>4, Zenon
<1>8. \A i \in I : Nth(f, i) \in Nat \ {0}
  BY <1>4, <1>6
<1>9. \A j \in I : \A k \in 1..Nth(f, j) : k \in 1..Cardinality(I)
  BY <1>4, <1>6
<1> QED BY <1>5, <1>7, <1>8, <1>9 DEF I, Places

Names(s) == [i \in DOMAIN s |-> s[i].id]

\* The slot of a rule is where its id is mentioned for the time its rank asks.
LEMMA SlotFacts ==
    ASSUME NEW s \in Seq(Rule), NEW ids \in Seq(Ids), NEW i \in DOMAIN s
    PROVE  /\ Slot(s, ids, i) \in Nat \ {0}
           /\ Slot(s, ids, i) <= Len(ids) =>
                /\ ids[Slot(s, ids, i)] = s[i].id
                /\ Nth(ids, Slot(s, ids, i)) = Nth(Names(s), i)
           /\ Slot(s, ids, i) > Len(ids) => Slot(s, ids, i) = Len(ids) + i
           /\ \A p \in 1..Len(ids) :
                ids[p] = s[i].id /\ Nth(ids, p) = Nth(Names(s), i) => Slot(s, ids, i) = p
<1> DEFINE nth == Cardinality({j \in 1..i : s[j].id = s[i].id})
           mentions == {p \in DOMAIN ids :
                          /\ ids[p] = s[i].id
                          /\ Cardinality({q \in 1..p : ids[q] = s[i].id}) = nth}
<1>1. Slot(s, ids, i) = IF mentions = {} THEN Len(ids) + i ELSE CHOOSE p \in mentions : TRUE
  BY DEF Slot
<1>2. /\ DOMAIN s = 1..Len(s) /\ Len(s) \in Nat
      /\ DOMAIN ids = 1..Len(ids) /\ Len(ids) \in Nat
  BY LenProperties
<1>3. nth = Nth(Names(s), i)
  <2>1. \A j \in 1..i : Names(s)[j] = s[j].id
    BY <1>2 DEF Names
  <2>2. {q \in 1..i : Names(s)[q] = Names(s)[i]} = {j \in 1..i : s[j].id = s[i].id}
    BY <1>2, <2>1
  <2> QED BY <2>2 DEF Nth
<1>4. \A p \in 1..Len(ids) : ids[p] = s[i].id =>
        Cardinality({q \in 1..p : ids[q] = s[i].id}) = Nth(ids, p)
  BY DEF Nth
<1>5. mentions = {p \in 1..Len(ids) : ids[p] = s[i].id /\ Nth(ids, p) = Nth(Names(s), i)}
  <2> HIDE DEF nth
  <2>1. \A p \in 1..Len(ids) :
          (ids[p] = s[i].id /\ Cardinality({q \in 1..p : ids[q] = s[i].id}) = nth)
            <=> (ids[p] = s[i].id /\ Nth(ids, p) = Nth(Names(s), i))
    BY <1>3, <1>4
  <2> QED BY <1>2, <2>1
<1> HIDE DEF mentions, nth
<1>6. \A p, q \in mentions : p = q
  <2> SUFFICES ASSUME NEW p \in mentions, NEW q \in mentions PROVE p = q
    OBVIOUS
  <2> DEFINE v == s[i].id
  <2>1. \A x, y \in Places(ids, Len(ids), v) : x < y => Nth(ids, x) < Nth(ids, y)
    BY <1>2, NthCounts
  <2>2. /\ p \in Places(ids, Len(ids), v) /\ q \in Places(ids, Len(ids), v)
        /\ Nth(ids, p) = Nth(ids, q)
    BY <1>5 DEF Places
  <2>3. \A x \in Places(ids, Len(ids), v) : Nth(ids, x) \in Nat \ {0}
    BY <1>2, NthCounts
  <2>4. p \in Nat /\ q \in Nat
    BY <1>5
  <2> HIDE DEF v
  <2>5. ~(p < q) /\ ~(q < p)
    BY <2>1, <2>2, <2>3
  <2> QED BY <2>4, <2>5
<1>7. CASE mentions = {}
  BY <1>1, <1>2, <1>5, <1>7
<1>8. CASE mentions # {}
  <2>1. Slot(s, ids, i) \in mentions
    BY <1>1, <1>8
  <2> QED BY <1>2, <1>5, <1>6, <2>1
<1> QED BY <1>7, <1>8

\* No two rules have one slot; of one id the first has the first slot.
LEMMA SlotOrder ==
    ASSUME NEW s \in Seq(Rule), NEW ids \in Seq(Ids), NEW i \in DOMAIN s, NEW j \in DOMAIN s, i < j
    PROVE  Slot(s, ids, i) # Slot(s, ids, j)
<1>1. DOMAIN s = 1..Len(s) /\ Len(s) \in Nat /\ Len(ids) \in Nat
  BY LenProperties
<1>2. /\ Slot(s, ids, i) \in Nat \ {0} /\ Slot(s, ids, j) \in Nat \ {0}
      /\ Slot(s, ids, i) > Len(ids) => Slot(s, ids, i) = Len(ids) + i
      /\ Slot(s, ids, j) > Len(ids) => Slot(s, ids, j) = Len(ids) + j
  BY SlotFacts
<1>3. CASE Slot(s, ids, i) > Len(ids) \/ Slot(s, ids, j) > Len(ids)
  BY <1>1, <1>2, <1>3
<1>4. CASE Slot(s, ids, i) <= Len(ids) /\ Slot(s, ids, j) <= Len(ids)
  <2> SUFFICES ASSUME Slot(s, ids, i) = Slot(s, ids, j) PROVE FALSE
    OBVIOUS
  <2>1. s[i].id = s[j].id /\ Nth(Names(s), i) = Nth(Names(s), j)
    BY <1>4, SlotFacts
  <2> DEFINE v == s[i].id
             I == Places(Names(s), Len(s), v)
  <2>2. i \in I /\ j \in I
    BY <1>1, <2>1 DEF Names, Places
  <2>3. /\ \A x, y \in I : x < y => Nth(Names(s), x) < Nth(Names(s), y)
        /\ \A x \in I : Nth(Names(s), x) \in Nat \ {0}
    <3> HIDE DEF v
    <3> QED BY <1>1, NthCounts
  <2> HIDE DEF I
  <2>4. Nth(Names(s), i) < Nth(Names(s), j)
    BY <2>2, <2>3
  <2> QED BY <2>1, <2>2, <2>3, <2>4
<1> QED BY <1>1, <1>2, <1>3, <1>4

\* The first rule of an id that has no earlier slot has its next mention.
LEMMA FirstHasSlot ==
    ASSUME NEW s \in Seq(Rule), NEW ids \in Seq(Ids), NEW n \in 1..Len(ids),
           NEW j \in DOMAIN s, s[j].id = ids[n], Slot(s, ids, j) >= n,
           \A i \in DOMAIN s : i < j /\ s[i].id = ids[n] => Slot(s, ids, i) < n
    PROVE  Slot(s, ids, j) = n
<1> DEFINE v == ids[n]
           I == Places(Names(s), Len(s), v)
           M == Places(ids, Len(ids), v)
<1>1. DOMAIN s = 1..Len(s) /\ Len(s) \in Nat /\ Len(ids) \in Nat
  BY LenProperties
<1>2. /\ \A x, y \in I : x < y => Nth(Names(s), x) < Nth(Names(s), y)
      /\ \A x \in I : Nth(Names(s), x) \in Nat \ {0}
      /\ \A y \in I : \A k \in 1..Nth(Names(s), y) : \E x \in I : Nth(Names(s), x) = k
  <2> HIDE DEF v
  <2> QED BY <1>1, NthCounts
<1>3. /\ \A x, y \in M : x < y => Nth(ids, x) < Nth(ids, y)
      /\ \A x \in M : Nth(ids, x) \in Nat \ {0}
      /\ \A y \in M : \A k \in 1..Nth(ids, y) : \E x \in M : Nth(ids, x) = k
  <2> HIDE DEF v
  <2> QED BY <1>1, NthCounts
<1>4. \A z \in I : z \in DOMAIN s /\ s[z].id = v
  BY <1>1 DEF Names, Places
<1>5. j \in I /\ n \in M
  BY <1>1 DEF Names, Places
<1>6. \A z \in M : z \in 1..Len(ids) /\ ids[z] = v
  BY DEF Places
<1>7. \A x \in I, p \in M : Nth(ids, p) = Nth(Names(s), x) => Slot(s, ids, x) = p
  <2> SUFFICES ASSUME NEW x \in I, NEW p \in M, Nth(ids, p) = Nth(Names(s), x)
               PROVE  Slot(s, ids, x) = p
    OBVIOUS
  <2> QED BY <1>4, <1>6, SlotFacts
<1> HIDE DEF I, M
<1>8. CASE Nth(ids, n) = Nth(Names(s), j)
  BY <1>5, <1>7, <1>8
<1>9. CASE Nth(ids, n) > Nth(Names(s), j)
  <2>1. PICK p \in M : Nth(ids, p) = Nth(Names(s), j)
    BY <1>2, <1>3, <1>5, <1>9
  <2>2. p < n
    <3>1. ~(n < p) /\ p # n
      BY <1>2, <1>3, <1>5, <1>9, <2>1
    <3> QED BY <1>1, <1>6, <3>1
  <2>3. Slot(s, ids, j) = p
    BY <1>5, <1>7, <2>1
  <2> QED BY <1>1, <1>6, <2>2, <2>3
<1>10. CASE Nth(ids, n) < Nth(Names(s), j)
  <2>1. PICK i \in I : Nth(Names(s), i) = Nth(ids, n)
    BY <1>2, <1>3, <1>5, <1>10
  <2>2. i < j
    <3>1. ~(j < i) /\ i # j
      BY <1>2, <1>3, <1>5, <1>10, <2>1
    <3> QED BY <1>1, <1>4, <3>1
  <2>3. Slot(s, ids, i) = n
    BY <1>5, <1>7, <2>1
  <2> QED BY <1>1, <1>4, <2>2, <2>3
<1>11. Nth(ids, n) \in Nat /\ Nth(Names(s), j) \in Nat
  BY <1>2, <1>3, <1>5
<1> QED BY <1>8, <1>9, <1>10, <1>11

\* A listing grows at its end by a position with a greater key.
LEMMA ListsMore ==
    ASSUME NEW I \in SUBSET Int, NEW key, \A i \in I : key[i] \in Int,
           NEW m \in Nat, NEW src, Lists(src, m, I, key),
           NEW j \in Int, key[j] \in Int, \A i \in I : key[i] < key[j]
    PROVE  Lists([k \in 1..(m + 1) |-> IF k <= m THEN src[k] ELSE j], m + 1, I \cup {j}, key)
<1> DEFINE more == [k \in 1..(m + 1) |-> IF k <= m THEN src[k] ELSE j]
<1>1. /\ src \in [1..m -> I]
      /\ \A i \in I : \E k \in 1..m : src[k] = i
      /\ \A k, l \in 1..m : k < l => src[k] # src[l] /\ Before(key, src[k], src[l])
  BY DEF Lists
<1>2. j \notin I
  OBVIOUS
<1>3. more \in [1..(m + 1) -> I \cup {j}]
  BY <1>1
<1>4. \A i \in I \cup {j} : \E k \in 1..(m + 1) : more[k] = i
  <2>1. more[m + 1] = j
    OBVIOUS
  <2>2. ASSUME NEW i \in I PROVE \E k \in 1..(m + 1) : more[k] = i
    <3>1. PICK k \in 1..m : src[k] = i
      BY <1>1
    <3>2. k \in 1..(m + 1) /\ more[k] = i
      BY <3>1
    <3> QED BY <3>2
  <2> QED BY <2>1, <2>2
<1>5. ASSUME NEW k \in 1..(m + 1), NEW l \in 1..(m + 1), k < l
      PROVE  more[k] # more[l] /\ Before(key, more[k], more[l])
  <2>1. CASE l <= m
    <3>1. k \in 1..m /\ l \in 1..m /\ more[k] = src[k] /\ more[l] = src[l]
      BY <1>5, <2>1
    <3> QED BY <1>1, <1>5, <3>1
  <2>2. CASE l = m + 1
    <3>1. k \in 1..m /\ more[k] = src[k] /\ more[l] = j
      BY <1>5, <2>2
    <3>2. src[k] \in I
      BY <1>1, <3>1
    <3> QED BY <1>2, <3>1, <3>2 DEF Before
  <2> QED BY <2>1, <2>2
<1> HIDE DEF more
<1>6. Lists(more, m + 1, I \cup {j}, key)
  BY <1>3, <1>4, <1>5 DEF Lists
<1> QED BY <1>6 DEF more

\* Without one of its positions a listing closes up.
LEMMA ListsLess ==
    ASSUME NEW I \in SUBSET Int, NEW key, NEW m \in Nat, NEW src, Lists(src, m, I, key),
           NEW f \in 1..m
    PROVE  Lists([k \in 1..(m - 1) |-> IF k < f THEN src[k] ELSE src[k + 1]], m - 1, I \ {src[f]}, key)
<1> DEFINE less == [k \in 1..(m - 1) |-> IF k < f THEN src[k] ELSE src[k + 1]]
           old(k) == IF k < f THEN k ELSE k + 1
<1>1. /\ src \in [1..m -> I]
      /\ \A i \in I : \E k \in 1..m : src[k] = i
      /\ \A k, l \in 1..m : k < l => src[k] # src[l] /\ Before(key, src[k], src[l])
  BY DEF Lists
<1>2. \A k \in 1..(m - 1) : old(k) \in 1..m /\ old(k) # f /\ less[k] = src[old(k)]
  OBVIOUS
<1>3. \A k, l \in 1..(m - 1) : k < l => old(k) < old(l)
  OBVIOUS
<1>4. \A h \in 1..m : h # f => \E k \in 1..(m - 1) : old(k) = h
  <2> TAKE h \in 1..m
  <2> HAVE h # f
  <2>1. CASE h < f
    <3>1. h \in 1..(m - 1) /\ old(h) = h
      BY <2>1
    <3> QED BY <3>1
  <2>2. CASE f < h
    <3>1. h - 1 \in 1..(m - 1) /\ old(h - 1) = h
      BY <2>2
    <3> QED BY <3>1
  <2> QED BY <2>1, <2>2
<1>5. \A k, l \in 1..m : src[k] = src[l] => k = l
  BY <1>1
<1>6. less \in [1..(m - 1) -> I \ {src[f]}]
  <2>1. \A k \in 1..(m - 1) : less[k] \in I \ {src[f]}
    <3> HIDE DEF less, old
    <3> QED BY <1>1, <1>2, <1>5
  <2> QED BY <2>1
<1>7. \A i \in I \ {src[f]} : \E k \in 1..(m - 1) : less[k] = i
  <2> HIDE DEF less, old
  <2> TAKE i \in I \ {src[f]}
  <2>1. PICK h \in 1..m : src[h] = i /\ h # f
    BY <1>1
  <2>2. PICK k \in 1..(m - 1) : old(k) = h
    BY <1>4, <2>1
  <2> QED BY <1>2, <2>1, <2>2
<1>8. \A k, l \in 1..(m - 1) : k < l => less[k] # less[l] /\ Before(key, less[k], less[l])
  <2> HIDE DEF less, old
  <2> QED BY <1>1, <1>2, <1>3
<1> HIDE DEF less, old
<1>9. Lists(less, m - 1, I \ {src[f]}, key)
  BY <1>6, <1>7, <1>8 DEF Lists
<1> QED BY <1>9 DEF less

\* A set of natural numbers has a least element.
Below == {p \in Nat \X Nat : p[1] < p[2]}

LEMMA Least ==
    ASSUME NEW T \in SUBSET Nat, T # {}
    PROVE  \E i \in T : \A j \in T : i <= j
<1>1. IsWellFoundedOn(Below, Nat)
  BY NatLessThanWellFounded DEF OpToRel, Below
<1>2. PICK i \in T : \A j \in T : ~(<<j, i>> \in Below)
  BY <1>1, WFMin
<1>3. ASSUME NEW j \in T PROVE i <= j
  <2>1. j < i => <<j, i>> \in Below
    BY DEF Below
  <2> QED BY <1>2, <2>1
<1> QED BY <1>3

\* The loop's lists before the first id and after each.
LEMMA MovesUnfold ==
    ASSUME NEW s, NEW ids \in Seq(Ids)
    PROVE  /\ Moves(s, ids)[0] = [moved |-> <<>>, left |-> s]
           /\ \A n \in 1..Len(ids) : Moves(s, ids)[n] = Move(Moves(s, ids)[n-1], ids[n])
<1> DEFINE start == [moved |-> <<>>, left |-> s]
           step(f, n) == IF n = 0 THEN start ELSE Move(f[n-1], ids[n])
           IsLoop(f, m) == f = [n \in 0..m |-> step(f, n)]
           bad == {m \in 0..Len(ids) : ~ \E f : IsLoop(f, m)}
<1>1. Len(ids) \in Nat
  BY LenProperties
<1>2. bad = {}
  <2> SUFFICES ASSUME bad # {} PROVE FALSE
    OBVIOUS
  <2>1. PICK m \in bad : \A h \in bad : m <= h
    <3>1. bad \in SUBSET Nat
      OBVIOUS
    <3> HIDE DEF bad
    <3> QED BY <3>1, Least
  <2>2. CASE m = 0
    <3> DEFINE f == [n \in 0..0 |-> start]
    <3>1. IsLoop(f, 0)
      OBVIOUS
    <3> QED BY <2>2, <3>1
  <2>3. CASE m # 0
    <3>1. m \in 1..Len(ids) /\ m - 1 \in 0..Len(ids)
      <4>1. m \in 0..Len(ids)
        OBVIOUS
      <4> QED BY <1>1, <2>3, <4>1
    <3>2. PICK f : IsLoop(f, m - 1)
      <4>1. m - 1 \notin bad
        <5> HIDE DEF bad
        <5> QED BY <1>1, <2>1, <3>1
      <4> QED BY <3>1, <4>1
    <3> DEFINE g == [n \in 0..m |-> IF n = m THEN Move(f[m-1], ids[m]) ELSE f[n]]
    <3>3. ASSUME NEW n \in 0..m PROVE g[n] = step(g, n)
      <4>1. CASE n = m
        BY <2>3, <3>1, <4>1
      <4>2. CASE n # m
        <5>1. n \in 0..(m - 1) /\ g[n] = f[n] /\ f[n] = step(f, n)
          BY <3>1, <3>2, <4>2
        <5>2. n # 0 => n - 1 \in 0..m /\ n - 1 # m
          BY <5>1, <3>1
        <5>3. n # 0 => g[n - 1] = f[n - 1]
          BY <5>2
        <5> HIDE DEF g
        <5> QED BY <5>1, <5>3
      <4> QED BY <4>1, <4>2
    <3>4. g = [n \in 0..m |-> g[n]]
      OBVIOUS
    <3>5. IsLoop(g, m)
      <4> HIDE DEF g
      <4> QED BY <3>3, <3>4
    <3> QED BY <3>5
  <2> QED BY <2>2, <2>3
<1>3. \E f : IsLoop(f, Len(ids))
  BY <1>1, <1>2
<1>4. Moves(s, ids) = CHOOSE f : IsLoop(f, Len(ids))
  BY DEF Moves
<1>5. IsLoop(Moves(s, ids), Len(ids))
  BY <1>3, <1>4
<1> HIDE DEF bad
<1>6. \A n \in 0..Len(ids) : Moves(s, ids)[n] = step(Moves(s, ids), n)
  BY <1>5
<1> QED BY <1>1, <1>6

\* What the loop holds after n ids: moved are the rules whose slot is one of
\* the first n, by their slots, and left the others, as they were.
SlotOf(s, ids) == [i \in DOMAIN s |-> Slot(s, ids, i)]
Moved(s, ids, n) == {i \in DOMAIN s : Slot(s, ids, i) <= n}
NotMoved(s, ids, n) == {i \in DOMAIN s : Slot(s, ids, i) > n}

HoldsAfter(s, ids, n, m, a, l, b) ==
    /\ m \in Nat /\ l \in Nat
    /\ Lists(a, m, Moved(s, ids, n), SlotOf(s, ids))
    /\ Lists(b, l, NotMoved(s, ids, n), IdentityOrder(s))
    /\ Moves(s, ids)[n] = [moved |-> [k \in 1..m |-> s[a[k]]], left |-> [k \in 1..l |-> s[b[k]]]]

LoopHolds(s, ids, n) == \E m, a, l, b : HoldsAfter(s, ids, n, m, a, l, b)

LEMMA LoopStarts ==
    ASSUME NEW s \in Seq(Rule), NEW ids \in Seq(Ids)
    PROVE  LoopHolds(s, ids, 0)
<1> DEFINE a == [k \in 1..0 |-> 0]
           b == [k \in 1..Len(s) |-> k]
<1>1. DOMAIN s = 1..Len(s) /\ Len(s) \in Nat
  BY LenProperties
<1>2. \A i \in DOMAIN s : Slot(s, ids, i) \in Nat \ {0}
  BY SlotFacts
<1>3. Moved(s, ids, 0) = {} /\ NotMoved(s, ids, 0) = DOMAIN s
  <2>1. \A i \in DOMAIN s : ~(Slot(s, ids, i) <= 0) /\ Slot(s, ids, i) > 0
    BY <1>2
  <2> QED BY <2>1 DEF Moved, NotMoved
<1>4. Lists(a, 0, Moved(s, ids, 0), SlotOf(s, ids))
  BY <1>3 DEF Lists
<1>5. Lists(b, Len(s), NotMoved(s, ids, 0), IdentityOrder(s))
  BY <1>1, <1>3 DEF Lists, IdentityOrder, Before
<1>6. s = [k \in 1..Len(s) |-> s[b[k]]]
  <2>1. s = [k \in 1..Len(s) |-> s[k]]
    BY <1>1
  <2>2. \A k \in 1..Len(s) : b[k] = k
    OBVIOUS
  <2> HIDE DEF b
  <2> QED BY <2>1, <2>2
<1>7. <<>> = [k \in 1..0 |-> s[a[k]]]
  OBVIOUS
<1>8. Moves(s, ids)[0] = [moved |-> <<>>, left |-> s]
  BY MovesUnfold
<1> HIDE DEF a, b
<1>9. HoldsAfter(s, ids, 0, 0, a, Len(s), b)
  BY <1>1, <1>4, <1>5, <1>6, <1>7, <1>8 DEF HoldsAfter
<1> QED BY <1>9 DEF LoopHolds

LEMMA LoopGoesOn ==
    ASSUME NEW s \in Seq(Rule), NEW ids \in Seq(Ids), NEW n \in 1..Len(ids), LoopHolds(s, ids, n - 1)
    PROVE  LoopHolds(s, ids, n)
<1>1. PICK m, a, l, b : HoldsAfter(s, ids, n - 1, m, a, l, b)
  BY DEF LoopHolds
<1> DEFINE left == [k \in 1..l |-> s[b[k]]]
           moved == [k \in 1..m |-> s[a[k]]]
           at == {k \in 1..l : s[b[k]].id = ids[n]}
           I == Moved(s, ids, n - 1)
           J == NotMoved(s, ids, n - 1)
<1>2. /\ m \in Nat /\ l \in Nat
      /\ Lists(a, m, I, SlotOf(s, ids))
      /\ Lists(b, l, J, IdentityOrder(s))
      /\ Moves(s, ids)[n - 1] = [moved |-> moved, left |-> left]
  BY <1>1 DEF HoldsAfter
<1>3. /\ DOMAIN s = 1..Len(s) /\ Len(s) \in Nat /\ Len(ids) \in Nat
      /\ n \in Nat /\ DOMAIN s \in SUBSET Int
  BY LenProperties
<1>4. \A i \in DOMAIN s : Slot(s, ids, i) \in Nat \ {0}
  BY SlotFacts
<1>5. /\ I \in SUBSET DOMAIN s /\ J \in SUBSET DOMAIN s
      /\ \A i \in DOMAIN s : i \in I <=> Slot(s, ids, i) < n
      /\ \A i \in DOMAIN s : i \in J <=> Slot(s, ids, i) >= n
  BY <1>3, <1>4 DEF Moved, NotMoved
<1>6. /\ b \in [1..l -> J]
      /\ \A i \in J : \E k \in 1..l : b[k] = i
      /\ \A k, h \in 1..l : k < h => b[k] < b[h]
  <2>1. \A k, h \in 1..l : k < h => b[k] # b[h] /\ Before(IdentityOrder(s), b[k], b[h])
    BY <1>2 DEF Lists
  <2>2. b \in [1..l -> J] /\ \A i \in J : \E k \in 1..l : b[k] = i
    BY <1>2 DEF Lists
  <2>3. \A k \in 1..l : b[k] \in DOMAIN s /\ b[k] \in Int
    BY <1>3, <1>5, <2>2
  <2>4. \A i, j \in DOMAIN s : Before(IdentityOrder(s), i, j) => i <= j
    BY <1>3 DEF Before, IdentityOrder
  <2>5. \A k, h \in 1..l : k < h => b[k] < b[h]
    BY <2>1, <2>3, <2>4
  <2> QED BY <2>2, <2>5
<1>7. Moves(s, ids)[n] = Move([moved |-> moved, left |-> left], ids[n])
  <2>1. Moves(s, ids)[n] = Move(Moves(s, ids)[n - 1], ids[n])
    BY MovesUnfold
  <2> HIDE DEF moved, left
  <2> QED BY <1>2, <2>1
<1>8. DOMAIN left = 1..l /\ \A k \in 1..l : left[k] = s[b[k]]
  OBVIOUS
<1>9. {k \in DOMAIN left : left[k].id = ids[n]} = at
  BY <1>8
<1>10. CASE at = {}
  <2>1. \A i \in DOMAIN s : Slot(s, ids, i) # n
    <3> SUFFICES ASSUME NEW i \in DOMAIN s, Slot(s, ids, i) = n PROVE FALSE
      OBVIOUS
    <3>1. s[i].id = ids[n]
      BY <1>3, SlotFacts
    <3>2. PICK k \in 1..l : b[k] = i
      BY <1>3, <1>5, <1>6
    <3>3. k \in at
      BY <3>1, <3>2
    <3> QED BY <1>10, <3>3
  <2>2. Moved(s, ids, n) = I /\ NotMoved(s, ids, n) = J
    BY <1>3, <1>4, <2>1 DEF Moved, NotMoved
  <2>3. Moves(s, ids)[n] = [moved |-> moved, left |-> left]
    <3> HIDE DEF moved, left, at
    <3> QED BY <1>7, <1>9, <1>10 DEF Move
  <2>4. HoldsAfter(s, ids, n, m, a, l, b)
    <3> HIDE DEF I, J
    <3> QED BY <1>2, <2>2, <2>3 DEF HoldsAfter
  <2> QED BY <2>4 DEF LoopHolds
<1>11. CASE at # {}
  <2> DEFINE first == CHOOSE i \in at : \A j \in at : i <= j
             j == b[first]
             a2 == [k \in 1..(m + 1) |-> IF k <= m THEN a[k] ELSE j]
             b2 == [k \in 1..(l - 1) |-> IF k < first THEN b[k] ELSE b[k + 1]]
  <2>1. first \in at /\ \A k \in at : first <= k
    <3>1. at \in SUBSET Nat
      OBVIOUS
    <3> HIDE DEF at
    <3>2. \E i \in at : \A k \in at : i <= k
      BY <1>11, <3>1, Least
    <3> QED BY <3>2
  <2>2. first \in 1..l /\ s[j].id = ids[n] /\ j \in J
    BY <1>6, <2>1
  <2> HIDE DEF first
  <2>3. j \in DOMAIN s /\ j \in Int /\ Slot(s, ids, j) >= n
    <3> HIDE DEF j
    <3> QED BY <1>3, <1>5, <2>2
  <2>4. \A i \in DOMAIN s : i < j /\ s[i].id = ids[n] => Slot(s, ids, i) < n
    <3> SUFFICES ASSUME NEW i \in DOMAIN s, i < j, s[i].id = ids[n], ~(Slot(s, ids, i) < n)
                 PROVE  FALSE
      OBVIOUS
    <3>1. i \in J
      BY <1>3, <1>4, <1>5
    <3>2. PICK k \in 1..l : b[k] = i
      BY <1>6, <3>1
    <3>3. k \in at /\ first <= k
      BY <2>1, <3>2
    <3>4. b[first] <= b[k]
      BY <1>3, <1>6, <2>2, <2>3, <3>2, <3>3
    <3> QED BY <1>3, <2>3, <3>2, <3>4
  <2>5. Slot(s, ids, j) = n
    <3> HIDE DEF j
    <3> QED BY <2>2, <2>3, <2>4, FirstHasSlot
  <2>6. \A i \in DOMAIN s : Slot(s, ids, i) = n => i = j
    <3> HIDE DEF j
    <3>1. \A i \in DOMAIN s : i < j \/ j < i \/ i = j
      BY <1>3, <2>3
    <3> QED BY <2>3, <2>5, <3>1, SlotOrder
  <2>7. Moved(s, ids, n) = I \cup {j} /\ NotMoved(s, ids, n) = J \ {j}
    <3> HIDE DEF j
    <3> QED BY <1>3, <1>4, <2>3, <2>5, <2>6 DEF Moved, NotMoved
  <2>8. Lists(a2, m + 1, I \cup {j}, SlotOf(s, ids))
    <3>1. /\ \A i \in I : SlotOf(s, ids)[i] \in Int /\ SlotOf(s, ids)[i] < SlotOf(s, ids)[j]
          /\ SlotOf(s, ids)[j] \in Int /\ I \in SUBSET Int
      <4> HIDE DEF I, j
      <4> QED BY <1>3, <1>4, <1>5, <2>3, <2>5 DEF SlotOf
    <3> HIDE DEF I, j
    <3> QED BY <1>2, <2>3, <3>1, ListsMore
  <2>9. Lists(b2, l - 1, J \ {j}, IdentityOrder(s))
    <3>1. J \in SUBSET Int
      BY <1>3, <1>5
    <3> HIDE DEF J
    <3> QED BY <1>2, <2>2, <3>1, ListsLess
  <2>10. Moves(s, ids)[n] = [moved |-> Append(moved, left[first]), left |-> RemoveAt(left, first)]
    <3> HIDE DEF moved, left, at
    <3> QED BY <1>7, <1>9, <1>11 DEF Move, first
  <2>11. Append(moved, left[first]) = [k \in 1..(m + 1) |-> s[a2[k]]]
    <3>1. Len(moved) = m /\ left[first] = s[j]
      BY <1>2, <2>2
    <3> DEFINE S == {s[i] : i \in DOMAIN s}
    <3>2. moved \in Seq(S) /\ left[first] \in S
      <4>1. \A k \in 1..m : a[k] \in DOMAIN s
        BY <1>2, <1>5 DEF Lists
      <4>2. \A i \in DOMAIN s : s[i] \in S
        OBVIOUS
      <4> HIDE DEF S
      <4>3. moved \in [1..m -> S]
        BY <4>1, <4>2
      <4>4. left[first] \in S
        BY <2>3, <3>1, <4>2
      <4> HIDE DEF moved
      <4> QED BY <1>2, <4>3, <4>4
    <3>3. /\ Append(moved, left[first]) = [k \in 1..(m + 1) |-> IF k <= m THEN moved[k] ELSE left[first]]
      <4> HIDE DEF moved, left, S
      <4> QED BY <1>2, <3>1, <3>2, AppendProperties
    <3>4. \A k \in 1..(m + 1) : (IF k <= m THEN moved[k] ELSE left[first]) = s[a2[k]]
      BY <1>2, <3>1
    <3> HIDE DEF moved, left, a2
    <3> QED BY <3>3, <3>4
  <2>12. RemoveAt(left, first) = [k \in 1..(l - 1) |-> s[b2[k]]]
    <3>1. left \in Seq({s[i] : i \in DOMAIN s}) /\ Len(left) = l
      BY <1>2, <1>5, <1>6
    <3> DEFINE R == RemoveAt(left, first)
    <3>2. R = SubSeq(left, 1, first - 1) \o SubSeq(left, first + 1, l)
      BY <3>1 DEF RemoveAt
    <3>3. R = [k \in 1..(l - 1) |-> IF k < first THEN left[k] ELSE left[k + 1]]
      <4> DEFINE S == {s[i] : i \in DOMAIN s}
                 x == SubSeq(left, 1, first - 1)
                 y == SubSeq(left, first + 1, l)
      <4>1. left \in Seq(S) /\ Len(left) = l
        BY <3>1
      <4> HIDE DEF left, S, R
      <4>2. /\ x \in Seq(S) /\ Len(x) = first - 1
            /\ \A k \in 1..(first - 1) : x[k] = left[k]
        BY <1>2, <2>2, <4>1, SubSeqProperties
      <4>3. /\ y \in Seq(S) /\ Len(y) = l - first
            /\ \A k \in 1..(l - first) : y[k] = left[k + first]
        BY <1>2, <2>2, <4>1, SubSeqProperties
      <4> HIDE DEF x, y
      <4>4. /\ Len(x \o y) = l - 1
            /\ \A k \in 1..(l - 1) : (x \o y)[k] = IF k <= first - 1 THEN x[k] ELSE y[k - (first - 1)]
        <5>1. (first - 1) + (l - first) = l - 1
          BY <1>2, <2>2
        <5>2. /\ Len(x \o y) = Len(x) + Len(y)
              /\ \A k \in 1..(Len(x) + Len(y)) :
                   (x \o y)[k] = IF k <= Len(x) THEN x[k] ELSE y[k - Len(x)]
          BY <4>2, <4>3, ConcatProperties
        <5> QED BY <4>2, <4>3, <5>1, <5>2
      <4>5. R \in Seq(S) /\ Len(R) = l - 1 /\ R = x \o y
        BY <3>2, <4>2, <4>3, <4>4, ConcatProperties DEF x, y
      <4>6. \A k \in 1..(l - 1) : R[k] = IF k < first THEN left[k] ELSE left[k + 1]
        <5> TAKE k \in 1..(l - 1)
        <5>1. CASE k < first
          <6>1. k \in 1..(first - 1) /\ k <= first - 1
            BY <1>2, <2>2, <5>1
          <6> QED BY <4>2, <4>4, <4>5, <5>1, <6>1
        <5>2. CASE k >= first
          <6>1. k - (first - 1) \in 1..(l - first) /\ (k - (first - 1)) + first = k + 1
            BY <1>2, <2>2, <5>2
          <6> QED BY <1>2, <2>2, <4>3, <4>4, <4>5, <5>2, <6>1
        <5> QED BY <2>2, <5>1, <5>2
      <4>7. R = [k \in 1..(l - 1) |-> R[k]]
        BY <4>5, LenProperties
      <4> QED BY <4>6, <4>7
    <3>4. \A k \in 1..(l - 1) : (IF k < first THEN left[k] ELSE left[k + 1]) = s[b2[k]]
      BY <1>2, <2>2
    <3> HIDE DEF left, b2
    <3> QED BY <3>3, <3>4
  <2>13. HoldsAfter(s, ids, n, m + 1, a2, l - 1, b2)
    <3>1. m + 1 \in Nat /\ l - 1 \in Nat
      BY <1>2, <2>2
    <3> HIDE DEF I, J, a2, b2, j, moved, left
    <3> QED BY <2>7, <2>8, <2>9, <2>10, <2>11, <2>12, <3>1 DEF HoldsAfter
  <2> QED BY <2>13 DEF LoopHolds
<1> QED BY <1>10, <1>11

LEMMA LoopHoldsToItsEnd ==
    ASSUME NEW s \in Seq(Rule), NEW ids \in Seq(Ids)
    PROVE  LoopHolds(s, ids, Len(ids))
<1> DEFINE bad == {n \in 0..Len(ids) : ~LoopHolds(s, ids, n)}
<1>1. Len(ids) \in Nat
  BY LenProperties
<1>2. bad = {}
  <2> SUFFICES ASSUME bad # {} PROVE FALSE
    OBVIOUS
  <2>1. PICK n \in bad : \A h \in bad : n <= h
    <3>1. bad \in SUBSET Nat
      OBVIOUS
    <3> HIDE DEF bad
    <3> QED BY <3>1, Least
  <2>2. n \in 0..Len(ids) /\ ~LoopHolds(s, ids, n)
    OBVIOUS
  <2>3. n # 0
    BY <2>2, LoopStarts
  <2>4. n \in 1..Len(ids) /\ n - 1 \in 0..Len(ids) /\ ~(n <= n - 1)
    BY <1>1, <2>2, <2>3
  <2>5. LoopHolds(s, ids, n - 1)
    BY <2>1, <2>4
  <2> QED BY <2>2, <2>4, <2>5, LoopGoesOn
<1> QED BY <1>1, <1>2

\* Sorting the rules by their slots is what reorder_rules' loop does.
LEMMA LoopReorders ==
    ASSUME NEW s \in Seq(Rule), NEW ids \in Seq(Ids)
    PROVE  Reordered(s, ids) = LoopReordered(s, ids)
<1> DEFINE N == Len(ids)
           I == Moved(s, ids, N)
           J == NotMoved(s, ids, N)
<1>1. PICK m, a, l, b : HoldsAfter(s, ids, N, m, a, l, b)
  BY LoopHoldsToItsEnd DEF LoopHolds
<1> DEFINE moved == [k \in 1..m |-> s[a[k]]]
           left == [k \in 1..l |-> s[b[k]]]
           c == [k \in 1..(m + l) |-> IF k <= m THEN a[k] ELSE b[k - m]]
<1>2. /\ m \in Nat /\ l \in Nat
      /\ Lists(a, m, I, SlotOf(s, ids))
      /\ Lists(b, l, J, IdentityOrder(s))
      /\ Moves(s, ids)[N] = [moved |-> moved, left |-> left]
  BY <1>1 DEF HoldsAfter
<1>3. DOMAIN s = 1..Len(s) /\ Len(s) \in Nat /\ N \in Nat
  BY LenProperties
<1>4. \A i \in DOMAIN s : /\ Slot(s, ids, i) \in Nat \ {0}
                          /\ Slot(s, ids, i) > N => Slot(s, ids, i) = N + i
  BY SlotFacts
<1>5. /\ I \cup J = DOMAIN s
      /\ \A i \in I : SlotOf(s, ids)[i] <= N
      /\ \A j \in J : SlotOf(s, ids)[j] = N + j /\ SlotOf(s, ids)[j] > N
  BY <1>3, <1>4 DEF Moved, NotMoved, SlotOf
<1>6. /\ a \in [1..m -> I] /\ b \in [1..l -> J]
      /\ \A i \in I : \E k \in 1..m : a[k] = i
      /\ \A j \in J : \E k \in 1..l : b[k] = j
      /\ \A k, h \in 1..m : k < h => a[k] # a[h] /\ Before(SlotOf(s, ids), a[k], a[h])
      /\ \A k, h \in 1..l : k < h => b[k] # b[h] /\ Before(IdentityOrder(s), b[k], b[h])
  BY <1>2 DEF Lists
<1>7. /\ DOMAIN s \in SUBSET Int /\ I \in SUBSET DOMAIN s /\ J \in SUBSET DOMAIN s
      /\ \A i \in DOMAIN s : SlotOf(s, ids)[i] \in Int
  BY <1>3, <1>4 DEF Moved, NotMoved, SlotOf
<1> HIDE DEF I, J, N
<1>8. Lists(c, m + l, DOMAIN s, SlotOf(s, ids))
  <2>1. \A k \in 1..(m + l) : k > m => k - m \in 1..l
    BY <1>2
  <2>2. c \in [1..(m + l) -> DOMAIN s]
    <3>1. \A k \in 1..(m + l) : k <= m => k \in 1..m
      BY <1>2
    <3>2. \A k \in 1..(m + l) : c[k] \in DOMAIN s
      BY <1>2, <1>5, <1>6, <2>1, <3>1
    <3> QED BY <3>2
  <2>3. ASSUME NEW i \in DOMAIN s PROVE \E k \in 1..(m + l) : c[k] = i
    <3>1. CASE i \in I
      <4>1. PICK k \in 1..m : a[k] = i
        BY <1>6, <3>1
      <4>2. k \in 1..(m + l) /\ c[k] = i
        BY <1>2, <4>1
      <4> QED BY <4>2
    <3>2. CASE i \in J
      <4>1. PICK k \in 1..l : b[k] = i
        BY <1>6, <3>2
      <4>2. m + k \in 1..(m + l) /\ ~(m + k <= m) /\ (m + k) - m = k
        BY <1>2, <4>1
      <4>3. c[m + k] = i
        BY <4>1, <4>2
      <4> QED BY <4>2, <4>3
    <3> QED BY <1>5, <3>1, <3>2
  <2>4. ASSUME NEW k \in 1..(m + l), NEW h \in 1..(m + l), k < h
        PROVE  c[k] # c[h] /\ Before(SlotOf(s, ids), c[k], c[h])
    <3>1. CASE h <= m
      <4>1. k \in 1..m /\ h \in 1..m /\ c[k] = a[k] /\ c[h] = a[h]
        BY <1>2, <2>4, <3>1
      <4> QED BY <1>6, <2>4, <4>1
    <3>2. CASE k <= m /\ h > m
      <4>1. k \in 1..m /\ h - m \in 1..l /\ c[k] = a[k] /\ c[h] = b[h - m]
        BY <1>2, <2>1, <3>2
      <4>2. a[k] \in I /\ b[h - m] \in J
        BY <1>6, <4>1
      <4>3. SlotOf(s, ids)[a[k]] < SlotOf(s, ids)[b[h - m]]
        BY <1>3, <1>5, <1>7, <4>2
      <4>4. SlotOf(s, ids)[a[k]] \in Int
        BY <1>7, <4>2
      <4>5. a[k] # b[h - m]
        BY <4>3, <4>4
      <4> QED BY <4>1, <4>3, <4>5 DEF Before
    <3>3. CASE k > m
      <4>1. /\ k - m \in 1..l /\ h - m \in 1..l /\ k - m < h - m
            /\ c[k] = b[k - m] /\ c[h] = b[h - m]
        BY <1>2, <2>1, <2>4, <3>3
      <4>2. /\ b[k - m] \in J /\ b[h - m] \in J /\ b[k - m] # b[h - m]
            /\ Before(IdentityOrder(s), b[k - m], b[h - m])
        BY <1>6, <4>1
      <4>3. \A i, j \in J : i # j /\ Before(IdentityOrder(s), i, j) => i < j
        BY <1>7 DEF Before, IdentityOrder
      <4>4. b[k - m] < b[h - m] /\ b[k - m] \in Int /\ b[h - m] \in Int
        BY <1>7, <4>2, <4>3
      <4>5. SlotOf(s, ids)[b[k - m]] < SlotOf(s, ids)[b[h - m]]
        BY <1>3, <1>5, <4>2, <4>4
      <4> QED BY <4>1, <4>2, <4>5 DEF Before
    <3> QED BY <1>2, <3>1, <3>2, <3>3
  <2> HIDE DEF c
  <2> QED BY <2>2, <2>3, <2>4 DEF Lists
<1>9. Arrange(s, DOMAIN s, SlotOf(s, ids)) = [k \in 1..(m + l) |-> s[c[k]]]
  <2>1. m + l \in Nat
    BY <1>2
  <2> HIDE DEF c
  <2> QED BY <1>7, <1>8, <2>1, ArrangeIsListing
<1>10. moved \o left = [k \in 1..(m + l) |-> s[c[k]]]
  <2> DEFINE S == {s[i] : i \in DOMAIN s}
  <2>1. \A i \in DOMAIN s : s[i] \in S
    OBVIOUS
  <2>2. /\ \A k \in 1..m : a[k] \in DOMAIN s
        /\ \A k \in 1..l : b[k] \in DOMAIN s
    BY <1>5, <1>6
  <2> HIDE DEF S
  <2>3. moved \in [1..m -> S] /\ left \in [1..l -> S]
    BY <2>1, <2>2
  <2>4. moved \in Seq(S) /\ left \in Seq(S) /\ Len(moved) = m /\ Len(left) = l
    BY <1>2, <2>3
  <2>5. \A k \in 1..(m + l) : (IF k <= m THEN moved[k] ELSE left[k - m]) = s[c[k]]
    <3> TAKE k \in 1..(m + l)
    <3>1. CASE k <= m
      BY <1>2, <3>1
    <3>2. CASE k > m
      <4>1. k - m \in 1..l
        BY <1>2, <3>2
      <4> QED BY <1>2, <3>2, <4>1
    <3> QED BY <1>2, <3>1, <3>2
  <2> HIDE DEF moved, left, c
  <2>6. moved \o left = [k \in 1..(m + l) |-> IF k <= m THEN moved[k] ELSE left[k - m]]
    <3>1. /\ moved \o left \in Seq(S) /\ Len(moved \o left) = m + l
          /\ \A k \in 1..(m + l) : (moved \o left)[k] = IF k <= m THEN moved[k] ELSE left[k - m]
      BY <2>4, ConcatProperties
    <3>2. moved \o left = [k \in 1..(m + l) |-> (moved \o left)[k]]
      BY <3>1, LenProperties
    <3> QED BY <3>1, <3>2
  <2> QED BY <2>5, <2>6
<1>11. LoopReordered(s, ids) = moved \o left
  <2> HIDE DEF moved, left
  <2> QED BY <1>2 DEF LoopReordered, N
<1>12. Reordered(s, ids) = Arrange(s, DOMAIN s, SlotOf(s, ids))
  BY DEF Reordered, SlotOf
<1> QED BY <1>9, <1>10, <1>11, <1>12

\* reorder_rules' loop, for every list of rules and every list of ids within the
\* bound (rules_engine.rs, 127-143): the n-th rule of an id goes where the id is
\* mentioned for the n-th time, the others follow as they were.
THEOREM ReorderingIsTheLoop == Spec => []ReorderIsTheLoop
<1>1. ASSUME TypeOK PROVE ReorderIsTheLoop
  <2>1. rules \in Seq(Rule)
    BY <1>1 DEF TypeOK
  <2>2. \A n \in 0..MaxReorder : \A ids \in [1..n -> Ids] : ids \in Seq(Ids)
    BY RulesAssumption
  <2> QED BY <2>1, <2>2, LoopReorders DEF ReorderIsTheLoop
<1> QED BY <1>1, TypeCorrect, PTL
=============================================================================
