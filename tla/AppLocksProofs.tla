---------------------------- MODULE AppLocksProofs ----------------------------
(***************************************************************************)
(* Theorems about the locks of the backend, for any number of tasks and any *)
(* of the commands.                                                        *)
(*                                                                         *)
(* BlocksHaveACause is an argument by an order of the locks.  A command     *)
(* that is none of the causes asks for a lock only while what it has in     *)
(* hand comes before that lock, the lock `config' set apart: it comes       *)
(* before and after `ca', but only set_proxy_config ever writes it.  Of     *)
(* tasks that wait for each other, those that wait for the last lock cannot *)
(* all wait, since who holds that lock would have to wait for a later one.  *)
(* The order is a property of the scripts, and is shown of each from its    *)
(* parts.  TheBackendGoesOn follows: unless one of the causes is under way,*)
(* some command can take its next step.                                    *)
(***************************************************************************)
EXTENDS AppLocks, OrderingProofs

\* How many locks may still be asked for after one; those not listed are only
\* ever held alone.
Level == [l \in Locks |-> CASE l = "stats" -> 3
                            [] l = "task" -> 2
                            [] l = "ca" -> 1
                            [] l = "rules" -> 1
                            [] OTHER -> 0]

\* With a in hand, b may be asked for.
MayFollow(a, b) == "config" \in {a, b} \/ Level[b] < Level[a]

Takes(s, k) == s[k].do # "drop"

\* What is taken at j is in hand before k.
Until(s, j, k) ==
    /\ Takes(s, j)
    /\ \A m \in DOMAIN s : j < m /\ m < k => Takes(s, m) \/ s[m].lock # s[j].lock

Orderly(s) ==
    /\ s \in Seq(Operation)
    /\ \A k \in DOMAIN s : s[k].do = "write" => s[k].lock # "config"
    /\ \A j, k \in DOMAIN s : j < k /\ Takes(s, k) /\ Until(s, j, k) => MayFollow(s[j].lock, s[k].lock)

\* The locks a script asks for, those it has in hand at its end, those it drops.
Asked(s) == {s[k].lock : k \in {k \in DOMAIN s : Takes(s, k)}}
Kept(s) == {s[j].lock : j \in {j \in DOMAIN s : Until(s, j, Len(s) + 1)}}
Dropped(s) == {s[k].lock : k \in {k \in DOMAIN s : ~Takes(s, k)}}

\* An orderly script that asks for no more than A, keeps no more than K and drops
\* all of D.
Fits(s, A, K, D) == Orderly(s) /\ Asked(s) \subseteq A /\ Kept(s) \subseteq K /\ D \subseteq Dropped(s)

Excused == SelfBlocking \union {"set_proxy_config"}
-----------------------------------------------------------------------------
(* The scripts. *)

LEMMA Concat ==
    ASSUME NEW s, NEW A, NEW K, NEW D, Fits(s, A, K, D),
           NEW u, NEW B, NEW L, NEW E, Fits(u, B, L, E),
           \A a \in K, b \in B : MayFollow(a, b)
    PROVE  Fits(s \o u, A \union B, (K \ E) \union L, D \union E)
<1> DEFINE r == s \o u    n == Len(s)    m == Len(u)
<1>1. /\ s \in Seq(Operation) /\ u \in Seq(Operation) /\ n \in Nat /\ m \in Nat
      /\ DOMAIN s = 1..n /\ DOMAIN u = 1..m
  BY DEF Fits, Orderly
<1>2. /\ r \in Seq(Operation) /\ Len(r) = n + m /\ DOMAIN r = 1..n + m
      /\ \A i \in 1..n + m : r[i] = IF i <= n THEN s[i] ELSE u[i - n]
  BY <1>1, ConcatProperties
<1> HIDE DEF r, n, m
<1>3. /\ \A i \in 1..n : i \in 1..n + m /\ r[i] = s[i]
      /\ \A i \in 1..m : n + i \in 1..n + m /\ r[n + i] = u[i]
      /\ \A k \in 1..n + m : k \in 1..n \/ \E i \in 1..m : k = n + i
  <2>1. \A i \in 1..n : i \in 1..n + m /\ r[i] = s[i]
    BY <1>1, <1>2
  <2>2. ASSUME NEW i \in 1..m PROVE n + i \in 1..n + m /\ r[n + i] = u[i]
    <3> DEFINE x == n + i
    <3>1. x \in 1..n + m /\ n < x
      BY <1>1
    <3>2. x - n = i
      BY <1>1
    <3> HIDE DEF x
    <3>3. r[x] = u[x - n]
      BY <1>1, <1>2, <3>1
    <3>4. x \in 1..n + m /\ r[x] = u[i]
      BY <3>1, <3>2, <3>3
    <3> QED BY <3>4 DEF x
  <2>3. ASSUME NEW k \in 1..n + m, k \notin 1..n PROVE k - n \in 1..m /\ k = n + (k - n)
    BY <1>1, <2>3
  <2> QED BY <2>1, <2>2, <2>3
<1>4. \A k \in 1..n : Takes(r, k) <=> Takes(s, k)
  BY <1>3 DEF Takes
<1>5. \A k \in 1..m : Takes(r, n + k) <=> Takes(u, k)
  BY <1>3 DEF Takes
<1>6. ASSUME NEW j \in 1..n, NEW k \in 1..n + 1, Until(r, j, k) PROVE Until(s, j, k)
  <2>1. \A x \in 1..n : x \in 1..n + m
    BY <1>3
  <2> QED BY <1>1, <1>2, <1>3, <1>4, <1>6, <2>1 DEF Until
<1>7. ASSUME NEW j \in 1..m, NEW k \in 1..m + 1, Until(r, n + j, n + k) PROVE Until(u, j, k)
  <2> SUFFICES ASSUME NEW x \in 1..m, j < x, x < k PROVE Takes(u, x) \/ u[x].lock # u[j].lock
    BY <1>1, <1>5, <1>7 DEF Until
  <2>1. n + j < n + x /\ n + x < n + k /\ n + x \in DOMAIN r
    BY <1>1, <1>2, <1>3
  <2> QED BY <1>3, <1>5, <1>7, <2>1 DEF Until
<1>8. ASSUME NEW j \in 1..n, NEW k \in 1..m + 1, Until(r, j, n + k)
      PROVE  s[j].lock \in K
  <2>1. \A x \in 1..n : j < x /\ x < n + 1 => j < x /\ x < n + k /\ x \in DOMAIN r
    BY <1>1, <1>2
  <2>2. Until(s, j, n + 1)
    BY <1>1, <1>3, <1>4, <1>8, <2>1 DEF Until
  <2>3. s[j].lock \in Kept(s)
    BY <1>1, <2>2 DEF Kept, n
  <2> QED BY <2>3 DEF Fits
<1>9. ASSUME NEW j \in 1..n, Until(r, j, n + m + 1) PROVE s[j].lock \notin E
  <2> SUFFICES ASSUME s[j].lock \in Dropped(u) PROVE FALSE
    BY DEF Fits
  <2>1. PICK x \in 1..m : ~Takes(u, x) /\ u[x].lock = s[j].lock
    BY <1>1 DEF Dropped
  <2>2. n + x \in DOMAIN r /\ j < n + x /\ n + x < n + m + 1
    BY <1>1, <1>2
  <2> QED BY <1>3, <1>5, <1>9, <2>1, <2>2 DEF Until
<1>10. \A k \in DOMAIN r : r[k].do = "write" => r[k].lock # "config"
  <2>1. \A k \in 1..n : s[k].do = "write" => s[k].lock # "config"
    BY <1>1 DEF Fits, Orderly
  <2>2. \A k \in 1..m : u[k].do = "write" => u[k].lock # "config"
    BY <1>1 DEF Fits, Orderly
  <2>3. ASSUME NEW k \in 1..n + m, r[k].do = "write" PROVE r[k].lock # "config"
    BY <1>3, <2>1, <2>2, <2>3
  <2> QED BY <1>2, <2>3
<1>11. ASSUME NEW j \in DOMAIN r, NEW k \in DOMAIN r, j < k, Takes(r, k), Until(r, j, k)
       PROVE  MayFollow(r[j].lock, r[k].lock)
  <2>1. CASE j \in 1..n /\ k \in 1..n
    <3>1. Until(s, j, k) /\ Takes(s, k)
      BY <1>1, <1>4, <1>6, <1>11, <2>1
    <3> QED BY <1>1, <1>3, <1>11, <2>1, <3>1 DEF Fits, Orderly
  <2>2. ASSUME j \in 1..n, NEW i \in 1..m, k = n + i PROVE MayFollow(r[j].lock, r[k].lock)
    <3>1. s[j].lock \in K
      BY <1>1, <1>8, <1>11, <2>2
    <3>2. u[i].lock \in Asked(u)
      BY <1>1, <1>5, <1>11, <2>2 DEF Asked
    <3> QED BY <1>3, <2>2, <3>1, <3>2 DEF Fits
  <2>3. ASSUME NEW i \in 1..m, j = n + i, k \in 1..n PROVE FALSE
    BY <1>1, <1>11, <2>3
  <2>4. ASSUME NEW h \in 1..m, j = n + h, NEW i \in 1..m, k = n + i PROVE MayFollow(r[j].lock, r[k].lock)
    <3>1. h < i /\ i \in 1..m + 1
      BY <1>1, <1>11, <2>4
    <3>2. Until(u, h, i) /\ Takes(u, i)
      BY <1>5, <1>7, <1>11, <2>4, <3>1
    <3> QED BY <1>1, <1>3, <2>4, <3>1, <3>2 DEF Fits, Orderly
  <2> QED BY <1>2, <1>3, <2>1, <2>2, <2>3, <2>4
<1>12. Orderly(r)
  BY <1>2, <1>10, <1>11 DEF Orderly
<1>13. Asked(r) \subseteq A \union B
  <2>1. \A k \in 1..n : Takes(r, k) => r[k].lock \in A
    BY <1>1, <1>3, <1>4 DEF Fits, Asked
  <2>2. \A k \in 1..m : Takes(r, n + k) => r[n + k].lock \in B
    BY <1>1, <1>3, <1>5 DEF Fits, Asked
  <2> QED BY <1>2, <1>3, <2>1, <2>2 DEF Asked
<1>14. Kept(r) \subseteq (K \ E) \union L
  <2> SUFFICES ASSUME NEW j \in 1..n + m, Until(r, j, n + m + 1) PROVE r[j].lock \in (K \ E) \union L
    BY <1>2 DEF Kept
  <2>1. CASE j \in 1..n
    <3>1. m + 1 \in 1..m + 1 /\ n + (m + 1) = n + m + 1
      BY <1>1
    <3> QED BY <1>3, <1>8, <1>9, <2>1, <3>1
  <2>2. ASSUME NEW i \in 1..m, j = n + i PROVE r[j].lock \in L
    <3>1. m + 1 \in 1..m + 1 /\ n + (m + 1) = n + m + 1
      BY <1>1
    <3>2. Until(u, i, m + 1)
      BY <1>7, <2>2, <3>1
    <3> QED BY <1>1, <1>3, <2>2, <3>2 DEF Fits, Kept, m
  <2> QED BY <1>3, <2>1, <2>2
<1>15. D \union E \subseteq Dropped(r)
  <2>1. \A k \in 1..n : ~Takes(s, k) => s[k].lock \in Dropped(r)
    BY <1>2, <1>3, <1>4 DEF Dropped
  <2>2. \A k \in 1..m : ~Takes(u, k) => u[k].lock \in Dropped(r)
    BY <1>2, <1>3, <1>5 DEF Dropped
  <2> QED BY <1>1, <2>1, <2>2 DEF Fits, Dropped
<1> QED BY <1>12, <1>13, <1>14, <1>15 DEF Fits, r

\* The same when the first one keeps nothing.
LEMMA After ==
    ASSUME NEW s, NEW A, NEW D, Fits(s, A, {}, D), NEW u, NEW B, NEW L, NEW E, Fits(u, B, L, E)
    PROVE  Fits(s \o u, A \union B, L, {})
<1>1. Fits(s \o u, A \union B, ({} \ E) \union L, D \union E)
  BY Concat
<1> QED BY <1>1 DEF Fits

LEMMA Taking ==
    ASSUME NEW l \in Locks
    PROVE  /\ Fits(Read(l), {l}, {l}, {})
           /\ l # "config" => Fits(Write(l), {l}, {l}, {})
<1>1. ASSUME NEW do \in {"read", "write"}, do = "write" => l # "config"
      PROVE  Fits(<<[do |-> do, lock |-> l]>>, {l}, {l}, {})
  <2> DEFINE op == [do |-> do, lock |-> l]    s == <<op>>
  <2>1. op \in Operation /\ op.do = do /\ op.lock = l
    BY DEF Operation, Modes
  <2> HIDE DEF op
  <2>2. s \in Seq(Operation) /\ DOMAIN s = {1} /\ s[1] = op
    BY <2>1
  <2> HIDE DEF s
  <2>3. Orderly(s)
    BY <1>1, <2>1, <2>2 DEF Orderly
  <2>4. Asked(s) \subseteq {l} /\ Kept(s) \subseteq {l}
    BY <2>1, <2>2 DEF Asked, Kept
  <2> QED BY <2>3, <2>4 DEF Fits, s, op
<1> QED BY <1>1 DEF Read, Write

LEMMA Dropping == ASSUME NEW l \in Locks PROVE Fits(Drop(l), {}, {}, {l})
<1> DEFINE op == [do |-> "drop", lock |-> l]    s == <<op>>
<1>1. op \in Operation /\ op.do = "drop" /\ op.lock = l
  BY DEF Operation, Modes
<1> HIDE DEF op
<1>2. s \in Seq(Operation) /\ DOMAIN s = {1} /\ s[1] = op
  BY <1>1
<1> HIDE DEF s
<1>3. Orderly(s)
  BY <1>1, <1>2 DEF Orderly, Takes
<1>4. Asked(s) = {} /\ Kept(s) = {} /\ l \in Dropped(s)
  BY <1>1, <1>2 DEF Asked, Kept, Dropped, Takes, Until
<1> QED BY <1>3, <1>4 DEF Fits, s, op, Drop

LEMMA TakenOnce ==
    ASSUME NEW l \in Locks
    PROVE  /\ Fits(ReadOnce(l), {l}, {}, {})
           /\ l # "config" => Fits(WriteOnce(l), {l}, {}, {})
<1>1. Fits(ReadOnce(l), {l} \union {}, ({l} \ {l}) \union {}, {} \union {l})
  BY Taking, Dropping, Concat DEF ReadOnce
<1>2. l # "config" => Fits(WriteOnce(l), {l} \union {}, ({l} \ {l}) \union {}, {} \union {l})
  BY Taking, Dropping, Concat DEF WriteOnce
<1> QED BY <1>1, <1>2 DEF Fits

\* A script that has nothing in hand at its end.
Closed(s) == Fits(s, Locks, {}, {})

LEMMA ClosedFirst ==
    ASSUME NEW s, Closed(s), NEW u
    PROVE  (Closed(u) => Closed(s \o u)) /\ (Orderly(u) => Orderly(s \o u))
<1>1. ASSUME Closed(u) PROVE Closed(s \o u)
  <2>1. Fits(s \o u, Locks \union Locks, {}, {})
    BY <1>1, After DEF Closed
  <2> QED BY <2>1 DEF Closed, Fits
<1>2. ASSUME Orderly(u) PROVE Orderly(s \o u)
  <2>1. Fits(u, Asked(u), Kept(u), {})
    BY <1>2 DEF Fits
  <2>2. Fits(s \o u, Locks \union Asked(u), Kept(u), {})
    BY <2>1, After DEF Closed
  <2> QED BY <2>2 DEF Fits
<1> QED BY <1>1, <1>2

LEMMA LevelFacts ==
    /\ Level \in [Locks -> Nat]
    /\ Level["stats"] = 3 /\ Level["task"] = 2 /\ Level["ca"] = 1
    /\ Level["rules"] = 1 /\ Level["compiled"] = 0 /\ Level["chromium"] = 0
BY DEF Level, Locks

\* The parts the scripts are made of.
LEMMA PartsAreClosed ==
    /\ \A l \in Locks : Closed(ReadOnce(l))
    /\ \A l \in Locks \ {"config"} : Closed(WriteOnce(l))
    /\ Closed(EvaluateRules)
<1>1. \A l \in Locks : Closed(ReadOnce(l)) /\ (l # "config" => Closed(WriteOnce(l)))
  BY TakenOnce DEF Closed, Fits
<1>2. Closed(EvaluateRules)
  <2>1. "rules" \in Locks /\ "compiled" \in Locks /\ MayFollow("rules", "compiled")
    BY LevelFacts DEF Locks, MayFollow
  <2> DEFINE s == Read("rules") \o ReadOnce("compiled")
  <2>2. Fits(Read("rules"), {"rules"}, {"rules"}, {}) /\ Fits(ReadOnce("compiled"), {"compiled"}, {}, {})
    BY <2>1, Taking, TakenOnce
  <2>3. Fits(s, {"rules"} \union {"compiled"}, ({"rules"} \ {}) \union {}, {} \union {})
    BY <2>1, <2>2, Concat
  <2>4. Fits(Drop("rules"), {}, {}, {"rules"})
    BY <2>1, Dropping
  <2> HIDE DEF s
  <2>5. Fits(s, {"rules", "compiled"}, {"rules"}, {})
    BY <2>3 DEF Fits
  <2>6. Fits(s \o Drop("rules"), {"rules", "compiled"} \union {}, ({"rules"} \ {"rules"}) \union {}, {} \union {"rules"})
    BY <2>4, <2>5, Concat
  <2> QED BY <2>1, <2>6 DEF Closed, Fits, EvaluateRules, s
<1> QED BY <1>1, <1>2

LEMMA Singles ==
    /\ \A l \in Locks : Orderly(Read(l))
    /\ \A l \in Locks \ {"config"} : Orderly(Write(l))
BY Taking DEF Fits

LEMMA StartIsClosed == Closed(Start)
<1>1. {"task", "ca", "config"} \subseteq Locks /\ "task" # "config" /\ "ca" # "config"
  BY DEF Locks
<1>2. /\ Closed(ReadOnce("task")) /\ Closed(WriteOnce("ca")) /\ Closed(ReadOnce("ca"))
      /\ Closed(ReadOnce("config")) /\ Closed(WriteOnce("task"))
  BY <1>1, PartsAreClosed
<1> QED BY <1>2, ClosedFirst DEF Start

LEMMA StatusIsOrderly == Orderly(Status)
<1>1. /\ {"config", "stats", "task", "ca"} \subseteq Locks
      /\ MayFollow("stats", "task") /\ MayFollow("stats", "ca") /\ MayFollow("task", "ca")
      /\ \A l : MayFollow("config", l)
  BY LevelFacts DEF Locks, MayFollow
<1>2. \A l \in {"config", "stats", "task", "ca"} : Fits(Read(l), {l}, {l}, {})
  BY <1>1, Taking
<1> DEFINE s == Read("config") \o Read("stats")
<1>3. Fits(s, {"config"} \union {"stats"}, ({"config"} \ {}) \union {"stats"}, {} \union {})
  BY <1>1, <1>2, Concat
<1> HIDE DEF s
<1>4. Fits(s, {"config", "stats"}, {"config", "stats"}, {})
  BY <1>3 DEF Fits
<1> DEFINE r == s \o Read("task")
<1>5. Fits(r, {"config", "stats"} \union {"task"}, ({"config", "stats"} \ {}) \union {"task"}, {} \union {})
  BY <1>1, <1>2, <1>4, Concat
<1> HIDE DEF r
<1>6. Fits(r, {"config", "stats", "task"}, {"config", "stats", "task"}, {})
  BY <1>5 DEF Fits
<1>7. Fits(r \o Read("ca"), {"config", "stats", "task"} \union {"ca"},
           ({"config", "stats", "task"} \ {}) \union {"ca"}, {} \union {})
  BY <1>1, <1>2, <1>6, Concat
<1> QED BY <1>7 DEF Fits, Status, r, s

LEMMA GenerateCaIsOrderly == Orderly(GenerateCa)
<1>1. /\ {"ca", "config"} \subseteq Locks /\ "ca" # "config" /\ MayFollow("ca", "config")
  BY DEF Locks, MayFollow
<1>2. /\ Fits(Write("ca"), {"ca"}, {"ca"}, {}) /\ Fits(ReadOnce("config"), {"config"}, {}, {})
      /\ Fits(Drop("ca"), {}, {}, {"ca"}) /\ Closed(ReadOnce("ca"))
  BY <1>1, Taking, TakenOnce, Dropping, PartsAreClosed
<1>3. Fits(RegenerateCa, {"ca"} \union {"config"}, ({"ca"} \ {}) \union {}, {} \union {})
  BY <1>1, <1>2, Concat DEF RegenerateCa
<1>4. Fits(RegenerateCa, {"ca", "config"}, {"ca"}, {})
  BY <1>3 DEF Fits
<1>5. Fits(RegenerateCa \o Drop("ca"), {"ca", "config"} \union {}, ({"ca"} \ {"ca"}) \union {}, {} \union {"ca"})
  BY <1>2, <1>4, Concat
<1>6. Closed(RegenerateCa \o Drop("ca"))
  BY <1>1, <1>5 DEF Closed, Fits
<1>7. Orderly(ReadOnce("ca"))
  BY <1>2 DEF Closed, Fits
<1> QED BY <1>6, <1>7, ClosedFirst DEF GenerateCa

LEMMA LaunchIsOrderly == Orderly(LaunchChromium)
<1>1. /\ {"ca", "config", "chromium"} \subseteq Locks /\ "chromium" # "config"
      /\ \A l : MayFollow("config", l)
  BY DEF Locks, MayFollow
<1>2. /\ Fits(Read("config"), {"config"}, {"config"}, {}) /\ Fits(ReadOnce("ca"), {"ca"}, {}, {})
      /\ Fits(Write("chromium"), {"chromium"}, {"chromium"}, {})
  BY <1>1, Taking, TakenOnce
<1> DEFINE s == Read("config") \o ReadOnce("ca")
<1>3. Fits(s, {"config"} \union {"ca"}, ({"config"} \ {}) \union {}, {} \union {})
  BY <1>1, <1>2, Concat
<1> HIDE DEF s
<1>4. Fits(s, {"config", "ca"}, {"config"}, {})
  BY <1>3 DEF Fits
<1>5. Fits(s \o Write("chromium"), {"config", "ca"} \union {"chromium"},
           ({"config"} \ {}) \union {"chromium"}, {} \union {})
  BY <1>1, <1>2, <1>4, Concat
<1> QED BY <1>5 DEF Fits, LaunchChromium, s

LEMMA EditRulesIsOrderly == Orderly(EditRules)
<1>1. /\ {"rules", "compiled"} \subseteq Locks /\ "rules" # "config" /\ "compiled" # "config"
      /\ MayFollow("rules", "compiled")
  BY LevelFacts DEF Locks, MayFollow
<1>2. Fits(Write("rules"), {"rules"}, {"rules"}, {}) /\ Fits(Write("compiled"), {"compiled"}, {"compiled"}, {})
  BY <1>1, Taking
<1>3. Fits(EditRules, {"rules"} \union {"compiled"}, ({"rules"} \ {}) \union {"compiled"}, {} \union {})
  BY <1>1, <1>2, Concat DEF EditRules
<1> QED BY <1>3 DEF Fits

LEMMA HandlersAreOrderly == Orderly(HandleRequest) /\ Orderly(HandleResponse)
<1>1. /\ {"config", "stats", "paused", "pending", "history"} \subseteq Locks
      /\ \A l \in {"stats", "paused", "pending", "history"} : l # "config"
  BY DEF Locks
<1>2. /\ Closed(ReadOnce("config")) /\ Closed(WriteOnce("stats")) /\ Closed(EvaluateRules)
      /\ Closed(WriteOnce("paused")) /\ Closed(WriteOnce("pending")) /\ Orderly(Write("history"))
  BY <1>1, PartsAreClosed, Singles
<1> QED BY <1>2, ClosedFirst DEF HandleRequest, HandleResponse

\* The commands without a fault of their own ask in the order of the locks.
LEMMA EngineScriptsAreOrderly ==
    /\ Orderly(StartProxy) /\ Orderly(Stop) /\ Orderly(Status) /\ Orderly(GenerateCa)
    /\ Orderly(InstallCa) /\ Orderly(LaunchChromium) /\ Orderly(KillChromium) /\ Orderly(Resume)
    /\ Orderly(ClearHistory) /\ Orderly(EditRules) /\ Orderly(StartServices)
    /\ Orderly(HandleRequest) /\ Orderly(HandleResponse)
<1>1. /\ {"ca", "task", "chromium", "paused", "history", "stats", "settings"} \subseteq Locks \ {"config"}
  BY DEF Locks
<1>2. \A l \in Locks \ {"config"} :
          Closed(ReadOnce(l)) /\ Closed(WriteOnce(l)) /\ Orderly(Read(l)) /\ Orderly(Write(l))
  BY PartsAreClosed, Singles
<1>3. \A s : Closed(s) => Orderly(s)
  BY DEF Closed, Fits
<1>4. Orderly(StartProxy)
  BY StartIsClosed, StatusIsOrderly, ClosedFirst DEF StartProxy
<1>5. Orderly(Stop)
  BY <1>1, <1>2, ClosedFirst DEF Stop
<1>6. Orderly(InstallCa)
  BY <1>1, <1>2, ClosedFirst DEF InstallCa
<1>7. Orderly(KillChromium)
  BY <1>1, <1>2 DEF KillChromium
<1>8. Orderly(Resume)
  BY <1>1, <1>2, <1>3, ClosedFirst DEF Resume
<1>9. Orderly(ClearHistory)
  BY <1>1, <1>2, <1>3, ClosedFirst DEF ClearHistory
<1>10. Orderly(StartServices)
  <2>1. Closed(ReadOnce("settings"))
    BY <1>1, <1>2
  <2>2. Closed(ReadOnce("settings") \o Start)
    BY <2>1, StartIsClosed, ClosedFirst
  <2> QED BY <2>2, StatusIsOrderly, ClosedFirst DEF StartServices
<1> QED BY <1>4, <1>5, <1>6, <1>7, <1>8, <1>9, <1>10, StatusIsOrderly, GenerateCaIsOrderly, LaunchIsOrderly,
           EditRulesIsOrderly, HandlersAreOrderly

LEMMA UiScriptsAreOrderly ==
    /\ Orderly(OpenFile) /\ Orderly(SaveFile) /\ Orderly(CloseFile)
    /\ Orderly(GetUi) /\ Orderly(GetWorkspace) /\ Orderly(GetSettings)
<1>1. {"openFiles", "ui", "workspace", "settings"} \subseteq Locks \ {"config"}
  BY DEF Locks
<1> QED BY <1>1, Singles DEF OpenFile, SaveFile, CloseFile, GetUi, GetWorkspace, GetSettings

LEMMA OtherScripts ==
    /\ SetMode \in Seq(Operation) /\ ToggleSidebar \in Seq(Operation)
    /\ CreateWorkspace \in Seq(Operation) /\ SwitchWorkspace \in Seq(Operation)
    /\ UpdateSettings \in Seq(Operation) /\ SetConfig \in Seq(Operation)
<1>1. \A l \in Locks : /\ Read(l) \in Seq(Operation) /\ Write(l) \in Seq(Operation)
                       /\ Drop(l) \in Seq(Operation)
  BY DEF Read, Write, Drop, Operation, Modes
<1>2. \A s, u \in Seq(Operation) : s \o u \in Seq(Operation)
  BY ConcatProperties
<1>3. {"ui", "workspace", "settings", "config"} \subseteq Locks
  BY DEF Locks
<1>4. PersistUiState \in Seq(Operation) /\ PersistWorkspace \in Seq(Operation) /\ PersistSettings \in Seq(Operation)
  BY <1>1, <1>2, <1>3 DEF PersistUiState, PersistWorkspace, PersistSettings, ReadOnce
<1> QED BY <1>1, <1>2, <1>3, <1>4
        DEF SetMode, ToggleSidebar, CreateWorkspace, SwitchWorkspace, UpdateSettings, SetConfig

LEMMA ScriptFacts ==
    ASSUME NEW c \in DOMAIN Scripts
    PROVE  /\ Scripts[c] \in Seq(Operation)
           /\ c \notin Excused => Orderly(Scripts[c])
<1>1. ASSUME c \in DOMAIN UiScripts
      PROVE  UiScripts[c] \in Seq(Operation) /\ (c \notin Excused => Orderly(UiScripts[c]))
  <2>1. \A s : Orderly(s) => s \in Seq(Operation)
    BY DEF Orderly
  <2>2. c \in {"set_mode", "toggle_sidebar", "open_file", "save_file", "close_file", "create_workspace",
               "switch_workspace", "update_settings", "get_current_mode", "get_workspace_state", "get_settings"}
    BY <1>1 DEF UiScripts
  <2>3. CASE c \in SelfBlocking
    BY <2>3, OtherScripts DEF UiScripts, SelfBlocking, Excused
  <2>4. CASE c \notin SelfBlocking
    <3>1. UiScripts[c] \in {OpenFile, SaveFile, CloseFile, GetUi, GetWorkspace, GetSettings}
      BY <2>2, <2>4 DEF UiScripts, SelfBlocking
    <3> QED BY <2>1, <3>1, UiScriptsAreOrderly
  <2> QED BY <2>3, <2>4
<1>2. ASSUME c \in DOMAIN ProxyScripts
      PROVE  ProxyScripts[c] \in Seq(Operation) /\ (c \notin Excused => Orderly(ProxyScripts[c]))
  <2>1. \A s : Orderly(s) => s \in Seq(Operation)
    BY DEF Orderly
  <2>2. c \in {"start_proxy", "stop_proxy", "get_proxy_status", "set_proxy_config", "generate_ca", "install_ca",
               "launch_chromium", "kill_chromium", "resume_proxy_request", "clear_proxy_history",
               "edit_proxy_rules", "internal_start_services", "handle_request", "handle_response"}
    BY <1>2 DEF ProxyScripts
  <2>3. CASE c = "set_proxy_config"
    BY <2>3, OtherScripts DEF ProxyScripts, Excused
  <2>4. CASE c # "set_proxy_config"
    <3>1. ProxyScripts[c] \in {StartProxy, Stop, Status, GenerateCa, InstallCa, LaunchChromium, KillChromium, Resume,
                               ClearHistory, EditRules, StartServices, HandleRequest, HandleResponse}
      BY <2>2, <2>4 DEF ProxyScripts
    <3> QED BY <2>1, <3>1, EngineScriptsAreOrderly
  <2> QED BY <2>3, <2>4
<1>3. /\ c \in DOMAIN UiScripts \union DOMAIN ProxyScripts
      /\ Scripts[c] = IF c \in DOMAIN UiScripts THEN UiScripts[c] ELSE ProxyScripts[c]
  BY DEF Scripts
<1> QED BY <1>1, <1>2, <1>3
-----------------------------------------------------------------------------
(* The invariant. *)

\* The modes in which a task holds a lock, and in which it waits for one.
Held(t, l) == {h.mode : h \in {h \in holders[l] : h.task = t}}
Asks(t, l) == {queue[l][i].mode : i \in {i \in DOMAIN queue[l] : queue[l][i].task = t}}

\* What the script s asks for before it drops l may be asked for with l in hand.
Untouched(s, l, k) == \A m \in DOMAIN s : m < k => Takes(s, m) \/ s[m].lock # l
Ahead(l, s) == \A k \in DOMAIN s : Takes(s, k) /\ Untouched(s, l, k) => MayFollow(l, s[k].lock)

\* What a task has in hand, waits for and has left to do is in the order of the
\* locks, and it writes no configuration.
InOrder(t) ==
    /\ Orderly(todo[t])
    /\ \A l \in Locks : Held(t, l) \union Asks(t, l) # {} => Ahead(l, todo[t])
    /\ \A l, m \in Locks : Held(t, l) # {} /\ Asks(t, m) # {} => MayFollow(l, m)
    /\ "write" \notin Held(t, "config") \union Asks(t, "config")

WaitsOnce ==
    \A l, m \in Locks : \A i \in DOMAIN queue[l], j \in DOMAIN queue[m] :
        queue[l][i].task = queue[m][j].task => l = m /\ i = j

IdleHasNothing ==
    \A t \in Tasks : running[t] = NoCommand =>
        todo[t] = <<>> /\ \A l \in Locks : Held(t, l) = {} /\ Asks(t, l) = {}

OthersInOrder == \A t \in Tasks : running[t] \notin Excused => InOrder(t)

LocksInv == TypeOK /\ WaitsOnce /\ IdleHasNothing /\ OthersInOrder

LEMMA TailOrder ==
    ASSUME NEW s, Orderly(s), s # <<>>
    PROVE  /\ Orderly(Tail(s)) /\ Head(s) = s[1] /\ s[1] \in Operation
           /\ \A l : Ahead(l, s) /\ (Takes(s, 1) \/ s[1].lock # l) => Ahead(l, Tail(s))
           /\ \A l : Ahead(l, s) /\ Takes(s, 1) => MayFollow(l, s[1].lock)
           /\ Takes(s, 1) => Ahead(s[1].lock, Tail(s))
           /\ s[1].do = "write" => s[1].lock # "config"
<1> DEFINE r == Tail(s)    n == Len(s)
<1>1. /\ s \in Seq(Operation) /\ DOMAIN s = 1..n /\ n \in Nat \ {0}
      /\ r \in Seq(Operation) /\ DOMAIN r = 1..n - 1 /\ \A k \in 1..n - 1 : r[k] = s[k + 1]
      /\ Head(s) = s[1] /\ s[1] \in Operation
  BY DEF Orderly
<1> HIDE DEF r, n
<1>2. /\ 1 \in 1..n /\ \A k \in 1..n - 1 : k + 1 \in 1..n /\ k \in Nat /\ k >= 1
      /\ \A k \in 1..n : k # 1 => k - 1 \in 1..n - 1 /\ (k - 1) + 1 = k
  BY <1>1
<1>3. \A k \in 1..n - 1 : Takes(r, k) <=> Takes(s, k + 1)
  BY <1>1 DEF Takes
<1>4. ASSUME NEW j \in 1..n - 1, NEW k \in 1..n - 1, Until(r, j, k) PROVE Until(s, j + 1, k + 1)
  <2> SUFFICES ASSUME NEW m \in 1..n, j + 1 < m, m < k + 1 PROVE Takes(s, m) \/ s[m].lock # s[j + 1].lock
    BY <1>1, <1>3, <1>4 DEF Until
  <2> DEFINE x == m - 1
  <2>1. x \in 1..n - 1 /\ x + 1 = m /\ j < x /\ x < k
    BY <1>2
  <2> HIDE DEF x
  <2>2. Takes(r, x) \/ r[x].lock # r[j].lock
    BY <1>1, <1>4, <2>1 DEF Until
  <2> QED BY <1>1, <1>3, <2>1, <2>2
<1>5. Orderly(r)
  <2>1. ASSUME NEW k \in 1..n - 1, r[k].do = "write" PROVE r[k].lock # "config"
    BY <1>1, <1>2, <2>1 DEF Orderly
  <2>2. ASSUME NEW j \in 1..n - 1, NEW k \in 1..n - 1, j < k, Takes(r, k), Until(r, j, k)
        PROVE  MayFollow(r[j].lock, r[k].lock)
    <3>1. j + 1 \in DOMAIN s /\ k + 1 \in DOMAIN s /\ j + 1 < k + 1 /\ Takes(s, k + 1) /\ Until(s, j + 1, k + 1)
      BY <1>1, <1>2, <1>3, <1>4, <2>2
    <3> QED BY <1>1, <3>1 DEF Orderly
  <2> QED BY <1>1, <2>1, <2>2 DEF Orderly
<1>6. ASSUME NEW l, NEW k \in 1..n - 1, Untouched(r, l, k), Takes(s, 1) \/ s[1].lock # l
      PROVE  Untouched(s, l, k + 1)
  <2> SUFFICES ASSUME NEW m \in 1..n, m < k + 1 PROVE Takes(s, m) \/ s[m].lock # l
    BY <1>1 DEF Untouched
  <2> DEFINE x == m - 1
  <2>1. CASE m # 1
    <3>1. x \in 1..n - 1 /\ x + 1 = m /\ x < k
      BY <1>2, <2>1
    <3> HIDE DEF x
    <3>2. Takes(r, x) \/ r[x].lock # l
      BY <1>1, <1>6, <3>1 DEF Untouched
    <3> QED BY <1>1, <1>3, <3>1, <3>2
  <2> QED BY <1>6, <2>1
<1>7. ASSUME NEW l, Ahead(l, s), Takes(s, 1) \/ s[1].lock # l PROVE Ahead(l, r)
  <2> SUFFICES ASSUME NEW k \in 1..n - 1, Takes(r, k), Untouched(r, l, k) PROVE MayFollow(l, r[k].lock)
    BY <1>1 DEF Ahead
  <2>1. k + 1 \in DOMAIN s /\ Takes(s, k + 1) /\ Untouched(s, l, k + 1)
    BY <1>1, <1>2, <1>3, <1>6, <1>7
  <2> QED BY <1>1, <1>7, <2>1 DEF Ahead
<1>8. ASSUME NEW l, Ahead(l, s), Takes(s, 1) PROVE MayFollow(l, s[1].lock)
  <2>1. 1 \in DOMAIN s /\ Untouched(s, l, 1)
    BY <1>1, <1>2 DEF Untouched
  <2> QED BY <1>8, <2>1 DEF Ahead
<1>9. ASSUME Takes(s, 1) PROVE Ahead(s[1].lock, r)
  <2> SUFFICES ASSUME NEW k \in 1..n - 1, Takes(r, k), Untouched(r, s[1].lock, k) PROVE MayFollow(s[1].lock, r[k].lock)
    BY <1>1 DEF Ahead
  <2>1. k + 1 \in DOMAIN s /\ 1 < k + 1 /\ Takes(s, k + 1) /\ Untouched(s, s[1].lock, k + 1)
    BY <1>1, <1>2, <1>3, <1>6, <1>9
  <2>2. Until(s, 1, k + 1)
    BY <1>9, <2>1 DEF Until, Untouched
  <2> QED BY <1>1, <1>2, <2>1, <2>2 DEF Orderly
<1>10. s[1].do = "write" => s[1].lock # "config"
  BY <1>1, <1>2 DEF Orderly
<1> QED BY <1>1, <1>5, <1>7, <1>8, <1>9, <1>10 DEF r

\* A task that has and waits for no more than before stays in order.
LEMMA StaysInOrder ==
    ASSUME NEW t, InOrder(t), todo'[t] = todo[t],
           \A l \in Locks : Held(t, l)' \union Asks(t, l)' \subseteq Held(t, l) \union Asks(t, l),
           \A l, m \in Locks : Held(t, l)' # {} /\ Asks(t, m)' # {} => MayFollow(l, m)
    PROVE  InOrder(t)'
<1>1. "config" \in Locks
  BY DEF Locks
<1>2. Orderly(todo[t])' /\ \A l : Ahead(l, todo[t])' <=> Ahead(l, todo[t])
  BY DEF InOrder, Orderly, Ahead, Untouched, Until, Takes
<1>3. \A l \in Locks : Held(t, l)' \union Asks(t, l)' # {} => Ahead(l, todo[t])'
  BY <1>2 DEF InOrder
<1>4. "write" \notin Held(t, "config")' \union Asks(t, "config")'
  BY <1>1 DEF InOrder
<1> QED BY <1>2, <1>3, <1>4 DEF InOrder

LEMMA FewerLocks ==
    ASSUME NEW t, InOrder(t), todo'[t] = todo[t],
           \A l \in Locks : Held(t, l)' \subseteq Held(t, l) /\ Asks(t, l)' \subseteq Asks(t, l)
    PROVE  InOrder(t)'
<1>1. \A l, m \in Locks : Held(t, l)' # {} /\ Asks(t, m)' # {} => MayFollow(l, m)
  BY DEF InOrder
<1> QED BY <1>1, StaysInOrder

\* What a task holds and asks for depends on the locks alone.
LEMMA SameLocks ==
    ASSUME UNCHANGED <<holders, queue>>
    PROVE  /\ \A t, l : Held(t, l)' = Held(t, l) /\ Asks(t, l)' = Asks(t, l)
           /\ WaitsOnce => WaitsOnce'
BY DEF Held, Asks, WaitsOnce

LEMMA TypeFacts ==
    ASSUME TypeOK
    PROVE  /\ \A t \in Tasks : running[t] \in Commands \union {NoCommand} /\ todo[t] \in Seq(Operation)
           /\ \A l \in Locks : holders[l] \subseteq Holds /\ queue[l] \in Seq(Holds)
           /\ DOMAIN running = Tasks /\ DOMAIN todo = Tasks /\ DOMAIN holders = Locks /\ DOMAIN queue = Locks
BY DEF TypeOK

LEMMA CallStep ==
    ASSUME LocksInv, NEW t \in Tasks, NEW c \in Commands, Call(t, c)
    PROVE  LocksInv'
<1>1. /\ running[t] = NoCommand /\ running' = [running EXCEPT ![t] = c]
      /\ todo' = [todo EXCEPT ![t] = Scripts[c]] /\ UNCHANGED <<holders, queue>>
  BY DEF Call
<1>2. Scripts[c] \in Seq(Operation) /\ (c \notin Excused => Orderly(Scripts[c])) /\ c # NoCommand
  BY ScriptFacts, LocksAssumption
<1>3. TypeOK'
  BY <1>1, <1>2 DEF LocksInv, TypeOK
<1>4. /\ \A u, l : Held(u, l)' = Held(u, l) /\ Asks(u, l)' = Asks(u, l)
      /\ WaitsOnce'
  BY <1>1, SameLocks DEF LocksInv
<1>5. /\ running'[t] = c /\ todo'[t] = Scripts[c]
      /\ \A u \in Tasks \ {t} : running'[u] = running[u] /\ todo'[u] = todo[u]
  BY <1>1, TypeFacts DEF LocksInv
<1>6. IdleHasNothing'
  BY <1>2, <1>4, <1>5 DEF LocksInv, IdleHasNothing
<1>7. ASSUME NEW u \in Tasks, running'[u] \notin Excused PROVE InOrder(u)'
  <2>1. CASE u # t
    <3>1. InOrder(u) /\ todo'[u] = todo[u]
      BY <1>5, <1>7, <2>1 DEF LocksInv, OthersInOrder
    <3> QED BY <1>4, <3>1, FewerLocks
  <2>2. CASE u = t
    <3>1. \A l \in Locks : Held(u, l)' = {} /\ Asks(u, l)' = {}
      BY <1>1, <1>4, <2>2 DEF LocksInv, IdleHasNothing
    <3>2. Orderly(Scripts[c])
      BY <1>2, <1>5, <1>7, <2>2
    <3>3. Orderly(todo'[u])
      BY <1>5, <2>2, <3>2
    <3>4. Orderly(todo[u])'
      BY <3>3 DEF Orderly, Until, Takes
    <3>5. "config" \in Locks
      BY DEF Locks
    <3> QED BY <3>1, <3>4, <3>5 DEF InOrder
  <2> QED BY <2>1, <2>2
<1> QED BY <1>3, <1>4, <1>6, <1>7 DEF LocksInv, OthersInOrder

LEMMA RequestStep ==
    ASSUME LocksInv, NEW t \in Tasks, Request(t)
    PROVE  LocksInv'
<1>0. PICK op : op = todo[t][1]
  OBVIOUS
<1> DEFINE new == [task |-> t, mode |-> op.do]
<1>1. /\ todo[t] # <<>> /\ Head(todo[t]) = op /\ op \in Operation /\ todo[t] \in Seq(Operation)
      /\ Tail(todo[t]) \in Seq(Operation)
  BY <1>0, TypeFacts DEF Request, LocksInv
<1>2. /\ op.do \in Modes /\ op.lock \in Locks /\ new \in Holds /\ new.task = t /\ new.mode = op.do
      /\ op.do # "drop" /\ Takes(todo[t], 1)
  BY <1>1 DEF Request, Operation, Modes, Holds, Takes
<1>3. /\ queue' = [queue EXCEPT ![op.lock] = Append(@, new)]
      /\ todo' = [todo EXCEPT ![t] = Tail(@)]
      /\ UNCHANGED <<running, holders>> /\ ~Waits(t)
  BY <1>1 DEF Request
<1> HIDE DEF new
<1>4. TypeOK'
  <2>1. Append(queue[op.lock], new) \in Seq(Holds)
    BY <1>2, TypeFacts DEF LocksInv
  <2> QED BY <1>1, <1>2, <1>3, <2>1 DEF LocksInv, TypeOK
<1>5. /\ todo'[t] = Tail(todo[t]) /\ \A u \in Tasks \ {t} : todo'[u] = todo[u]
      /\ queue'[op.lock] = Append(queue[op.lock], new)
      /\ \A l \in Locks \ {op.lock} : queue'[l] = queue[l]
  BY <1>2, <1>3, TypeFacts DEF LocksInv
<1>6. \A l \in Locks : \A i \in DOMAIN queue[l] : queue[l][i].task # t
  BY <1>3 DEF Waits, Waiting
<1> DEFINE old == queue[op.lock]    n == Len(old)
<1>7. /\ n \in Nat /\ DOMAIN old = 1..n /\ DOMAIN queue'[op.lock] = 1..n + 1
      /\ queue'[op.lock][n + 1] = new /\ \A i \in 1..n : queue'[op.lock][i] = old[i]
  <2>1. old \in Seq(Holds)
    BY <1>2, TypeFacts DEF LocksInv
  <2> QED BY <1>2, <1>5, <2>1, AppendFacts
<1> HIDE DEF n, old
<1>8. /\ \A u, l : Held(u, l)' = Held(u, l)
      /\ \A u : \A l \in Locks : u # t \/ l # op.lock => Asks(u, l)' = Asks(u, l)
      /\ Asks(t, op.lock)' = Asks(t, op.lock) \union {op.do}
  <2>1. \A u, l : Held(u, l)' = Held(u, l)
    BY <1>3 DEF Held
  <2>2. \A l \in Locks \ {op.lock} : \A u : Asks(u, l)' = Asks(u, l)
    BY <1>5 DEF Asks
  <2> DEFINE q == queue'[op.lock]
             of(u) == {q[i].mode : i \in {i \in 1..n + 1 : q[i].task = u}}
             was(u) == {old[i].mode : i \in {i \in 1..n : old[i].task = u}}
  <2>3. \A u : Asks(u, op.lock)' = of(u) /\ Asks(u, op.lock) = was(u)
    BY <1>7 DEF Asks, old
  <2>4. /\ \A i \in 1..n + 1 : i \in 1..n \/ i = n + 1
        /\ \A i \in 1..n : i \in 1..n + 1
        /\ n + 1 \in 1..n + 1
    BY <1>7
  <2>5. q[n + 1] = new /\ \A i \in 1..n : q[i] = old[i]
    BY <1>7
  <2> HIDE DEF q
  <2>6. \A u : u # t => of(u) = was(u)
    BY <1>2, <2>4, <2>5
  <2>7. of(t) = was(t) \union {op.do}
    BY <1>2, <2>4, <2>5
  <2> QED BY <2>1, <2>2, <2>3, <2>6, <2>7
<1>9. \A l \in Locks : Asks(t, l) = {}
  BY <1>6 DEF Asks
<1>10. WaitsOnce'
  <2> SUFFICES ASSUME NEW l \in Locks, NEW m \in Locks, NEW i \in DOMAIN queue'[l], NEW j \in DOMAIN queue'[m],
                      queue'[l][i].task = queue'[m][j].task
               PROVE  l = m /\ i = j
    BY DEF WaitsOnce
  <2>1. \A k \in Locks : \A x \in DOMAIN queue'[k] :
            \/ k = op.lock /\ x = n + 1 /\ queue'[k][x].task = t
            \/ x \in DOMAIN queue[k] /\ queue'[k][x] = queue[k][x] /\ queue'[k][x].task # t
    <3>1. \A x \in 1..n + 1 : x \in 1..n \/ x = n + 1
      BY <1>7
    <3> QED BY <1>2, <1>5, <1>6, <1>7, <3>1 DEF old
  <2> QED BY <2>1 DEF LocksInv, WaitsOnce
<1>11. IdleHasNothing'
  <2>1. running[t] # NoCommand
    BY <1>1 DEF LocksInv, IdleHasNothing
  <2>2. ASSUME NEW u \in Tasks, running'[u] = NoCommand
        PROVE  todo'[u] = <<>> /\ \A l \in Locks : Held(u, l)' = {} /\ Asks(u, l)' = {}
    <3>1. u # t /\ running[u] = NoCommand
      BY <1>3, <2>1, <2>2
    <3> QED BY <1>5, <1>8, <3>1 DEF LocksInv, IdleHasNothing
  <2> QED BY <2>2 DEF IdleHasNothing
<1>12. ASSUME NEW u \in Tasks, running'[u] \notin Excused PROVE InOrder(u)'
  <2>1. InOrder(u)
    BY <1>3, <1>12 DEF LocksInv, OthersInOrder
  <2>2. CASE u # t
    <3>1. todo'[u] = todo[u] /\ \A l \in Locks : Held(u, l)' = Held(u, l) /\ Asks(u, l)' = Asks(u, l)
      BY <1>5, <1>8, <2>2
    <3> QED BY <2>1, <3>1, FewerLocks
  <2>3. CASE u = t
    <3> DEFINE s == todo[t]    r == Tail(s)
    <3>1. Orderly(s) /\ s # <<>> /\ s[1] = op
      BY <1>0, <1>1, <2>1, <2>3 DEF InOrder
    <3>2. /\ Orderly(r) /\ \A l : Ahead(l, s) => Ahead(l, r) /\ MayFollow(l, op.lock)
          /\ Ahead(op.lock, r) /\ (op.do = "write" => op.lock # "config")
      BY <1>2, <3>1, TailOrder
    <3>3. \A l \in Locks : Held(t, l) # {} => Ahead(l, s)
      BY <2>1, <2>3 DEF InOrder
    <3> HIDE DEF s
    <3>4. todo'[t] = r
      BY <1>5 DEF s
    <3> HIDE DEF r
    <3>5. Orderly(todo[u])'
      BY <2>3, <3>2, <3>4 DEF Orderly, Until, Takes
    <3>6. \A l : Ahead(l, r) => Ahead(l, todo[u])'
      BY <2>3, <3>4 DEF Ahead, Untouched, Takes
    <3>7. \A l \in Locks : Held(u, l)' \union Asks(u, l)' # {} => Ahead(l, r)
      BY <1>8, <1>9, <2>3, <3>2, <3>3
    <3>8. \A l, m \in Locks : Held(u, l)' # {} /\ Asks(u, m)' # {} => MayFollow(l, m)
      BY <1>8, <1>9, <2>3, <3>2, <3>3
    <3>9. "write" \notin Held(u, "config")' \union Asks(u, "config")'
      <4>1. "config" \in Locks /\ "write" \notin Held(t, "config")
        BY <2>1, <2>3 DEF InOrder, Locks
      <4>2. op.lock = "config" => op.do # "write"
        BY <3>2
      <4>3. Held(u, "config")' = Held(t, "config") /\ Asks(t, "config") = {}
        BY <1>8, <1>9, <2>3, <4>1
      <4>4. op.lock # "config" => Asks(u, "config")' = {}
        BY <1>8, <2>3, <4>1, <4>3
      <4>5. op.lock = "config" => Asks(u, "config")' = {op.do}
        BY <1>8, <2>3, <4>3
      <4> QED BY <4>1, <4>2, <4>3, <4>4, <4>5
    <3> QED BY <3>5, <3>6, <3>7, <3>8, <3>9 DEF InOrder
  <2> QED BY <2>2, <2>3
<1> QED BY <1>4, <1>10, <1>11, <1>12 DEF LocksInv, OthersInOrder

\* The request granted moves from the queue to the holders.
LEMMA GrantStep ==
    ASSUME LocksInv, NEW l \in Locks, Grant(l)
    PROVE  LocksInv'
<1> DEFINE old == queue[l]    n == Len(old)    q == Tail(old)
<1>0. PICK first : first = old[1]
  OBVIOUS
<1>1. /\ old \in Seq(Holds) /\ old # <<>> /\ n \in Nat \ {0} /\ DOMAIN old = 1..n /\ first \in Holds
      /\ Head(old) = first /\ q \in Seq(Holds) /\ DOMAIN q = 1..n - 1
      /\ \A i \in 1..n - 1 : q[i] = old[i + 1]
  <2>1. old \in Seq(Holds) /\ old # <<>>
    BY TypeFacts DEF Grant, LocksInv
  <2> HIDE DEF old
  <2> QED BY <1>0, <2>1
<1>2. /\ holders' = [holders EXCEPT ![l] = @ \union {first}] /\ queue' = [queue EXCEPT ![l] = q]
      /\ UNCHANGED <<running, todo>> /\ first.task \in Tasks
  BY <1>1 DEF Grant, Holds
<1> HIDE DEF q
<1>3. /\ holders'[l] = holders[l] \union {first} /\ queue'[l] = q
      /\ \A m \in Locks \ {l} : holders'[m] = holders[m] /\ queue'[m] = queue[m]
  BY <1>2, TypeFacts DEF LocksInv
<1>4. TypeOK'
  BY <1>1, <1>2 DEF LocksInv, TypeOK
<1>5. /\ 1 \in 1..n
      /\ \A i \in 1..n - 1 : i + 1 \in 1..n /\ i + 1 # 1
  BY <1>1
<1>6. WaitsOnce'
  <2> SUFFICES ASSUME NEW x \in Locks, NEW y \in Locks, NEW i \in DOMAIN queue'[x], NEW j \in DOMAIN queue'[y],
                      queue'[x][i].task = queue'[y][j].task
               PROVE  x = y /\ i = j
    BY DEF WaitsOnce
  <2> DEFINE at(k, m) == IF k = l THEN m + 1 ELSE m
  <2>1. \A k \in Locks : \A m \in DOMAIN queue'[k] :
            at(k, m) \in DOMAIN queue[k] /\ queue'[k][m] = queue[k][at(k, m)] /\ (k = l => m \in Int)
    BY <1>1, <1>3, <1>5
  <2>2. x = y /\ at(x, i) = at(y, j)
    BY <2>1 DEF LocksInv, WaitsOnce
  <2> QED BY <2>1, <2>2
<1>7. \A m \in Locks : Asks(first.task, m) \subseteq (IF m = l THEN {first.mode} ELSE {})
  <2> SUFFICES ASSUME NEW m \in Locks, NEW i \in DOMAIN queue[m], queue[m][i].task = first.task
               PROVE  m = l /\ queue[m][i].mode = first.mode
    BY DEF Asks
  <2>1. m = l /\ i = 1
    BY <1>0, <1>1, <1>5 DEF LocksInv, WaitsOnce
  <2> QED BY <1>0, <2>1
<1>8. /\ \A u : \A m \in Locks : Asks(u, m)' \subseteq Asks(u, m)
      /\ \A m \in Locks : Asks(first.task, m)' = {}
  <2>1. \A u : \A m \in Locks \ {l} : Asks(u, m)' = Asks(u, m)
    BY <1>3 DEF Asks
  <2>2. \A u : Asks(u, l)' = {q[i].mode : i \in {i \in 1..n - 1 : q[i].task = u}}
    BY <1>1, <1>3 DEF Asks
  <2>3. \A u : Asks(u, l) = {old[i].mode : i \in {i \in 1..n : old[i].task = u}}
    BY <1>1 DEF Asks
  <2>4. \A u : Asks(u, l)' \subseteq Asks(u, l)
    <3> SUFFICES ASSUME NEW u, NEW i \in 1..n - 1, q[i].task = u
                 PROVE  \E k \in 1..n : old[k].task = u /\ old[k].mode = q[i].mode
      BY <2>2, <2>3
    <3>1. i + 1 \in 1..n /\ old[i + 1] = q[i]
      BY <1>1, <1>5
    <3> QED BY <3>1
  <2>5. \A i \in 1..n - 1 : q[i].task # first.task
    <3>1. \A i \in 1..n : i # 1 => old[i].task # first.task
      BY <1>0, <1>1, <1>5 DEF LocksInv, WaitsOnce
    <3> QED BY <1>1, <1>5, <3>1
  <2>6. Asks(first.task, l)' = {}
    BY <2>2, <2>5
  <2> QED BY <1>7, <2>1, <2>4, <2>6
<1>9. /\ \A u : \A m \in Locks : u # first.task \/ m # l => Held(u, m)' = Held(u, m)
      /\ Held(first.task, l)' = Held(first.task, l) \union {first.mode}
      /\ first.mode \in Asks(first.task, l)
  <2>1. \A u : \A m \in Locks : u # first.task \/ m # l => Held(u, m)' = Held(u, m)
    BY <1>3 DEF Held
  <2>2. Held(first.task, l)' = Held(first.task, l) \union {first.mode}
    BY <1>3 DEF Held
  <2>3. first.mode \in Asks(first.task, l)
    BY <1>0, <1>1, <1>5 DEF Asks
  <2> QED BY <2>1, <2>2, <2>3
<1>10. running[first.task] # NoCommand
  BY <1>2, <1>9 DEF LocksInv, IdleHasNothing
<1>11. IdleHasNothing'
  <2> SUFFICES ASSUME NEW u \in Tasks, running[u] = NoCommand
               PROVE  todo[u] = <<>> /\ \A m \in Locks : Held(u, m)' = {} /\ Asks(u, m)' = {}
    BY <1>2 DEF IdleHasNothing
  <2> QED BY <1>8, <1>9, <1>10 DEF LocksInv, IdleHasNothing
<1>12. ASSUME NEW u \in Tasks, running'[u] \notin Excused PROVE InOrder(u)'
  <2>1. InOrder(u) /\ todo'[u] = todo[u]
    BY <1>2, <1>12 DEF LocksInv, OthersInOrder
  <2>2. CASE u # first.task
    BY <1>8, <1>9, <2>1, <2>2, FewerLocks
  <2>3. CASE u = first.task
    <3>1. \A m \in Locks : Held(u, m)' \union Asks(u, m)' \subseteq Held(u, m) \union Asks(u, m)
      BY <1>8, <1>9, <2>3
    <3>2. \A m \in Locks : Asks(u, m)' = {}
      BY <1>8, <2>3
    <3> QED BY <2>1, <3>1, <3>2, StaysInOrder
  <2> QED BY <2>2, <2>3
<1> QED BY <1>4, <1>6, <1>11, <1>12 DEF LocksInv, OthersInOrder

LEMMA ReleaseStep ==
    ASSUME LocksInv, NEW t \in Tasks, Release(t)
    PROVE  LocksInv'
<1>0. PICK op : op = todo[t][1]
  OBVIOUS
<1>1. /\ todo[t] # <<>> /\ Head(todo[t]) = op /\ op \in Operation /\ todo[t] \in Seq(Operation)
      /\ Tail(todo[t]) \in Seq(Operation) /\ op.lock \in Locks
  <2>1. todo[t] # <<>> /\ todo[t] \in Seq(Operation)
    BY TypeFacts DEF Release, LocksInv
  <2>2. Head(todo[t]) = op /\ op \in Operation /\ Tail(todo[t]) \in Seq(Operation)
    BY <1>0, <2>1
  <2>3. op.lock \in Locks
    BY <2>2 DEF Operation
  <2> QED BY <2>1, <2>2, <2>3
<1>2. /\ holders' = [holders EXCEPT ![op.lock] = {h \in @ : h.task # t}]
      /\ todo' = [todo EXCEPT ![t] = Tail(@)] /\ UNCHANGED <<running, queue>>
  BY <1>1 DEF Release
<1>3. TypeOK'
  BY <1>1, <1>2 DEF LocksInv, TypeOK
<1>4. /\ todo'[t] = Tail(todo[t]) /\ \A u \in Tasks \ {t} : todo'[u] = todo[u]
      /\ holders'[op.lock] = {h \in holders[op.lock] : h.task # t}
      /\ \A l \in Locks \ {op.lock} : holders'[l] = holders[l]
  BY <1>1, <1>2, TypeFacts DEF LocksInv
<1>5. /\ WaitsOnce' /\ \A u, l : Asks(u, l)' = Asks(u, l)
      /\ \A l \in Locks : Asks(t, l) = {}
  BY <1>2 DEF LocksInv, WaitsOnce, Asks, Release, Waits, Waiting
<1>6. /\ \A u : \A l \in Locks : Held(u, l)' \subseteq Held(u, l)
      /\ Held(t, op.lock)' = {}
  BY <1>4 DEF Held
<1>7. running[t] # NoCommand
  BY <1>1 DEF LocksInv, IdleHasNothing
<1>8. IdleHasNothing'
  <2> SUFFICES ASSUME NEW u \in Tasks, running[u] = NoCommand
               PROVE  todo'[u] = <<>> /\ \A m \in Locks : Held(u, m)' = {} /\ Asks(u, m)' = {}
    BY <1>2 DEF IdleHasNothing
  <2>1. u # t
    BY <1>7
  <2> QED BY <1>4, <1>5, <1>6, <2>1 DEF LocksInv, IdleHasNothing
<1>9. ASSUME NEW u \in Tasks, running'[u] \notin Excused PROVE InOrder(u)'
  <2>1. InOrder(u)
    BY <1>2, <1>9 DEF LocksInv, OthersInOrder
  <2>2. CASE u # t
    BY <1>4, <1>5, <1>6, <2>1, <2>2, FewerLocks
  <2>3. CASE u = t
    <3> DEFINE s == todo[t]    r == Tail(s)
    <3>1. Orderly(s) /\ s # <<>> /\ s[1] = op
      BY <1>0, <1>1, <2>1, <2>3 DEF InOrder
    <3>2. Orderly(r) /\ \A l : Ahead(l, s) /\ op.lock # l => Ahead(l, r)
      BY <3>1, TailOrder
    <3>3. \A l \in Locks : Held(t, l) # {} => Ahead(l, s)
      BY <2>1, <2>3 DEF InOrder
    <3> HIDE DEF s
    <3>4. todo'[t] = r
      BY <1>4 DEF s
    <3> HIDE DEF r
    <3>5. Orderly(todo[u])'
      BY <2>3, <3>2, <3>4 DEF Orderly, Until, Takes
    <3>6. \A l : Ahead(l, r) => Ahead(l, todo[u])'
      BY <2>3, <3>4 DEF Ahead, Untouched, Takes
    <3>7. \A l \in Locks : Held(u, l)' \union Asks(u, l)' # {} => Ahead(l, r)
      BY <1>5, <1>6, <2>3, <3>2, <3>3
    <3>8. \A l \in Locks : Asks(u, l)' = {}
      BY <1>5, <2>3
    <3>9. "write" \notin Held(u, "config")' \union Asks(u, "config")'
      <4>1. "config" \in Locks /\ "write" \notin Held(u, "config")
        BY <2>1 DEF InOrder, Locks
      <4> QED BY <1>6, <3>8, <4>1
    <3> QED BY <3>5, <3>6, <3>7, <3>8, <3>9 DEF InOrder
  <2> QED BY <2>2, <2>3
<1> QED BY <1>3, <1>5, <1>8, <1>9 DEF LocksInv, OthersInOrder

LEMMA ReturnStep ==
    ASSUME LocksInv, NEW t \in Tasks, Return(t)
    PROVE  LocksInv'
<1>1. /\ todo[t] = <<>> /\ holders' = [l \in Locks |-> {h \in holders[l] : h.task # t}]
      /\ running' = [running EXCEPT ![t] = NoCommand] /\ UNCHANGED <<todo, queue>>
  BY DEF Return
<1>2. TypeOK'
  BY <1>1 DEF LocksInv, TypeOK
<1>3. \A l \in Locks : holders'[l] = {h \in holders[l] : h.task # t}
  BY <1>1
<1>4. /\ WaitsOnce' /\ \A u, l : Asks(u, l)' = Asks(u, l)
      /\ \A l \in Locks : Asks(t, l) = {}
  BY <1>1 DEF LocksInv, WaitsOnce, Asks, Return, Waits, Waiting
<1>5. \A l \in Locks : Held(t, l)' = {} /\ \A u : Held(u, l)' \subseteq Held(u, l)
  BY <1>3 DEF Held
<1>6. running'[t] = NoCommand /\ \A u \in Tasks \ {t} : running'[u] = running[u]
  BY <1>1, TypeFacts DEF LocksInv
<1>7. IdleHasNothing'
  <2> SUFFICES ASSUME NEW u \in Tasks, running'[u] = NoCommand
               PROVE  todo[u] = <<>> /\ \A m \in Locks : Held(u, m)' = {} /\ Asks(u, m)' = {}
    BY <1>1 DEF IdleHasNothing
  <2>1. CASE u = t
    BY <1>1, <1>4, <1>5, <2>1
  <2>2. CASE u # t
    BY <1>4, <1>5, <1>6, <2>2 DEF LocksInv, IdleHasNothing
  <2> QED BY <2>1, <2>2
<1>8. ASSUME NEW u \in Tasks, running'[u] \notin Excused PROVE InOrder(u)'
  <2>1. CASE u # t
    <3>1. InOrder(u) /\ todo'[u] = todo[u]
      BY <1>1, <1>6, <1>8, <2>1 DEF LocksInv, OthersInOrder
    <3> QED BY <1>4, <1>5, <3>1, FewerLocks
  <2>2. CASE u = t
    <3>1. todo'[u] = <<>> /\ \A l \in Locks : Held(u, l)' = {} /\ Asks(u, l)' = {}
      BY <1>1, <1>4, <1>5, <2>2
    <3>2. Orderly(todo[u])'
      BY <3>1 DEF Orderly
    <3>3. "config" \in Locks
      BY DEF Locks
    <3> QED BY <3>1, <3>2, <3>3 DEF InOrder
  <2> QED BY <2>1, <2>2
<1> QED BY <1>2, <1>4, <1>7, <1>8 DEF LocksInv, OthersInOrder

LEMMA LocksInvInit == Init => LocksInv
<1> SUFFICES ASSUME Init PROVE LocksInv
  OBVIOUS
<1>1. /\ \A t \in Tasks : running[t] = NoCommand /\ todo[t] = <<>>
      /\ \A l \in Locks : holders[l] = {} /\ queue[l] = <<>>
  BY DEF Init
<1>2. TypeOK
  BY DEF Init, TypeOK
<1>3. WaitsOnce
  BY <1>1 DEF WaitsOnce
<1>4. \A t \in Tasks, l \in Locks : Held(t, l) = {} /\ Asks(t, l) = {}
  BY <1>1 DEF Held, Asks
<1>5. \A t \in Tasks : InOrder(t)
  <2>1. "config" \in Locks
    BY DEF Locks
  <2>2. Orderly(<<>>)
    BY DEF Orderly
  <2> QED BY <1>1, <1>4, <2>1, <2>2 DEF InOrder
<1> QED BY <1>1, <1>2, <1>3, <1>4, <1>5 DEF LocksInv, IdleHasNothing, OthersInOrder

LEMMA LocksInvKept == LocksInv /\ [Next]_vars => LocksInv'
<1> SUFFICES ASSUME LocksInv, [Next]_vars PROVE LocksInv'
  OBVIOUS
<1>1. ASSUME NEW t \in Tasks, Run(t) PROVE LocksInv'
  BY <1>1, RequestStep, ReleaseStep, ReturnStep DEF Run
<1>2. ASSUME NEW t \in Tasks, NEW c \in Commands, Call(t, c) PROVE LocksInv'
  BY <1>2, CallStep
<1>3. ASSUME NEW l \in Locks, Grant(l) PROVE LocksInv'
  BY <1>3, GrantStep
<1>4. CASE UNCHANGED vars
  <2>1. UNCHANGED <<running, todo, holders, queue>>
    BY <1>4 DEF vars
  <2>2. TypeOK' /\ WaitsOnce' /\ \A t, l : Held(t, l)' = Held(t, l) /\ Asks(t, l)' = Asks(t, l)
    BY <2>1, SameLocks DEF LocksInv, TypeOK
  <2>3. IdleHasNothing'
    BY <2>1, <2>2 DEF LocksInv, IdleHasNothing
  <2>4. ASSUME NEW t \in Tasks, running'[t] \notin Excused PROVE InOrder(t)'
    <3>1. InOrder(t) /\ todo'[t] = todo[t]
      BY <2>1, <2>4 DEF LocksInv, OthersInOrder
    <3> QED BY <2>2, <3>1, FewerLocks
  <2> QED BY <2>2, <2>3, <2>4 DEF LocksInv, OthersInOrder
<1> QED BY <1>1, <1>2, <1>3, <1>4 DEF Next

\* No task waits for two locks; an idle one has and waits for none; a task that
\* runs none of the commands with a fault of their own is in the order of the locks.
THEOREM LocksInvariant == Spec => []LocksInv
<1>1. LocksInv /\ [Next]_vars => LocksInv'
  BY LocksInvKept
<1> QED BY <1>1, LocksInvInit, PTL DEF Spec

\* What a task has left to do are operations on the locks there are, and only
\* tasks hold them or wait for them.
THEOREM LockTypes == Spec => []TypeOK
<1>1. LocksInv => TypeOK
  BY DEF LocksInv
<1> QED BY <1>1, LocksInvariant, PTL
-----------------------------------------------------------------------------
(* Who waits for whom. *)

\* Of tasks in order that wait for each other, the first of them in a queue waits
\* for one of them that holds the lock.
LEMMA StuckBehindAHolder ==
    ASSUME LocksInv, NEW S \in SUBSET Tasks, Stuck(S),
           \A t \in S : running[t] \notin Excused,
           NEW t \in S, NEW l \in Locks, Asks(t, l) # {}
    PROVE  /\ l # "config"
           /\ \E h \in S : Held(h, l) # {}
<1>1. /\ queue[l] \in Seq(Holds) /\ DOMAIN queue[l] = 1..Len(queue[l]) /\ Len(queue[l]) \in Nat
  BY TypeFacts DEF LocksInv
<1> DEFINE I == {i \in DOMAIN queue[l] : queue[l][i].task \in S}
<1>2. I \subseteq Nat /\ I # {}
  BY <1>1 DEF Asks
<1>3. PICK i \in I : \A j \in I : i <= j
  BY <1>2, Least
<1>4. PICK u : u = queue[l][i].task
  OBVIOUS
<1>5. u \in S /\ u \in Tasks /\ i \in DOMAIN queue[l]
  BY <1>3, <1>4
<1>6. PICK m \in Locks : \E k \in DOMAIN queue[m] :
         /\ queue[m][k].task = u
         /\ \/ \E h \in holders[m] : h.task \in S /\ "write" \in {h.mode, queue[m][k].mode}
            \/ \E j \in 1..k-1 : queue[m][j].task \in S
  BY <1>5 DEF Stuck
<1>7. PICK k \in DOMAIN queue[m] :
         /\ queue[m][k].task = u
         /\ \/ \E h \in holders[m] : h.task \in S /\ "write" \in {h.mode, queue[m][k].mode}
            \/ \E j \in 1..k-1 : queue[m][j].task \in S
  BY <1>6
<1>8. m = l /\ k = i
  BY <1>4, <1>5, <1>7 DEF LocksInv, WaitsOnce
<1>9. ASSUME NEW j \in 1..i - 1, queue[l][j].task \in S PROVE FALSE
  <2>1. j \in DOMAIN queue[l] /\ ~(i <= j)
    BY <1>1, <1>5
  <2> QED BY <1>3, <1>9, <2>1
<1>10. PICK h \in holders[l] : h.task \in S /\ "write" \in {h.mode, queue[l][i].mode}
  BY <1>7, <1>8, <1>9
<1>11. h.mode \in Held(h.task, l) /\ queue[l][i].mode \in Asks(u, l)
  BY <1>4, <1>5, <1>10 DEF Held, Asks
<1>12. ASSUME l = "config" PROVE FALSE
  <2>1. InOrder(u) /\ InOrder(h.task)
    BY <1>5, <1>10 DEF LocksInv, OthersInOrder
  <2> QED BY <1>10, <1>11, <1>12, <2>1 DEF InOrder
<1> QED BY <1>10, <1>11, <1>12

\* Commands that wait for each other in a circle, or for themselves, have one of
\* the causes listed: otherwise each lock waited for would be held by a task that
\* waits for a later one, and the locks are finitely many.
THEOREM BlocksAreExplained == Spec => []BlocksHaveACause
<1>1. ASSUME LocksInv, NEW S \in SUBSET Tasks, Stuck(S) PROVE \E t \in S : running[t] \in Excused
  <2> SUFFICES ASSUME \A t \in S : running[t] \notin Excused PROVE FALSE
    OBVIOUS
  <2>1. ASSUME NEW t \in S PROVE \E l \in Locks : Asks(t, l) # {}
    <3>1. PICK l \in Locks : \E i \in DOMAIN queue[l] : queue[l][i].task = t
      BY <1>1 DEF Stuck
    <3>2. PICK i \in DOMAIN queue[l] : queue[l][i].task = t
      BY <3>1
    <3>3. queue[l][i].mode \in Asks(t, l)
      BY <3>2 DEF Asks
    <3> QED BY <3>3
  <2> DEFINE awaited == {l \in Locks : \E t \in S : Asks(t, l) # {}}
             levels == {Level[l] : l \in awaited}
  <2>2. awaited # {} /\ S # {}
    BY <1>1, <2>1 DEF Stuck
  <2>3. levels \subseteq Nat /\ levels # {}
    BY <2>2, LevelFacts
  <2>4. PICK x \in levels : \A y \in levels : x <= y
    BY <2>3, Least
  <2>5. PICK l \in awaited : x = Level[l]
    BY <2>4
  <2>6. PICK t \in S : Asks(t, l) # {}
    BY <2>5
  <2>7. l # "config" /\ \E h \in S : Held(h, l) # {}
    BY <1>1, <2>6, StuckBehindAHolder
  <2>8. PICK h \in S : Held(h, l) # {}
    BY <2>7
  <2>9. PICK m \in Locks : Asks(h, m) # {}
    BY <2>1
  <2>10. m # "config"
    BY <1>1, <2>9, StuckBehindAHolder
  <2>11. InOrder(h)
    BY <1>1 DEF LocksInv, OthersInOrder
  <2>12. MayFollow(l, m)
    BY <2>8, <2>9, <2>11 DEF InOrder
  <2>13. Level[m] < Level[l]
    BY <2>7, <2>10, <2>12 DEF MayFollow
  <2>14. Level[m] \in levels
    BY <2>9
  <2> QED
    <3>1. x \in Nat /\ Level[m] \in Nat /\ x <= Level[m] /\ Level[m] < x
      BY <2>3, <2>4, <2>5, <2>13, <2>14
    <3> QED BY <3>1
<1>2. LocksInv => BlocksHaveACause
  BY <1>1 DEF BlocksHaveACause, Excused
<1> QED BY <1>2, LocksInvariant, PTL

-----------------------------------------------------------------------------
\* While commands are under way and none of them is a cause, one of them is not
\* waiting for a lock, or some lock can be granted to the first that waits for it.
SomethingGoesOn ==
    /\ \E t \in Tasks : running[t] # NoCommand
    /\ \A t \in Tasks : running[t] \notin Excused
    => \/ \E t \in Tasks : running[t] # NoCommand /\ ~Waits(t)
       \/ \E l \in Locks : queue[l] # <<>> /\ Compatible(l, Head(queue[l]).mode)

\* The backend does not come to a standstill without one of the causes: were every
\* command waiting and no lock to be granted, they would wait for each other.
THEOREM TheBackendGoesOn == Spec => []SomethingGoesOn
<1>1. ASSUME LocksInv, BlocksHaveACause PROVE SomethingGoesOn
  <2> DEFINE S == {t \in Tasks : running[t] # NoCommand}
  <2> SUFFICES ASSUME S # {}, \A t \in Tasks : running[t] \notin Excused,
                      \A t \in S : Waits(t),
                      \A l \in Locks : queue[l] # <<>> => ~Compatible(l, Head(queue[l]).mode)
               PROVE  FALSE
    BY DEF SomethingGoesOn
  <2>1. ASSUME NEW t \in Tasks, NEW l \in Locks, Asks(t, l) # {} \/ Held(t, l) # {} PROVE t \in S
    BY <1>1, <2>1 DEF LocksInv, IdleHasNothing
  <2>2. ASSUME NEW t \in S
        PROVE  \E l \in Locks : \E i \in DOMAIN queue[l] :
                 /\ queue[l][i].task = t
                 /\ \/ \E h \in holders[l] : h.task \in S /\ "write" \in {h.mode, queue[l][i].mode}
                    \/ \E j \in 1..i-1 : queue[l][j].task \in S
    <3>1. PICK l \in Locks : \E i \in DOMAIN queue[l] : queue[l][i].task = t
      BY DEF Waits, Waiting
    <3>2. PICK i \in DOMAIN queue[l] : queue[l][i].task = t
      BY <3>1
    <3>3. /\ queue[l] \in Seq(Holds) /\ DOMAIN queue[l] = 1..Len(queue[l]) /\ Len(queue[l]) \in Nat
          /\ holders[l] \subseteq Holds
      BY <1>1, TypeFacts DEF LocksInv, TypeOK
    <3>4. /\ queue[l] # <<>> /\ 1 \in DOMAIN queue[l] /\ queue[l][1] = Head(queue[l])
          /\ queue[l][1] \in Holds
      BY <3>3
    <3>5. CASE i = 1
      <4>1. PICK h \in holders[l] : "write" \in {h.mode, queue[l][1].mode}
        BY <3>3, <3>4 DEF Compatible, Holds, Modes
      <4>2. h.task \in S
        <5>1. h.task \in Tasks /\ h.mode \in Held(h.task, l)
          BY <3>3, <4>1 DEF Holds, Held
        <5> QED BY <2>1, <5>1
      <4> QED BY <3>2, <3>5, <4>1, <4>2
    <3>6. CASE i # 1
      <4>1. 1 \in 1..i-1
        BY <3>3, <3>6
      <4>2. queue[l][1].task \in S
        <5>1. queue[l][1].task \in Tasks /\ queue[l][1].mode \in Asks(queue[l][1].task, l)
          BY <3>4 DEF Holds, Asks
        <5> QED BY <2>1, <5>1
      <4> QED BY <3>2, <4>1, <4>2
    <3> QED BY <3>5, <3>6
  <2>3. Stuck(S) /\ S \in SUBSET Tasks
    BY <2>2 DEF Stuck
  <2> QED BY <1>1, <2>3 DEF BlocksHaveACause, Excused
<1> QED BY <1>1, LocksInvariant, BlocksAreExplained, PTL
=============================================================================
