---------------------------- MODULE KernelProofs ----------------------------
(***************************************************************************)
(* Proofs about the frontend's kernel: its plugins (PluginKernel), for any  *)
(* plugins, calls and operations; the services it hands them (MessageBus,   *)
(* NetworkStack); and the configuration (Configuration), for any paths,     *)
(* values, profiles, calls, reloads and failures, and whatever validation   *)
(* accepts.                                                                *)
(*                                                                         *)
(* The proofs about the configuration follow the storage requests: they are *)
(* served in the order they are made, so what is stored once those before a *)
(* position are served (Stored) is a function of the queue, and a property  *)
(* of the storage is stated of every position of the queue (Agrees, Told).  *)
(***************************************************************************)
EXTENDS PluginKernel, MessageBus, NetworkStack, Configuration, OrderingProofs, SequenceTheorems,
        FiniteSetTheorems

-----------------------------------------------------------------------------
(* The pieces of a call. *)

\* What may be skipped after a piece is there, and is not the loading.
Followed(todo) ==
    \A i \in DOMAIN todo :
        /\ todo[i] \in {"enable", "disable", "reload", "unregister"} =>
             i + 1 \in DOMAIN todo /\ todo[i+1] = "hook"
        /\ todo[i] = "unregister" =>
             i + 3 \in DOMAIN todo /\ todo[i+2] = "unload" /\ todo[i+3] = "delete"

\* What is registered has been loaded before.
LoadedFirst(todo, obj) ==
    \A i \in DOMAIN todo : todo[i] \in {"resolve", "insert"} =>
        obj # 0 \/ \E j \in 1..i-1 : todo[j] = "load"

\* Nothing is enabled or inserted before what has to be deleted is.
DeletedFirst(todo) ==
    \A i, j \in DOMAIN todo :
        todo[i] \in {"enable", "insert", "load"} /\ todo[j] = "delete" => j < i

InOrder(r, objects) ==
    /\ Followed(r.todo)
    /\ LoadedFirst(r.todo, r.obj)
    /\ DeletedFirst(r.todo)
    /\ r.op = "start" => r.left \in Seq(Ids)
    /\ r.op = "stop" => /\ r.left \in Seq([id : Ids, obj : objects])
                       /\ \A i \in DOMAIN r.todo : r.todo[i] = "hook"

PiecesInOrder == \A c \in Calls : InOrder(call[c], DOMAIN made)

\* The call has disabled what it is about to delete.
Deleting(c) ==
    \E i \in DOMAIN call[c].todo :
        /\ call[c].todo[i] = "delete"
        /\ \A j \in 1..i-1 : call[c].todo[j] # "unregister"

DeletesDisabled(c) == Deleting(c) => ~Enabled(call[c].id)

EnabledAreFound ==
    \A o \in DOMAIN made : made[o].enabled => \E i \in DOMAIN plugins : plugins[i].obj = o

StopsAll(c) ==
    call[c].op = "stop" =>
        \A o \in DOMAIN made : made[o].enabled =>
            \E i \in DOMAIN call[c].left : \E k \in DOMAIN plugins :
                call[c].left[i] = plugins[k] /\ plugins[k].obj = o

\* While calls do not overlap there is one at most; what is enabled is
\* registered; what is being deleted is not enabled; and a stop has still to
\* visit everything that is.
Serial ==
    ~overlapped =>
        /\ \A c, d \in Calls : call[c] # Idle /\ call[d] # Idle => c = d
        /\ EnabledAreFound
        /\ \A c \in Calls : DeletesDisabled(c) /\ StopsAll(c)

PluginInv ==
    /\ TypeOK
    /\ PiecesInOrder
    /\ RecordsAgree
    /\ Serial
-----------------------------------------------------------------------------
(* Types. *)

Plugin == [id : Ids, enabled : BOOLEAN]
Entries(objects) == [id : Ids, obj : objects]
CallType(objects) ==
    [op : AllOperations \union {"none"}, id : Ids \union {"none"}, obj : objects \union {0},
     todo : Seq(PieceNames), left : Seq(Ids) \union Seq(Entries(objects))]

LEMMA TypesSpelled ==
    TypeOK <=> /\ plugins \in Seq(Entries(DOMAIN made))
               /\ loadOrder \in Seq(Ids)
               /\ configured \subseteq Ids
               /\ made \in Seq(Plugin)
               /\ started \in BOOLEAN
               /\ overlapped \in BOOLEAN
               /\ call \in [Calls -> CallType(DOMAIN made)]
               /\ \A c \in Calls : At(c, "resolve") \/ At(c, "insert") => call[c].obj # 0
BY DEF TypeOK, Entry, Entries, CallType, Plugin

\* Objects are added, and keep their ids.
Grown ==
    /\ made' \in Seq(Plugin)
    /\ DOMAIN made \subseteq DOMAIN made'
    /\ \A o \in DOMAIN made : made'[o].id = made[o].id

LEMMA GrownTypes ==
    ASSUME NEW M, NEW N, M \subseteq N
    PROVE  /\ Seq(Entries(M)) \subseteq Seq(Entries(N))
           /\ CallType(M) \subseteq CallType(N)
<1>1. Entries(M) \subseteq Entries(N)
  BY DEF Entries
<1>2. Seq(Entries(M)) \subseteq Seq(Entries(N))
  <2> HIDE DEF Entries
  <2>1. ASSUME NEW s \in Seq(Entries(M)) PROVE s \in Seq(Entries(N))
    BY <1>1
  <2> QED BY <2>1
<1>3. CallType(M) \subseteq CallType(N)
  BY <1>2 DEF CallType
<1> QED BY <1>2, <1>3

LEMMA GetFacts ==
    ASSUME TypeOK, NEW id, Registered(id)
    PROVE  /\ Get(id) \in DOMAIN made
           /\ \E i \in DOMAIN plugins : plugins[i].id = id /\ plugins[i].obj = Get(id)
<1>1. PICK i \in DOMAIN plugins : plugins[i].id = id /\ plugins[i].obj = Get(id)
  BY DEF Registered, Get
<1>2. plugins[i] \in Entry
  BY DEF TypeOK
<1> QED BY <1>1, <1>2 DEF Entry

LEMMA SetEnabledFacts ==
    ASSUME TypeOK, NEW id, Registered(id), NEW b \in BOOLEAN, SetEnabled(id, b)
    PROVE  /\ Grown
           /\ DOMAIN made' = DOMAIN made
           /\ \A o \in DOMAIN made : made'[o].enabled = IF o = Get(id) THEN b ELSE made[o].enabled
<1>1. Get(id) \in DOMAIN made
  BY GetFacts
<1>2. made \in Seq(Plugin)
  BY TypesSpelled
<1> DEFINE g == Get(id)
<1>3. made' = [made EXCEPT ![g].enabled = b]
  BY DEF SetEnabled
<1> HIDE DEF g
<1>4. g \in DOMAIN made
  BY <1>1 DEF g
<1>5. /\ DOMAIN made' = DOMAIN made
      /\ \A o \in DOMAIN made : made'[o] = IF o = g THEN [made[o] EXCEPT !.enabled = b] ELSE made[o]
  BY <1>2, <1>3, <1>4
<1>6. \A o \in DOMAIN made : made[o] \in Plugin
  BY <1>2
<1>7. \A o \in DOMAIN made : /\ made'[o] \in Plugin /\ made'[o].id = made[o].id
                             /\ made'[o].enabled = IF o = g THEN b ELSE made[o].enabled
  BY <1>5, <1>6 DEF Plugin
<1>8. made' \in Seq(Plugin)
  <2>0. DOMAIN made = 1..Len(made) /\ Len(made) \in Nat
    BY <1>2
  <2>3. made' = [o \in DOMAIN made |-> made'[o]]
    BY <1>3, Zenon
  <2>1. made' = [o \in 1..Len(made) |-> made'[o]] /\ Len(made) \in Nat
    BY <2>0, <2>3
  <2>2. \A o \in 1..Len(made) : made'[o] \in Plugin
    BY <1>2, <1>7
  <2> QED BY <2>1, <2>2
<1> QED BY <1>5, <1>7, <1>8 DEF Grown, g

LEMMA LoadFacts ==
    ASSUME TypeOK, NEW path \in Ids, made' = Append(made, [id |-> path, enabled |-> FALSE])
    PROVE  /\ Grown
           /\ Len(made) + 1 \in DOMAIN made' /\ Len(made) + 1 # 0
           /\ \A o \in DOMAIN made : made'[o] = made[o]
           /\ \A o \in DOMAIN made' \ DOMAIN made : ~made'[o].enabled
<1> DEFINE e == [id |-> path, enabled |-> FALSE]
<1>1. made \in Seq(Plugin) /\ e \in Plugin
  BY TypesSpelled DEF Plugin
<1>2. e.enabled = FALSE
  OBVIOUS
<1> HIDE DEF e
<1>3. made' = Append(made, e)
  BY DEF e
<1> QED BY <1>1, <1>2, <1>3 DEF Grown

LEMMA UnchangedGrown == TypeOK /\ made' = made => Grown
BY TypesSpelled DEF Grown
-----------------------------------------------------------------------------
(* What is left of a call. *)

Rest(todo, n) == SubSeq(todo, n + 2, Len(todo))

LEMMA RestFacts ==
    ASSUME NEW todo \in Seq(PieceNames), NEW n \in Nat, n + 1 <= Len(todo),
           Followed(todo), DeletedFirst(todo)
    PROVE  /\ Rest(todo, n) \in Seq(PieceNames)
           /\ Len(Rest(todo, n)) = Len(todo) - (n + 1)
           /\ \A i \in DOMAIN Rest(todo, n) :
                /\ i + (n + 1) \in DOMAIN todo
                /\ Rest(todo, n)[i] = todo[i + (n + 1)]
           /\ Followed(Rest(todo, n))
           /\ DeletedFirst(Rest(todo, n))
<1> DEFINE r == Rest(todo, n)
<1>1. /\ r \in Seq(PieceNames)
      /\ Len(r) = Len(todo) - (n + 1)
      /\ DOMAIN r = 1..Len(r)
      /\ \A i \in DOMAIN r : i + (n + 1) \in DOMAIN todo /\ r[i] = todo[i + (n + 1)]
  BY DEF Rest
<1> HIDE DEF r
<1>2. \A k \in 1..3 : \A i \in DOMAIN r :
        i + (n + 1) + k \in DOMAIN todo => i + k \in DOMAIN r /\ r[i+k] = todo[i + (n + 1) + k]
  <2> SUFFICES ASSUME NEW k \in 1..3, NEW i \in DOMAIN r, i + (n + 1) + k \in DOMAIN todo
               PROVE  i + k \in DOMAIN r /\ r[i+k] = todo[i + (n + 1) + k]
    OBVIOUS
  <2>1. i + k \in DOMAIN r
    BY <1>1
  <2>2. (i + k) + (n + 1) = i + (n + 1) + k
    BY <1>1
  <2> QED BY <1>1, <2>1, <2>2
<1>3. Followed(r)
  <2> SUFFICES ASSUME NEW i \in DOMAIN r
               PROVE  /\ r[i] \in {"enable", "disable", "reload", "unregister"} =>
                           i + 1 \in DOMAIN r /\ r[i+1] = "hook"
                      /\ r[i] = "unregister" =>
                           i + 3 \in DOMAIN r /\ r[i+2] = "unload" /\ r[i+3] = "delete"
    BY DEF Followed
  <2>1. i + (n + 1) \in DOMAIN todo /\ r[i] = todo[i + (n + 1)]
    BY <1>1
  <2> DEFINE at == i + (n + 1)
  <2>2. /\ todo[at] \in {"enable", "disable", "reload", "unregister"} =>
             at + 1 \in DOMAIN todo /\ todo[at+1] = "hook"
        /\ todo[at] = "unregister" =>
             at + 3 \in DOMAIN todo /\ todo[at+2] = "unload" /\ todo[at+3] = "delete"
    BY <2>1 DEF Followed
  <2>3. at \in Nat /\ (at + 3 \in DOMAIN todo => at + 2 \in DOMAIN todo)
    BY <1>1
  <2> QED BY <1>2, <2>1, <2>2, <2>3
<1>4. DeletedFirst(r)
  <2> SUFFICES ASSUME NEW i \in DOMAIN r, NEW j \in DOMAIN r,
                      r[i] \in {"enable", "insert", "load"}, r[j] = "delete"
               PROVE  j < i
    BY DEF DeletedFirst
  <2>1. j + (n + 1) < i + (n + 1)
    BY <1>1 DEF DeletedFirst
  <2> QED BY <1>1, <2>1
<1> QED BY <1>1, <1>3, <1>4 DEF r

LEMMA RestLoaded ==
    ASSUME NEW todo \in Seq(PieceNames), NEW n \in Nat, n + 1 <= Len(todo),
           NEW obj, LoadedFirst(todo, obj), \A j \in 1..n+1 : todo[j] # "load"
    PROVE  LoadedFirst(Rest(todo, n), obj)
<1> DEFINE r == Rest(todo, n)
<1>1. /\ r \in Seq(PieceNames)
      /\ DOMAIN r = 1..Len(r)
      /\ \A i \in 1..(Len(todo) - (n + 1)) : i \in DOMAIN r /\ r[i] = todo[i + (n + 1)]
      /\ \A i \in DOMAIN r : i + (n + 1) \in DOMAIN todo /\ r[i] = todo[i + (n + 1)]
  BY DEF Rest
<1> HIDE DEF r
<1>2. ASSUME NEW i \in DOMAIN r, r[i] \in {"resolve", "insert"}, obj = 0
      PROVE  \E j \in 1..i-1 : r[j] = "load"
  <2>1. PICK j \in 1..(i + (n + 1))-1 : todo[j] = "load"
    BY <1>1, <1>2 DEF LoadedFirst
  <2>2. j > n + 1
    BY <2>1
  <2>3. j - (n + 1) \in 1..i-1 /\ (j - (n + 1)) + (n + 1) = j
    BY <1>1, <2>2
  <2>4. j - (n + 1) \in DOMAIN r
    BY <1>1, <2>3
  <2>5. r[j - (n + 1)] = "load"
    BY <1>1, <2>1, <2>3, <2>4
  <2> QED BY <2>3, <2>5
<1> QED BY <1>2 DEF LoadedFirst, r

LEMMA PiecesFacts ==
    ASSUME NEW op \in AllOperations \ {"start", "stop"}, NEW obj
    PROVE  /\ Pieces(op) \in Seq(PieceNames)
           /\ Followed(Pieces(op))
           /\ LoadedFirst(Pieces(op), obj)
           /\ DeletedFirst(Pieces(op))
           /\ Pieces(op) # <<>>
           /\ Pieces(op)[1] \notin {"resolve", "insert"}
           /\ \A i \in DOMAIN Pieces(op) : Pieces(op)[i] = "delete" =>
                \E j \in 1..i-1 : Pieces(op)[j] = "unregister"
<1> USE DEF Followed, LoadedFirst, DeletedFirst, PieceNames
<1>1. CASE op = "install"
  BY <1>1 DEF Pieces
<1>2. CASE op = "uninstall"
  BY <1>2 DEF Pieces
<1>3. CASE op = "update"
  BY <1>3 DEF Pieces
<1>4. CASE op = "enable"
  BY <1>4 DEF Pieces
<1>6. CASE op = "disable"
  BY <1>6 DEF Pieces
<1>7. CASE op = "configure"
  BY <1>7 DEF Pieces
<1>5. CASE op = "reload"
  BY <1>5 DEF Pieces
<1> QED BY <1>1, <1>2, <1>3, <1>4, <1>5, <1>6, <1>7 DEF AllOperations
-----------------------------------------------------------------------------
(* One call changes. *)

CallsOK ==
    /\ call \in [Calls -> CallType(DOMAIN made)]
    /\ \A c \in Calls : At(c, "resolve") \/ At(c, "insert") => call[c].obj # 0
    /\ PiecesInOrder

Only(c) == \A d \in Calls \ {c} : call'[d] = call[d]

LEMMA OneCall ==
    ASSUME TypeOK, PiecesInOrder, Grown, NEW c \in Calls, NEW r,
           call' = [call EXCEPT ![c] = r],
           r \in CallType(DOMAIN made'), InOrder(r, DOMAIN made')
    PROVE  CallsOK' /\ Only(c) /\ call'[c] = r
<1> DEFINE M == DOMAIN made    N == DOMAIN made'
<1>1. /\ M \subseteq N
      /\ call \in [Calls -> CallType(M)]
      /\ \A d \in Calls : InOrder(call[d], M)
  BY TypesSpelled DEF Grown, PiecesInOrder
<1> HIDE DEF M, N
<1>2. Seq(Entries(M)) \subseteq Seq(Entries(N)) /\ CallType(M) \subseteq CallType(N)
  BY <1>1, GrownTypes
<1>3. \A d \in Calls : InOrder(call[d], N)
  BY <1>1, <1>2 DEF InOrder, Entries
<1>4. \A d \in Calls : call'[d] = IF d = c THEN r ELSE call[d]
  BY <1>1
<1>5. call' \in [Calls -> CallType(N)]
  BY <1>1, <1>2 DEF N
<1>6. \A d \in Calls : InOrder(call'[d], N)
  BY <1>3, <1>4 DEF N
<1>7. \A d \in Calls : At(d, "resolve")' \/ At(d, "insert")' => call'[d].obj # 0
  <2> SUFFICES ASSUME NEW d \in Calls, call'[d].todo # <<>>,
                      Head(call'[d].todo) \in {"resolve", "insert"}
               PROVE  call'[d].obj # 0
    BY DEF At
  <2>1. call'[d].todo \in Seq(PieceNames) /\ 1 \in DOMAIN call'[d].todo
    BY <1>5 DEF CallType
  <2>2. LoadedFirst(call'[d].todo, call'[d].obj)
    BY <1>6 DEF InOrder
  <2> QED BY <2>1, <2>2 DEF LoadedFirst
<1> QED BY <1>4, <1>5, <1>6, <1>7 DEF CallsOK, PiecesInOrder, N, Only

LEMMA CallFacts ==
    ASSUME TypeOK, PiecesInOrder, NEW c \in Calls
    PROVE  /\ call[c] \in CallType(DOMAIN made)
           /\ call[c].todo \in Seq(PieceNames)
           /\ InOrder(call[c], DOMAIN made)
           /\ \A p : At(c, p) => /\ Len(call[c].todo) \in Nat \ {0}
                                 /\ call[c].todo # <<>> /\ call[c].todo[1] = p
           /\ call[c].op = "start" => call[c].left \in Seq(Ids)
           /\ call[c].op = "stop" => call[c].left \in Seq(Entries(DOMAIN made))
<1>1. call[c] \in CallType(DOMAIN made) /\ InOrder(call[c], DOMAIN made)
  BY TypesSpelled DEF PiecesInOrder
<1>2. call[c].todo \in Seq(PieceNames)
  BY <1>1 DEF CallType
<1> QED BY <1>1, <1>2 DEF InOrder, Entries, At

\* The next n + 1 pieces are done, and no object was loaded.
LEMMA PassFacts ==
    ASSUME TypeOK, PiecesInOrder, Grown, NEW c \in Calls, NEW n \in Nat, Pass(c, n),
           n + 1 <= Len(call[c].todo), \A j \in 1..n+1 : call[c].todo[j] # "load"
    PROVE  /\ CallsOK' /\ Only(c)
           /\ call'[c] = [call[c] EXCEPT !.todo = Rest(call[c].todo, n)]
<1> DEFINE r == [call[c] EXCEPT !.todo = Rest(call[c].todo, n)]
<1>1. /\ call[c] \in CallType(DOMAIN made) /\ InOrder(call[c], DOMAIN made)
      /\ call[c].todo \in Seq(PieceNames)
  BY CallFacts
<1>2. call' = [call EXCEPT ![c] = r]
  BY DEF Pass, Rest
<1>3. /\ Rest(call[c].todo, n) \in Seq(PieceNames)
      /\ Followed(Rest(call[c].todo, n)) /\ DeletedFirst(Rest(call[c].todo, n))
      /\ LoadedFirst(Rest(call[c].todo, n), call[c].obj)
  BY <1>1, RestFacts, RestLoaded DEF InOrder
<1>4. DOMAIN made \subseteq DOMAIN made'
  BY DEF Grown
<1>5. /\ Seq(Entries(DOMAIN made)) \subseteq Seq(Entries(DOMAIN made'))
      /\ CallType(DOMAIN made) \subseteq CallType(DOMAIN made')
  BY <1>4, GrownTypes
<1>6. r \in CallType(DOMAIN made')
  BY <1>1, <1>3, <1>5 DEF CallType
<1>9. call[c].op = "stop" => \A i \in DOMAIN Rest(call[c].todo, n) : Rest(call[c].todo, n)[i] = "hook"
  BY <1>1, RestFacts DEF InOrder
<1>7. InOrder(r, DOMAIN made')
  BY <1>1, <1>3, <1>5, <1>9 DEF InOrder, CallType, Entries
<1>8. call'[c] = r
  BY <1>2, TypesSpelled
<1> HIDE DEF r
<1> QED BY <1>2, <1>6, <1>7, <1>8, OneCall DEF r

LEMMA EmptyFits ==
    ASSUME NEW r, NEW M, r \in CallType(M), r.todo = <<>>,
           r.op = "start" => r.left \in Seq(Ids),
           r.op = "stop" => r.left \in Seq(Entries(M))
    PROVE  InOrder(r, M)
BY DEF InOrder, Followed, LoadedFirst, DeletedFirst, Entries

LEMMA ThrowFacts ==
    ASSUME TypeOK, PiecesInOrder, Grown, NEW c \in Calls, Throw(c)
    PROVE  /\ CallsOK' /\ Only(c)
           /\ call'[c].todo = <<>> /\ call'[c].op \in {"start", "none"}
<1> DEFINE r == IF call[c].op = "start" THEN [call[c] EXCEPT !.todo = <<>>] ELSE Idle
<1>1. /\ call[c] \in CallType(DOMAIN made) /\ InOrder(call[c], DOMAIN made)
  BY CallFacts
<1>2. call' = [call EXCEPT ![c] = r]
  BY DEF Throw
<1>4. DOMAIN made \subseteq DOMAIN made'
  BY DEF Grown
<1>5. /\ Seq(Entries(DOMAIN made)) \subseteq Seq(Entries(DOMAIN made'))
      /\ CallType(DOMAIN made) \subseteq CallType(DOMAIN made')
  BY <1>4, GrownTypes
<1>6. r \in CallType(DOMAIN made') /\ r.todo = <<>> /\ r.op \in {"start", "none"}
  <2> HIDE DEF Entries
  <2>1. CASE call[c].op = "start"
    <3>1. call[c] \in CallType(DOMAIN made')
      BY <1>1, <1>5
    <3>2. r = [call[c] EXCEPT !.todo = <<>>]
      BY <2>1
    <3> HIDE DEF r
    <3>3. r \in CallType(DOMAIN made')
      <4>1. \A t \in Seq(PieceNames) :
              [call[c] EXCEPT !.todo = t] \in CallType(DOMAIN made')
        BY <3>1 DEF CallType
      <4>2. <<>> \in Seq(PieceNames)
        OBVIOUS
      <4> HIDE DEF CallType
      <4> QED BY <3>2, <4>1, <4>2
    <3>4. r.todo = <<>> /\ r.op = "start"
      BY <2>1, <3>1, <3>2 DEF CallType
    <3> QED BY <3>3, <3>4
  <2>2. CASE call[c].op # "start"
    BY <2>2 DEF CallType, Idle
  <2> QED BY <2>1, <2>2
<1>7. InOrder(r, DOMAIN made')
  BY <1>1, <1>6, EmptyFits DEF InOrder, CallType, Idle
<1>8. call'[c] = r
  BY <1>2, TypesSpelled
<1> HIDE DEF r
<1> QED BY <1>2, <1>6, <1>7, <1>8, OneCall
-----------------------------------------------------------------------------
(* The calls and the objects, action by action. *)

LEMMA OnePiece ==
    ASSUME TypeOK, PiecesInOrder, Grown, NEW c \in Calls, NEW p, At(c, p), p # "load", Pass(c, 0)
    PROVE  CallsOK' /\ Only(c) /\ call'[c] = [call[c] EXCEPT !.todo = Rest(call[c].todo, 0)]
<1> DEFINE todo == call[c].todo
<1>1. todo[1] = p /\ Len(todo) \in Nat \ {0}
  BY CallFacts
<1>2. 0 + 1 <= Len(todo) /\ \A j \in 1..0+1 : todo[j] # "load"
  BY <1>1
<1> QED BY <1>2, PassFacts

\* The piece and the hook after it.
LEMMA TwoPieces ==
    ASSUME TypeOK, PiecesInOrder, Grown, NEW c \in Calls,
           NEW p \in {"enable", "disable", "reload", "unregister"}, At(c, p), Pass(c, 1)
    PROVE  CallsOK' /\ Only(c) /\ call'[c] = [call[c] EXCEPT !.todo = Rest(call[c].todo, 1)]
<1> DEFINE todo == call[c].todo
<1>1. Followed(todo) /\ todo \in Seq(PieceNames) /\ todo[1] = p /\ 1 \in DOMAIN todo
  BY CallFacts DEF InOrder
<1>2. 2 \in DOMAIN todo /\ todo[2] = "hook"
  BY <1>1 DEF Followed
<1>3. 1 + 1 <= Len(todo) /\ \A j \in 1..1+1 : todo[j] # "load"
  BY <1>1, <1>2
<1> QED BY <1>3, PassFacts

LEMMA DisableFacts ==
    ASSUME TypeOK, PiecesInOrder, NEW c \in Calls,
           NEW p \in {"disable", "reload", "unregister"}, At(c, p), Disable(c)
    PROVE  /\ Grown /\ DOMAIN made' = DOMAIN made /\ CallsOK' /\ Only(c)
           /\ \E n \in {0, 1} : call'[c] = [call[c] EXCEPT !.todo = Rest(call[c].todo, n)]
           /\ \A o \in DOMAIN made : made'[o].enabled =>
                made[o].enabled /\ ~(Registered(call[c].id) /\ o = Get(call[c].id))
<1>1. CASE Enabled(call[c].id)
  <2>1. Registered(call[c].id) /\ SetEnabled(call[c].id, FALSE) /\ Pass(c, 0)
    BY <1>1 DEF Enabled, Disable
  <2>2. /\ Grown /\ DOMAIN made' = DOMAIN made
        /\ \A o \in DOMAIN made :
             made'[o].enabled = IF o = Get(call[c].id) THEN FALSE ELSE made[o].enabled
    BY <2>1, SetEnabledFacts
  <2> QED BY <2>1, <2>2, OnePiece
<1>2. CASE ~Enabled(call[c].id)
  <2>1. Pass(c, 1) /\ made' = made
    BY <1>2 DEF Disable
  <2> QED BY <1>2, <2>1, TwoPieces, UnchangedGrown DEF Enabled
<1> QED BY <1>1, <1>2

\* The four pieces of unregister() at once.
LEMMA FourPieces ==
    ASSUME TypeOK, PiecesInOrder, Grown, NEW c \in Calls, At(c, "unregister"), Pass(c, 3)
    PROVE  CallsOK' /\ Only(c) /\ call'[c] = [call[c] EXCEPT !.todo = Rest(call[c].todo, 3)]
<1> DEFINE todo == call[c].todo
<1>1. /\ Followed(todo) /\ todo \in Seq(PieceNames) /\ todo[1] = "unregister" /\ 1 \in DOMAIN todo
  BY CallFacts DEF InOrder
<1>2. /\ 2 \in DOMAIN todo /\ todo[2] = "hook" /\ todo[3] = "unload"
      /\ 4 \in DOMAIN todo /\ todo[4] = "delete"
  <2>1. /\ 1 + 1 \in DOMAIN todo /\ todo[1+1] = "hook"
        /\ 1 + 3 \in DOMAIN todo /\ todo[1+2] = "unload" /\ todo[1+3] = "delete"
    BY <1>1 DEF Followed
  <2>2. 1 + 1 = 2 /\ 1 + 2 = 3 /\ 1 + 3 = 4
    OBVIOUS
  <2> QED BY <2>1, <2>2
<1>3. 3 + 1 <= Len(todo) /\ \A j \in 1..3+1 : todo[j] # "load"
  BY <1>1, <1>2
<1> QED BY <1>3, PassFacts
-----------------------------------------------------------------------------
(* What is left to show of a step. *)

LEMMA KeepsRecords ==
    ASSUME PluginInv, Grown, CallsOK', UNCHANGED <<plugins, loadOrder, configured>>,
           started' \in BOOLEAN, overlapped' \in BOOLEAN
    PROVE  TypeOK' /\ PiecesInOrder' /\ RecordsAgree'
<1>1. /\ plugins \in Seq(Entries(DOMAIN made)) /\ loadOrder \in Seq(Ids) /\ configured \subseteq Ids
      /\ made' \in Seq(Plugin) /\ DOMAIN made \subseteq DOMAIN made'
  BY TypesSpelled DEF PluginInv, Grown
<1>2. plugins' \in Seq(Entries(DOMAIN made'))
  BY <1>1, GrownTypes
<1>3. TypeOK' /\ PiecesInOrder'
  BY <1>1, <1>2 DEF TypeOK, CallsOK, Entry, Entries, CallType, Plugin
<1>4. \A i \in DOMAIN plugins : plugins[i].obj \in DOMAIN made
  <2>1. \A i \in DOMAIN plugins : plugins[i] \in Entries(DOMAIN made)
    BY <1>1
  <2> QED BY <2>1 DEF Entries
<1>5. RecordsAgree'
  BY <1>4 DEF PluginInv, RecordsAgree, Grown
<1> QED BY <1>3, <1>5

\* It is this call's turn: it comes in, or it is in progress.
Turn(c) == CallIn(c) \/ (call[c] # Idle /\ overlapped' = overlapped)

LEMMA SerialStep ==
    ASSUME PluginInv, TypeOK', NEW c \in Calls, Only(c), Turn(c),
           ASSUME ~overlapped, ~overlapped'
           PROVE  EnabledAreFound' /\ DeletesDisabled(c)' /\ StopsAll(c)'
    PROVE  Serial'
<1> SUFFICES ASSUME ~overlapped'
             PROVE  /\ \A d, e \in Calls : call'[d] # Idle /\ call'[e] # Idle => d = e
                    /\ EnabledAreFound'
                    /\ \A d \in Calls : DeletesDisabled(d)' /\ StopsAll(d)'
  BY DEF Serial
<1>1. ~overlapped
  BY DEF Turn, CallIn
<1>2. EnabledAreFound' /\ DeletesDisabled(c)' /\ StopsAll(c)'
  BY <1>1
<1>3. \A d \in Calls \ {c} : call'[d] = Idle
  BY <1>1 DEF Turn, CallIn, PluginInv, Serial, Only
<1>4. \A d \in Calls \ {c} : DeletesDisabled(d)' /\ StopsAll(d)'
  BY <1>3 DEF DeletesDisabled, Deleting, StopsAll, Idle
<1> QED BY <1>2, <1>3, <1>4

\* The pieces that are left delete something only after it was disabled.
LEMMA DeletingRest ==
    ASSUME PluginInv, NEW c \in Calls, NEW n \in {0, 1}, n + 1 <= Len(call[c].todo),
           call'[c] = [call[c] EXCEPT !.todo = Rest(call[c].todo, n)],
           call[c].todo[1] # "unregister", call[c].todo[n+1] # "unregister"
    PROVE  Deleting(c)' => Deleting(c)
<1> DEFINE todo == call[c].todo    r == Rest(todo, n)
<1>1. call[c] \in CallType(DOMAIN made) /\ todo \in Seq(PieceNames) /\ InOrder(call[c], DOMAIN made)
  BY CallFacts DEF PluginInv
<1>2. /\ r \in Seq(PieceNames)
      /\ Len(r) = Len(todo) - (n + 1)
      /\ \A i \in DOMAIN r : i + (n + 1) \in DOMAIN todo /\ r[i] = todo[i + (n + 1)]
  <2>1. n \in Nat /\ Followed(todo) /\ DeletedFirst(todo)
    BY <1>1 DEF InOrder
  <2> QED BY <1>1, <2>1, RestFacts
<1>3. call'[c].todo = r
  BY <1>1 DEF CallType
<1> HIDE DEF r
<1> SUFFICES ASSUME NEW i \in DOMAIN r, r[i] = "delete",
                    \A j \in 1..i-1 : r[j] # "unregister"
             PROVE  \E k \in DOMAIN todo : /\ todo[k] = "delete"
                                          /\ \A j \in 1..k-1 : todo[j] # "unregister"
  BY <1>3 DEF Deleting
<1>4. i + (n + 1) \in DOMAIN todo /\ todo[i + (n + 1)] = "delete"
  BY <1>2
<1>5. ASSUME NEW j \in 1..(i + (n + 1))-1 PROVE todo[j] # "unregister"
  <2>1. CASE j <= n + 1
    BY <2>1
  <2>2. CASE j > n + 1
    <3>1. /\ i \in Nat /\ i <= Len(r) /\ Len(r) \in Nat /\ DOMAIN r = 1..Len(r) /\ n \in Nat
      BY <1>2
    <3>2. /\ j - (n + 1) \in 1..i-1 /\ (j - (n + 1)) + (n + 1) = j
      BY <2>2, <3>1
    <3>3. j - (n + 1) \in DOMAIN r
      BY <3>1, <3>2
    <3> QED BY <1>2, <3>2, <3>3
  <2> QED BY <2>1, <2>2
<1> QED BY <1>4, <1>5

LEMMA GetIs ==
    ASSUME PluginInv, NEW i \in DOMAIN plugins
    PROVE  /\ Registered(plugins[i].id) /\ Get(plugins[i].id) = plugins[i].obj
           /\ plugins[i].obj \in DOMAIN made /\ plugins[i].id \in Ids
<1>1. plugins[i] \in Entry
  BY DEF PluginInv, TypeOK
<1>2. \A k \in DOMAIN plugins : plugins[k].id = plugins[i].id => k = i
  BY DEF PluginInv, RecordsAgree, IsInjective
<1> QED BY <1>1, <1>2 DEF Registered, Get, Entry

\* Steps that leave the registry alone and enable nothing but what it has.
LEMMA QuietStep ==
    ASSUME PluginInv, NEW c \in Calls, Grown, CallsOK', Only(c), Turn(c),
           UNCHANGED <<plugins, loadOrder, configured>>, started' \in BOOLEAN,
           \A o \in DOMAIN made' : made'[o].enabled =>
               o \in DOMAIN made /\ (made[o].enabled \/ \E i \in DOMAIN plugins : plugins[i].obj = o),
           ASSUME ~overlapped, ~overlapped' PROVE DeletesDisabled(c)' /\ StopsAll(c)'
    PROVE  PluginInv'
<1>1. overlapped' \in BOOLEAN
  BY DEF Turn, CallIn, PluginInv, TypeOK
<1>2. TypeOK' /\ PiecesInOrder' /\ RecordsAgree'
  BY <1>1, KeepsRecords
<1>3. ~overlapped => EnabledAreFound'
  BY DEF PluginInv, Serial, EnabledAreFound
<1>4. Serial'
  BY <1>2, <1>3, SerialStep
<1> QED BY <1>2, <1>4 DEF PluginInv

LEMMA InProgress ==
    ASSUME NEW c, call[c].op # "none" \/ (\E p : At(c, p))
    PROVE  call[c] # Idle
BY DEF Idle, At

\* Some pieces are done that disable at most.
LEMMA PassStep ==
    ASSUME PluginInv, NEW c \in Calls, NEW n \in {0, 1}, Grown, CallsOK', Only(c),
           call[c] # Idle, n + 1 <= Len(call[c].todo),
           call'[c] = [call[c] EXCEPT !.todo = Rest(call[c].todo, n)],
           call[c].todo[1] # "unregister", call[c].todo[n+1] # "unregister",
           UNCHANGED <<plugins, loadOrder, configured, started, overlapped>>,
           \A o \in DOMAIN made' : made'[o].enabled => o \in DOMAIN made /\ made[o].enabled
    PROVE  PluginInv'
<1>1. call[c] \in CallType(DOMAIN made)
  BY CallFacts DEF PluginInv
<1>2. call'[c].id = call[c].id /\ call'[c].op = call[c].op /\ call'[c].left = call[c].left
  BY <1>1 DEF CallType
<1>3. Deleting(c)' => Deleting(c)
  BY DeletingRest
<1>4. ASSUME ~overlapped
      PROVE  DeletesDisabled(c)' /\ StopsAll(c)'
  <2>1. DeletesDisabled(c) /\ StopsAll(c)
    BY <1>4 DEF PluginInv, Serial
  <2>2. Registered(call[c].id) => Get(call[c].id) \in DOMAIN made
    BY GetFacts DEF PluginInv
  <2>3. DOMAIN made \subseteq DOMAIN made'
    BY DEF Grown
  <2>4. Enabled(call[c].id)' => Enabled(call[c].id)
    BY <1>2, <2>2, <2>3 DEF Enabled, Registered, Get
  <2>5. DeletesDisabled(c)'
    BY <1>2, <1>3, <2>1, <2>4 DEF DeletesDisabled, Enabled, Registered, Get
  <2>6. StopsAll(c)'
    BY <1>2, <2>1 DEF StopsAll
  <2> QED BY <2>5, <2>6
<1>5. started' \in BOOLEAN /\ Turn(c)
  BY DEF PluginInv, TypeOK, Turn
<1> QED BY <1>4, <1>5, QuietStep

\* The call has nothing left to do, and is no stop.
LEMMA EmptyStep ==
    ASSUME PluginInv, NEW c \in Calls, CallsOK', Only(c), call[c] # Idle,
           call'[c].todo = <<>>, call'[c].op # "stop",
           UNCHANGED <<plugins, loadOrder, configured, made, overlapped>>, started' \in BOOLEAN
    PROVE  PluginInv'
<1>1. Grown /\ Turn(c)
  BY UnchangedGrown DEF PluginInv, Turn
<1>2. DeletesDisabled(c)' /\ StopsAll(c)'
  BY DEF DeletesDisabled, Deleting, StopsAll
<1> QED BY <1>1, <1>2, QuietStep

LEMMA ThrowStep ==
    ASSUME PluginInv, NEW c \in Calls, Throw(c), call[c] # Idle,
           UNCHANGED <<plugins, loadOrder, configured, made, started, overlapped>>
    PROVE  PluginInv'
<1>1. TypeOK /\ PiecesInOrder /\ Grown
  BY UnchangedGrown DEF PluginInv
<1>2. /\ CallsOK' /\ Only(c)
      /\ call'[c].todo = <<>> /\ call'[c].op \in {"start", "none"}
  BY <1>1, ThrowFacts
<1>3. started' \in BOOLEAN
  BY DEF PluginInv, TypeOK
<1> QED BY <1>2, <1>3, EmptyStep
-----------------------------------------------------------------------------
(* The actions. *)

\* A piece other than an unregistering is done, with all else as it was.
LEMMA PlainPiece ==
    ASSUME PluginInv, NEW c \in Calls, NEW p, At(c, p), p \notin {"load", "unregister"}, Pass(c, 0),
           UNCHANGED <<plugins, loadOrder, configured, made, started, overlapped>>
    PROVE  PluginInv'
<1>1. TypeOK /\ PiecesInOrder /\ Grown
  BY UnchangedGrown DEF PluginInv
<1>2. CallsOK' /\ Only(c) /\ call'[c] = [call[c] EXCEPT !.todo = Rest(call[c].todo, 0)]
  BY <1>1, OnePiece
<1>3. call[c].todo[1] = p /\ 0 + 1 <= Len(call[c].todo) /\ call[c].todo[0+1] = p
  BY <1>1, CallFacts
<1>4. call[c] # Idle
  BY InProgress
<1>5. \A o \in DOMAIN made' : made'[o].enabled => o \in DOMAIN made /\ made[o].enabled
  OBVIOUS
<1>6. 0 \in {0, 1} /\ p # "unregister"
  OBVIOUS
<1> QED BY <1>1, <1>2, <1>3, <1>4, <1>5, <1>6, PassStep

LEMMA IdleFacts ==
    ASSUME NEW M
    PROVE  Idle \in CallType(M) /\ Idle.obj = 0 /\ Idle.left = <<>> /\ Idle.todo = <<>>
<1>1. <<>> \in Seq(Ids) /\ <<>> \in Seq(PieceNames)
  OBVIOUS
<1> QED BY <1>1 DEF Idle, CallType

\* A call as it comes in, with its pieces or with its list.
Called(op, id, todo) == [Idle EXCEPT !.op = op, !.id = id, !.todo = todo]
ListCalled(op, left) == [Idle EXCEPT !.op = op, !.left = left]

LEMMA CalledFacts ==
    ASSUME NEW M, NEW op \in AllOperations, NEW id \in Ids, NEW todo \in Seq(PieceNames)
    PROVE  LET r == Called(op, id, todo)
           IN  /\ r \in CallType(M)
               /\ r.op = op /\ r.id = id /\ r.obj = 0 /\ r.todo = todo /\ r.left = <<>>
BY IdleFacts DEF CallType, Called

LEMMA ListCalledFacts ==
    ASSUME NEW M, NEW op \in AllOperations, NEW left \in Seq(Ids) \union Seq(Entries(M))
    PROVE  LET r == ListCalled(op, left)
           IN  r \in CallType(M) /\ r.op = op /\ r.todo = <<>> /\ r.left = left
BY IdleFacts DEF CallType, ListCalled

LEMMA EndStep ==
    ASSUME PluginInv, NEW c \in Calls, End(c) \/ StartEnd(c) \/ StopEnd(c)
    PROVE  PluginInv'
<1>1. TypeOK /\ PiecesInOrder /\ Grown
  BY UnchangedGrown DEF PluginInv, End, StartEnd, StopEnd
<1>2. call[c] # Idle
  BY DEF End, StartEnd, StopEnd, Idle
<1>3. Idle \in CallType(DOMAIN made') /\ Idle.todo = <<>> /\ Idle.op = "none"
  BY DEF Idle, CallType
<1>4. InOrder(Idle, DOMAIN made')
  BY <1>3, EmptyFits
<1>5. call' = [call EXCEPT ![c] = Idle]
  BY DEF End, StartEnd, StopEnd
<1>6. CallsOK' /\ Only(c) /\ call'[c] = Idle
  BY <1>1, <1>3, <1>4, <1>5, OneCall
<1>7. started' \in BOOLEAN
  BY DEF End, StartEnd, StopEnd, PluginInv, TypeOK
<1> QED BY <1>2, <1>3, <1>6, <1>7, EmptyStep DEF End, StartEnd, StopEnd

LEMMA BeginStep ==
    ASSUME PluginInv, NEW c \in Calls, NEW op \in Operations \ {"start", "stop"}, NEW id \in Ids,
           Begin(c, op, id)
    PROVE  PluginInv'
<1> DEFINE r == Called(op, id, Pieces(op))
<1>1. TypeOK /\ PiecesInOrder /\ Grown
  BY UnchangedGrown DEF PluginInv, Begin
<1>2. op \in AllOperations \ {"start", "stop"}
  BY PluginAssumption
<1>3. /\ Pieces(op) \in Seq(PieceNames)
      /\ Followed(Pieces(op)) /\ LoadedFirst(Pieces(op), 0) /\ DeletedFirst(Pieces(op))
      /\ \A i \in DOMAIN Pieces(op) : Pieces(op)[i] = "delete" =>
           \E j \in 1..i-1 : Pieces(op)[j] = "unregister"
  BY <1>2, PiecesFacts
<1>4. /\ r.op = op /\ r.id = id /\ r.todo = Pieces(op) /\ r.left = <<>> /\ r.obj = 0
      /\ r \in CallType(DOMAIN made')
  <2>1. op \in AllOperations /\ Pieces(op) \in Seq(PieceNames) /\ <<>> \in Seq(Ids)
    BY <1>2, <1>3
  <2> HIDE DEF Pieces, PieceNames, AllOperations
  <2> QED BY <2>1, CalledFacts
<1>10. InOrder(r, DOMAIN made')
  BY <1>2, <1>3, <1>4 DEF InOrder
<1>6. call' = [call EXCEPT ![c] = r]
  BY DEF Begin, Called
<1> HIDE DEF r
<1>7. CallsOK' /\ Only(c) /\ call'[c] = r
  BY <1>1, <1>4, <1>6, <1>10, OneCall
<1>8. DeletesDisabled(c)' /\ StopsAll(c)'
  BY <1>2, <1>3, <1>4, <1>7 DEF DeletesDisabled, Deleting, StopsAll
<1>9. Turn(c) /\ started' \in BOOLEAN
  BY DEF Turn, Begin, PluginInv, TypeOK
<1> QED BY <1>1, <1>7, <1>8, <1>9, QuietStep DEF Begin

LEMMA LoadStep ==
    ASSUME PluginInv, NEW c \in Calls, NEW path \in Ids, Load(c, path)
    PROVE  PluginInv'
<1>1. TypeOK /\ PiecesInOrder /\ call[c] # Idle
  BY InProgress DEF PluginInv, Load
<1>2. CASE Throw(c) /\ UNCHANGED made
  BY <1>1, <1>2, ThrowStep DEF Load
<1>3. CASE /\ made' = Append(made, [id |-> path, enabled |-> FALSE])
           /\ call' = [call EXCEPT ![c].obj = Len(made) + 1, ![c].todo = Tail(@)]
  <2> DEFINE todo == call[c].todo    rest == Tail(todo)
             r == [call[c] EXCEPT !.obj = Len(made) + 1, !.todo = rest]
  <2>1. /\ Grown
        /\ Len(made) + 1 \in DOMAIN made' /\ Len(made) + 1 # 0
        /\ \A o \in DOMAIN made : made'[o] = made[o]
        /\ \A o \in DOMAIN made' \ DOMAIN made : ~made'[o].enabled
    BY <1>1, <1>3, LoadFacts
  <2>2. /\ call[c] \in CallType(DOMAIN made) /\ todo \in Seq(PieceNames)
        /\ InOrder(call[c], DOMAIN made)
        /\ Len(todo) \in Nat \ {0} /\ todo # <<>> /\ todo[1] = "load"
    BY <1>1, CallFacts DEF Load
  <2>3. rest = Rest(todo, 0)
    BY <2>2 DEF Rest
  <2>4. /\ rest \in Seq(PieceNames) /\ Followed(rest) /\ DeletedFirst(rest)
        /\ Len(rest) = Len(todo) - 1
        /\ \A i \in DOMAIN rest : i + 1 \in DOMAIN todo /\ rest[i] = todo[i + 1]
    <3>1. /\ Followed(todo) /\ DeletedFirst(todo) /\ 0 \in Nat /\ 0 + 1 = 1 /\ 0 + 1 <= Len(todo)
      BY <2>2 DEF InOrder
    <3> HIDE DEF rest, todo
    <3> QED BY <2>2, <2>3, <3>1, RestFacts
  <2> HIDE DEF rest
  <2>5. Seq(Entries(DOMAIN made)) \subseteq Seq(Entries(DOMAIN made'))
    BY <2>1, GrownTypes DEF Grown
  <2>6. r \in CallType(DOMAIN made')
    BY <2>1, <2>2, <2>4, <2>5 DEF CallType
  <2>7. LoadedFirst(rest, Len(made) + 1)
    BY <2>1 DEF LoadedFirst
  <2>8. call[c].op # "stop"
    BY <2>2 DEF InOrder
  <2>9. r.todo = rest /\ r.obj = Len(made) + 1 /\ r.op = call[c].op /\ r.left = call[c].left
    BY <2>2 DEF CallType
  <2>10. call' = [call EXCEPT ![c] = r]
    BY <1>3 DEF rest
  <2> HIDE DEF r
  <2>11. InOrder(r, DOMAIN made')
    BY <2>2, <2>4, <2>7, <2>8, <2>9 DEF InOrder
  <2>12. CallsOK' /\ Only(c) /\ call'[c] = r
    BY <1>1, <2>1, <2>6, <2>10, <2>11, OneCall
  <2>13. \A j \in DOMAIN todo : todo[j] # "delete"
    BY <2>2 DEF InOrder, DeletedFirst
  <2>14. DeletesDisabled(c)' /\ StopsAll(c)'
    BY <2>4, <2>8, <2>9, <2>12, <2>13 DEF DeletesDisabled, Deleting, StopsAll
  <2>15. Turn(c) /\ started' \in BOOLEAN
    BY <1>1 DEF Turn, Load, TypeOK
  <2>16. \A o \in DOMAIN made' : made'[o].enabled => o \in DOMAIN made /\ made[o].enabled
    BY <2>1
  <2> QED BY <2>1, <2>12, <2>14, <2>15, <2>16, QuietStep DEF Load
<1> QED BY <1>2, <1>3 DEF Load

LEMMA ResolveStep == ASSUME PluginInv, NEW c \in Calls, Resolve(c) PROVE PluginInv'
<1>1. call[c] # Idle
  BY InProgress DEF Resolve
<1> QED BY <1>1, ThrowStep, PlainPiece DEF Resolve

LEMMA HookStep == ASSUME PluginInv, NEW c \in Calls, Hook(c) PROVE PluginInv'
<1>1. call[c] # Idle
  BY InProgress DEF Hook
<1>2. PICK p \in {"loaded", "unload", "hook"} : At(c, p)
  BY DEF Hook
<1> QED BY <1>1, <1>2, ThrowStep, PlainPiece DEF Hook, Settle

LEMMA EnablePiece == ASSUME PluginInv, NEW c \in Calls, EnableStep(c) PROVE PluginInv'
<1> DEFINE id == call[c].id    todo == call[c].todo
<1>1. TypeOK /\ PiecesInOrder /\ call[c] # Idle /\ At(c, "enable")
  BY InProgress DEF PluginInv, EnableStep
<1>2. /\ call[c] \in CallType(DOMAIN made) /\ todo \in Seq(PieceNames) /\ InOrder(call[c], DOMAIN made)
      /\ todo[1] = "enable" /\ 1 \in DOMAIN todo /\ 0 + 1 <= Len(todo)
  BY <1>1, CallFacts
<1>3. CASE ~Registered(id) \/ Enabled(id)
  <2>1. Pass(c, 1) /\ made' = made
    BY <1>3 DEF EnableStep
  <2>2. Grown /\ CallsOK' /\ Only(c) /\ call'[c] = [call[c] EXCEPT !.todo = Rest(todo, 1)]
    BY <1>1, <2>1, UnchangedGrown, TwoPieces
  <2>3. 1 + 1 \in DOMAIN todo /\ todo[1+1] = "hook"
    BY <1>2 DEF InOrder, Followed
  <2>4. 1 + 1 <= Len(todo) /\ todo[1] # "unregister" /\ todo[1+1] # "unregister" /\ 1 \in {0, 1}
    BY <1>2, <2>3
  <2>5. \A o \in DOMAIN made' : made'[o].enabled => o \in DOMAIN made /\ made[o].enabled
    BY <2>1
  <2> QED BY <1>1, <2>2, <2>4, <2>5, PassStep DEF EnableStep
<1>4. CASE Registered(id) /\ ~Enabled(id)
  <2>1. Pass(c, 0) /\ SetEnabled(id, TRUE)
    BY <1>4 DEF EnableStep
  <2>2. /\ Grown /\ DOMAIN made' = DOMAIN made
        /\ \A o \in DOMAIN made : made'[o].enabled = IF o = Get(id) THEN TRUE ELSE made[o].enabled
    BY <1>1, <1>4, <2>1, SetEnabledFacts
  <2>3. CallsOK' /\ Only(c) /\ call'[c] = [call[c] EXCEPT !.todo = Rest(todo, 0)]
    BY <1>1, <2>1, <2>2, OnePiece
  <2>4. \A o \in DOMAIN made' : made'[o].enabled =>
          o \in DOMAIN made /\ (made[o].enabled \/ \E i \in DOMAIN plugins : plugins[i].obj = o)
    <3>1. PICK i \in DOMAIN plugins : plugins[i].obj = Get(id)
      BY <1>1, <1>4, GetFacts
    <3>2. ASSUME NEW o \in DOMAIN made, made'[o].enabled, o # Get(id)
          PROVE  made[o].enabled
      BY <2>2, <3>2
    <3> QED BY <2>2, <3>1, <3>2
  <2>5. \A j \in DOMAIN todo : todo[j] # "delete"
    BY <1>2 DEF InOrder, DeletedFirst
  <2>6. \A j \in DOMAIN Rest(todo, 0) : Rest(todo, 0)[j] # "delete"
    <3>1. \A j \in DOMAIN Rest(todo, 0) : j + (0 + 1) \in DOMAIN todo /\ Rest(todo, 0)[j] = todo[j + (0 + 1)]
      BY <1>2, RestFacts DEF InOrder
    <3> QED BY <2>5, <3>1
  <2>7. call'[c].todo = Rest(todo, 0) /\ call'[c].op = call[c].op
    BY <1>2, <2>3 DEF CallType
  <2>8. call[c].op # "stop"
    BY <1>2 DEF InOrder
  <2>9. DeletesDisabled(c)' /\ StopsAll(c)'
    BY <2>6, <2>7, <2>8 DEF DeletesDisabled, Deleting, StopsAll
  <2>10. Turn(c) /\ started' \in BOOLEAN
    BY <1>1 DEF Turn, EnableStep, TypeOK
  <2> QED BY <2>2, <2>3, <2>4, <2>9, <2>10, QuietStep DEF EnableStep
<1> QED BY <1>3, <1>4

LEMMA DisablePiece ==
    ASSUME PluginInv, NEW c \in Calls, NEW p \in {"disable", "reload"}, At(c, p), Disable(c),
           UNCHANGED <<plugins, loadOrder, configured, started, overlapped>>
    PROVE  PluginInv'
<1>1. TypeOK /\ PiecesInOrder /\ call[c] # Idle
  BY InProgress DEF PluginInv
<1>2. /\ Grown /\ DOMAIN made' = DOMAIN made /\ CallsOK' /\ Only(c)
      /\ \A o \in DOMAIN made : made'[o].enabled => made[o].enabled
  BY <1>1, DisableFacts
<1>3. PICK n \in {0, 1} : call'[c] = [call[c] EXCEPT !.todo = Rest(call[c].todo, n)]
  BY <1>1, DisableFacts
<1>4. /\ call[c].todo \in Seq(PieceNames) /\ call[c].todo[1] = p /\ 1 \in DOMAIN call[c].todo
      /\ Followed(call[c].todo)
  BY <1>1, CallFacts DEF InOrder
<1>5. 1 + 1 \in DOMAIN call[c].todo /\ call[c].todo[1+1] = "hook"
  BY <1>4 DEF Followed
<1>6. n + 1 <= Len(call[c].todo) /\ call[c].todo[1] # "unregister" /\ call[c].todo[n+1] # "unregister"
  BY <1>4, <1>5
<1> QED BY <1>1, <1>2, <1>3, <1>6, PassStep

LEMMA UnregisterPiece == ASSUME PluginInv, NEW c \in Calls, UnregisterStep(c) PROVE PluginInv'
<1> DEFINE id == call[c].id
<1>1. TypeOK /\ PiecesInOrder /\ call[c] # Idle /\ At(c, "unregister")
  BY InProgress DEF PluginInv, UnregisterStep
<1>2. /\ call[c] \in CallType(DOMAIN made) /\ InOrder(call[c], DOMAIN made)
      /\ 1 \in DOMAIN call[c].todo /\ call[c].todo[1] = "unregister"
  BY <1>1, CallFacts
<1>3. /\ Grown /\ DOMAIN made' = DOMAIN made /\ CallsOK' /\ Only(c)
      /\ call'[c].id = id /\ call'[c].op = call[c].op /\ call'[c].left = call[c].left
      /\ \A o \in DOMAIN made : made'[o].enabled => made[o].enabled /\ ~(Registered(id) /\ o = Get(id))
  <2>1. CASE Registered(id)
    <3>1. Disable(c)
      BY <2>1 DEF UnregisterStep
    <3>2. PICK n \in {0, 1} : call'[c] = [call[c] EXCEPT !.todo = Rest(call[c].todo, n)]
      BY <1>1, <3>1, DisableFacts
    <3> QED BY <1>1, <1>2, <3>1, <3>2, DisableFacts DEF CallType
  <2>2. CASE ~Registered(id)
    <3>1. Pass(c, 3) /\ made' = made /\ Grown
      BY <1>1, <2>2, UnchangedGrown DEF UnregisterStep
    <3> QED BY <1>1, <1>2, <2>2, <3>1, FourPieces DEF CallType
  <2> QED BY <2>1, <2>2
<1>4. Registered(id) => Get(id) \in DOMAIN made
  BY <1>1, GetFacts
<1>5. ~Enabled(call[c].id)'
  BY <1>3, <1>4 DEF UnregisterStep, Enabled, Registered, Get
<1>6. call[c].op # "stop"
  BY <1>2 DEF InOrder
<1>7. DeletesDisabled(c)' /\ StopsAll(c)'
  BY <1>3, <1>5, <1>6 DEF DeletesDisabled, StopsAll
<1>8. Turn(c) /\ started' \in BOOLEAN
  BY <1>1 DEF Turn, UnregisterStep, TypeOK
<1> QED BY <1>3, <1>7, <1>8, QuietStep DEF UnregisterStep

LEMMA DisableStepKeeps == ASSUME PluginInv, NEW c \in Calls, DisableStep(c) PROVE PluginInv'
BY DisablePiece DEF DisableStep

LEMMA ReloadStepKeeps == ASSUME PluginInv, NEW c \in Calls, ReloadStep(c) PROVE PluginInv'
<1>1. CASE Registered(call[c].id)
  BY <1>1, DisablePiece DEF ReloadStep
<1>2. CASE ~Registered(call[c].id)
  <2> DEFINE r == [call[c] EXCEPT !.todo = <<>>]
  <2>1. TypeOK /\ PiecesInOrder /\ Grown /\ call[c] # Idle
    BY <1>2, InProgress, UnchangedGrown DEF PluginInv, ReloadStep
  <2>2. /\ call[c] \in CallType(DOMAIN made) /\ InOrder(call[c], DOMAIN made)
        /\ 1 \in DOMAIN call[c].todo /\ call[c].todo[1] = "reload"
    BY <2>1, CallFacts DEF ReloadStep
  <2>3. \A t \in Seq(PieceNames) : /\ [call[c] EXCEPT !.todo = t] \in CallType(DOMAIN made)
                                   /\ [call[c] EXCEPT !.todo = t].todo = t
                                   /\ [call[c] EXCEPT !.todo = t].op = call[c].op
                                   /\ [call[c] EXCEPT !.todo = t].left = call[c].left
    BY <2>2 DEF CallType
  <2>4. <<>> \in Seq(PieceNames) /\ call[c].op # "stop"
    BY <2>2 DEF InOrder
  <2>5. /\ r \in CallType(DOMAIN made) /\ r.todo = <<>> /\ r.op = call[c].op /\ r.left = call[c].left
    BY <2>3, <2>4
  <2>6. call' = [call EXCEPT ![c] = r] /\ made' = made
    BY <1>2 DEF ReloadStep
  <2> HIDE DEF r
  <2>7. InOrder(r, DOMAIN made)
    BY <2>2, <2>4, <2>5, EmptyFits DEF InOrder
  <2>8. CallsOK' /\ Only(c) /\ call'[c] = r
    BY <2>1, <2>5, <2>6, <2>7, OneCall
  <2>9. started' \in BOOLEAN
    BY <2>1 DEF ReloadStep, TypeOK
  <2> QED BY <2>1, <2>4, <2>5, <2>6, <2>8, <2>9, EmptyStep DEF ReloadStep
<1> QED BY <1>1, <1>2

LEMMA ConfigurePiece == ASSUME PluginInv, NEW c \in Calls, ConfigureStep(c) PROVE PluginInv'
<1> DEFINE id == call[c].id
<1>1. TypeOK /\ PiecesInOrder /\ Grown /\ call[c] # Idle /\ At(c, "configure")
  BY InProgress, UnchangedGrown DEF PluginInv, ConfigureStep
<1>2. CASE ~Registered(id)
  BY <1>1, <1>2, ThrowStep DEF ConfigureStep
<1>3. CASE Registered(id)
  <2>1. Pass(c, 0) /\ configured' = configured \union {id}
    BY <1>3 DEF ConfigureStep
  <2>2. CallsOK' /\ Only(c) /\ call'[c] = [call[c] EXCEPT !.todo = Rest(call[c].todo, 0)]
    BY <1>1, <2>1, OnePiece
  <2>3. PICK i \in DOMAIN plugins : plugins[i].id = id
    BY <1>3 DEF Registered
  <2>4. id \in Ids
    BY <2>3, GetIs
  <2>5. plugins' = plugins /\ loadOrder' = loadOrder /\ made' = made
        /\ started' = started /\ overlapped' = overlapped
    BY DEF ConfigureStep
  <2>6. TypeOK' /\ PiecesInOrder'
    BY <1>1, <2>1, <2>2, <2>4, <2>5 DEF TypeOK, CallsOK, Entry, Entries, CallType
  <2>7. RecordsAgree'
    BY <2>1, <2>3, <2>5 DEF PluginInv, RecordsAgree
  <2>8. ASSUME ~overlapped PROVE EnabledAreFound' /\ DeletesDisabled(c)' /\ StopsAll(c)'
    <3>1. /\ call[c] \in CallType(DOMAIN made)
          /\ call[c].todo[1] = "configure" /\ 0 + 1 <= Len(call[c].todo)
      BY <1>1, CallFacts
    <3>2. call[c].todo[1] # "unregister" /\ call[c].todo[0+1] # "unregister" /\ 0 \in {0, 1}
      BY <3>1
    <3>3. Deleting(c)' => Deleting(c)
      BY <2>2, <3>1, <3>2, DeletingRest
    <3>4. call'[c].id = id /\ call'[c].op = call[c].op /\ call'[c].left = call[c].left
      BY <2>2, <3>1 DEF CallType
    <3>5. EnabledAreFound /\ DeletesDisabled(c) /\ StopsAll(c)
      BY <2>8 DEF PluginInv, Serial
    <3> QED BY <2>5, <3>3, <3>4, <3>5
        DEF EnabledAreFound, DeletesDisabled, StopsAll, Enabled, Registered, Get
  <2>9. Turn(c)
    BY <1>1, <2>5 DEF Turn
  <2> QED BY <2>2, <2>6, <2>7, <2>8, <2>9, SerialStep DEF PluginInv
<1> QED BY <1>2, <1>3

LEMMA InsertPiece == ASSUME PluginInv, NEW c \in Calls, Insert(c) PROVE PluginInv'
<1> DEFINE id == NewId(c)    o == call[c].obj    n == Len(plugins)
<1>1. TypeOK /\ PiecesInOrder /\ Grown /\ call[c] # Idle /\ At(c, "insert")
  BY InProgress, UnchangedGrown DEF PluginInv, Insert
<1>2. CASE Registered(id)
  BY <1>1, <1>2, ThrowStep DEF Insert
<1>3. CASE ~Registered(id)
  <2>1. /\ Pass(c, 0)
        /\ plugins' = Append(plugins, [id |-> id, obj |-> o])
        /\ loadOrder' = Append(loadOrder, id)
        /\ configured' = configured /\ made' = made
        /\ started' = started /\ overlapped' = overlapped
    BY <1>3 DEF Insert
  <2>2. CallsOK' /\ Only(c) /\ call'[c] = [call[c] EXCEPT !.todo = Rest(call[c].todo, 0)]
    BY <1>1, <2>1, OnePiece
  <2>3. /\ call[c] \in CallType(DOMAIN made) /\ InOrder(call[c], DOMAIN made)
        /\ call[c].todo \in Seq(PieceNames) /\ call[c].todo[1] = "insert" /\ 1 \in DOMAIN call[c].todo
    BY <1>1, CallFacts
  <2>4. o \in DOMAIN made /\ id \in Ids /\ id = made[o].id
    <3>1. o \in DOMAIN made
      BY <1>1, <2>3 DEF TypeOK, CallType
    <3>2. made[o] \in Plugin
      BY <1>1, <3>1, TypesSpelled
    <3> QED BY <3>1, <3>2 DEF NewId, Plugin
  <2> HIDE DEF id, o
  <2> DEFINE e == [id |-> id, obj |-> o]
  <2>5. e \in Entries(DOMAIN made) /\ e.id = id /\ e.obj = o
    BY <2>4 DEF Entries
  <2>6. plugins \in Seq(Entries(DOMAIN made)) /\ loadOrder \in Seq(Ids)
    BY <1>1, TypesSpelled
  <2> HIDE DEF e
  <2>7. plugins' = Append(plugins, e)
    BY <2>1 DEF e
  <2>8. /\ plugins' \in Seq(Entries(DOMAIN made)) /\ loadOrder' \in Seq(Ids)
        /\ DOMAIN plugins = 1..n /\ n \in Nat
        /\ DOMAIN plugins' = 1..n+1 /\ plugins'[n+1] = e
        /\ \A i \in DOMAIN plugins : plugins'[i] = plugins[i]
    BY <2>1, <2>4, <2>5, <2>6, <2>7
  <2>9. TypeOK' /\ PiecesInOrder'
    BY <1>1, <2>1, <2>2, <2>8 DEF TypeOK, CallsOK, Entry, Entries, CallType
  <2>10. RecordsAgree'
    <3>1. RecordsAgree /\ Len(loadOrder) = n
      BY <2>6 DEF PluginInv, RecordsAgree
    <3>2. \A i \in DOMAIN plugins : plugins[i].id # id
      BY <1>3 DEF Registered, id
    <3>3. \A i \in DOMAIN plugins' : made'[plugins'[i].obj].id = plugins'[i].id
      BY <2>1, <2>4, <2>5, <2>8, <3>1 DEF RecordsAgree
    <3>4. /\ DOMAIN loadOrder' = 1..n+1 /\ loadOrder'[n+1] = id
          /\ \A i \in DOMAIN plugins : loadOrder'[i] = plugins[i].id
      BY <2>1, <2>4, <2>6, <2>8, <3>1 DEF RecordsAgree
    <3>5. \A i \in DOMAIN plugins' : loadOrder'[i] = plugins'[i].id
      BY <2>5, <2>8, <3>4
    <3>6. loadOrder' = [i \in DOMAIN plugins' |-> plugins'[i].id]
      <4>1. loadOrder' = [i \in 1..n+1 |-> loadOrder'[i]]
        BY <2>8, <3>4
      <4> QED BY <2>8, <3>5, <4>1
    <3>7. IsInjective(loadOrder')
      <4>1. \A i, k \in DOMAIN plugins : plugins[i].id = plugins[k].id => i = k
        BY <3>1 DEF RecordsAgree, IsInjective
      <4> QED BY <2>8, <3>2, <3>4, <4>1 DEF IsInjective
    <3>8. configured' \subseteq {plugins'[i].id : i \in DOMAIN plugins'}
      <4>1. \A i \in DOMAIN plugins : i \in DOMAIN plugins' /\ plugins'[i].id = plugins[i].id
        BY <2>8
      <4> QED BY <2>1, <3>1, <4>1 DEF RecordsAgree
    <3> QED BY <3>3, <3>6, <3>7, <3>8 DEF RecordsAgree
  <2>11. ASSUME ~overlapped PROVE EnabledAreFound' /\ DeletesDisabled(c)' /\ StopsAll(c)'
    <3>1. EnabledAreFound
      BY <2>11 DEF PluginInv, Serial
    <3>2. EnabledAreFound'
      BY <2>1, <2>8, <3>1 DEF EnabledAreFound
    <3>3. call[c].op # "stop" /\ \A j \in DOMAIN call[c].todo : call[c].todo[j] # "delete"
      BY <2>3 DEF InOrder, DeletedFirst
    <3>4. 0 \in Nat /\ 0 + 1 <= Len(call[c].todo) /\ Followed(call[c].todo) /\ DeletedFirst(call[c].todo)
      BY <2>3 DEF InOrder
    <3>5. \A j \in DOMAIN Rest(call[c].todo, 0) : Rest(call[c].todo, 0)[j] # "delete"
      BY <2>3, <3>3, <3>4, RestFacts
    <3>6. call'[c].todo = Rest(call[c].todo, 0) /\ call'[c].op = call[c].op
      BY <2>2, <2>3 DEF CallType
    <3> QED BY <3>2, <3>3, <3>5, <3>6 DEF DeletesDisabled, Deleting, StopsAll
  <2>12. Turn(c)
    BY <1>1, <2>1 DEF Turn
  <2> QED BY <2>2, <2>9, <2>10, <2>11, <2>12, SerialStep DEF PluginInv
<1> QED BY <1>2, <1>3

LEMMA DeletePiece == ASSUME PluginInv, NEW c \in Calls, Delete(c) PROVE PluginInv'
<1> DEFINE id == call[c].id
           I == {i \in DOMAIN plugins : plugins[i].id # id}
           at(j) == Nth(j, I, Before(I))
           n == Cardinality(I)
<1>1. TypeOK /\ PiecesInOrder /\ Grown /\ call[c] # Idle /\ At(c, "delete") /\ RecordsAgree
  BY InProgress, UnchangedGrown DEF PluginInv, Delete
<1>2. /\ Pass(c, 0)
      /\ plugins' = Sifted(plugins, I) /\ loadOrder' = Without(loadOrder, id)
      /\ configured' = configured \ {id}
      /\ made' = made /\ started' = started /\ overlapped' = overlapped
  BY DEF Delete
<1>3. CallsOK' /\ Only(c) /\ call'[c] = [call[c] EXCEPT !.todo = Rest(call[c].todo, 0)]
  BY <1>1, <1>2, OnePiece
<1>4. /\ call[c] \in CallType(DOMAIN made) /\ InOrder(call[c], DOMAIN made)
      /\ call[c].todo[1] = "delete" /\ 1 \in DOMAIN call[c].todo
  BY <1>1, CallFacts
<1>5. plugins \in Seq(Entries(DOMAIN made)) /\ loadOrder \in Seq(Ids) /\ configured \subseteq Ids
  BY <1>1, TypesSpelled
<1>6. /\ DOMAIN loadOrder = DOMAIN plugins
      /\ \A i \in DOMAIN plugins : loadOrder[i] = plugins[i].id
  BY <1>1 DEF RecordsAgree
<1>7. loadOrder' = Sifted(loadOrder, I)
  <2>1. {i \in DOMAIN loadOrder : loadOrder[i] # id} = I
    BY <1>6
  <2> QED BY <1>2, <2>1 DEF Without
<1>8. I \in SUBSET (DOMAIN plugins)
  OBVIOUS
<1>9. \A i \in DOMAIN plugins : i \in I <=> plugins[i].id # id
  OBVIOUS
<1> HIDE DEF I, at
<1>10. /\ n \in Nat
       /\ plugins' \in Seq(Entries(DOMAIN made)) /\ DOMAIN plugins' = 1..n
       /\ \A j \in 1..n : at(j) \in I /\ plugins'[j] = plugins[at(j)]
       /\ \A j, k \in 1..n : j < k <=> at(j) < at(k)
       /\ \A i \in I : \E j \in 1..n : at(j) = i
  BY <1>2, <1>5, <1>8, SiftedFacts DEF at
<1>11. /\ loadOrder' \in Seq(Ids) /\ DOMAIN loadOrder' = 1..n
       /\ \A j \in 1..n : loadOrder'[j] = loadOrder[at(j)]
  BY <1>5, <1>6, <1>7, <1>8, SiftedFacts DEF at
<1>12. TypeOK' /\ PiecesInOrder'
  BY <1>1, <1>2, <1>3, <1>5, <1>10, <1>11 DEF TypeOK, CallsOK, Entry, Entries, CallType
<1>13. RecordsAgree'
  <2>1. \A j \in 1..n : at(j) \in DOMAIN plugins
    BY <1>8, <1>10
  <2>2. \A i \in DOMAIN plugins' : made'[plugins'[i].obj].id = plugins'[i].id
    BY <1>1, <1>2, <1>10, <2>1 DEF RecordsAgree
  <2>3. \A j \in 1..n : loadOrder'[j] = plugins'[j].id
    BY <1>6, <1>10, <1>11, <2>1
  <2>4. loadOrder' = [i \in DOMAIN plugins' |-> plugins'[i].id]
    <3>1. loadOrder' = [j \in 1..n |-> loadOrder'[j]]
      BY <1>11
    <3> QED BY <1>10, <2>3, <3>1
  <2>5. IsInjective(loadOrder')
    <3>1. \A i, k \in DOMAIN plugins : plugins[i].id = plugins[k].id => i = k
      BY <1>1, <1>6 DEF RecordsAgree, IsInjective
    <3>2. ASSUME NEW j \in 1..n, NEW k \in 1..n, loadOrder'[j] = loadOrder'[k] PROVE j = k
      <4>1. at(j) = at(k)
        BY <1>10, <2>1, <2>3, <3>1, <3>2
      <4>2. at(j) \in Nat
        BY <1>5, <2>1
      <4>3. ~(j < k) /\ ~(k < j)
        BY <1>10, <4>1, <4>2
      <4> QED BY <1>10, <4>3
    <3> QED BY <1>11, <3>2 DEF IsInjective
  <2>6. configured' \subseteq {plugins'[i].id : i \in DOMAIN plugins'}
    <3>1. ASSUME NEW x \in configured, x # id
          PROVE  \E j \in DOMAIN plugins' : plugins'[j].id = x
      <4>1. PICK i \in DOMAIN plugins : plugins[i].id = x
        BY <1>1 DEF RecordsAgree
      <4>2. PICK j \in 1..n : at(j) = i
        BY <1>9, <1>10, <3>1, <4>1
      <4> QED BY <1>10, <4>1, <4>2
    <3> QED BY <1>2, <3>1
  <2> QED BY <2>2, <2>4, <2>5, <2>6 DEF RecordsAgree
<1>14. ASSUME ~overlapped PROVE EnabledAreFound' /\ DeletesDisabled(c)' /\ StopsAll(c)'
  <2>1. EnabledAreFound /\ DeletesDisabled(c)
    BY <1>14 DEF PluginInv, Serial
  <2>2. Deleting(c)
    BY <1>4 DEF Deleting
  <2>3. ASSUME NEW o \in DOMAIN made, made[o].enabled
        PROVE  \E j \in DOMAIN plugins' : plugins'[j].obj = o
    <3>1. PICK i \in DOMAIN plugins : plugins[i].obj = o
      BY <2>1, <2>3 DEF EnabledAreFound
    <3>2. plugins[i].id # id
      BY <2>1, <2>2, <2>3, <3>1, GetIs DEF DeletesDisabled, Enabled
    <3>3. PICK j \in 1..n : at(j) = i
      BY <1>9, <1>10, <3>2
    <3> QED BY <1>10, <3>1, <3>3
  <2>4. EnabledAreFound'
    BY <1>2, <2>3 DEF EnabledAreFound
  <2>5. call'[c].id = id /\ call'[c].op = call[c].op
    BY <1>3, <1>4 DEF CallType
  <2>6. \A j \in DOMAIN plugins' : plugins'[j].id # id
    BY <1>8, <1>9, <1>10
  <2>7. DeletesDisabled(c)'
    BY <2>5, <2>6 DEF DeletesDisabled, Enabled, Registered
  <2>8. StopsAll(c)'
    BY <1>4, <2>5 DEF StopsAll, InOrder
  <2> QED BY <2>4, <2>7, <2>8
<1>15. Turn(c)
  BY <1>1, <1>2 DEF Turn
<1> QED BY <1>3, <1>12, <1>13, <1>14, <1>15, SerialStep DEF PluginInv

LEMMA StartStep ==
    ASSUME PluginInv, NEW c \in Calls, Start(c) \/ Stop(c)
    PROVE  PluginInv'
<1> DEFINE op == IF Start(c) THEN "start" ELSE "stop"
           left == IF Start(c) THEN Builtins ELSE Reverse(plugins)
           r == ListCalled(op, left)
<1>1. TypeOK /\ PiecesInOrder /\ Grown
  BY UnchangedGrown DEF PluginInv, Start, Stop
<1>2. plugins \in Seq(Entries(DOMAIN made)) /\ DOMAIN made' = DOMAIN made
  BY <1>1, TypesSpelled DEF Start, Stop
<1>3. /\ Reverse(plugins) \in Seq(Entries(DOMAIN made))
      /\ \A k \in DOMAIN plugins : \E i \in DOMAIN Reverse(plugins) : Reverse(plugins)[i] = plugins[k]
  <2>1. /\ Reverse(plugins) = [i \in 1..Len(plugins) |-> plugins[(Len(plugins) - i) + 1]]
        /\ Len(plugins) \in Nat /\ DOMAIN plugins = 1..Len(plugins)
    BY <1>2 DEF Reverse
  <2>2. \A k \in 1..Len(plugins) : /\ (Len(plugins) - k) + 1 \in 1..Len(plugins)
                                   /\ (Len(plugins) - ((Len(plugins) - k) + 1)) + 1 = k
    BY <2>1
  <2> HIDE DEF Entries
  <2>3. \A k \in 1..Len(plugins) : plugins[k] \in Entries(DOMAIN made)
    BY <1>2
  <2>4. Reverse(plugins) \in Seq(Entries(DOMAIN made))
    BY <2>1, <2>2, <2>3
  <2> QED BY <2>1, <2>2, <2>4
<1>4. /\ op \in AllOperations
      /\ op = "start" => left \in Seq(Ids)
      /\ op = "stop" => left = Reverse(plugins)
      /\ op \in {"start", "stop"}
  BY PluginAssumption DEF AllOperations
<1>5. call' = [call EXCEPT ![c] = r]
  BY DEF Start, Stop, ListCalled
<1> HIDE DEF op, left
<1>6. left \in Seq(Ids) \union Seq(Entries(DOMAIN made'))
  BY <1>2, <1>3, <1>4
<1>7. r \in CallType(DOMAIN made') /\ r.op = op /\ r.todo = <<>> /\ r.left = left
  BY <1>4, <1>6, ListCalledFacts
<1> HIDE DEF r
<1>8. InOrder(r, DOMAIN made')
  BY <1>2, <1>3, <1>4, <1>7, EmptyFits
<1>9. CallsOK' /\ Only(c) /\ call'[c] = r
  BY <1>1, <1>5, <1>7, <1>8, OneCall
<1>10. plugins' = plugins /\ made' = made
  BY DEF Start, Stop
<1>11. ASSUME ~overlapped PROVE DeletesDisabled(c)' /\ StopsAll(c)'
  <2>1. DeletesDisabled(c)'
    BY <1>7, <1>9 DEF DeletesDisabled, Deleting
  <2>2. EnabledAreFound
    BY <1>11 DEF PluginInv, Serial
  <2>3. StopsAll(c)'
    BY <1>3, <1>4, <1>7, <1>9, <1>10, <2>2 DEF StopsAll, EnabledAreFound
  <2> QED BY <2>1, <2>3
<1>12. Turn(c) /\ started' \in BOOLEAN
  BY <1>1 DEF Turn, Start, Stop, TypeOK
<1>13. \A o \in DOMAIN made' : made'[o].enabled => o \in DOMAIN made /\ made[o].enabled
  BY <1>10
<1> QED BY <1>1, <1>9, <1>11, <1>12, <1>13, QuietStep DEF Start, Stop

LEMMA StartNextStep == ASSUME PluginInv, NEW c \in Calls, StartNext(c) PROVE PluginInv'
<1> DEFINE left == call[c].left    todo == Pieces("install")
           r == [call[c] EXCEPT !.id = Head(left), !.left = Tail(left), !.todo = todo]
<1>1. /\ TypeOK /\ PiecesInOrder /\ Grown /\ call[c] # Idle
      /\ call[c].op = "start" /\ left # <<>> /\ made' = made
  BY InProgress, UnchangedGrown DEF PluginInv, StartNext
<1>2. call[c] \in CallType(DOMAIN made') /\ left \in Seq(Ids)
  BY <1>1, CallFacts
<1>3. Head(left) \in Ids /\ Tail(left) \in Seq(Ids)
  BY <1>1, <1>2
<1>4. /\ todo \in Seq(PieceNames)
      /\ Followed(todo) /\ LoadedFirst(todo, call[c].obj) /\ DeletedFirst(todo)
      /\ \A i \in DOMAIN todo : todo[i] # "delete"
  <2>1. "install" \in AllOperations \ {"start", "stop"}
    BY DEF AllOperations
  <2>2. \A i \in DOMAIN todo : todo[i] # "delete"
    BY DEF Pieces
  <2> QED BY <2>1, <2>2, PiecesFacts
<1> HIDE DEF left, todo
<1>5. /\ r \in CallType(DOMAIN made')
      /\ r.op = call[c].op /\ r.obj = call[c].obj /\ r.todo = todo /\ r.left = Tail(left)
  BY <1>2, <1>3, <1>4 DEF CallType
<1>6. call' = [call EXCEPT ![c] = r]
  BY DEF StartNext, left, todo
<1> HIDE DEF r
<1>7. InOrder(r, DOMAIN made')
  BY <1>1, <1>3, <1>4, <1>5 DEF InOrder
<1>8. CallsOK' /\ Only(c) /\ call'[c] = r
  BY <1>1, <1>5, <1>6, <1>7, OneCall
<1>9. DeletesDisabled(c)' /\ StopsAll(c)'
  BY <1>1, <1>4, <1>5, <1>8 DEF DeletesDisabled, Deleting, StopsAll
<1>10. Turn(c) /\ started' \in BOOLEAN
  BY <1>1 DEF Turn, StartNext, TypeOK
<1>11. \A o \in DOMAIN made' : made'[o].enabled => o \in DOMAIN made /\ made[o].enabled
  BY <1>1
<1> QED BY <1>1, <1>8, <1>9, <1>10, <1>11, QuietStep DEF StartNext

LEMMA StopNextStep == ASSUME PluginInv, NEW c \in Calls, StopNext(c) PROVE PluginInv'
<1> DEFINE left == call[c].left    p == Head(left)
           rest == Tail(left)
           off == made[p.obj].enabled /\ Enabled(p.id)
           todo == IF off THEN <<"hook">> ELSE call[c].todo
           r == [call[c] EXCEPT !.left = rest, !.todo = todo]
<1>1. /\ TypeOK /\ PiecesInOrder /\ call[c] # Idle
      /\ call[c].op = "stop" /\ call[c].todo = <<>> /\ left # <<>>
  BY InProgress DEF PluginInv, StopNext
<1>2. call[c] \in CallType(DOMAIN made) /\ left \in Seq(Entries(DOMAIN made))
  BY <1>1, CallFacts
<1>3. /\ p \in Entries(DOMAIN made) /\ rest \in Seq(Entries(DOMAIN made))
      /\ p = left[1] /\ Len(left) \in Nat
      /\ DOMAIN left = 1..Len(left) /\ DOMAIN rest = 1..Len(left) - 1
      /\ \A i \in 1..Len(left) - 1 : rest[i] = left[i + 1]
  <2> HIDE DEF left, Entries
  <2> QED BY <1>1, <1>2
<1>4. /\ Grown /\ DOMAIN made' = DOMAIN made
      /\ \A o \in DOMAIN made : made'[o].enabled =>
           made[o].enabled /\ (off => o # Get(p.id))
  <2>1. CASE off
    <3>1. SetEnabled(p.id, FALSE) /\ Registered(p.id)
      BY <2>1 DEF StopNext, Enabled
    <3> QED BY <1>1, <3>1, SetEnabledFacts
  <2>2. CASE ~off
    BY <1>1, <2>2, UnchangedGrown DEF StopNext
  <2> QED BY <2>1, <2>2
<1>5. call' = [call EXCEPT ![c] = r]
  <2>1. CASE off
    BY <2>1 DEF StopNext
  <2>2. CASE ~off
    <3>1. call' = [call EXCEPT ![c].left = rest]
      BY <2>2 DEF StopNext
    <3>2. r = [call[c] EXCEPT !.left = rest]
      BY <1>2, <2>2 DEF CallType
    <3> QED BY <3>1, <3>2
  <2> QED BY <2>1, <2>2
<1>6. /\ todo \in Seq(PieceNames)
      /\ todo = <<>> \/ todo = <<"hook">>
  <2>1. <<"hook">> \in Seq(PieceNames)
    BY DEF PieceNames
  <2>2. todo = call[c].todo \/ todo = <<"hook">>
    OBVIOUS
  <2>3. call[c].todo \in Seq(PieceNames)
    BY <1>1, CallFacts
  <2> HIDE DEF todo
  <2> QED BY <1>1, <2>1, <2>2, <2>3
<1>7. /\ Followed(todo) /\ LoadedFirst(todo, call[c].obj) /\ DeletedFirst(todo)
      /\ \A i \in DOMAIN todo : todo[i] = "hook"
  <2>1. \A i \in DOMAIN todo : todo[i] = "hook"
    BY <1>6
  <2> QED BY <2>1 DEF Followed, LoadedFirst, DeletedFirst
<1>8. ASSUME ~overlapped, NEW o \in DOMAIN made, made'[o].enabled
      PROVE  \E i \in DOMAIN rest : \E k \in DOMAIN plugins : rest[i] = plugins[k] /\ plugins[k].obj = o
  <2>1. StopsAll(c) /\ made[o].enabled
    BY <1>4, <1>8 DEF PluginInv, Serial
  <2>2. PICK i \in DOMAIN left, k \in DOMAIN plugins : left[i] = plugins[k] /\ plugins[k].obj = o
    BY <1>1, <2>1 DEF StopsAll
  <2>3. i # 1
    <3> SUFFICES ASSUME i = 1 PROVE FALSE
      OBVIOUS
    <3>1. p = plugins[k]
      BY <1>3, <2>2
    <3>2. p.obj = o /\ Registered(p.id) /\ Get(p.id) = o
      BY <2>2, <3>1, GetIs
    <3>3. off
      BY <2>1, <3>2 DEF Enabled
    <3> QED BY <1>4, <1>8, <3>2, <3>3
  <2>4. i - 1 \in DOMAIN rest /\ rest[i - 1] = left[i]
    BY <1>3, <2>3
  <2> QED BY <2>2, <2>4
<1> HIDE DEF left, rest, todo, off, p
<1>9. Seq(Entries(DOMAIN made)) = Seq(Entries(DOMAIN made'))
  BY <1>4
<1>10. /\ r \in CallType(DOMAIN made')
       /\ r.op = call[c].op /\ r.obj = call[c].obj /\ r.todo = todo /\ r.left = rest
  BY <1>2, <1>3, <1>4, <1>6 DEF CallType
<1> HIDE DEF r
<1>11. InOrder(r, DOMAIN made')
  BY <1>1, <1>3, <1>7, <1>9, <1>10 DEF InOrder, Entries
<1>12. CallsOK' /\ Only(c) /\ call'[c] = r
  BY <1>1, <1>4, <1>5, <1>10, <1>11, OneCall
<1>13. DeletesDisabled(c)'
  BY <1>7, <1>10, <1>12 DEF DeletesDisabled, Deleting
<1>14. ~overlapped => StopsAll(c)'
  BY <1>4, <1>8, <1>10, <1>12 DEF StopsAll, StopNext
<1>15. Turn(c) /\ started' \in BOOLEAN
  BY <1>1 DEF Turn, StopNext, TypeOK
<1>16. \A o \in DOMAIN made' : made'[o].enabled => o \in DOMAIN made /\ made[o].enabled
  BY <1>4
<1> QED BY <1>4, <1>12, <1>13, <1>14, <1>15, <1>16, QuietStep DEF StopNext
-----------------------------------------------------------------------------
(* The theorems. *)

LEMMA PluginInvInit == Init => PluginInv
<1> SUFFICES ASSUME Init PROVE PluginInv
  OBVIOUS
<1>1. /\ plugins = <<>> /\ loadOrder = <<>> /\ configured = {} /\ made = <<>>
      /\ started = FALSE /\ overlapped = FALSE /\ call = [c \in Calls |-> Idle]
  BY DEF Init
<1>2. Idle \in CallType(DOMAIN made) /\ Idle.todo = <<>> /\ Idle.op = "none"
  BY IdleFacts DEF Idle
<1>3. InOrder(Idle, DOMAIN made)
  BY <1>2, EmptyFits
<1>4. TypeOK /\ PiecesInOrder
  <2>1. /\ plugins \in Seq(Entries(DOMAIN made)) /\ loadOrder \in Seq(Ids) /\ made \in Seq(Plugin)
    BY <1>1
  <2>2. call \in [Calls -> CallType(DOMAIN made)]
    BY <1>1, <1>2
  <2>3. \A c \in Calls : ~At(c, "resolve") /\ ~At(c, "insert")
    BY <1>1, <1>2 DEF At
  <2> QED BY <1>1, <1>3, <2>1, <2>2, <2>3, TypesSpelled DEF PiecesInOrder
<1>5. RecordsAgree
  BY <1>1 DEF RecordsAgree, IsInjective
<1>6. Serial
  BY <1>1, <1>2 DEF Serial, EnabledAreFound, DeletesDisabled, Deleting, StopsAll
<1> QED BY <1>4, <1>5, <1>6 DEF PluginInv

LEMMA PluginInvKept == PluginInv /\ [Next]_vars => PluginInv'
<1> SUFFICES ASSUME PluginInv, [Next]_vars PROVE PluginInv'
  OBVIOUS
<1>1. CASE Next
  <2>1. PICK c \in Calls : \/ \E op \in Operations \ {"start", "stop"}, id \in Ids : Begin(c, op, id)
                           \/ End(c)
                           \/ Piece(c)
                           \/ Kernel(c)
    BY <1>1 DEF Next
  <2>2. CASE \E op \in Operations \ {"start", "stop"}, id \in Ids : Begin(c, op, id)
    BY <2>2, BeginStep
  <2>3. CASE End(c)
    BY <2>3, EndStep
  <2>4. CASE Piece(c)
    BY <2>4, LoadStep, ResolveStep, InsertPiece, HookStep, EnablePiece, DisableStepKeeps,
       UnregisterPiece, DeletePiece, ReloadStepKeeps, ConfigurePiece DEF Piece
  <2>5. CASE Kernel(c)
    BY <2>5, StartStep, StartNextStep, StopNextStep, EndStep DEF Kernel
  <2> QED BY <2>1, <2>2, <2>3, <2>4, <2>5
<1>2. CASE UNCHANGED vars
  <2>1. TypeOK'
    BY <1>2 DEF PluginInv, TypeOK, Entry, At, vars
  <2>3. PiecesInOrder' /\ RecordsAgree'
    BY <1>2 DEF PluginInv, PiecesInOrder, RecordsAgree, IsInjective, vars
  <2>2. Serial'
    BY <1>2 DEF PluginInv, Serial, EnabledAreFound, DeletesDisabled, Deleting, StopsAll,
                Enabled, Registered, Get, vars
  <2> QED BY <2>1, <2>2, <2>3 DEF PluginInv
<1> QED BY <1>1, <1>2

\* The inductive invariant of the plugins: the pieces of a call are in order, the
\* registry's records agree, and while calls do not overlap there is one at most.
THEOREM PluginInvariant == Spec => []PluginInv
BY PluginInvInit, PluginInvKept, PTL DEF Spec

\* The variables of the plugin kernel have their types, and a call that
\* registers has the object it loaded.
THEOREM PluginTypes == Spec => []TypeOK
BY PluginInvariant, PTL DEF PluginInv

\* However calls interleave and whatever throws, the Map, the load order and the
\* configurations of the plugin registry agree.
THEOREM RegistryAgrees == Spec => []RecordsAgree
BY PluginInvariant, PTL DEF PluginInv

\* As long as calls did not overlap, the kernel has disabled every plugin by the
\* time its stop succeeds.
THEOREM StopDisablesAll == Spec => SerialStopDisablesAll
<1>1. PluginInv /\ [Next]_vars =>
        [~overlapped /\ started /\ ~started' => \A o \in DOMAIN made : ~made'[o].enabled]_vars
  <2> SUFFICES ASSUME PluginInv, Next, ~overlapped, started, ~started', NEW o \in DOMAIN made
               PROVE  ~made'[o].enabled
    OBVIOUS
  <2>1. PICK c \in Calls : StopEnd(c)
    BY DEF Next, Begin, End, Piece, Load, Resolve, Insert, Hook, EnableStep, DisableStep,
           UnregisterStep, Delete, ReloadStep, ConfigureStep, Kernel, Start, StartNext,
           StartEnd, Stop, StopNext
  <2>2. StopsAll(c) /\ call[c].op = "stop" /\ call[c].left = <<>> /\ made' = made
    BY <2>1 DEF PluginInv, Serial, StopEnd
  <2> QED BY <2>2 DEF StopsAll
<1> QED BY <1>1, PluginInvariant, PTL DEF Spec, SerialStopDisablesAll
-----------------------------------------------------------------------------
(* The message bus. *)

Running == {"polling", "yielded"}
StreamType == [at : {"new", "polling", "yielded", "left"}, queue : Seq(Nat), got : Seq(Nat), since : Nat]

\* All that a stream has yielded and holds.
All(s) == stream[s].got \o stream[s].queue

\* A stream's items are published ones, in order, and only cut publishes lack.
Complete(s) ==
    /\ \A i \in DOMAIN All(s) : All(s)[i] <= published
    /\ Rising(All(s))
    /\ (stream[s].since + 1)..published \ aborted \subseteq ToSet(All(s))

BusInv ==
    /\ subscribers \in Seq(Handlers \union Streams)
    /\ stream \in [Streams -> StreamType]
    /\ BusTypeOK
    /\ \A s \in Streams : /\ stream[s].at = "new" => stream[s].got = <<>> /\ stream[s].queue = <<>>
                          /\ stream[s].at \in Running => Complete(s)

\* An item may be added to a concatenation at its end, and may go from the one
\* to the other.
LEMMA ConcatFacts ==
    ASSUME NEW S, NEW s \in Seq(S), NEW t \in Seq(S)
    PROVE  /\ \A e \in S : s \o Append(t, e) = Append(s \o t, e)
           /\ t # <<>> => Append(s, Head(t)) \o Tail(t) = s \o t
<1>1. /\ s \o t \in Seq(S) /\ Len(s \o t) = Len(s) + Len(t)
      /\ \A i \in 1..Len(s) + Len(t) : (s \o t)[i] = IF i <= Len(s) THEN s[i] ELSE t[i - Len(s)]
      /\ Len(s) \in Nat /\ Len(t) \in Nat
  BY ConcatProperties
<1>2. ASSUME NEW e \in S PROVE s \o Append(t, e) = Append(s \o t, e)
  <2>1. Append(t, e) = t \o <<e>> /\ Append(s \o t, e) = (s \o t) \o <<e>>
    BY <1>1, AppendIsConcat
  <2>2. (s \o t) \o <<e>> = s \o (t \o <<e>>)
    <3>1. <<e>> \in Seq(S)
      OBVIOUS
    <3> QED BY <3>1, ConcatAssociative
  <2> QED BY <2>1, <2>2
<1>3. ASSUME t # <<>> PROVE Append(s, Head(t)) \o Tail(t) = s \o t
  <2> DEFINE h == Head(t)    r == Tail(t)
  <2>1. h \in S /\ r \in Seq(S) /\ Append(s, h) = s \o <<h>> /\ <<h>> \in Seq(S)
    BY <1>3, HeadTailProperties, AppendIsConcat
  <2>2. t = <<h>> \o r
    <3>1. Len(t) \in 1..Len(t) /\ 1 \in 1..Len(t)
      BY <1>1, <1>3
    <3>2. SubSeq(t, 1, Len(t)) = <<t[1]>> \o SubSeq(t, 1 + 1, Len(t))
      BY <3>1, SubSeqRecursiveFirst
    <3>3. SubSeq(t, 1, Len(t)) = t /\ r = SubSeq(t, 2, Len(t)) /\ h = t[1]
      BY <1>3, SubSeqFull, TailIsSubSeq
    <3> QED BY <3>2, <3>3
  <2> HIDE DEF h, r
  <2>3. (s \o <<h>>) \o r = s \o (<<h>> \o r)
    BY <2>1, ConcatAssociative
  <2> QED BY <2>1, <2>2, <2>3 DEF h, r
<1> QED BY <1>2, <1>3

LEMMA StreamFacts ==
    ASSUME BusInv, NEW s \in Streams
    PROVE  /\ stream[s] \in StreamType
           /\ stream[s].got \in Seq(Nat) /\ stream[s].queue \in Seq(Nat) /\ All(s) \in Seq(Nat)
           /\ published \in Nat
<1>1. stream[s] \in StreamType
  BY DEF BusInv
<1> QED BY <1>1, ConcatProperties, BusAssumption DEF StreamType, All, BusInv, BusTypeOK

LEMMA AddedFacts ==
    ASSUME BusInv, NEW h \in Handlers \union Streams, subscribers' = Added(h)
    PROVE  /\ subscribers' \in Seq(Handlers \union Streams)
           /\ IsInjective(subscribers')
           /\ ToSet(subscribers') = ToSet(subscribers) \union {h}
<1>1. subscribers \in Seq(Handlers \union Streams) /\ IsInjective(subscribers)
  BY DEF BusInv, BusTypeOK
<1>2. CASE h \in ToSet(subscribers)
  BY <1>1, <1>2 DEF Added
<1>3. CASE h \notin ToSet(subscribers)
  <2>1. subscribers' = Append(subscribers, h)
    BY <1>3 DEF Added
  <2>2. /\ subscribers' \in Seq(Handlers \union Streams)
        /\ DOMAIN subscribers = 1..Len(subscribers) /\ Len(subscribers) \in Nat
        /\ DOMAIN subscribers' = 1..Len(subscribers) + 1
        /\ \A i \in 1..Len(subscribers) : subscribers'[i] = subscribers[i]
        /\ subscribers'[Len(subscribers) + 1] = h
    BY <1>1, <2>1
  <2>3. \A i \in DOMAIN subscribers : subscribers[i] # h
    BY <1>3 DEF ToSet
  <2>4. IsInjective(subscribers')
    BY <1>1, <2>2, <2>3 DEF IsInjective
  <2>5. ToSet(subscribers') = ToSet(subscribers) \union {h}
    <3>1. \A i \in DOMAIN subscribers' : subscribers'[i] \in ToSet(subscribers) \union {h}
      BY <2>2 DEF ToSet
    <3>2. \A i \in DOMAIN subscribers : subscribers[i] \in ToSet(subscribers')
      BY <2>2 DEF ToSet
    <3>3. h \in ToSet(subscribers')
      BY <2>2 DEF ToSet
    <3> QED BY <3>1, <3>2, <3>3 DEF ToSet
  <2> QED BY <2>2, <2>4, <2>5
<1> QED BY <1>2, <1>3

\* A publish reaches subscribers only, and all of them unless one throws.
LEMMA ReachedFacts ==
    ASSUME BusInv, NEW throwing
    PROVE  /\ ToSet(Reached(throwing)) \subseteq ToSet(subscribers)
           /\ throwing \intersect ToSet(subscribers) = {} => Reached(throwing) = subscribers
<1> DEFINE throws == {i \in DOMAIN subscribers : subscribers[i] \in throwing}
<1>1. subscribers \in Seq(Handlers \union Streams)
  BY DEF BusInv
<1>2. CASE throws = {}
  <2>1. Reached(throwing) = subscribers
    BY <1>2 DEF Reached
  <2> QED BY <2>1
<1>3. CASE throws # {}
  <2>1. throwing \intersect ToSet(subscribers) # {}
    BY <1>3 DEF ToSet
  <2>2. \E i \in throws : \A j \in throws : i <= j
    <3>1. throws \in SUBSET Nat
      BY <1>1
    <3> HIDE DEF throws
    <3> QED BY <1>3, <3>1, Least
  <2> DEFINE m == CHOOSE i \in throws : \A j \in throws : i <= j
  <2>3. m \in DOMAIN subscribers
    BY <2>2
  <2>4. Reached(throwing) = SubSeq(subscribers, 1, m)
    BY <1>3 DEF Reached
  <2> HIDE DEF m, throws
  <2>5. /\ DOMAIN SubSeq(subscribers, 1, m) = 1..m /\ m \in 1..Len(subscribers)
        /\ \A i \in 1..m : SubSeq(subscribers, 1, m)[i] = subscribers[i]
    BY <1>1, <2>3
  <2> QED BY <1>1, <2>1, <2>4, <2>5 DEF ToSet
<1> QED BY <1>2, <1>3

LEMMA BusInvInit == BusInit => BusInv
<1> SUFFICES ASSUME BusInit PROVE BusInv
  OBVIOUS
<1>1. \A s \in Streams : stream[s] = [at |-> "new", queue |-> <<>>, got |-> <<>>, since |-> 0]
  BY DEF BusInit
<1>2. <<>> \in Seq(Nat) /\ <<>> \in Seq(Handlers \union Streams) /\ DOMAIN <<>> = {}
  OBVIOUS
<1>3. stream \in [Streams -> StreamType]
  BY <1>2 DEF BusInit, StreamType
<1>4. IsInjective(<<>>) /\ ToSet(<<>>) = {}
  BY <1>2 DEF IsInjective, ToSet
<1>5. BusTypeOK
  BY <1>1, <1>4, BusAssumption DEF BusInit, BusTypeOK
<1> QED BY <1>1, <1>2, <1>3, <1>5 DEF BusInv, BusInit, Running

\* A stream that is as it was loses nothing by a handler coming or going.
LEMMA CompleteStays ==
    ASSUME NEW s, Complete(s), stream'[s] = stream[s], published' = published, aborted' = aborted
    PROVE  Complete(s)'
BY DEF Complete, All

LEMMA HandlerStep ==
    ASSUME BusInv, NEW h \in Handlers, Subscribe(h) \/ Unsubscribe(h)
    PROVE  BusInv'
<1>1. /\ subscribers' \in Seq(Handlers \union Streams) /\ IsInjective(subscribers')
      /\ \A s \in Streams : s \in ToSet(subscribers') <=> s \in ToSet(subscribers)
  <2>1. CASE Subscribe(h)
    BY <2>1, AddedFacts, BusAssumption DEF Subscribe
  <2>2. CASE Unsubscribe(h)
    BY <2>2, WithoutFacts, BusAssumption DEF Unsubscribe, BusInv, BusTypeOK
  <2> QED BY <2>1, <2>2
<1>2. stream' = stream /\ published' = published /\ aborted' = aborted
  BY DEF Subscribe, Unsubscribe
<1>3. \A s \in Streams : Complete(s) => Complete(s)'
  BY <1>2, CompleteStays
<1> QED BY <1>1, <1>2, <1>3 DEF BusInv, BusTypeOK

LEMMA PublishStep ==
    ASSUME BusInv, NEW throwing, Publish(throwing)
    PROVE  BusInv'
<1> DEFINE n == published + 1    reached == ToSet(Reached(throwing))
<1>1. /\ published \in Nat /\ n \in 0..MaxPublished /\ published' = n
      /\ aborted \subseteq 1..published /\ subscribers' = subscribers
      /\ aborted' = IF throwing \intersect ToSet(subscribers) = {} THEN aborted
                    ELSE aborted \union {n}
  BY BusAssumption DEF Publish, BusInv, BusTypeOK
<1>2. \A s \in Streams : stream'[s] = IF s \in reached
                                     THEN [stream[s] EXCEPT !.queue = Append(@, n)]
                                     ELSE stream[s]
  BY DEF Publish
<1>3. /\ reached \subseteq ToSet(subscribers)
      /\ throwing \intersect ToSet(subscribers) = {} => reached = ToSet(subscribers)
  BY ReachedFacts
<1> HIDE DEF reached
<1>4. ASSUME NEW s \in Streams
      PROVE  /\ stream'[s] \in StreamType
             /\ stream'[s].at = stream[s].at /\ stream'[s].since = stream[s].since
             /\ stream'[s].got = stream[s].got
             /\ stream'[s].queue = IF s \in reached THEN Append(stream[s].queue, n) ELSE stream[s].queue
  <2>1. stream[s] \in StreamType /\ stream[s].queue \in Seq(Nat)
    BY StreamFacts
  <2>2. Append(stream[s].queue, n) \in Seq(Nat)
    BY <1>1, <2>1
  <2>3. CASE s \in reached
    <3> HIDE DEF n
    <3>1. stream'[s] = [stream[s] EXCEPT !.queue = Append(@, n)]
      BY <1>2, <2>3 DEF n
    <3> QED BY <2>1, <2>2, <2>3, <3>1 DEF StreamType
  <2>4. CASE s \notin reached
    BY <1>2, <2>1, <2>4
  <2> QED BY <2>3, <2>4
<1>5. ASSUME NEW s \in Streams, stream[s].at \in Running PROVE Complete(s)'
  <2>1. Complete(s) /\ s \in ToSet(subscribers)
    BY <1>5 DEF BusInv, BusTypeOK, Running
  <2>2. /\ stream[s].got \in Seq(Nat) /\ stream[s].queue \in Seq(Nat) /\ All(s) \in Seq(Nat)
        /\ stream[s].since \in Nat
    BY StreamFacts DEF StreamType
  <2>3. CASE s \notin reached
    <3>1. n \in aborted' /\ aborted \subseteq aborted'
      BY <1>1, <1>3, <2>1, <2>3
    <3>2. All(s)' = All(s)
      BY <1>4, <2>3 DEF All
    <3>3. \A i \in DOMAIN All(s) : All(s)[i] <= n
      BY <1>1, <2>1, <2>2 DEF Complete
    <3>4. (stream[s].since + 1)..n \ aborted' \subseteq ToSet(All(s))
      BY <1>1, <2>1, <2>2, <3>1 DEF Complete
    <3> QED BY <1>1, <1>4, <2>1, <3>2, <3>3, <3>4 DEF Complete
  <2>4. CASE s \in reached
    <3> DEFINE a == All(s)    b == All(s)'
    <3>1. b = Append(a, n)
      <4>1. b = stream[s].got \o Append(stream[s].queue, n)
        BY <1>4, <2>4 DEF All
      <4>2. n \in Nat
        BY <1>1
      <4>3. stream[s].got \o Append(stream[s].queue, n) = Append(stream[s].got \o stream[s].queue, n)
        BY <2>2, <4>2, ConcatFacts
      <4> QED BY <4>1, <4>3 DEF All
    <3>2. /\ a \in Seq(Nat) /\ Rising(a) /\ \A i \in DOMAIN a : a[i] <= published /\ a[i] \in Nat
          /\ (stream[s].since + 1)..published \ aborted \subseteq ToSet(a)
      BY <2>1, <2>2 DEF Complete
    <3> HIDE DEF a, b
    <3>3. Rising(b) /\ ToSet(b) = ToSet(a) \union {n}
      BY <1>1, <3>1, <3>2, AppendRises
    <3>4. \A i \in DOMAIN b : b[i] <= n
      BY <1>1, <3>1, <3>2
    <3>6. (stream[s].since + 1)..n \ aborted' \subseteq ToSet(b)
      BY <1>1, <2>2, <3>2, <3>3
    <3>7. stream'[s].since = stream[s].since
      BY <1>4
    <3> QED BY <1>1, <3>3, <3>4, <3>6, <3>7 DEF Complete, b
  <2> QED BY <2>3, <2>4
<1>6. stream' \in [Streams -> StreamType]
  <2>1. stream' = [s \in Streams |-> stream'[s]]
    BY DEF Publish
  <2> QED BY <1>4, <2>1
<1>7. BusTypeOK'
  BY <1>1, <1>4 DEF BusInv, BusTypeOK
<1>8. ASSUME NEW s \in Streams, stream[s].at = "new" PROVE s \notin reached
  BY <1>3, <1>8 DEF BusInv, BusTypeOK
<1> QED BY <1>1, <1>4, <1>5, <1>6, <1>7, <1>8 DEF BusInv

LEMMA OneStream ==
    ASSUME BusInv, NEW s \in Streams, NEW r \in StreamType, stream' = [stream EXCEPT ![s] = r],
           subscribers' \in Seq(Handlers \union Streams), IsInjective(subscribers'),
           \A t \in Streams \ {s} : t \in ToSet(subscribers') <=> t \in ToSet(subscribers),
           r.at \in Running <=> s \in ToSet(subscribers'),
           r.at # "new", r.at \in Running => Complete(s)',
           published' = published, aborted' = aborted
    PROVE  BusInv'
<1>1. \A t \in Streams : stream'[t] = IF t = s THEN r ELSE stream[t]
  BY DEF BusInv
<1>2. stream' \in [Streams -> StreamType]
  BY DEF BusInv
<1>3. \A t \in Streams \ {s} : Complete(t) => Complete(t)'
  BY <1>1, CompleteStays
<1>4. r.at \in {"new", "polling", "yielded", "left"}
  BY DEF StreamType
<1>5. BusTypeOK'
  BY <1>1, <1>4 DEF BusInv, BusTypeOK, Running
<1> QED BY <1>1, <1>2, <1>3, <1>5 DEF BusInv

LEMMA StreamStep ==
    ASSUME BusInv, NEW s \in Streams, StartStream(s) \/ Yield(s) \/ Pull(s) \/ Leave(s)
    PROVE  BusInv'
<1> DEFINE q == stream[s].queue    g == stream[s].got
<1>1. /\ stream[s] \in StreamType /\ g \in Seq(Nat) /\ q \in Seq(Nat) /\ published \in Nat
      /\ subscribers \in Seq(Handlers \union Streams) /\ IsInjective(subscribers)
      /\ stream[s].at \in Running <=> s \in ToSet(subscribers)
      /\ published' = published /\ aborted' = aborted
  BY StreamFacts DEF BusInv, BusTypeOK, Running, StartStream, Yield, Pull, Leave
<1>2. stream \in [Streams -> StreamType]
  BY DEF BusInv
<1>3. CASE StartStream(s)
  <2> DEFINE r == [stream[s] EXCEPT !.at = "polling", !.since = published]
  <2>1. stream' = [stream EXCEPT ![s] = r] /\ r \in StreamType /\ r.at = "polling"
    BY <1>1, <1>3 DEF StartStream, StreamType
  <2>2. /\ subscribers' \in Seq(Handlers \union Streams) /\ IsInjective(subscribers')
        /\ ToSet(subscribers') = ToSet(subscribers) \union {s}
    BY <1>3, AddedFacts DEF StartStream
  <2>3. /\ g = <<>> /\ q = <<>>
        /\ stream'[s].got = g /\ stream'[s].queue = q /\ stream'[s].since = published
    BY <1>1, <1>2, <1>3, <2>1 DEF BusInv, StartStream, StreamType
  <2>4. All(s)' = <<>>
    <3>1. <<>> \o <<>> = <<>>
      BY EmptySeq, ConcatEmptySeq
    <3> QED BY <2>3, <3>1 DEF All
  <2>5. Complete(s)'
    <3>1. DOMAIN <<>> = {} /\ (published + 1)..published = {}
      BY <1>1
    <3> QED BY <1>1, <2>3, <2>4, <3>1 DEF Complete, Rising
  <2> HIDE DEF r
  <2> QED BY <1>1, <2>1, <2>2, <2>5, OneStream DEF Running
<1>4. CASE Yield(s)
  <2> DEFINE r == [stream[s] EXCEPT !.at = "yielded", !.got = Append(g, Head(q)), !.queue = Tail(q)]
  <2>1. stream' = [stream EXCEPT ![s] = r] /\ q # <<>> /\ stream[s].at = "polling"
        /\ subscribers' = subscribers
    BY <1>4 DEF Yield
  <2>2. Append(g, Head(q)) \in Seq(Nat) /\ Tail(q) \in Seq(Nat)
    <3> HIDE DEF g, q
    <3>1. Head(q) \in Nat /\ Tail(q) \in Seq(Nat)
      BY <1>1, <2>1
    <3> QED BY <1>1, <3>1
  <2>3. /\ r \in StreamType /\ r.at = "yielded" /\ r.since = stream[s].since
        /\ r.got = Append(g, Head(q)) /\ r.queue = Tail(q)
    BY <1>1, <2>2 DEF StreamType
  <2> HIDE DEF r
  <2>4. All(s)' = All(s)
    <3>1. stream'[s] = r
      BY <1>2, <2>1
    <3>2. Append(g, Head(q)) \o Tail(q) = g \o q
      BY <1>1, <2>1, ConcatFacts
    <3> QED BY <2>3, <3>1, <3>2 DEF All
  <2>5. Complete(s)'
    <3>1. stream'[s].since = stream[s].since
      BY <1>2, <2>1, <2>3
    <3>2. Complete(s)
      BY <2>1 DEF BusInv, Running
    <3> QED BY <1>1, <2>4, <3>1, <3>2 DEF Complete
  <2> QED BY <1>1, <2>1, <2>3, <2>5, OneStream DEF Running
<1>5. CASE Pull(s)
  <2> DEFINE r == [stream[s] EXCEPT !.at = "polling"]
  <2>1. /\ stream' = [stream EXCEPT ![s] = r] /\ subscribers' = subscribers
        /\ r \in StreamType /\ r.at = "polling" /\ stream[s].at = "yielded"
        /\ r.since = stream[s].since /\ r.got = g /\ r.queue = q
    BY <1>1, <1>5 DEF Pull, StreamType
  <2> HIDE DEF r
  <2>2. stream'[s] = r
    BY <1>2, <2>1
  <2>3. Complete(s)'
    BY <1>1, <2>1, <2>2 DEF BusInv, Running, Complete, Rising, All
  <2> QED BY <1>1, <2>1, <2>3, OneStream DEF Running
<1>6. CASE Leave(s)
  <2> DEFINE r == [stream[s] EXCEPT !.at = "left", !.queue = <<>>, !.got = <<>>]
  <2>1. stream' = [stream EXCEPT ![s] = r] /\ subscribers' = Without(subscribers, s)
    BY <1>6 DEF Leave
  <2>2. r \in StreamType /\ r.at = "left"
    <3>1. \A e \in Seq(Nat) : /\ [stream[s] EXCEPT !.at = "left", !.queue = e, !.got = e] \in StreamType
                              /\ [stream[s] EXCEPT !.at = "left", !.queue = e, !.got = e].at = "left"
      BY <1>1 DEF StreamType
    <3>2. <<>> \in Seq(Nat)
      OBVIOUS
    <3> QED BY <3>1, <3>2
  <2>3. /\ subscribers' \in Seq(Handlers \union Streams) /\ IsInjective(subscribers')
        /\ ToSet(subscribers') = ToSet(subscribers) \ {s}
    BY <1>1, <2>1, WithoutFacts
  <2> HIDE DEF r
  <2> QED BY <1>1, <2>1, <2>2, <2>3, OneStream DEF Running
<1> QED BY <1>3, <1>4, <1>5, <1>6

LEMMA BusInvKept == BusInv /\ [BusNext]_busVars => BusInv'
<1> SUFFICES ASSUME BusInv, [BusNext]_busVars PROVE BusInv'
  OBVIOUS
<1>1. CASE BusNext
  BY <1>1, HandlerStep, PublishStep, StreamStep DEF BusNext
<1>2. CASE UNCHANGED busVars
  BY <1>2 DEF BusInv, BusTypeOK, Complete, Rising, All, busVars
<1> QED BY <1>1, <1>2

\* A stream loses nothing that is published from its consumer's first pull on, in
\* whatever order subscribers come, throw and go and the streams are polled.
THEOREM StreamsAreComplete == BusSpec => []StreamsLoseNothing
<1>1. BusInv => StreamsLoseNothing
  BY DEF BusInv, StreamsLoseNothing, Complete, Rising, All, Running
<1> QED BY <1>1, BusInvInit, BusInvKept, PTL DEF BusSpec

\* The types of the bus: a handler has subscribed once, and a stream under way is
\* one of the subscribers.
THEOREM BusTypes == BusSpec => []BusTypeOK
<1>1. BusInv => BusTypeOK
  BY DEF BusInv
<1> QED BY <1>1, BusInvInit, BusInvKept, PTL DEF BusSpec
-----------------------------------------------------------------------------
(* The network stack. *)

Places == Lists \union {"new", "sent", "answered", "rejected"}
RequestType == [at : Places, index : Nat, asked : Seq(Nat), there : SUBSET Nat, disturbed : BOOLEAN]

\* What a request has asked at index i of list l: nothing that is still to come;
\* and all before, if nothing was removed from under it.
Asked(q, l, i) ==
    /\ \A k \in DOMAIN q.asked, j \in DOMAIN hooks[l] : j > i => q.asked[k] < hooks[l][j]
    /\ ~q.disturbed => /\ i <= Len(hooks[l])
                       /\ \A j \in 1..i : hooks[l][j] \in ToSet(q.asked)

\* A request that is through a list has asked all that was there and still is.
Passed(q, l) == ~q.disturbed => ToSet(hooks[l]) \intersect q.there \subseteq ToSet(q.asked)

Fits(q) ==
    /\ q \in RequestType
    /\ Rising(q.asked) /\ ToSet(q.asked) \subseteq 1..handed /\ q.there \subseteq 1..handed

RequestFits(q) ==
    /\ Fits(q)
    /\ \A l \in Lists : /\ q.at = l => Asked(q, l, q.index)
                        /\ q.at = After(l) => Passed(q, l)

Registration == [list : Lists, function : Functions]

HooksFit ==
    /\ registrations \in Seq(Registration)
    /\ handed \in 0..MaxHooks
    /\ hooks \in [Lists -> Seq(Nat)]
    /\ \A l \in Lists : Rising(hooks[l]) /\ ToSet(hooks[l]) \subseteq 1..handed

\* Only a remove() of its function takes a hook from its list.
HooksStay ==
    \A h \in 1..handed : registrations[h] \notin released => h \in ToSet(hooks[registrations[h].list])

NetInv ==
    /\ HooksFit
    /\ HooksStay
    /\ request \in [Requests -> RequestType]
    /\ \A r \in Requests : RequestFits(request[r])

LEMMA HandedType == NetInv => handed \in Nat
BY NetAssumption DEF NetInv, HooksFit

LEMMA PlacesDiffer ==
    ASSUME NEW l \in Lists, NEW k \in Lists
    PROVE  /\ l # After(k) /\ (After(l) = After(k) => l = k)
           /\ After(k) \in Places \ {"rejected"} /\ l \in Places /\ l # "rejected"
BY DEF Lists, After, Places

\* The next hook is asked, or the list is through.
LEMMA IterateFacts ==
    ASSUME NetInv, NEW q, Fits(q), NEW l \in Lists, NEW i \in Nat, Asked(q, l, i)
    PROVE  RequestFits(Iterate(q, l, i))
<1> DEFINE h == hooks[l]
<1>1. /\ h \in Seq(Nat) /\ Len(h) \in Nat /\ DOMAIN h = 1..Len(h) /\ handed \in Nat
      /\ Rising(h) /\ ToSet(h) \subseteq 1..handed
  BY HandedType DEF NetInv, HooksFit
<1>2. q \in RequestType /\ q.asked \in Seq(Nat) /\ Rising(q.asked)
  BY DEF Fits, RequestType
<1>3. CASE i < Len(h)
  <2> DEFINE a == Append(q.asked, h[i + 1])
             p == [q EXCEPT !.at = l, !.index = i + 1, !.asked = a]
  <2>1. i + 1 \in DOMAIN h /\ h[i + 1] \in Nat /\ h[i + 1] \in 1..handed
    BY <1>1, <1>3 DEF ToSet
  <2>2. \A k \in DOMAIN q.asked : q.asked[k] < h[i + 1]
    BY <1>1, <2>1 DEF Asked
  <2>3. a \in Seq(Nat) /\ Rising(a) /\ ToSet(a) = ToSet(q.asked) \union {h[i + 1]}
    BY <1>2, <2>1, <2>2, AppendRises
  <2> HIDE DEF a
  <2>4. /\ p \in RequestType /\ p.at = l /\ p.index = i + 1 /\ p.asked = a
        /\ p.there = q.there /\ p.disturbed = q.disturbed
    <3>1. l \in Places /\ i + 1 \in Nat
      BY PlacesDiffer
    <3> HIDE DEF Places
    <3> QED BY <1>2, <2>3, <3>1 DEF RequestType
  <2>5. Iterate(q, l, i) = p
    BY <1>3 DEF Iterate, a
  <2> HIDE DEF p
  <2>6. Fits(p)
    BY <2>1, <2>3, <2>4 DEF Fits
  <2>7. Asked(p, l, i + 1)
    <3>1. ASSUME NEW k \in DOMAIN a, NEW j \in DOMAIN h, j > i + 1 PROVE a[k] < h[j]
      <4> HIDE DEF h
      <4>5. j \in Nat /\ j > i
        BY <1>1, <3>1
      <4>1. h[i + 1] < h[j] /\ h[j] \in Nat
        BY <1>1, <2>1, <3>1, <4>5 DEF Rising
      <4>2. a[k] = h[i + 1] \/ \E m \in DOMAIN q.asked : a[k] = q.asked[m]
        BY <2>3 DEF ToSet
      <4>3. \A m \in DOMAIN q.asked : q.asked[m] < h[j]
        BY <4>5 DEF Asked, h
      <4> QED BY <4>1, <4>2, <4>3
    <3>2. ASSUME ~q.disturbed, NEW j \in 1..i + 1 PROVE h[j] \in ToSet(a)
      <4>1. CASE j = i + 1
        BY <2>3, <4>1
      <4>2. CASE j # i + 1
        BY <2>3, <3>2, <4>2 DEF Asked
      <4> QED BY <4>1, <4>2
    <3>3. i + 1 <= Len(h)
      BY <1>1, <1>3
    <3> QED BY <2>4, <3>1, <3>2, <3>3 DEF Asked
  <2> QED BY <2>4, <2>5, <2>6, <2>7, PlacesDiffer DEF RequestFits
<1>4. CASE ~(i < Len(h))
  <2> DEFINE p == [q EXCEPT !.at = After(l)]
  <2>1. Iterate(q, l, i) = p
    BY <1>4 DEF Iterate
  <2>2. /\ p \in RequestType /\ p.at = After(l) /\ p.asked = q.asked
        /\ p.there = q.there /\ p.disturbed = q.disturbed
    BY <1>2, PlacesDiffer DEF RequestType
  <2> HIDE DEF p
  <2>3. Fits(p)
    BY <2>2 DEF Fits
  <2>4. Passed(p, l)
    BY <1>1, <1>4, <2>2 DEF Passed, Asked, ToSet
  <2> QED BY <2>1, <2>2, <2>3, <2>4, PlacesDiffer DEF RequestFits
<1> QED BY <1>3, <1>4

\* What fits goes on to while the hooks stay as they are.
LEMMA FitsOn ==
    ASSUME hooks' = hooks, registrations' = registrations, NEW q, RequestFits(q)
    PROVE  RequestFits(q)'
BY DEF RequestFits, Fits, Asked, Passed, handed

LEMMA OneRequest ==
    ASSUME NetInv, NEW r \in Requests, NEW p, request' = [request EXCEPT ![r] = p], RequestFits(p),
           hooks' = hooks, registrations' = registrations, released' = released
    PROVE  NetInv'
<1>1. HooksFit' /\ HooksStay'
  BY DEF NetInv, HooksFit, HooksStay, handed
<1>2. \A t \in Requests : request'[t] = IF t = r THEN p ELSE request[t]
  BY DEF NetInv
<1>3. request' \in [Requests -> RequestType]
  BY DEF NetInv, RequestFits, Fits
<1>4. ASSUME NEW t \in Requests PROVE RequestFits(request[t])'
  <2>1. RequestFits(p)' /\ RequestFits(request'[t])
    BY <1>2, FitsOn DEF NetInv
  <2> HIDE DEF RequestFits
  <2>2. \A q : RequestFits(q) => RequestFits(q)'
    BY FitsOn
  <2> QED BY <2>1, <2>2 DEF RequestFits, Fits, Asked, Passed
<1> QED BY <1>1, <1>3, <1>4 DEF NetInv

LEMMA RequestStep ==
    ASSUME NetInv, NEW r \in Requests,
           Fetch(r) \/ Response(r) \/ NetworkError(r) \/ \E l \in Lists : HookSettles(r, l)
    PROVE  NetInv'
<1>1. Fits(request[r]) /\ request[r] \in RequestType
  BY DEF NetInv, RequestFits
<1>2. ASSUME NEW l \in Lists, NEW from, BeginHooks(r, l, from) PROVE NetInv'
  <2> DEFINE q == [NewRequest EXCEPT !.there = ToSet(hooks[l])]
  <2>1. ToSet(hooks[l]) \subseteq 1..handed /\ handed \in Nat
    BY HandedType DEF NetInv, HooksFit
  <2>2. /\ q \in RequestType /\ q.asked = <<>> /\ q.there = ToSet(hooks[l]) /\ DOMAIN q.asked = {}
    <3>1. NewRequest \in RequestType /\ NewRequest.asked = <<>> /\ DOMAIN <<>> = {}
      BY DEF NewRequest, RequestType, Places
    <3>2. ToSet(hooks[l]) \in SUBSET Nat
      BY <2>1
    <3> QED BY <3>1, <3>2 DEF RequestType
  <2> HIDE DEF q
  <2>3. Fits(q)
    BY <2>1, <2>2 DEF Fits, Rising, ToSet
  <2>4. Asked(q, l, 0)
    <3>1. hooks[l] \in Seq(Nat)
      BY DEF NetInv, HooksFit
    <3> QED BY <2>2, <3>1 DEF Asked
  <2>5. /\ request' = [request EXCEPT ![r] = Iterate(q, l, 0)]
        /\ hooks' = hooks /\ registrations' = registrations /\ released' = released
    BY <1>2 DEF BeginHooks, q
  <2> QED BY <2>3, <2>4, <2>5, IterateFacts, OneRequest
<1>3. ASSUME request' = [request EXCEPT ![r].at = "rejected"],
             hooks' = hooks, registrations' = registrations, released' = released
      PROVE  NetInv'
  <2> DEFINE p == [request[r] EXCEPT !.at = "rejected"]
  <2>1. /\ p \in RequestType /\ p.at = "rejected" /\ p.asked = request[r].asked
        /\ p.there = request[r].there
    BY <1>1 DEF RequestType, Places
  <2>2. request' = [request EXCEPT ![r] = p]
    BY <1>3
  <2> HIDE DEF p
  <2>3. Fits(p)
    BY <1>1, <2>1 DEF Fits
  <2>4. RequestFits(p)
    BY <2>1, <2>3, PlacesDiffer DEF RequestFits
  <2> QED BY <1>3, <2>2, <2>4, OneRequest
<1>4. ASSUME NEW l \in Lists, HookSettles(r, l) PROVE NetInv'
  <2>1. CASE request' = [request EXCEPT ![r] = Iterate(@, l, @.index)]
    <3>1. Asked(request[r], l, request[r].index) /\ request[r].index \in Nat
      BY <1>1, <1>4 DEF NetInv, RequestFits, HookSettles, RequestType
    <3>2. RequestFits(Iterate(request[r], l, request[r].index))
      BY <1>1, <3>1, IterateFacts
    <3>3. hooks' = hooks /\ registrations' = registrations /\ released' = released
      BY <1>4 DEF HookSettles
    <3> QED BY <2>1, <3>2, <3>3, OneRequest
  <2> QED BY <1>3, <1>4, <2>1 DEF HookSettles
<1> QED BY <1>2, <1>3, <1>4 DEF Fetch, Response, NetworkError, Lists

LEMMA OnHookStep == ASSUME NetInv, NEW l \in Lists, NEW f \in Functions, OnHook(l, f) PROVE NetInv'
<1> DEFINE h == hooks[l]    n == handed + 1    new == [list |-> l, function |-> f]
<1>1. /\ h \in Seq(Nat) /\ Rising(h) /\ ToSet(h) \subseteq 1..handed
      /\ handed \in Nat /\ n \in 0..MaxHooks
      /\ hooks \in [Lists -> Seq(Nat)]
      /\ registrations \in Seq(Registration) /\ new \in Registration
      /\ registrations' = Append(registrations, new) /\ request' = request /\ released' = released
      /\ \A k \in Lists : hooks'[k] = IF k = l THEN Append(h, n) ELSE hooks[k]
  BY HandedType, NetAssumption DEF NetInv, HooksFit, OnHook, Registration
<1>7. /\ registrations' \in Seq(Registration) /\ handed' = n
      /\ registrations'[n] = new /\ new.list = l
      /\ \A i \in 1..handed : registrations'[i] = registrations[i]
  BY <1>1, AppendFacts DEF handed
<1>2. /\ Append(h, n) \in Seq(Nat) /\ Rising(Append(h, n))
      /\ ToSet(Append(h, n)) = ToSet(h) \union {n}
      /\ DOMAIN h = 1..Len(h) /\ Len(h) \in Nat /\ DOMAIN Append(h, n) = 1..Len(h) + 1
      /\ Append(h, n)[Len(h) + 1] = n /\ \A j \in 1..Len(h) : Append(h, n)[j] = h[j]
  <2> HIDE DEF h
  <2>1. ASSUME NEW j \in DOMAIN h PROVE h[j] < n
    <3>1. h[j] \in ToSet(h)
      BY DEF ToSet
    <3>2. h[j] \in 1..handed
      BY <1>1, <3>1
    <3> QED BY <1>1, <3>2
  <2>2. n \in Nat
    BY <1>1
  <2> QED BY <1>1, <2>1, <2>2, AppendRises
<1> HIDE DEF h
<1>6. h = hooks[l]
  BY DEF h
<1>3. HooksFit' /\ HooksStay'
  <2>1. hooks' \in [Lists -> Seq(Nat)]
    BY <1>1, <1>2 DEF OnHook, h
  <2>2. \A k \in Lists : Rising(hooks'[k]) /\ ToSet(hooks'[k]) \subseteq 1..n
    <3>1. \A k \in Lists : Rising(hooks[k]) /\ ToSet(hooks[k]) \subseteq 1..handed
      BY DEF NetInv, HooksFit
    <3>2. 1..handed \subseteq 1..n /\ n \in 1..n
      BY <1>1
    <3> QED BY <1>1, <1>2, <3>1, <3>2
  <2>3. \A k \in Lists : ToSet(hooks[k]) \subseteq ToSet(hooks'[k])
    BY <1>1, <1>2 DEF h
  <2>4. n \in ToSet(hooks'[l])
    BY <1>1, <1>2
  <2>5. HooksFit'
    BY <1>1, <1>7, <2>1, <2>2 DEF HooksFit
  <2>6. ASSUME NEW x \in 1..n, registrations'[x] \notin released
        PROVE  x \in ToSet(hooks'[registrations'[x].list])
    <3>1. CASE x = n
      BY <1>7, <2>4, <3>1
    <3>2. CASE x # n
      <4>0. x \in 1..handed
        BY <1>1, <3>2
      <4>1. x \in 1..handed /\ registrations'[x] = registrations[x]
        BY <1>7, <4>0
      <4>3. registrations[x] \in Registration
        BY <1>1, <4>1 DEF handed
      <4>2. registrations[x].list \in Lists
        BY <4>3 DEF Registration
      <4> QED BY <2>3, <2>6, <4>1, <4>2 DEF NetInv, HooksStay
    <3> QED BY <3>1, <3>2
  <2> QED BY <1>1, <1>7, <2>5, <2>6 DEF HooksStay
<1>4. ASSUME NEW q, RequestFits(q) PROVE RequestFits(q)'
  <2>1. /\ q \in RequestType /\ q.asked \in Seq(Nat) /\ ToSet(q.asked) \subseteq 1..handed
        /\ q.there \subseteq 1..handed /\ q.index \in Nat
    BY <1>4 DEF RequestFits, Fits, RequestType
  <2>2. Fits(q)'
    BY <1>1, <1>4, <1>7 DEF RequestFits, Fits
  <2>3. ASSUME NEW k \in Lists, q.at = k PROVE Asked(q, k, q.index)'
    <3>1. Asked(q, k, q.index)
      BY <1>4, <2>3 DEF RequestFits
    <3>2. CASE k # l
      BY <1>1, <3>1, <3>2 DEF Asked
    <3>3. CASE k = l
      <4>1. ASSUME NEW m \in DOMAIN q.asked, NEW j \in DOMAIN hooks'[k], j > q.index
            PROVE  q.asked[m] < hooks'[k][j]
        <5>3. hooks'[k] = Append(h, n) /\ j \in 1..Len(h) + 1 /\ q.asked[m] \in ToSet(q.asked)
          BY <1>1, <1>2, <3>3, <4>1 DEF ToSet
        <5>1. CASE j = Len(h) + 1
          <6>1. q.asked[m] \in 1..handed /\ Append(h, n)[j] = n
            BY <1>2, <2>1, <5>1, <5>3
          <6> QED BY <1>1, <5>3, <6>1
        <5>2. CASE j # Len(h) + 1
          <6>1. j \in DOMAIN h /\ Append(h, n)[j] = h[j]
            BY <1>2, <5>2, <5>3
          <6>2. \A i \in DOMAIN h : i > q.index => q.asked[m] < h[i]
            BY <1>6, <3>1, <3>3 DEF Asked
          <6> QED BY <4>1, <5>3, <6>1, <6>2
        <5> QED BY <5>1, <5>2
      <4>2. ASSUME ~q.disturbed
            PROVE  q.index <= Len(hooks'[k]) /\ \A j \in 1..q.index : hooks'[k][j] \in ToSet(q.asked)
        <5>1. q.index <= Len(h) /\ \A j \in 1..q.index : h[j] \in ToSet(q.asked)
          BY <3>1, <3>3, <4>2 DEF Asked, h
        <5>2. hooks'[k] = Append(h, n) /\ Len(Append(h, n)) = Len(h) + 1
          <6>1. hooks'[k] = Append(h, n)
            BY <1>1, <3>3
          <6>2. h \in Seq(Nat) /\ n \in Nat
            BY <1>1
          <6> QED BY <6>1, <6>2
        <5>3. \A j \in 1..q.index : j \in 1..Len(h)
          BY <1>2, <2>1, <5>1
        <5>4. \A j \in 1..q.index : hooks'[k][j] = h[j]
          BY <1>2, <5>2, <5>3
        <5>5. q.index <= Len(hooks'[k])
          BY <1>2, <2>1, <5>1, <5>2
        <5> QED BY <5>1, <5>4, <5>5
      <4> QED BY <4>1, <4>2 DEF Asked
    <3> QED BY <3>2, <3>3
  <2>4. ASSUME NEW k \in Lists, q.at = After(k) PROVE Passed(q, k)'
    <3>1. Passed(q, k)
      BY <1>4, <2>4 DEF RequestFits
    <3>2. ToSet(hooks'[k]) \subseteq ToSet(hooks[k]) \union {n} /\ n \notin q.there
      <4>1. n \notin 1..handed
        BY <1>1
      <4>2. hooks'[k] = IF k = l THEN Append(h, n) ELSE hooks[k]
        BY <1>1
      <4> QED BY <1>2, <1>6, <2>1, <4>1, <4>2
    <3> QED BY <3>1, <3>2 DEF Passed
  <2> QED BY <2>2, <2>3, <2>4 DEF RequestFits
<1>5. \A r \in Requests : RequestFits(request[r])'
  BY <1>1, <1>4 DEF NetInv, RequestFits, Fits, Asked, Passed
<1> QED BY <1>1, <1>3, <1>5 DEF NetInv

\* A splice takes one place out and moves what is behind it down.
LEMMA RemoveAtFacts ==
    ASSUME NEW s \in Seq(Nat), Rising(s), NEW i \in DOMAIN s
    PROVE  /\ RemoveAt(s, i) \in Seq(Nat) /\ Len(RemoveAt(s, i)) = Len(s) - 1
           /\ \A j \in DOMAIN RemoveAt(s, i) :
                 RemoveAt(s, i)[j] = IF j < i THEN s[j] ELSE s[j + 1]
           /\ Rising(RemoveAt(s, i)) /\ ToSet(RemoveAt(s, i)) = ToSet(s) \ {s[i]}
<1> DEFINE w == RemoveAt(s, i)    n == Len(s)
           x == SubSeq(s, 1, i - 1)
           y == SubSeq(s, i + 1, n)
<1>1. n \in Nat /\ DOMAIN s = 1..n /\ i \in 1..n
  OBVIOUS
<1>2. x \in Seq(Nat) /\ Len(x) = i - 1 /\ \A j \in 1..(i - 1) : x[j] = s[j]
  BY <1>1, SubSeqProperties
<1>3. y \in Seq(Nat) /\ Len(y) = n - i /\ \A j \in 1..(n - i) : y[j] = s[j + i]
  <2>1. (\A k \in (i + 1)..n : s[k] \in Nat) /\ i + 1 \in Int /\ n \in Int
    BY <1>1
  <2>2. /\ y \in Seq(Nat) /\ Len(y) = IF i + 1 <= n THEN n - (i + 1) + 1 ELSE 0
        /\ \A j \in 1..(n - (i + 1) + 1) : y[j] = s[(i + 1) + j - 1]
    BY <2>1, SubSeqProperties
  <2> HIDE DEF y, n
  <2>3. n - (i + 1) + 1 = n - i /\ \A j \in 1..(n - i) : (i + 1) + j - 1 = j + i
    BY <1>1
  <2> QED BY <1>1, <2>2, <2>3
<1>4. w = x \o y
  BY DEF RemoveAt
<1> HIDE DEF x, y, w
<1>5. /\ w \in Seq(Nat) /\ Len(w) = Len(x) + Len(y)
      /\ \A j \in 1..(Len(x) + Len(y)) : w[j] = IF j <= Len(x) THEN x[j] ELSE y[j - Len(x)]
  BY <1>2, <1>3, <1>4, ConcatProperties
<1>6. Len(w) = n - 1 /\ DOMAIN w = 1..(n - 1)
  BY <1>1, <1>2, <1>3, <1>5
<1>7. ASSUME NEW j \in DOMAIN w PROVE w[j] = IF j < i THEN s[j] ELSE s[j + 1]
  <2>1. CASE j < i
    BY <1>1, <1>2, <1>3, <1>5, <1>6, <2>1
  <2>2. CASE ~(j < i)
    <3>1. j - (i - 1) \in 1..(n - i) /\ (j - (i - 1)) + i = j + 1 /\ j \in 1..(Len(x) + Len(y)) /\ ~(j <= Len(x))
      <4>1. j \in 1..(n - 1) /\ Len(x) = i - 1 /\ Len(y) = n - i /\ n \in Nat /\ i \in 1..n
        BY <1>1, <1>2, <1>3, <1>6
      <4> HIDE DEF n
      <4>2. j - (i - 1) \in 1..(n - i) /\ (j - (i - 1)) + i = j + 1
        BY <2>2, <4>1
      <4>3. j \in 1..(Len(x) + Len(y)) /\ ~(j <= Len(x))
        BY <2>2, <4>1
      <4> QED BY <4>2, <4>3
    <3>2. w[j] = y[j - (i - 1)]
      BY <1>2, <1>5, <3>1
    <3> QED BY <1>3, <2>2, <3>1, <3>2
  <2> QED BY <2>1, <2>2
<1>8. Rising(w)
  <2> SUFFICES ASSUME NEW j \in DOMAIN w, NEW k \in DOMAIN w, j < k PROVE w[j] < w[k]
    BY DEF Rising
  <2>1. /\ j \in DOMAIN s /\ j + 1 \in DOMAIN s /\ k \in DOMAIN s /\ k + 1 \in DOMAIN s
        /\ j < k /\ j < k + 1 /\ j + 1 < k + 1 /\ (k < i => j < i)
    BY <1>1, <1>6
  <2>2. s[j] < s[k] /\ s[j] < s[k + 1] /\ s[j + 1] < s[k + 1]
    BY <2>1 DEF Rising
  <2> QED BY <1>7, <2>1, <2>2
<1>9. ToSet(w) = ToSet(s) \ {s[i]}
  <2>1. ASSUME NEW j \in DOMAIN w PROVE w[j] \in ToSet(s) \ {s[i]}
    <3>1. j \in DOMAIN s /\ j + 1 \in DOMAIN s
      BY <1>1, <1>6
    <3>2. s[j] \in ToSet(s) /\ s[j + 1] \in ToSet(s)
      BY <3>1 DEF ToSet
    <3>3. (j < i => s[j] # s[i]) /\ (~(j < i) => s[j + 1] # s[i])
      <4>1. \A k \in DOMAIN s : s[k] \in Nat
        BY <1>1
      <4>2. j < i => s[j] < s[i]
        BY <3>1 DEF Rising
      <4>3. ~(j < i) => i < j + 1
        BY <1>1, <1>6
      <4>4. ~(j < i) => s[i] < s[j + 1]
        BY <3>1, <4>3 DEF Rising
      <4> QED BY <3>1, <4>1, <4>2, <4>4
    <3> QED BY <1>7, <3>2, <3>3
  <2>2. ASSUME NEW k \in DOMAIN s, s[k] # s[i] PROVE s[k] \in ToSet(w)
    <3>1. CASE k < i
      <4>1. k \in DOMAIN w /\ w[k] = s[k]
        BY <1>1, <1>6, <1>7, <3>1
      <4> QED BY <4>1 DEF ToSet
    <3>2. CASE ~(k < i)
      <4>1. k - 1 \in DOMAIN w /\ ~(k - 1 < i) /\ (k - 1) + 1 = k
        BY <1>1, <1>6, <2>2, <3>2
      <4>2. w[k - 1] = s[k]
        BY <1>7, <4>1
      <4> QED BY <4>1, <4>2 DEF ToSet
    <3> QED BY <3>1, <3>2
  <2> QED BY <2>1, <2>2 DEF ToSet
<1> QED BY <1>5, <1>6, <1>7, <1>8, <1>9 DEF w

LEMMA RemoveHookStep ==
    ASSUME NetInv, NEW l \in Lists, NEW f \in Functions, RemoveHook(l, f)
    PROVE  NetInv'
<1> DEFINE h == hooks[l]
<1>0. PICK i \in PlacesOf(l, f) :
        /\ hooks' = [hooks EXCEPT ![l] = RemoveAt(h, i)]
        /\ request' = [r \in Requests |-> Disturbed(request[r], l, i)]
        /\ released' = released \union {[list |-> l, function |-> f]}
        /\ registrations' = registrations
  BY DEF RemoveHook
<1> DEFINE w == RemoveAt(h, i)    x == h[i]
<1>1. /\ h \in Seq(Nat) /\ Rising(h) /\ ToSet(h) \subseteq 1..handed
      /\ i \in DOMAIN h /\ registrations[x].function = f /\ x \in Nat
      /\ handed \in Nat /\ handed' = handed
      /\ hooks \in [Lists -> Seq(Nat)]
      /\ \A k \in Lists : hooks'[k] = IF k = l THEN w ELSE hooks[k]
      /\ hooks' = [hooks EXCEPT ![l] = w]
  BY <1>0, HandedType DEF NetInv, HooksFit, PlacesOf, handed
<1>2. /\ w \in Seq(Nat) /\ Rising(w) /\ ToSet(w) = ToSet(h) \ {x}
      /\ Len(h) \in Nat /\ DOMAIN h = 1..Len(h) /\ DOMAIN w = 1..(Len(h) - 1) /\ Len(w) = Len(h) - 1
      /\ \A j \in DOMAIN w : w[j] = IF j < i THEN h[j] ELSE h[j + 1]
  <2>1. h \in Seq(Nat) /\ Rising(h) /\ i \in DOMAIN h
    BY <1>1
  <2> HIDE DEF h
  <2>2. /\ w \in Seq(Nat) /\ Rising(w) /\ ToSet(w) = ToSet(h) \ {x} /\ Len(w) = Len(h) - 1
        /\ \A j \in DOMAIN w : w[j] = IF j < i THEN h[j] ELSE h[j + 1]
    BY <2>1, RemoveAtFacts
  <2> HIDE DEF w, x
  <2> QED BY <2>1, <2>2
<1> HIDE DEF w
<1>3. HooksFit' /\ HooksStay'
  <2>1. hooks' \in [Lists -> Seq(Nat)]
    BY <1>1, <1>2
  <2>2. \A k \in Lists : Rising(hooks'[k]) /\ ToSet(hooks'[k]) \subseteq 1..handed
    BY <1>1, <1>2 DEF NetInv, HooksFit
  <2>3. HooksFit'
    BY <1>0, <1>1, <2>1, <2>2 DEF NetInv, HooksFit
  <2>4. ASSUME NEW y \in 1..handed, registrations[y] \notin released'
        PROVE  y \in ToSet(hooks'[registrations[y].list])
    <3>1. registrations[y] \in Registration /\ registrations[y].list \in Lists
      <4>1. registrations[y] \in Registration
        BY DEF NetInv, HooksFit, handed
      <4> QED BY <4>1 DEF Registration
    <3>2. y \in ToSet(hooks[registrations[y].list])
      BY <1>0, <2>4 DEF NetInv, HooksStay
    <3>3. CASE registrations[y].list = l
      <4>1. registrations[y].function # f
        BY <1>0, <2>4, <3>1, <3>3 DEF Registration
      <4>2. y # x
        BY <1>1, <4>1
      <4> QED BY <1>1, <1>2, <3>2, <3>3, <4>2
    <3>4. CASE registrations[y].list # l
      BY <1>1, <3>1, <3>2, <3>4
    <3> QED BY <3>3, <3>4
  <2> QED BY <1>0, <1>1, <2>3, <2>4 DEF HooksStay
<1>4. ASSUME NEW q, NEW p, RequestFits(q), q \in RequestType, p = Disturbed(q, l, i)
      PROVE  p \in RequestType /\ RequestFits(p)'
  <2>3. /\ p \in RequestType /\ p.at = q.at /\ p.index = q.index /\ p.asked = q.asked /\ p.there = q.there
        /\ p.disturbed = (q.disturbed \/ (q.at = l /\ i <= q.index))
        /\ p.index \in Nat /\ p.at \in Places /\ p.disturbed \in BOOLEAN
    BY <1>4 DEF RequestType, Disturbed
  <2>4. Fits(p)'
    <3>1. Fits(p)
      BY <1>4, <2>3 DEF RequestFits, Fits
    <3> QED BY <1>1, <3>1 DEF Fits
  <2>5. ASSUME NEW k \in Lists, p.at = k PROVE Asked(p, k, p.index)'
    <3>1. Asked(q, k, q.index)
      BY <1>4, <2>3, <2>5 DEF RequestFits
    <3>2. CASE k # l
      <4>1. Asked(p, k, p.index) /\ hooks'[k] = hooks[k]
        BY <1>1, <2>3, <2>5, <3>1, <3>2 DEF Asked
      <4> QED BY <4>1 DEF Asked
    <3>3. CASE k = l
      <4>1. ASSUME NEW m \in DOMAIN p.asked, NEW j \in DOMAIN w, j > p.index PROVE p.asked[m] < w[j]
        <5>1. \A n \in DOMAIN h : n > p.index => p.asked[m] < h[n]
          BY <2>3, <3>1, <3>3 DEF Asked
        <5> HIDE DEF h, x
        <5>2. j \in DOMAIN h /\ j + 1 \in DOMAIN h /\ j + 1 > p.index
          BY <1>2, <2>3, <4>1
        <5> QED BY <1>2, <4>1, <5>1, <5>2
      <4>2. ASSUME ~p.disturbed
            PROVE  p.index <= Len(w) /\ \A j \in 1..p.index : w[j] \in ToSet(p.asked)
        <5>1. ~q.disturbed /\ ~(i <= p.index)
          BY <2>3, <2>5, <3>3, <4>2
        <5>2. p.index <= Len(h) /\ \A j \in 1..p.index : h[j] \in ToSet(p.asked)
          BY <2>3, <3>1, <3>3, <5>1 DEF Asked
        <5> HIDE DEF h, x
        <5>3. p.index <= Len(w) /\ i \in Nat
          BY <1>1, <1>2, <2>3, <5>1
        <5>4. ASSUME NEW j \in 1..p.index PROVE w[j] = h[j]
          <6>1. j \in DOMAIN w /\ j < i
            BY <1>2, <2>3, <5>1, <5>3
          <6> QED BY <1>2, <6>1
        <5> QED BY <5>2, <5>3, <5>4
      <4>3. hooks'[k] = w
        BY <1>1, <3>3
      <4> QED BY <4>1, <4>2, <4>3 DEF Asked
    <3> QED BY <3>2, <3>3
  <2>6. ASSUME NEW k \in Lists, p.at = After(k) PROVE Passed(p, k)'
    <3>1. Passed(p, k)
      BY <1>4, <2>3, <2>6, PlacesDiffer DEF RequestFits, Passed
    <3>2. ToSet(hooks'[k]) \subseteq ToSet(hooks[k])
      BY <1>1, <1>2
    <3> QED BY <3>1, <3>2 DEF Passed
  <2> QED BY <2>3, <2>4, <2>5, <2>6 DEF RequestFits
<1>5. ASSUME NEW r \in Requests PROVE request'[r] \in RequestType /\ RequestFits(request[r])'
  <2>1. RequestFits(request[r]) /\ request[r] \in RequestType
    BY DEF NetInv
  <2>2. request'[r] = Disturbed(request[r], l, i)
    BY <1>0
  <2>3. \A q : RequestFits(q) /\ q \in RequestType =>
                 Disturbed(q, l, i) \in RequestType /\ RequestFits(Disturbed(q, l, i))'
    BY <1>4
  <2>4. request'[r] \in RequestType
    BY <2>1, <2>2, <2>3
  <2> QED BY <2>1, <2>2, <2>3, <2>4 DEF RequestFits, Fits, Asked, Passed
<1>6. request' \in [Requests -> RequestType]
  <2>1. request' = [r \in Requests |-> request'[r]]
    BY <1>0
  <2> QED BY <1>5, <2>1
<1> QED BY <1>3, <1>5, <1>6 DEF NetInv

LEMMA NetInvInit == NetInit => NetInv
<1> SUFFICES ASSUME NetInit PROVE NetInv
  OBVIOUS
<1>1. /\ <<>> \in Seq(Nat) /\ <<>> \in Seq(Registration) /\ Len(<<>>) = 0
      /\ DOMAIN <<>> = {} /\ ToSet(<<>>) = {} /\ Rising(<<>>)
  BY DEF ToSet, Rising
<1>2. /\ NewRequest \in RequestType /\ NewRequest.asked = <<>> /\ NewRequest.there = {}
      /\ NewRequest.at = "new"
  BY <1>1 DEF NewRequest, RequestType, Places
<1>3. RequestFits(NewRequest)
  BY <1>1, <1>2 DEF RequestFits, Fits, Lists, After
<1>4. HooksFit /\ HooksStay
  BY <1>1, NetAssumption DEF NetInit, HooksFit, HooksStay, handed
<1> QED BY <1>2, <1>3, <1>4 DEF NetInit, NetInv

LEMMA NetInvKept == NetInv /\ [NetNext]_netVars => NetInv'
<1> SUFFICES ASSUME NetInv, [NetNext]_netVars PROVE NetInv'
  OBVIOUS
<1>1. CASE NetNext
  BY <1>1, OnHookStep, RemoveHookStep, RequestStep DEF NetNext
<1>2. CASE UNCHANGED netVars
  <2>1. HooksFit' /\ HooksStay'
    BY <1>2 DEF NetInv, HooksFit, HooksStay, netVars, handed
  <2>2. \A r \in Requests : RequestFits(request[r])'
    BY <1>2 DEF NetInv, RequestFits, Fits, Asked, Passed, netVars, handed
  <2> QED BY <1>2, <2>1, <2>2 DEF NetInv, netVars
<1> QED BY <1>1, <1>2

\* A request asks every hook that is there when it comes to the list and stays,
\* unless one was removed from under its iterator; and none twice.
THEOREM HooksAreAskedOnce == NetSpec => []HooksRunOnce
<1>1. ASSUME NetInv PROVE HooksRunOnce
  <2> SUFFICES ASSUME NEW r \in Requests
               PROVE  /\ IsInjective(request[r].asked)
                      /\ \A l \in Lists : request[r].at = After(l) /\ ~request[r].disturbed =>
                            ToSet(hooks[l]) \intersect request[r].there \subseteq ToSet(request[r].asked)
    BY DEF HooksRunOnce
  <2>1. /\ RequestFits(request[r]) /\ request[r].asked \in Seq(Nat) /\ Rising(request[r].asked)
    BY <1>1 DEF NetInv, RequestFits, Fits, RequestType
  <2> QED BY <2>1, RisingIsInjective DEF RequestFits, Passed
<1> QED BY <1>1, NetInvInit, NetInvKept, PTL DEF NetSpec

\* No hook is lost: it is in its list until remove() is called for its function on
\* that list, by its own handle or by another one of that function.
THEOREM HooksAreKept == NetSpec => []NetTypeOK
<1>1. ASSUME NetInv PROVE NetTypeOK
  <2>1. \A l \in Lists : IsInjective(hooks[l])
    BY <1>1, RisingIsInjective DEF NetInv, HooksFit
  <2>2. \A r \in Requests : request[r].at \in Places
    BY <1>1 DEF NetInv, RequestType
  <2> QED BY <1>1, <2>1, <2>2 DEF NetInv, HooksFit, HooksStay, NetTypeOK, Places
<1> QED BY <1>1, NetInvInit, NetInvKept, PTL DEF NetSpec
-----------------------------------------------------------------------------
(* Configuration: the requests. *)

IsSeq(s) == \E S : s \in Seq(S)

LEMMA SeqFacts ==
    ASSUME NEW s, IsSeq(s)
    PROVE  /\ Len(s) \in Nat /\ DOMAIN s = 1..Len(s)
           /\ s # <<>> => /\ Len(s) \in Nat \ {0} /\ 1 \in DOMAIN s /\ Head(s) = s[1]
                          /\ IsSeq(Tail(s)) /\ Len(Tail(s)) = Len(s) - 1
                          /\ DOMAIN Tail(s) = 1..Len(s) - 1
                          /\ \A k \in 1..Len(s) - 1 : Tail(s)[k] = s[k + 1]
BY DEF IsSeq

LEMMA SeqAppended ==
    ASSUME NEW s, IsSeq(s), NEW e
    PROVE  /\ IsSeq(Append(s, e)) /\ Len(Append(s, e)) = Len(s) + 1
           /\ DOMAIN Append(s, e) = 1..Len(s) + 1
           /\ Append(s, e)[Len(s) + 1] = e
           /\ \A k \in 1..Len(s) : Append(s, e)[k] = s[k]
<1>1. PICK S : s \in Seq(S)
  BY DEF IsSeq
<1> DEFINE T == S \union {e}
<1>2. s \in Seq(T) /\ e \in T
  BY <1>1
<1> HIDE DEF T
<1>3. Append(s, e) \in Seq(T) /\ Len(s) \in Nat /\ DOMAIN s = 1..Len(s)
  BY <1>2
<1> QED BY <1>2, <1>3, AppendFacts DEF IsSeq

Puts(r, key) == r.op = "put" /\ r.key = key

\* The last request before i that stores something under the key.
Latest(q, key, i, k) ==
    /\ k < i /\ Puts(q[k], key)
    /\ \A m \in DOMAIN q : k < m /\ m < i => ~Puts(q[m], key)

\* What is stored under the key once the requests before i are served; S is now.
Stored(q, key, S, i) ==
    {q[k].value : k \in {m \in DOMAIN q : Latest(q, key, i, m)}}
    \union (IF \A k \in DOMAIN q : k < i => ~Puts(q[k], key) THEN S ELSE {})

LEMMA StoredServed ==
    ASSUME NEW q, IsSeq(q), q # <<>>, NEW key, NEW S, NEW T,
           T = IF Puts(Head(q), key) THEN {Head(q).value} ELSE S,
           NEW i \in 1..Len(q)
    PROVE  Stored(Tail(q), key, T, i) = Stored(q, key, S, i + 1)
<1> DEFINE r == Tail(q)    n == Len(q)
<1>1. /\ n \in Nat \ {0} /\ DOMAIN q = 1..n /\ DOMAIN r = 1..n - 1 /\ Head(q) = q[1]
      /\ \A k \in 1..n - 1 : r[k] = q[k + 1]
  BY SeqFacts
<1> HIDE DEF r, n
<1>2. i \in 1..n /\ \A k \in 1..n - 1 : k + 1 \in 1..n /\ k + 1 # 1 /\ (k < i <=> k + 1 < i + 1)
  BY <1>1 DEF n
<1>3. \A m \in 1..n : m = 1 \/ \E k \in 1..n - 1 : m = k + 1
  <2>1. ASSUME NEW m \in 1..n, m # 1 PROVE m - 1 \in 1..n - 1 /\ m = (m - 1) + 1
    BY <1>1, <2>1
  <2> QED BY <2>1
<1>4. ASSUME NEW k \in 1..n - 1 PROVE Latest(r, key, i, k) <=> Latest(q, key, i + 1, k + 1)
  <2>1. ASSUME Latest(r, key, i, k), NEW m \in 1..n, k + 1 < m, m < i + 1 PROVE ~Puts(q[m], key)
    <3>1. PICK x \in 1..n - 1 : m = x + 1
      BY <1>1, <1>3, <2>1
    <3>2. k < x /\ x < i
      BY <1>1, <1>2, <2>1, <3>1
    <3> QED BY <1>1, <2>1, <3>1, <3>2 DEF Latest
  <2>2. ASSUME Latest(q, key, i + 1, k + 1), NEW x \in 1..n - 1, k < x, x < i PROVE ~Puts(r[x], key)
    <3>1. x + 1 \in 1..n /\ k + 1 < x + 1 /\ x + 1 < i + 1
      BY <1>1, <1>2, <2>2
    <3> QED BY <1>1, <2>2, <3>1 DEF Latest
  <2>3. Puts(r[k], key) <=> Puts(q[k + 1], key)
    BY <1>1
  <2>4. k < i <=> k + 1 < i + 1
    BY <1>2
  <2> QED BY <1>1, <2>1, <2>2, <2>3, <2>4 DEF Latest
<1>5. ASSUME NEW v PROVE v \in Stored(r, key, T, i) <=> v \in Stored(q, key, S, i + 1)
  <2>1. (\A k \in 1..n - 1 : k < i => ~Puts(r[k], key)) <=>
        (\A m \in 1..n : m # 1 /\ m < i + 1 => ~Puts(q[m], key))
    BY <1>1, <1>2, <1>3
  <2>2. 1 < i + 1
    BY <1>2
  <2>3. Latest(q, key, i + 1, 1) <=>
            Puts(q[1], key) /\ \A k \in 1..n - 1 : k < i => ~Puts(r[k], key)
    <3>1. \A m \in 1..n : 1 < m <=> m # 1
      BY <1>1
    <3> QED BY <1>1, <2>1, <2>2, <3>1 DEF Latest
  <2> DEFINE none == \A k \in 1..n - 1 : k < i => ~Puts(r[k], key)
  <2>4. v \in Stored(r, key, T, i) <=>
            \/ \E k \in 1..n - 1 : Latest(r, key, i, k) /\ v = r[k].value
            \/ none /\ v \in T
    BY <1>1 DEF Stored
  <2>5. v \in Stored(q, key, S, i + 1) <=>
            \/ \E k \in 1..n : Latest(q, key, i + 1, k) /\ v = q[k].value
            \/ (\A k \in 1..n : k < i + 1 => ~Puts(q[k], key)) /\ v \in S
    BY <1>1 DEF Stored
  <2>6. (\A k \in 1..n : k < i + 1 => ~Puts(q[k], key)) <=> none /\ ~Puts(q[1], key)
    BY <1>1, <1>2, <2>1, <2>2
  <2>7. (\E k \in 1..n : Latest(q, key, i + 1, k) /\ v = q[k].value) <=>
            \/ Latest(q, key, i + 1, 1) /\ v = q[1].value
            \/ \E k \in 1..n - 1 : Latest(r, key, i, k) /\ v = r[k].value
    <3>1. \A k \in 1..n - 1 : r[k].value = q[k + 1].value
      BY <1>1
    <3>2. 1 \in 1..n
      BY <1>1
    <3> QED BY <1>2, <1>3, <1>4, <3>1, <3>2
  <2>8. v \in T <=> (IF Puts(q[1], key) THEN v = q[1].value ELSE v \in S)
    BY <1>1
  <2> QED BY <2>3, <2>4, <2>5, <2>6, <2>7, <2>8
<1> QED BY <1>5 DEF r

LEMMA StoredBefore ==
    ASSUME NEW q, IsSeq(q), NEW r, NEW key, NEW S, NEW i \in 1..Len(q) + 1
    PROVE  Stored(Append(q, r), key, S, i) = Stored(q, key, S, i)
<1> DEFINE a == Append(q, r)    n == Len(q)
<1>1. /\ n \in Nat /\ DOMAIN q = 1..n /\ DOMAIN a = 1..n + 1 /\ a[n + 1] = r
      /\ \A k \in 1..n : a[k] = q[k]
  BY SeqFacts, SeqAppended
<1> HIDE DEF a, n
<1>2. /\ \A m \in 1..n + 1 : m \in 1..n \/ m = n + 1
      /\ \A k \in 1..n : k \in 1..n + 1
      /\ ~(n + 1 < i)
  <2>1. i \in 1..n + 1
    BY DEF n
  <2> QED BY <1>1, <2>1
<1>3. \A k \in 1..n : Latest(a, key, i, k) <=> Latest(q, key, i, k)
  BY <1>1, <1>2 DEF Latest
<1>4. ~Latest(a, key, i, n + 1)
  BY <1>2 DEF Latest
<1>5. (\A k \in 1..n + 1 : k < i => ~Puts(a[k], key)) <=> (\A k \in 1..n : k < i => ~Puts(q[k], key))
  BY <1>1, <1>2
<1>6. \A v : (\E k \in 1..n + 1 : Latest(a, key, i, k) /\ v = a[k].value) <=>
             (\E k \in 1..n : Latest(q, key, i, k) /\ v = q[k].value)
  BY <1>1, <1>2, <1>3, <1>4
<1>7. \A v : v \in Stored(a, key, S, i) <=> v \in Stored(q, key, S, i)
  BY <1>1, <1>5, <1>6 DEF Stored
<1>8. Stored(a, key, S, i) = Stored(q, key, S, i)
  BY <1>7 DEF Stored
<1> QED BY <1>8 DEF a

LEMMA StoredAppended ==
    ASSUME NEW q, IsSeq(q), NEW r, NEW key, NEW S
    PROVE  Stored(Append(q, r), key, S, Len(q) + 2) =
               IF Puts(r, key) THEN {r.value} ELSE Stored(q, key, S, Len(q) + 1)
<1> DEFINE a == Append(q, r)    n == Len(q)
<1>1. /\ n \in Nat /\ DOMAIN q = 1..n /\ DOMAIN a = 1..n + 1 /\ a[n + 1] = r
      /\ \A k \in 1..n : a[k] = q[k]
  BY SeqFacts, SeqAppended
<1> HIDE DEF a, n
<1>2. /\ \A m \in 1..n + 1 : m \in 1..n \/ m = n + 1
      /\ \A k \in 1..n : k \in 1..n + 1 /\ k < n + 1 /\ k < n + 2
      /\ n + 1 \in 1..n + 1 /\ n + 1 < n + 2
  BY <1>1
<1>3. CASE Puts(r, key)
  <2>1. Latest(a, key, n + 2, n + 1)
    <3>1. \A m \in 1..n + 1 : ~(n + 1 < m)
      BY <1>1
    <3> QED BY <1>1, <1>2, <1>3, <3>1 DEF Latest
  <2>2. \A k \in 1..n : ~Latest(a, key, n + 2, k)
    BY <1>1, <1>2, <1>3 DEF Latest
  <2>3. ~(\A k \in 1..n + 1 : k < n + 2 => ~Puts(a[k], key))
    BY <1>1, <1>2, <1>3
  <2>4. \A v : v \in Stored(a, key, S, n + 2) <=> v = r.value
    BY <1>1, <1>2, <2>1, <2>2, <2>3 DEF Stored
  <2>5. Stored(a, key, S, n + 2) = {r.value}
    BY <2>4
  <2> QED BY <1>3, <2>5 DEF a, n
<1>4. CASE ~Puts(r, key)
  <2>1. \A k \in 1..n : Latest(a, key, n + 2, k) <=> Latest(q, key, n + 1, k)
    BY <1>1, <1>2, <1>4 DEF Latest
  <2>2. ~Latest(a, key, n + 2, n + 1)
    BY <1>1, <1>4 DEF Latest
  <2>3. (\A k \in 1..n + 1 : k < n + 2 => ~Puts(a[k], key)) <=> (\A k \in 1..n : k < n + 1 => ~Puts(q[k], key))
    BY <1>1, <1>2, <1>4
  <2>4. \A v : (\E k \in 1..n + 1 : Latest(a, key, n + 2, k) /\ v = a[k].value) <=>
               (\E k \in 1..n : Latest(q, key, n + 1, k) /\ v = q[k].value)
    BY <1>1, <1>2, <2>1, <2>2
  <2>5. \A v : v \in Stored(a, key, S, n + 2) <=> v \in Stored(q, key, S, n + 1)
    BY <1>1, <2>3, <2>4 DEF Stored
  <2>6. Stored(a, key, S, n + 2) = Stored(q, key, S, n + 1)
    BY <2>5 DEF Stored
  <2> QED BY <1>4, <2>6 DEF a, n
<1> QED BY <1>3, <1>4
-----------------------------------------------------------------------------
(* Configuration: the values. *)

\* What the keys of a map refer to is among the objects.
MapIn(m, ids) == \A k \in DOMAIN m : IF m[k][1] = "ref" THEN m[k][2] \in ids ELSE m[k][1] # "object"
NoRefs(h) == \A id \in DOMAIN h : \A p \in DOMAIN h[id] : h[id][p][1] # "ref"

Copied(m) == \A k \in DOMAIN m : Plain(m[k])

Profile(p) == p = [base |-> p.base, config |-> p.config]
ProfilesIn(ps, ids) == \A n \in DOMAIN ps : n \in Names /\ Profile(ps[n]) /\ MapIn(ps[n].config, ids)
CopiedProfiles(ps) == \A n \in DOMAIN ps : n \in Names /\ Profile(ps[n]) /\ Copied(ps[n].config)

LEMMA OverFacts ==
    ASSUME NEW f, NEW g
    PROVE  /\ DOMAIN Over(f, g) = DOMAIN f \union DOMAIN g
           /\ \A x \in DOMAIN f : Over(f, g)[x] = f[x]
           /\ \A x \in DOMAIN g : x \notin DOMAIN f => Over(f, g)[x] = g[x]
BY DEF Over

LEMMA WithFacts ==
    ASSUME NEW g, NEW k, NEW v
    PROVE  /\ DOMAIN With(g, k, v) = DOMAIN g \union {k}
           /\ With(g, k, v)[k] = v
           /\ \A x \in DOMAIN g : x # k => With(g, k, v)[x] = g[x]
BY DEF With

\* A copy of the map m, its objects in h.
CopyIn(m, h) == [k \in DOMAIN m |-> IF m[k][1] = "ref" THEN Obj(h[m[k][2]]) ELSE m[k]]

LEMMA CopyFacts ==
    ASSUME NEW h, NEW m, NoRefs(h), MapIn(m, DOMAIN h)
    PROVE  Copied(CopyIn(m, h))
<1> SUFFICES ASSUME NEW k \in DOMAIN m PROVE Plain(CopyIn(m, h)[k])
  BY DEF Copied, CopyIn
<1>1. CASE m[k][1] = "ref"
  <2>1. CopyIn(m, h)[k] = <<"object", h[m[k][2]]>>
    BY <1>1 DEF CopyIn, Obj
  <2>2. m[k][2] \in DOMAIN h
    BY <1>1 DEF MapIn
  <2> QED BY <2>1, <2>2 DEF Plain, NoRefs
<1>2. CASE m[k][1] # "ref"
  <2>1. CopyIn(m, h)[k] = m[k] /\ m[k][1] # "object"
    BY <1>2 DEF CopyIn, MapIn
  <2> QED BY <1>2, <2>1 DEF Plain
<1> QED BY <1>1, <1>2

LEMMA CopiedFacts ==
    ASSUME NoRefs(heap)
    PROVE  /\ \A m : MapIn(m, DOMAIN heap) => Copied(Copy(m))
           /\ \A ps : ProfilesIn(ps, DOMAIN heap) =>
                 CopiedProfiles(CopyProfiles(ps)) /\ DOMAIN CopyProfiles(ps) = DOMAIN ps
<1>1. ASSUME NEW m, MapIn(m, DOMAIN heap) PROVE Copied(Copy(m))
  <2>1. Copy(m) = CopyIn(m, heap)
    BY DEF Copy, CopyIn, Content
  <2> QED BY <1>1, <2>1, CopyFacts
<1>2. ASSUME NEW ps, ProfilesIn(ps, DOMAIN heap), NEW n \in DOMAIN ps
      PROVE  /\ n \in Names /\ Profile(CopyProfiles(ps)[n])
             /\ Copied(CopyProfiles(ps)[n].config)
  <2>1. /\ n \in Names /\ ps[n] = [base |-> ps[n].base, config |-> ps[n].config]
        /\ MapIn(ps[n].config, DOMAIN heap)
    BY <1>2 DEF ProfilesIn, Profile
  <2>2. CopyProfiles(ps)[n] = [base |-> ps[n].base, config |-> Copy(ps[n].config)]
    BY <2>1 DEF CopyProfiles
  <2>3. Copied(Copy(ps[n].config))
    BY <1>1, <2>1
  <2> QED BY <2>1, <2>2, <2>3 DEF Profile
<1>3. \A ps : DOMAIN CopyProfiles(ps) = DOMAIN ps
  BY DEF CopyProfiles
<1> QED BY <1>1, <1>2, <1>3 DEF CopiedProfiles

LEMMA ParsedFacts ==
    ASSUME NEW copy, Copied(copy), NEW h
    PROVE  /\ MapIn(Parsed(copy, h), DOMAIN Objects(copy, h))
           /\ NoRefs(Objects(copy, h))
           /\ \A i \in DOMAIN Objects(copy, h) : i[2] = h
<1> DEFINE sections == {k \in DOMAIN copy : copy[k][1] = "object"}
           o == Objects(copy, h)
<1>1. \A k : Id(h, k) = <<count.calls, h, k>> /\ Id(h, k)[2] = h /\ Id(h, k)[3] = k
  BY DEF Id
<1>2. o = [i \in {Id(h, k) : k \in sections} |-> copy[i[3]][2]]
  BY DEF Objects
<1>3. \A k \in sections : Id(h, k) \in DOMAIN o /\ o[Id(h, k)] = copy[k][2]
  BY <1>1, <1>2
<1>4. \A i \in DOMAIN o : \E k \in sections : i = Id(h, k)
  BY <1>2
<1> HIDE DEF o
<1>5. MapIn(Parsed(copy, h), DOMAIN o)
  <2> SUFFICES ASSUME NEW k \in DOMAIN copy
               PROVE  IF Parsed(copy, h)[k][1] = "ref" THEN Parsed(copy, h)[k][2] \in DOMAIN o
                      ELSE Parsed(copy, h)[k][1] # "object"
    BY DEF MapIn, Parsed
  <2>1. CASE copy[k][1] = "object"
    <3>1. Parsed(copy, h)[k] = <<"ref", Id(h, k)>>
      BY <2>1 DEF Parsed
    <3> QED BY <1>3, <2>1, <3>1
  <2>2. CASE copy[k][1] # "object"
    <3>1. Parsed(copy, h)[k] = copy[k] /\ copy[k][1] # "ref"
      BY <2>2 DEF Parsed, Copied, Plain
    <3> QED BY <2>2, <3>1
  <2> QED BY <2>1, <2>2
<1>6. NoRefs(o)
  BY <1>3, <1>4 DEF NoRefs, Copied, Plain
<1> QED BY <1>1, <1>4, <1>5, <1>6 DEF o

LEMMA ParsedProfilesFacts ==
    ASSUME NEW ps, CopiedProfiles(ps), NEW by
    PROVE  /\ DOMAIN ParsedProfiles(ps, by) = DOMAIN ps
           /\ ProfilesIn(ParsedProfiles(ps, by), DOMAIN ProfileObjects(ps, by))
           /\ NoRefs(ProfileObjects(ps, by))
           /\ \A i \in DOMAIN ProfileObjects(ps, by) : i[2][1] = by
<1> DEFINE o == ProfileObjects(ps, by)
           ob(n) == Objects(ps[n].config, <<by, n>>)
<1>1. /\ DOMAIN o = UNION {DOMAIN ob(n) : n \in DOMAIN ps}
      /\ \A i \in DOMAIN o : o[i] = ps[i[2][2]].config[i[3]][2]
      /\ DOMAIN ParsedProfiles(ps, by) = DOMAIN ps
  BY DEF ProfileObjects, ParsedProfiles
<1>2. \A n \in DOMAIN ps : Copied(ps[n].config) /\ n \in Names /\ Profile(ps[n])
  BY DEF CopiedProfiles
<1>3. ASSUME NEW n \in DOMAIN ps, NEW i \in DOMAIN ob(n)
      PROVE  /\ i[2] = <<by, n>> /\ i[2][1] = by /\ i[2][2] = n
             /\ ob(n)[i] = ps[n].config[i[3]][2]
  <2>1. i[2] = <<by, n>>
    BY <1>2, <1>3, ParsedFacts
  <2>2. ob(n)[i] = ps[n].config[i[3]][2]
    BY <1>3 DEF Objects
  <2> QED BY <2>1, <2>2
<1> HIDE DEF o
<1>4. \A i \in DOMAIN o : \E n \in DOMAIN ps : i \in DOMAIN ob(n)
  BY <1>1
<1>5. NoRefs(o)
  <2> SUFFICES ASSUME NEW i \in DOMAIN o, NEW p \in DOMAIN o[i] PROVE o[i][p][1] # "ref"
    BY DEF NoRefs
  <2>1. PICK n \in DOMAIN ps : i \in DOMAIN ob(n)
    BY <1>4
  <2>2. o[i] = ob(n)[i]
    <3>1. i[2][2] = n /\ ob(n)[i] = ps[n].config[i[3]][2]
      BY <1>3, <2>1
    <3>2. o[i] = ps[i[2][2]].config[i[3]][2]
      BY <1>1
    <3> QED BY <3>1, <3>2
  <2>3. NoRefs(ob(n))
    BY <1>2, ParsedFacts
  <2> QED BY <2>1, <2>2, <2>3 DEF NoRefs
<1>6. ASSUME NEW n \in DOMAIN ps
      PROVE  /\ Profile(ParsedProfiles(ps, by)[n])
             /\ MapIn(ParsedProfiles(ps, by)[n].config, DOMAIN o)
  <2>1. ps[n] = [base |-> ps[n].base, config |-> ps[n].config]
    BY <1>2 DEF Profile
  <2>2. ParsedProfiles(ps, by)[n] = [base |-> ps[n].base, config |-> Parsed(ps[n].config, <<by, n>>)]
    BY <2>1 DEF ParsedProfiles
  <2>3. MapIn(Parsed(ps[n].config, <<by, n>>), DOMAIN ob(n))
    BY <1>2, ParsedFacts
  <2>4. DOMAIN ob(n) \subseteq DOMAIN o
    BY <1>1
  <2>5. MapIn(Parsed(ps[n].config, <<by, n>>), DOMAIN o)
    BY <2>3, <2>4 DEF MapIn
  <2> QED BY <2>2, <2>5 DEF Profile
<1>7. \A i \in DOMAIN o : i[2][1] = by
  BY <1>3, <1>4
<1> QED BY <1>1, <1>2, <1>5, <1>6, <1>7 DEF ProfilesIn, o

\* More objects do a map no harm.
LEMMA MapsGrow ==
    ASSUME NEW ids, NEW more, ids \subseteq more
    PROVE  /\ \A m : MapIn(m, ids) => MapIn(m, more)
           /\ \A ps : ProfilesIn(ps, ids) => ProfilesIn(ps, more)
BY DEF MapIn, ProfilesIn
-----------------------------------------------------------------------------
(* Configuration: the calls in progress. *)

BootAt == {"profiles", "current", "data"}
CallerAt == {"notify", "notifyall", "save", "finish", "imported", "persist"}
AtOf(c) == IF c = Boot THEN BootAt ELSE CallerAt

Shape(r, at) ==
    /\ at \in BootAt => r.op = "get" /\ r.key = at /\ (at = "data" => r.profile \in Names)
    /\ at \in {"notify", "notifyall", "save"} =>
          r.op = "put" /\ r.key = "data" /\ r.profile \in Names /\ Copied(r.value)
    /\ at \in {"finish", "imported"} => r.op = "put" /\ r.key = "profiles" /\ CopiedProfiles(r.value)
    /\ at = "persist" => r.op = "put" /\ r.key = "current" /\ r.value \in Names

IsCall(x) == x = [at |-> x.at, path |-> x.path, value |-> x.value]

PendingOK(p) ==
    /\ DOMAIN p = Callers \union {Boot}
    /\ \A c \in DOMAIN p : IsCall(p[c]) /\ (p[c].at = "idle" \/ p[c].at \in AtOf(c))

\* A call in progress waits for one request.
QueueOK(q, p) ==
    /\ IsSeq(q) /\ PendingOK(p)
    /\ \A i \in DOMAIN q :
          q[i].by \in DOMAIN p /\ p[q[i].by].at # "idle" /\ Shape(q[i], p[q[i].by].at)
    /\ \A i, j \in DOMAIN q : q[i].by = q[j].by => i = j
    /\ \A c \in DOMAIN p : p[c].at # "idle" => \E i \in DOMAIN q : q[i].by = c

LEMMA RequestRemoved ==
    ASSUME NEW q, NEW p, QueueOK(q, p), q # <<>>
    PROVE  QueueOK(Tail(q), [p EXCEPT ![Head(q).by] = NoCall])
<1> DEFINE r == Tail(q)    n == Len(q)    c == q[1].by    s == [p EXCEPT ![c] = NoCall]
<1>1. /\ n \in Nat \ {0} /\ DOMAIN q = 1..n /\ DOMAIN r = 1..n - 1 /\ Head(q) = q[1] /\ IsSeq(r)
      /\ \A k \in 1..n - 1 : r[k] = q[k + 1]
  BY SeqFacts DEF QueueOK
<1>2. /\ 1 \in 1..n /\ \A k \in 1..n - 1 : k + 1 \in 1..n /\ k + 1 # 1
      /\ \A k, m \in 1..n - 1 : k + 1 = m + 1 => k = m
      /\ \A m \in 1..n : m # 1 => \E k \in 1..n - 1 : m = k + 1
  <2>1. ASSUME NEW m \in 1..n, m # 1 PROVE m - 1 \in 1..n - 1 /\ m = (m - 1) + 1
    BY <1>1, <2>1
  <2>2. ASSUME NEW m \in 1..n, m # 1 PROVE \E k \in 1..n - 1 : m = k + 1
    BY <2>1, <2>2
  <2> QED BY <1>1, <2>2
<1> HIDE DEF r, n
<1>3. c \in DOMAIN p
  BY <1>1, <1>2 DEF QueueOK
<1>4. DOMAIN s = DOMAIN p /\ s[c] = NoCall /\ \A d \in DOMAIN p : d # c => s[d] = p[d]
  BY <1>3
<1> HIDE DEF s
<1>5. PendingOK(s)
  <2>1. NoCall.at = "idle" /\ IsCall(NoCall)
    BY DEF NoCall, IsCall
  <2> QED BY <1>3, <1>4, <2>1 DEF QueueOK, PendingOK
<1>6. ASSUME NEW k \in 1..n - 1 PROVE r[k].by # c
  <2>1. k + 1 \in 1..n /\ k + 1 # 1 /\ 1 \in 1..n /\ r[k] = q[k + 1]
    BY <1>1, <1>2
  <2> QED BY <1>1, <2>1 DEF QueueOK
<1>7. ASSUME NEW k \in 1..n - 1
      PROVE  r[k].by \in DOMAIN s /\ s[r[k].by].at # "idle" /\ Shape(r[k], s[r[k].by].at)
  <2>1. k + 1 \in 1..n /\ r[k] = q[k + 1] /\ r[k].by # c
    BY <1>1, <1>2, <1>6
  <2>2. r[k].by \in DOMAIN p /\ p[r[k].by].at # "idle" /\ Shape(r[k], p[r[k].by].at)
    BY <1>1, <2>1 DEF QueueOK
  <2> QED BY <1>4, <2>1, <2>2
<1>8. \A k, m \in 1..n - 1 : r[k].by = r[m].by => k = m
  BY <1>1, <1>2 DEF QueueOK
<1>9. ASSUME NEW d \in DOMAIN s, s[d].at # "idle" PROVE \E k \in 1..n - 1 : r[k].by = d
  <2>1. d # c
    BY <1>4, <1>9 DEF NoCall
  <2>2. PICK m \in 1..n : q[m].by = d
    BY <1>1, <1>4, <1>9, <2>1 DEF QueueOK
  <2> QED BY <1>1, <1>2, <2>1, <2>2
<1>10. QueueOK(r, s)
  BY <1>1, <1>5, <1>7, <1>8, <1>9 DEF QueueOK
<1> QED BY <1>1, <1>10 DEF r, s

LEMMA RequestAdded ==
    ASSUME NEW q, NEW p, QueueOK(q, p), NEW c \in DOMAIN p, p[c].at = "idle",
           NEW x, IsCall(x), x.at \in AtOf(c), NEW e, e.by = c, Shape(e, x.at)
    PROVE  QueueOK(Append(q, e), [p EXCEPT ![c] = x])
<1> DEFINE a == Append(q, e)    n == Len(q)    s == [p EXCEPT ![c] = x]
<1>1. /\ n \in Nat /\ DOMAIN q = 1..n /\ DOMAIN a = 1..n + 1 /\ IsSeq(a) /\ a[n + 1] = e
      /\ \A k \in 1..n : a[k] = q[k]
  BY SeqFacts, SeqAppended DEF QueueOK
<1>2. /\ \A m \in 1..n + 1 : m \in 1..n \/ m = n + 1
      /\ \A k \in 1..n : k \in 1..n + 1
      /\ n + 1 \in 1..n + 1
  BY <1>1
<1>3. DOMAIN s = DOMAIN p /\ s[c] = x /\ \A d \in DOMAIN p : d # c => s[d] = p[d]
  OBVIOUS
<1> HIDE DEF a, n, s
<1>4. x.at # "idle"
  BY DEF AtOf, BootAt, CallerAt
<1>5. PendingOK(s)
  BY <1>3 DEF QueueOK, PendingOK
<1>6. \A k \in 1..n : q[k].by # c
  BY <1>1 DEF QueueOK
<1>7. \A k \in 1..n + 1 : a[k].by \in DOMAIN s /\ s[a[k].by].at # "idle" /\ Shape(a[k], s[a[k].by].at)
  <2>1. \A k \in 1..n : a[k].by \in DOMAIN s /\ s[a[k].by].at # "idle" /\ Shape(a[k], s[a[k].by].at)
    BY <1>1, <1>3, <1>6 DEF QueueOK
  <2>2. a[n + 1].by = c /\ s[c].at # "idle" /\ Shape(a[n + 1], s[c].at) /\ c \in DOMAIN s
    BY <1>1, <1>3, <1>4
  <2> QED BY <1>2, <2>1, <2>2
<1>8. \A k, m \in 1..n + 1 : a[k].by = a[m].by => k = m
  <2>1. \A k, m \in 1..n : a[k].by = a[m].by => k = m
    BY <1>1 DEF QueueOK
  <2>2. \A k \in 1..n : a[k].by # c
    BY <1>1, <1>6
  <2>3. a[n + 1].by = c
    BY <1>1
  <2> QED BY <1>2, <2>1, <2>2, <2>3
<1>9. ASSUME NEW d \in DOMAIN s, s[d].at # "idle" PROVE \E k \in 1..n + 1 : a[k].by = d
  <2>1. CASE d = c
    BY <1>1, <1>2, <2>1
  <2>2. CASE d # c
    <3>1. PICK k \in 1..n : q[k].by = d
      BY <1>1, <1>3, <1>9, <2>2 DEF QueueOK
    <3> QED BY <1>1, <1>2, <3>1
  <2> QED BY <2>1, <2>2
<1>10. QueueOK(a, s)
  BY <1>1, <1>5, <1>7, <1>8, <1>9 DEF QueueOK
<1> QED BY <1>10 DEF a, s

LEMMA RequestMoved ==
    ASSUME NEW q, NEW p, QueueOK(q, p), q # <<>>,
           NEW c, c = Head(q).by, NEW at \in AtOf(c), NEW e, e.by = c, Shape(e, at)
    PROVE  /\ QueueOK(Append(Tail(q), e), [p EXCEPT ![c].at = at])
           /\ [p EXCEPT ![c].at = at][c].at = at
<1> DEFINE s == [p EXCEPT ![c] = NoCall]
           x == [at |-> at, path |-> p[c].path, value |-> p[c].value]
<1>1. c \in DOMAIN p /\ IsCall(p[c])
  <2>1. 1 \in DOMAIN q /\ Head(q) = q[1]
    BY SeqFacts DEF QueueOK
  <2> QED BY <2>1 DEF QueueOK, PendingOK
<1>2. QueueOK(Tail(q), s)
  BY RequestRemoved
<1>3. s[c].at = "idle" /\ c \in DOMAIN s
  BY <1>1 DEF NoCall
<1>4. IsCall(x) /\ x.at = at
  BY DEF IsCall
<1>5. [p EXCEPT ![c].at = at] = [s EXCEPT ![c] = x]
  <2>1. [p[c] EXCEPT !.at = at] = x
    BY <1>1 DEF IsCall
  <2>2. [p EXCEPT ![c].at = at] = [d \in DOMAIN p |-> IF d = c THEN x ELSE p[d]]
    BY <2>1
  <2>3. [s EXCEPT ![c] = x] = [d \in DOMAIN p |-> IF d = c THEN x ELSE p[d]]
    OBVIOUS
  <2> QED BY <2>2, <2>3
<1> HIDE DEF s, x
<1>6. QueueOK(Append(Tail(q), e), [s EXCEPT ![c] = x])
  BY <1>2, <1>3, <1>4, RequestAdded
<1>7. [s EXCEPT ![c] = x][c].at = at
  BY <1>3, <1>4
<1> QED BY <1>5, <1>6, <1>7
-----------------------------------------------------------------------------
(* Configuration: the types. *)

\* Objects of the properties are made by set, each for its key.
OwnIds(m) == \A k \in DOMAIN m : m[k][1] = "ref" => m[k][2][2] = <<"set", "own">> /\ m[k][2][3] = k

MemoryOK ==
    /\ MapIn(own, DOMAIN heap) /\ MapIn(entries, DOMAIN heap) /\ ProfilesIn(profiles, DOMAIN heap)
    /\ NoRefs(heap) /\ OwnIds(own)
    /\ current \in Names /\ owner \in Names

StoreOK(s) ==
    /\ s = [profiles |-> s.profiles, current |-> s.current, data |-> s.data]
    /\ \A ps \in s.profiles : CopiedProfiles(ps)
    /\ s.current \subseteq Names
    /\ DOMAIN s.data = Names
    /\ \A n \in Names : \A d \in s.data[n] : Copied(d.config)

ExportOK(texts) == \A t \in texts : Copied(t.config) /\ CopiedProfiles(t.profiles)

ConfigTypes == QueueOK(queue, pending) /\ MemoryOK /\ StoreOK(store) /\ ExportOK(exported)

LEMMA ConstructedTypes == QueueOK(<<Read("profiles")>>, Constructed)
<1> DEFINE r == Read("profiles")    q == <<r>>
<1>1. r.by = Boot /\ Shape(r, "profiles")
  BY DEF Read, Shape, BootAt
<1> HIDE DEF r
<1>2. IsSeq(q) /\ DOMAIN q = {1} /\ q[1] = r
  <2>1. q \in Seq({r}) /\ DOMAIN q = {1} /\ q[1] = r
    OBVIOUS
  <2> HIDE DEF q
  <2> QED BY <2>1 DEF IsSeq
<1>3. /\ DOMAIN Constructed = Callers \union {Boot}
      /\ \A c \in Callers \union {Boot} :
            /\ IsCall(Constructed[c])
            /\ Constructed[c].at = IF c = Boot THEN "profiles" ELSE "idle"
  BY DEF Constructed, NoCall, IsCall
<1> HIDE DEF q
<1>4. PendingOK(Constructed)
  BY <1>3 DEF PendingOK, AtOf, BootAt
<1>5. QueueOK(q, Constructed)
  BY <1>1, <1>2, <1>3, <1>4 DEF QueueOK
<1> QED BY <1>5 DEF q, r

LEMMA ConfigTypesInit == ConfigInit => ConfigTypes
<1> SUFFICES ASSUME ConfigInit PROVE ConfigTypes
  OBVIOUS
<1>1. MemoryOK
  BY DEF ConfigInit, MemoryOK, NoMap, MapIn, ProfilesIn, NoRefs, OwnIds, Names
<1>2. StoreOK(store) /\ ExportOK(exported)
  BY DEF ConfigInit, StoreOK, ExportOK
<1> QED BY <1>1, <1>2, ConstructedTypes DEF ConfigInit, ConfigTypes

\* What serving a request stores.
LEMMA ServedFacts ==
    ASSUME ConfigTypes, NEW c, NEW at, Served(c, at)
    PROVE  /\ queue # <<>> /\ Head(queue).by = c /\ pending[c].at = at /\ Shape(Head(queue), at)
           /\ c \in DOMAIN pending
           /\ StoreOK(store')
           /\ \A key \in {"profiles", "current"} :
                 store'[key] = IF Puts(Head(queue), key) THEN {Head(queue).value} ELSE store[key]
           /\ store'.data = IF Puts(Head(queue), "data")
                  THEN [store.data EXCEPT ![Head(queue).profile] =
                                              {[config |-> Head(queue).value, of |-> Head(queue).of]}]
                  ELSE store.data
           /\ \A n \in Names : \A d \in store'.data[n] :
                  d \in store.data[n] \/ (Puts(Head(queue), "data") /\ n = Head(queue).profile /\ d.of = Head(queue).of)
<1>1. PICK r : r = Head(queue)
  OBVIOUS
<1>2. /\ queue # <<>> /\ r.by = c /\ pending[c].at = at /\ c \in DOMAIN pending /\ Shape(r, at)
      /\ at \in BootAt \union CallerAt
  <2>1. queue # <<>> /\ r.by = c /\ pending[c].at = at
    BY <1>1 DEF Served
  <2>2. 1 \in DOMAIN queue /\ r = queue[1]
    BY <1>1, <2>1, SeqFacts DEF ConfigTypes, QueueOK
  <2> QED BY <2>1, <2>2 DEF ConfigTypes, QueueOK, PendingOK, AtOf
<1>3. store' = IF r.op = "get" THEN store
               ELSE IF r.key = "data"
                 THEN [store EXCEPT !.data[r.profile] = {[config |-> r.value, of |-> r.of]}]
               ELSE [store EXCEPT ![r.key] = {r.value}]
  BY <1>1 DEF Served
<1>4. /\ store = [profiles |-> store.profiles, current |-> store.current, data |-> store.data]
      /\ StoreOK(store)
  BY DEF ConfigTypes, StoreOK
<1>5. CASE at \in BootAt
  <2>1. r.op = "get"
    BY <1>2, <1>5 DEF Shape
  <2> QED BY <1>1, <1>2, <1>3, <1>4, <2>1 DEF Puts
<1>6. CASE at \in {"notify", "notifyall", "save"}
  <2>1. r.op = "put" /\ r.key = "data" /\ r.profile \in Names /\ Copied(r.value)
    BY <1>2, <1>6 DEF Shape
  <2> DEFINE d == [config |-> r.value, of |-> r.of]
  <2>2. store' = [store EXCEPT !.data[r.profile] = {d}]
    BY <1>3, <2>1
  <2>3. d.config = r.value /\ d.of = r.of
    OBVIOUS
  <2> HIDE DEF d
  <2>4. /\ store'.data = [store.data EXCEPT ![r.profile] = {d}]
        /\ store'.profiles = store.profiles /\ store'.current = store.current
        /\ store' = [profiles |-> store.profiles, current |-> store.current,
                     data |-> [store.data EXCEPT ![r.profile] = {d}]]
    BY <1>4, <2>2
  <2>5. DOMAIN store'.data = Names /\ \A n \in Names : store'.data[n] = IF n = r.profile THEN {d} ELSE store.data[n]
    BY <1>4, <2>1, <2>4 DEF StoreOK
  <2>6. StoreOK(store')
    BY <1>4, <2>1, <2>3, <2>4, <2>5 DEF StoreOK
  <2>7. ~Puts(r, "profiles") /\ ~Puts(r, "current") /\ Puts(r, "data")
    BY <2>1 DEF Puts
  <2>8. \A n \in Names : \A x \in store'.data[n] : x \in store.data[n] \/ (n = r.profile /\ x.of = r.of)
    BY <2>3, <2>5
  <2> QED BY <1>1, <1>2, <2>4, <2>6, <2>7, <2>8 DEF d
<1>7. CASE at \in {"finish", "imported"}
  <2>1. r.op = "put" /\ r.key = "profiles" /\ CopiedProfiles(r.value)
    BY <1>2, <1>7 DEF Shape
  <2>2. store' = [profiles |-> {r.value}, current |-> store.current, data |-> store.data]
    BY <1>3, <1>4, <2>1
  <2>3. StoreOK(store')
    BY <1>4, <2>1, <2>2 DEF StoreOK
  <2>4. Puts(r, "profiles") /\ ~Puts(r, "current") /\ ~Puts(r, "data")
    BY <2>1 DEF Puts
  <2> QED BY <1>1, <1>2, <2>2, <2>3, <2>4
<1>8. CASE at = "persist"
  <2>1. r.op = "put" /\ r.key = "current" /\ r.value \in Names
    BY <1>2, <1>8 DEF Shape
  <2>2. store' = [profiles |-> store.profiles, current |-> {r.value}, data |-> store.data]
    BY <1>3, <1>4, <2>1
  <2>3. StoreOK(store')
    BY <1>4, <2>1, <2>2 DEF StoreOK
  <2>4. ~Puts(r, "profiles") /\ Puts(r, "current") /\ ~Puts(r, "data")
    BY <2>1 DEF Puts
  <2> QED BY <1>1, <1>2, <2>2, <2>3, <2>4
<1> QED BY <1>2, <1>5, <1>6, <1>7, <1>8 DEF CallerAt

\* The assignment of set: what get returns is the value, and no other section
\* is another's.
LEMMA AssignFacts ==
    ASSUME MemoryOK, NEW path, Len(path) \in {1, 2}, NEW value, Plain(value),
           value = <<value[1], value[2]>>, Assign(path, value)
    PROVE  /\ MapIn(own', DOMAIN heap') /\ NoRefs(heap') /\ OwnIds(own')
           /\ DOMAIN heap \subseteq DOMAIN heap'
           /\ (Content(GetSetting(path)) = value)'
<1> DEFINE k == path[1]    fresh == Id(<<"set", "own">>, k)    id == own[k][2]
<1>1. fresh[2] = <<"set", "own">> /\ fresh[3] = k
  BY DEF Id
<1>2. value[1] # "ref"
  BY DEF Plain
<1>3. CASE Len(path) = 2 /\ HasSection(k)
  <2>0. k \in DOMAIN own
    BY <1>3 DEF HasSection
  <2>1. /\ own[k][1] = "ref" /\ own' = own
        /\ heap' = [heap EXCEPT ![id] = With(heap[id], path[2], value)]
    BY <1>3 DEF Assign
  <2>2. id \in DOMAIN heap
    BY <2>0, <2>1 DEF MemoryOK, MapIn
  <2>3. /\ DOMAIN heap' = DOMAIN heap /\ heap'[id] = With(heap[id], path[2], value)
        /\ \A i \in DOMAIN heap : i # id => heap'[i] = heap[i]
    BY <2>1, <2>2
  <2>4. NoRefs(heap')
    <3> SUFFICES ASSUME NEW i \in DOMAIN heap', NEW p \in DOMAIN heap'[i] PROVE heap'[i][p][1] # "ref"
      BY DEF NoRefs
    <3>1. CASE i = id
      <4>1. p = path[2] => heap'[i][p] = value
        BY <2>3, <3>1 DEF With
      <4>2. p # path[2] => p \in DOMAIN heap[id] /\ heap'[i][p] = heap[id][p]
        BY <2>3, <3>1 DEF With
      <4> QED BY <1>2, <2>2, <4>1, <4>2 DEF MemoryOK, NoRefs
    <3>2. CASE i # id
      BY <2>3, <3>2 DEF MemoryOK, NoRefs
    <3> QED BY <3>1, <3>2
  <2>5. (Content(GetSetting(path)) = value)'
    <3>1. path[2] \in DOMAIN heap'[id] /\ heap'[id][path[2]] = value
      BY <2>3 DEF With
    <3>2. (Content(own[k]))' = <<"object", heap'[id]>>
      BY <2>1 DEF Content, Obj
    <3>3. (GetSetting(path))' = value
      BY <1>3, <2>0, <2>1, <3>1, <3>2 DEF GetSetting
    <3>4. Content(GetSetting(path))' = value
      BY <1>2, <3>3 DEF Content
    <3> QED BY <3>4
  <2> QED BY <2>1, <2>3, <2>4, <2>5 DEF MemoryOK
<1>4. CASE ~(Len(path) = 2 /\ HasSection(k)) /\ (Len(path) = 2 \/ value[1] = "object")
  <2> DEFINE section == IF Len(path) = 2 THEN With(NoMap, path[2], value) ELSE value[2]
  <2>1. heap' = With(heap, fresh, section) /\ own' = With(own, k, <<"ref", fresh>>)
    BY <1>4 DEF Assign
  <2>2. \A p \in DOMAIN section : section[p][1] # "ref"
    <3>1. CASE Len(path) = 2
      <4>1. DOMAIN section = {path[2]} /\ section[path[2]] = value
        BY <3>1 DEF NoMap, With
      <4> QED BY <1>2, <4>1
    <3>2. CASE Len(path) # 2
      BY <1>4, <3>2 DEF Plain
    <3> QED BY <3>1, <3>2
  <2>3. /\ DOMAIN heap' = DOMAIN heap \union {fresh} /\ heap'[fresh] = section
        /\ \A i \in DOMAIN heap : i # fresh => heap'[i] = heap[i]
    BY <2>1 DEF With
  <2>4. /\ DOMAIN own' = DOMAIN own \union {k} /\ own'[k] = <<"ref", fresh>>
        /\ \A x \in DOMAIN own : x # k => own'[x] = own[x]
    BY <2>1 DEF With
  <2>5. NoRefs(heap')
    BY <2>2, <2>3 DEF NoRefs, MemoryOK
  <2>6. MapIn(own', DOMAIN heap')
    BY <2>3, <2>4 DEF MapIn, MemoryOK
  <2>7. OwnIds(own')
    BY <1>1, <2>4 DEF OwnIds, MemoryOK
  <2>8. (Content(GetSetting(path)) = value)'
    <3>1. (Content(own[k]))' = <<"object", section>>
      BY <2>3, <2>4 DEF Content, Obj
    <3>2. CASE Len(path) = 2
      <4>1. path[2] \in DOMAIN section /\ section[path[2]] = value
        BY <3>2 DEF With
      <4>2. (GetSetting(path))' = value
        BY <2>4, <3>1, <3>2, <4>1 DEF GetSetting
      <4>3. Content(GetSetting(path))' = value
        BY <1>2, <4>2 DEF Content
      <4> QED BY <4>3
    <3>3. CASE Len(path) # 2
      <4>1. Len(path) = 1 /\ section = value[2]
        BY <3>3
      <4>2. (GetSetting(path))' = own'[k]
        BY <2>4, <4>1 DEF GetSetting
      <4>3. Content(GetSetting(path))' = <<"object", value[2]>>
        BY <2>3, <2>4, <4>1, <4>2 DEF Content, Obj
      <4>4. value = <<"object", value[2]>>
        <5>1. value[1] = "object"
          BY <1>4, <3>3
        <5> QED BY <5>1
      <4> QED BY <4>3, <4>4
    <3> QED BY <3>2, <3>3
  <2> QED BY <2>3, <2>5, <2>6, <2>7, <2>8
<1>5. CASE Len(path) # 2 /\ value[1] # "object"
  <2>1. own' = With(own, k, value) /\ heap' = heap
    BY <1>5 DEF Assign
  <2>2. /\ DOMAIN own' = DOMAIN own \union {k} /\ own'[k] = value
        /\ \A x \in DOMAIN own : x # k => own'[x] = own[x]
    BY <2>1 DEF With
  <2>3. NoRefs(heap')
    BY <2>1 DEF NoRefs, MemoryOK
  <2>4. MapIn(own', DOMAIN heap') /\ OwnIds(own')
    BY <1>2, <1>5, <2>1, <2>2 DEF MapIn, OwnIds, MemoryOK
  <2>5. (GetSetting(path))' = value
    BY <1>5, <2>2 DEF GetSetting
  <2>6. Content(GetSetting(path))' = value
    BY <1>2, <2>5 DEF Content
  <2> QED BY <2>1, <2>3, <2>4, <2>6
<1> QED BY <1>3, <1>4, <1>5
-----------------------------------------------------------------------------
(* Configuration: the types are kept. *)

LEMMA PathFacts ==
    ASSUME NEW path, IsPath(path)
    PROVE  /\ Len(path) \in {1, 2}
           /\ Len(path) = 1 => path = <<path[1]>>
           /\ Len(path) = 2 => path = <<path[1], path[2]>>
<1>1. CASE path = <<path[1]>>
  <2>1. Len(path) = 1
    BY <1>1
  <2> QED BY <1>1, <2>1
<1>2. CASE path = <<path[1], path[2]>>
  <2>1. Len(path) = 2
    BY <1>2
  <2> QED BY <1>2, <2>1
<1> QED BY <1>1, <1>2 DEF IsPath

\* What a widget hands to set().
LEMMA ProducedFacts ==
    ASSUME NEW w, NEW schema, NEW v \in Produces(w, schema)
    PROVE  Plain(v) /\ v = <<v[1], v[2]>>
<1>1. \/ \E x : v = <<"boolean", x>> \/ v = <<"number", x>> \/ v = <<"string", x>> \/ v = <<"array", x>>
      \/ v = <<"object", <<>>>>
  BY DEF Produces, Bool, Number, Str, Obj, Arr
<1>2. CASE v = <<"object", <<>>>>
  BY <1>2 DEF Plain
<1>3. CASE \E x : v = <<"boolean", x>> \/ v = <<"number", x>> \/ v = <<"string", x>> \/ v = <<"array", x>>
  BY <1>3 DEF Plain
<1> QED BY <1>1, <1>2, <1>3

LEMMA CallersFacts == Boot \notin Callers /\ \A c \in Callers : AtOf(c) = CallerAt
BY ConfigAssumption DEF Boot, AtOf

\* A call is made.
LEMMA CallMade ==
    ASSUME ConfigTypes, NEW c, ConfigCall(c), NEW at \in CallerAt, NEW path, NEW value,
           Wait(c, at, path, value), NEW r, r.by = c, Shape(r, at), queue' = Append(queue, r)
    PROVE  QueueOK(queue', pending')
<1> DEFINE x == [at |-> at, path |-> path, value |-> value]
<1>1. c \in Callers /\ pending[c].at = "idle" /\ c \in DOMAIN pending
  BY DEF ConfigCall, NoCall, ConfigTypes, QueueOK, PendingOK
<1>2. IsCall(x) /\ x.at = at
  BY DEF IsCall
<1>3. pending' = [pending EXCEPT ![c] = x]
  BY DEF Wait
<1> HIDE DEF x
<1> QED BY <1>1, <1>2, <1>3, CallersFacts, RequestAdded DEF ConfigTypes

\* A request is served, and its call goes on or ends.
LEMMA CallServed ==
    ASSUME ConfigTypes, NEW c, NEW at, Served(c, at)
    PROVE  /\ Finish(c) => QueueOK(queue', pending')
           /\ \A to \in AtOf(c) : \A r : r.by = c /\ Shape(r, to) /\ GoOn(c, to, r) => QueueOK(queue', pending')
<1>1. queue # <<>> /\ Head(queue).by = c /\ QueueOK(queue, pending)
  BY DEF Served, ConfigTypes
<1>2. ASSUME Finish(c) PROVE QueueOK(queue', pending')
  BY <1>1, <1>2, RequestRemoved DEF Finish
<1>3. ASSUME NEW to \in AtOf(c), NEW r, r.by = c, Shape(r, to), GoOn(c, to, r) PROVE QueueOK(queue', pending')
  BY <1>1, <1>3, RequestMoved DEF GoOn
<1> QED BY <1>2, <1>3

\* The requests of the calls.
LEMMA RequestShapes ==
    ASSUME NEW c, NEW at
    PROVE  /\ at \in {"notify", "notifyall", "save"} =>
                 \A es, profile : Copied(es) /\ profile \in Names => Shape(Persist(c, es, profile), at)
           /\ at \in {"finish", "imported"} =>
                 \A ps : CopiedProfiles(ps) => Shape(SaveProfiles(c, ps), at)
           /\ \A es, profile : Persist(c, es, profile).by = c
           /\ \A ps : SaveProfiles(c, ps).by = c
BY DEF Persist, SaveProfiles, Shape, BootAt

\* Copies of what is in memory, primed or not, hold no references.
LEMMA CopiesNow ==
    ASSUME MemoryOK
    PROVE  Copied(Copy(entries)) /\ CopiedProfiles(CopyProfiles(profiles))
BY CopiedFacts DEF MemoryOK

LEMMA CopiesNext ==
    ASSUME MemoryOK'
    PROVE  Copied(Copy(entries)') /\ CopiedProfiles(CopyProfiles(profiles)')
<1>1. MapIn(entries', DOMAIN heap') /\ ProfilesIn(profiles', DOMAIN heap') /\ NoRefs(heap')
  BY DEF MemoryOK
<1>2. Copy(entries)' = CopyIn(entries', heap')
  BY DEF Copy, Content, CopyIn
<1>3. ASSUME NEW n \in DOMAIN profiles'
      PROVE  n \in Names /\ Profile(CopyProfiles(profiles)'[n]) /\ Copied(CopyProfiles(profiles)'[n].config)
  <2>1. /\ n \in Names /\ profiles'[n] = [base |-> profiles'[n].base, config |-> profiles'[n].config]
        /\ MapIn(profiles'[n].config, DOMAIN heap')
    BY <1>1 DEF ProfilesIn, Profile
  <2>2. CopyProfiles(profiles)'[n] = [base |-> profiles'[n].base, config |-> CopyIn(profiles'[n].config, heap')]
    BY <2>1 DEF CopyProfiles, Copy, Content, CopyIn
  <2>3. Copied(CopyIn(profiles'[n].config, heap'))
    BY <1>1, <2>1, CopyFacts
  <2> QED BY <2>1, <2>2, <2>3 DEF Profile
<1>4. DOMAIN CopyProfiles(profiles)' = DOMAIN profiles'
  BY DEF CopyProfiles
<1> QED BY <1>1, <1>2, <1>3, <1>4, CopyFacts DEF CopiedProfiles

LEMMA SetTypes ==
    ASSUME ConfigTypes, NEW c, NEW path, NEW value, IsPath(path), Plain(value),
           value = <<value[1], value[2]>>, Set(c, path, value)
    PROVE  ConfigTypes'
<1>1. MapIn(own', DOMAIN heap') /\ NoRefs(heap') /\ OwnIds(own') /\ DOMAIN heap \subseteq DOMAIN heap'
  BY AssignFacts, PathFacts DEF Set, ConfigTypes
<1>2. MemoryOK'
  BY <1>1, MapsGrow DEF Set, ConfigTypes, MemoryOK
<1>3. Copied(Copy(entries)')
  BY <1>2, CopiesNext
<1>4. QueueOK(queue', pending')
  BY <1>3, CallMade, RequestShapes DEF Set, ConfigTypes, MemoryOK, CallerAt
<1> QED BY <1>2, <1>4 DEF ConfigTypes, Set

LEMMA EditInUITypes == ASSUME ConfigTypes, NEW c, EditInUI(c) PROVE ConfigTypes'
<1>1. PICK s \in DOMAIN BuiltinSchemas :
        \E v \in Produces(DefaultWidget(BuiltinSchemas[s]), BuiltinSchemas[s]) :
            Set(c, <<Category(BuiltinSchemas[s])>>, v)
  BY DEF EditInUI
<1>2. PICK v \in Produces(DefaultWidget(BuiltinSchemas[s]), BuiltinSchemas[s]) :
        Set(c, <<Category(BuiltinSchemas[s])>>, v)
  BY <1>1
<1>3. IsPath(<<Category(BuiltinSchemas[s])>>)
  BY DEF IsPath
<1> QED BY <1>2, <1>3, ProducedFacts, SetTypes

LEMMA DeleteSettingTypes ==
    ASSUME ConfigTypes, NEW c, NEW path, DeleteSetting(c, path)
    PROVE  ConfigTypes'
<1> DEFINE k == path[1]    id == own[k][2]
<1>1. \/ own' = [x \in DOMAIN own \ {k} |-> own[x]] /\ heap' = heap
      \/ /\ own' = own /\ own[k][1] = "ref" /\ k \in DOMAIN own
         /\ heap' = [heap EXCEPT ![id] = [x \in DOMAIN heap[id] \ {path[2]} |-> heap[id][x]]]
      \/ own' = own /\ heap' = heap
  BY DEF DeleteSetting, HasSection
<1>2. MapIn(own', DOMAIN heap') /\ NoRefs(heap') /\ OwnIds(own') /\ DOMAIN heap = DOMAIN heap'
  <2>1. CASE own' = [x \in DOMAIN own \ {k} |-> own[x]] /\ heap' = heap
    BY <2>1 DEF ConfigTypes, MemoryOK, MapIn, OwnIds
  <2>2. CASE /\ own' = own /\ own[k][1] = "ref" /\ k \in DOMAIN own
             /\ heap' = [heap EXCEPT ![id] = [x \in DOMAIN heap[id] \ {path[2]} |-> heap[id][x]]]
    <3>1. id \in DOMAIN heap
      BY <2>2 DEF ConfigTypes, MemoryOK, MapIn
    <3>2. NoRefs(heap')
      BY <2>2, <3>1 DEF ConfigTypes, MemoryOK, NoRefs
    <3> QED BY <2>2, <3>2 DEF ConfigTypes, MemoryOK
  <2>3. CASE own' = own /\ heap' = heap
    BY <2>3 DEF ConfigTypes, MemoryOK
  <2> QED BY <1>1, <2>1, <2>2, <2>3
<1>3. MemoryOK'
  BY <1>2 DEF DeleteSetting, ConfigTypes, MemoryOK
<1>4. Copied(Copy(entries)')
  BY <1>3, CopiesNext
<1>5. QueueOK(queue', pending')
  <2>1. current \in Names /\ "notify" \in CallerAt
    BY DEF ConfigTypes, MemoryOK, CallerAt
  <2>2. Shape(Persist(c, Copy(entries)', current), "notify") /\ Persist(c, Copy(entries)', current).by = c
    BY <1>4, <2>1, RequestShapes
  <2>3. /\ ConfigCall(c) /\ Wait(c, "notify", path, Undefined)
        /\ queue' = Append(queue, Persist(c, Copy(entries)', current))
    BY DEF DeleteSetting
  <2> QED BY <2>1, <2>2, <2>3, CallMade
<1> QED BY <1>3, <1>5 DEF ConfigTypes, DeleteSetting

LEMMA SaveProfilesTypes ==
    ASSUME ConfigTypes, NEW c, ConfigCall(c), ProfilesIn(profiles', DOMAIN heap),
           Wait(c, "finish", <<>>, Undefined),
           queue' = Append(queue, SaveProfiles(c, CopyProfiles(profiles'))),
           UNCHANGED <<own, entries, heap, current, registered, store, heard, exported, owner, torn>>
    PROVE  ConfigTypes'
<1>1. MemoryOK'
  BY DEF ConfigTypes, MemoryOK
<1>2. CopiedProfiles(CopyProfiles(profiles'))
  BY CopiedFacts DEF ConfigTypes, MemoryOK
<1>3. QueueOK(queue', pending')
  BY <1>2, CallMade, RequestShapes DEF CallerAt
<1> QED BY <1>1, <1>3 DEF ConfigTypes

LEMMA CreateProfileTypes ==
    ASSUME ConfigTypes, NEW c, NEW name \in Names, NEW base, CreateProfile(c, name, base),
           \A n \in base : base = {n}
    PROVE  ConfigTypes'
<1> DEFINE config == IF base = {} THEN own
                     ELSE IF base \subseteq DOMAIN profiles THEN profiles[TheOne(base)].config
                     ELSE NoMap
           p == [base |-> base, config |-> config]
<1>1. profiles' = With(profiles, name, p)
  BY DEF CreateProfile
<1>2. MapIn(config, DOMAIN heap)
  <2>1. CASE base # {} /\ base \subseteq DOMAIN profiles
    <3>1. TheOne(base) \in base
      BY <2>1 DEF TheOne
    <3> QED BY <2>1, <3>1 DEF ConfigTypes, MemoryOK, ProfilesIn
  <2>2. CASE ~(base # {} /\ base \subseteq DOMAIN profiles)
    BY <2>2 DEF ConfigTypes, MemoryOK, MapIn, NoMap
  <2> QED BY <2>1, <2>2
<1>3. Profile(p) /\ p.config = config
  BY DEF Profile
<1> HIDE DEF p, config
<1>4. ProfilesIn(profiles', DOMAIN heap)
  BY <1>1, <1>2, <1>3 DEF ConfigTypes, MemoryOK, ProfilesIn, With
<1> QED BY <1>4, SaveProfilesTypes DEF CreateProfile

LEMMA DeleteProfileTypes ==
    ASSUME ConfigTypes, NEW c, NEW name, DeleteProfile(c, name)
    PROVE  ConfigTypes'
<1>1. ProfilesIn(profiles', DOMAIN heap)
  BY DEF DeleteProfile, ConfigTypes, MemoryOK, ProfilesIn
<1> QED BY <1>1, SaveProfilesTypes DEF DeleteProfile

LEMMA MergedIn ==
    ASSUME MemoryOK, NEW name \in DOMAIN profiles
    PROVE  MapIn(Merged(name), DOMAIN heap)
<1> DEFINE base == profiles[name].base
<1>1. MapIn(profiles[name].config, DOMAIN heap)
  BY DEF MemoryOK, ProfilesIn
<1>2. CASE base # {} /\ base \subseteq DOMAIN profiles
  <2>1. TheOne(base) \in DOMAIN profiles
    BY <1>2 DEF TheOne
  <2>2. MapIn(profiles[TheOne(base)].config, DOMAIN heap)
    BY <2>1 DEF MemoryOK, ProfilesIn
  <2>3. Merged(name) = Over(profiles[name].config, profiles[TheOne(base)].config)
    BY <1>2 DEF Merged
  <2> QED BY <1>1, <2>2, <2>3 DEF MapIn, Over
<1>3. CASE ~(base # {} /\ base \subseteq DOMAIN profiles)
  BY <1>1, <1>3 DEF Merged
<1> QED BY <1>2, <1>3

LEMMA SwitchProfileTypes ==
    ASSUME ConfigTypes, NEW c, NEW name \in Names, SwitchProfile(c, name)
    PROVE  ConfigTypes'
<1>1. MemoryOK'
  BY MergedIn DEF SwitchProfile, ConfigTypes, MemoryOK
<1> DEFINE r == [by |-> c, op |-> "put", key |-> "current", value |-> name]
<1>2. r.by = c /\ Shape(r, "persist")
  BY DEF Shape, BootAt
<1> HIDE DEF r
<1>3. QueueOK(queue', pending')
  BY <1>2, CallMade DEF SwitchProfile, CallerAt, r
<1> QED BY <1>1, <1>3 DEF ConfigTypes, SwitchProfile

LEMMA ImportTypes ==
    ASSUME ConfigTypes, NEW c, NEW merge, NEW named \in Naming, Import(c, merge, named)
    PROVE  ConfigTypes'
<1>1. PICK text \in exported :
        /\ entries' = Over(Parsed(text.config, <<"import", "entries">>), IF merge THEN entries ELSE NoMap)
        /\ profiles' = Over(ParsedProfiles(text.profiles, "import"), profiles)
        /\ heap' = Over(Objects(text.config, <<"import", "entries">>),
                        Over(ProfileObjects(text.profiles, "import"), heap))
        /\ ConfigCall(c) /\ Wait(c, "save", <<>>, Undefined)
        /\ UNCHANGED <<own, registered, store, heard, exported>>
        /\ queue' = Append(queue, Persist(c, Copy(entries)', current'))
  BY DEF Import
<1> DEFINE es == Parsed(text.config, <<"import", "entries">>)
           eo == Objects(text.config, <<"import", "entries">>)
           ps == ParsedProfiles(text.profiles, "import")
           po == ProfileObjects(text.profiles, "import")
<1>2. Copied(text.config) /\ CopiedProfiles(text.profiles)
  BY DEF ConfigTypes, ExportOK
<1>3. MapIn(es, DOMAIN eo) /\ NoRefs(eo) /\ \A i \in DOMAIN eo : i[2] = <<"import", "entries">>
  BY <1>2, ParsedFacts
<1>4. ProfilesIn(ps, DOMAIN po) /\ NoRefs(po) /\ \A i \in DOMAIN po : i[2][1] = "import"
  BY <1>2, ParsedProfilesFacts
<1>5. heap' = Over(eo, Over(po, heap)) /\ entries' = Over(es, IF merge THEN entries ELSE NoMap)
      /\ profiles' = Over(ps, profiles)
  BY <1>1
<1> HIDE DEF es, eo, ps, po
<1>6. DOMAIN heap' = DOMAIN eo \union DOMAIN po \union DOMAIN heap
      /\ \A i \in DOMAIN heap' :
            heap'[i] = IF i \in DOMAIN eo THEN eo[i] ELSE IF i \in DOMAIN po THEN po[i] ELSE heap[i]
  BY <1>5 DEF Over
<1>7. NoRefs(heap')
  BY <1>3, <1>4, <1>6 DEF NoRefs, ConfigTypes, MemoryOK
<1>8. MapIn(own', DOMAIN heap')
  BY <1>1, <1>6, MapsGrow DEF ConfigTypes, MemoryOK
<1>9. MapIn(entries', DOMAIN heap')
  BY <1>3, <1>5, <1>6 DEF MapIn, Over, NoMap, ConfigTypes, MemoryOK
<1>10. ProfilesIn(profiles', DOMAIN heap')
  <2>1. ProfilesIn(ps, DOMAIN heap') /\ ProfilesIn(profiles, DOMAIN heap')
    BY <1>4, <1>6, MapsGrow DEF ConfigTypes, MemoryOK
  <2> QED BY <1>5, <2>1 DEF ProfilesIn, Over
<1>11. current' \in Names /\ owner' \in Names
  <2>1. CASE named = {}
    BY <2>1 DEF Import, ConfigTypes, MemoryOK
  <2>2. CASE named # {}
    <3>1. PICK n \in NamedProfiles : named = {n}
      BY <2>2 DEF Naming
    <3>2. TheOne(named) = n
      BY <3>1 DEF TheOne
    <3> QED BY <2>2, <3>1, <3>2, ConfigAssumption DEF Import
  <2> QED BY <2>1, <2>2
<1>12. MemoryOK'
  BY <1>1, <1>7, <1>8, <1>9, <1>10, <1>11 DEF ConfigTypes, MemoryOK
<1>13. Copied(Copy(entries)')
  BY <1>12, CopiesNext
<1>14. QueueOK(queue', pending')
  <2>1. "save" \in CallerAt
    BY DEF CallerAt
  <2>2. Shape(Persist(c, Copy(entries)', current'), "save") /\ Persist(c, Copy(entries)', current').by = c
    BY <1>11, <1>13, RequestShapes
  <2> QED BY <1>1, <2>1, <2>2, CallMade
<1> QED BY <1>1, <1>12, <1>14 DEF ConfigTypes

LEMMA EndTypes ==
    ASSUME ConfigTypes, NEW c, NEW at, Served(c, at), Finish(c), UNCHANGED <<memory, exported, owner>>
    PROVE  ConfigTypes'
BY ServedFacts, CallServed DEF ConfigTypes, memory, MemoryOK

LEMMA NextRequestTypes ==
    ASSUME ConfigTypes, NEW c, c \in Callers, SwitchPersist(c) \/ ImportSave(c)
    PROVE  ConfigTypes'
<1>1. Copied(Copy(entries)) /\ CopiedProfiles(CopyProfiles(profiles)) /\ current \in Names
  BY CopiesNow DEF ConfigTypes, MemoryOK
<1>2. AtOf(c) = CallerAt
  BY CallersFacts
<1>3. CASE SwitchPersist(c)
  <2>1. Served(c, "persist") /\ GoOn(c, "notifyall", Persist(c, Copy(entries), current))
    BY <1>3 DEF SwitchPersist
  <2>2. /\ Shape(Persist(c, Copy(entries), current), "notifyall")
        /\ Persist(c, Copy(entries), current).by = c
    BY <1>1, RequestShapes
  <2>3. "notifyall" \in AtOf(c)
    BY <1>2 DEF CallerAt
  <2>4. QueueOK(queue', pending')
    BY <2>1, <2>2, <2>3, CallServed
  <2> QED BY <1>3, <2>1, <2>4, ServedFacts DEF SwitchPersist, ConfigTypes, memory, MemoryOK
<1>4. CASE ImportSave(c)
  <2>1. Served(c, "save") /\ GoOn(c, "imported", SaveProfiles(c, CopyProfiles(profiles)))
    BY <1>4 DEF ImportSave
  <2>2. /\ Shape(SaveProfiles(c, CopyProfiles(profiles)), "imported")
        /\ SaveProfiles(c, CopyProfiles(profiles)).by = c
    BY <1>1, RequestShapes
  <2>3. "imported" \in AtOf(c)
    BY <1>2 DEF CallerAt
  <2>4. QueueOK(queue', pending')
    BY <2>1, <2>2, <2>3, CallServed
  <2> QED BY <1>4, <2>1, <2>4, ServedFacts DEF ImportSave, ConfigTypes, memory, MemoryOK
<1> QED BY <1>3, <1>4

LEMMA BootAtFacts == AtOf(Boot) = BootAt
BY DEF AtOf

LEMMA BootProfilesTypes == ASSUME ConfigTypes, BootProfiles PROVE ConfigTypes'
<1>1. Served(Boot, "profiles") /\ GoOn(Boot, "current", Read("current"))
  BY DEF BootProfiles
<1>2. QueueOK(queue', pending')
  <2>1. Read("current").by = Boot /\ Shape(Read("current"), "current") /\ "current" \in AtOf(Boot)
    BY BootAtFacts DEF Read, Shape, BootAt
  <2> QED BY <1>1, <2>1, CallServed
<1>3. MemoryOK'
  <2>1. CASE store.profiles = {}
    BY <2>1 DEF BootProfiles, ConfigTypes, MemoryOK
  <2>2. CASE store.profiles # {}
    <3> DEFINE ps == TheOne(store.profiles)    qs == ParsedProfiles(ps, Boot)    o == ProfileObjects(ps, Boot)
    <3>1. CopiedProfiles(ps)
      BY <2>2 DEF TheOne, ConfigTypes, StoreOK
    <3>2. ProfilesIn(qs, DOMAIN o) /\ NoRefs(o)
      BY <3>1, ParsedProfilesFacts
    <3>3. profiles' = Over(qs, profiles) /\ heap' = Over(o, heap)
      BY <2>2 DEF BootProfiles
    <3> HIDE DEF qs, o
    <3>4. DOMAIN heap' = DOMAIN o \union DOMAIN heap /\ NoRefs(heap')
      BY <3>2, <3>3 DEF Over, NoRefs, ConfigTypes, MemoryOK
    <3>5. ProfilesIn(qs, DOMAIN heap') /\ ProfilesIn(profiles, DOMAIN heap')
          /\ MapIn(own, DOMAIN heap') /\ MapIn(entries, DOMAIN heap')
      BY <3>2, <3>4, MapsGrow DEF ConfigTypes, MemoryOK
    <3>6. ProfilesIn(profiles', DOMAIN heap')
      BY <3>3, <3>5 DEF ProfilesIn, Over
    <3> QED BY <3>4, <3>5, <3>6 DEF BootProfiles, ConfigTypes, MemoryOK
  <2> QED BY <2>1, <2>2
<1> QED BY <1>1, <1>2, <1>3, ServedFacts DEF ConfigTypes, BootProfiles

LEMMA BootCurrentTypes == ASSUME ConfigTypes, BootCurrent PROVE ConfigTypes'
<1> DEFINE r == [by |-> Boot, op |-> "get", key |-> "data", profile |-> current']
<1>1. Served(Boot, "current") /\ GoOn(Boot, "data", r)
  BY DEF BootCurrent
<1>2. current' \in Names
  BY DEF BootCurrent, TheOne, ConfigTypes, StoreOK, MemoryOK
<1>3. QueueOK(queue', pending')
  <2>1. r.by = Boot /\ Shape(r, "data") /\ "data" \in AtOf(Boot)
    BY <1>2, BootAtFacts DEF Shape, BootAt
  <2> HIDE DEF r
  <2> QED BY <1>1, <2>1, CallServed
<1>4. MemoryOK'
  BY <1>2 DEF BootCurrent, ConfigTypes, MemoryOK
<1> QED BY <1>1, <1>3, <1>4, ServedFacts DEF ConfigTypes, BootCurrent

LEMMA BootDataTypes == ASSUME ConfigTypes, BootData PROVE ConfigTypes'
<1>1. Served(Boot, "data") /\ Finish(Boot)
  BY DEF BootData
<1> DEFINE saved == store.data[Head(queue).profile]
<1>2. Head(queue).profile \in Names
  BY <1>1, ServedFacts DEF Shape, BootAt
<1>3. MemoryOK'
  <2>1. CASE saved = {}
    BY <2>1 DEF BootData, ConfigTypes, MemoryOK
  <2>2. CASE saved # {}
    <3> DEFINE copy == TheOne(saved).config
               es == Parsed(copy, <<Boot, "entries">>)    o == Objects(copy, <<Boot, "entries">>)
    <3>1. Copied(copy)
      BY <1>2, <2>2 DEF TheOne, ConfigTypes, StoreOK
    <3>2. MapIn(es, DOMAIN o) /\ NoRefs(o)
      BY <3>1, ParsedFacts
    <3>3. entries' = es /\ heap' = Over(heap, o)
      BY <2>2 DEF BootData
    <3> HIDE DEF es, o
    <3>4. DOMAIN heap' = DOMAIN o \union DOMAIN heap /\ NoRefs(heap')
      BY <3>2, <3>3 DEF Over, NoRefs, ConfigTypes, MemoryOK
    <3>5. ProfilesIn(profiles, DOMAIN heap') /\ MapIn(own, DOMAIN heap') /\ MapIn(entries', DOMAIN heap')
      BY <3>2, <3>3, <3>4, MapsGrow DEF ConfigTypes, MemoryOK
    <3> QED BY <3>4, <3>5 DEF BootData, ConfigTypes, MemoryOK
  <2> QED BY <2>1, <2>2
<1> QED BY <1>1, <1>3, ServedFacts, CallServed DEF ConfigTypes, BootData

LEMMA ExportTypes == ASSUME ConfigTypes, Export PROVE ConfigTypes'
<1>1. MemoryOK'
  BY DEF Export, memory, ConfigTypes, MemoryOK
<1>2. ExportOK(exported')
  BY CopiesNow DEF Export, ConfigTypes, ExportOK
<1> QED BY <1>1, <1>2 DEF Export, ConfigTypes

LEMMA RequestFailsTypes == ASSUME ConfigTypes, RequestFails PROVE ConfigTypes'
<1>1. QueueOK(queue', pending')
  BY RequestRemoved DEF RequestFails, ConfigTypes
<1> QED BY <1>1 DEF RequestFails, memory, ConfigTypes, MemoryOK

LEMMA ReloadTypes == ASSUME ConfigTypes, Reload PROVE ConfigTypes'
<1>1. MemoryOK'
  BY DEF Reload, MemoryOK, NoMap, MapIn, ProfilesIn, NoRefs, OwnIds, Names
<1> QED BY <1>1, ConstructedTypes DEF Reload, ConfigTypes

LEMMA ConfigTypesKept == ConfigTypes /\ [ConfigNext]_configVars => ConfigTypes'
<1> SUFFICES ASSUME ConfigTypes, [ConfigNext]_configVars PROVE ConfigTypes'
  OBVIOUS
<1>1. CASE BootProfiles \/ BootCurrent \/ BootData
  BY <1>1, BootProfilesTypes, BootCurrentTypes, BootDataTypes
<1>2. ASSUME NEW c \in Callers, Operation(c) PROVE ConfigTypes'
  <2>1. ASSUME NEW e \in Edits, Set(c, e[1], e[2]) PROVE ConfigTypes'
    BY <2>1, SetTypes, ConfigAssumption
  <2>2. ASSUME NEW n \in Names, NEW b \in {{}} \union {{m} : m \in Names}, CreateProfile(c, n, b)
        PROVE  ConfigTypes'
    BY <2>2, CreateProfileTypes
  <2> QED BY <1>2, <2>1, <2>2, EditInUITypes, DeleteSettingTypes, DeleteProfileTypes, SwitchProfileTypes,
             ImportTypes DEF Operation
<1>3. ASSUME NEW c \in Callers, Notify(c) \/ ConfigEnd(c) \/ NotifyAll(c) PROVE ConfigTypes'
  BY <1>3, EndTypes DEF Notify, ConfigEnd, NotifyAll
<1>4. ASSUME NEW c \in Callers, SwitchPersist(c) \/ ImportSave(c) PROVE ConfigTypes'
  BY <1>4, NextRequestTypes
<1>5. CASE UNCHANGED configVars
  BY <1>5 DEF configVars, memory, ConfigTypes, MemoryOK
<1> QED BY <1>1, <1>2, <1>3, <1>4, <1>5, ExportTypes, RequestFailsTypes, ReloadTypes DEF ConfigNext

\* A call in progress waits for one request.
LEMMA OneRequestEach ==
    ASSUME ConfigTypes, NEW c \in DOMAIN pending, pending[c].at # "idle"
    PROVE  Cardinality({i \in DOMAIN queue : queue[i].by = c}) = 1
<1>1. PICK i \in DOMAIN queue : queue[i].by = c
  BY DEF ConfigTypes, QueueOK
<1>2. {j \in DOMAIN queue : queue[j].by = c} = {i}
  BY <1>1 DEF ConfigTypes, QueueOK
<1> QED BY <1>2, FS_Singleton

LEMMA ConfigTypesMeans == ConfigTypes => ConfigTypeOK
<1> SUFFICES ASSUME ConfigTypes PROVE ConfigTypeOK
  OBVIOUS
<1>1. ASSUME NEW m \in Maps, NEW k \in DOMAIN m, m[k][1] = "ref" PROVE m[k][2] \in DOMAIN heap
  <2>1. MapIn(m, DOMAIN heap)
    BY DEF Maps, ConfigTypes, MemoryOK, ProfilesIn
  <2> QED BY <1>1, <2>1 DEF MapIn
<1>2. DOMAIN profiles \subseteq Names /\ current \in Names /\ owner \in Names
  BY DEF ConfigTypes, MemoryOK, ProfilesIn
<1>3. /\ DOMAIN pending = Callers \union {Boot}
      /\ \A i \in DOMAIN queue : pending[queue[i].by].at # "idle"
  BY DEF ConfigTypes, QueueOK, PendingOK
<1> QED BY <1>1, <1>2, <1>3, OneRequestEach DEF ConfigTypeOK

\* The types of the configuration: no reference of the properties, the entries or
\* a profile dangles, what was copied for storage or export holds none, and a call
\* in progress waits for exactly one request, of the kind its step makes.
THEOREM ConfigurationTypes == ConfigSpec => []ConfigTypeOK
<1>1. ConfigSpec => []ConfigTypes
  BY ConfigTypesInit, ConfigTypesKept, PTL DEF ConfigSpec
<1> QED BY <1>1, ConfigTypesMeans, PTL
-----------------------------------------------------------------------------
(* Configuration: what is stored. *)

NamesOf(set) == UNION {DOMAIN ps : ps \in set}

\* What the constructor has read so far is what is stored; no call overlapped it.
BootPhase ==
    LET at == pending[Boot].at
    IN /\ \A c \in Callers : pending[c].at = "idle"
       /\ own = NoMap
       /\ at = "profiles" => DOMAIN profiles = {}
       /\ at \in {"current", "data"} => DOMAIN profiles = NamesOf(store.profiles)
       /\ at = "data" => store.current \subseteq {current} /\ Head(queue).profile = current

\* Under a key of its own, one thing is stored.
OneStored(s) == (\A a, b \in s.profiles : a = b) /\ (\A a, b \in s.current : a = b)

BootOK ==
    /\ OneStored(store)
    /\ registered => pending[Boot].at = "idle"
    /\ ~early => IF registered THEN owner = current ELSE BootPhase

\* Data is stored, and on its way, under the profile it is of.
DataApart ==
    ~early => /\ \A n \in Names : \A s \in store.data[n] : s.of = n
              /\ \A i \in DOMAIN queue : Puts(queue[i], "data") => queue[i].of = queue[i].profile

\* The stored profile exists once the requests before i are served, or an
\* import has not saved its profiles by then.
Excused(q, p, i) ==
    \/ \E c \in Callers : p[c].at = "save"
    \/ \E j \in DOMAIN q : i <= j /\ p[q[j].by].at = "imported"
Agrees(q, p, chosen, saved, i) ==
    \/ Stored(q, "current", chosen, i) \subseteq NamesOf(Stored(q, "profiles", saved, i))
    \/ Excused(q, p, i)

\* What is stored once everything is served is what is in memory.
MemoryAgrees ==
    LET end == Len(queue) + 1
    IN /\ Stored(queue, "current", store.current, end) \subseteq {current} \intersect DOMAIN profiles
       /\ (\A c \in Callers : pending[c].at # "save") =>
             DOMAIN profiles \subseteq NamesOf(Stored(queue, "profiles", store.profiles, end))

CurrentKnown ==
    ~early /\ ~torn =>
        /\ \A i \in 1..Len(queue) + 1 : Agrees(queue, pending, store.current, store.profiles, i)
        /\ registered => MemoryAgrees

\* The sections of the properties have valid settings.
SectionsValid ==
    ~early => IF registered THEN \A k \in DOMAIN own \intersect DOMAIN BuiltinSchemas : SectionValid(k, Content(own[k]))
              ELSE own = NoMap

\* What the last call to notify will tell is so; or what it told, if there is none.
Telling(i) == pending[queue[i].by].at = "notify"
Told ==
    count.failures = 0 /\ <<>> \in Watched =>
        /\ \A i \in DOMAIN queue :
              Telling(i) /\ (\A j \in DOMAIN queue : i < j => ~Telling(j)) =>
                  Content(GetSetting(pending[queue[i].by].path)) = pending[queue[i].by].value
        /\ (\A j \in DOMAIN queue : ~Telling(j)) /\ heard[<<>>].path # <<>> =>
              Content(GetSetting(heard[<<>>].path)) = heard[<<>>].value

\* The kinds of steps.  A call starts: it makes one request.
Starts(c, at, r) ==
    /\ c \in Callers /\ pending[c].at = "idle" /\ at \in CallerAt /\ r.by = c
    /\ queue' = Append(queue, r)
    /\ pending'[c].at = at /\ \A d \in DOMAIN pending : d # c => pending'[d] = pending[d]
    /\ early' = (early \/ ~registered)
    /\ UNCHANGED <<registered, store>> /\ (torn => torn')

\* A request is served: its call ends, or makes its next request.
Ends(c, at) ==
    /\ Served(c, at)
    /\ queue' = Tail(queue)
    /\ pending'[c].at = "idle" /\ \A d \in DOMAIN pending : d # c => pending'[d] = pending[d]
Continues(c, at, to, r) ==
    /\ Served(c, at) /\ r.by = c
    /\ queue' = Append(Tail(queue), r)
    /\ pending'[c].at = to /\ \A d \in DOMAIN pending : d # c => pending'[d] = pending[d]

LEMMA CallStarts ==
    ASSUME ConfigTypes, NEW c, ConfigCall(c), NEW at \in CallerAt, NEW path, NEW value,
           Wait(c, at, path, value), NEW r, r.by = c, queue' = Append(queue, r),
           UNCHANGED <<registered, store>>, torn => torn'
    PROVE  Starts(c, at, r) /\ pending'[c].path = path /\ pending'[c].value = value
<1>1. c \in Callers /\ pending[c].at = "idle" /\ c \in DOMAIN pending /\ early' = (early \/ ~registered)
  BY DEF ConfigCall, NoCall, ConfigTypes, QueueOK, PendingOK
<1>2. /\ pending'[c] = [at |-> at, path |-> path, value |-> value]
      /\ \A d \in DOMAIN pending : d # c => pending'[d] = pending[d]
  BY <1>1 DEF Wait
<1> QED BY <1>1, <1>2 DEF Starts

LEMMA CallEnds ==
    ASSUME ConfigTypes, NEW c, NEW at, Served(c, at)
    PROVE  /\ Finish(c) => Ends(c, at)
           /\ \A to, r : r.by = c /\ GoOn(c, to, r) => Continues(c, at, to, r)
<1>1. c \in DOMAIN pending /\ IsCall(pending[c])
  BY ServedFacts DEF ConfigTypes, QueueOK, PendingOK
<1>2. ASSUME Finish(c) PROVE Ends(c, at)
  BY <1>1, <1>2 DEF Finish, Ends, NoCall
<1>3. ASSUME NEW to, NEW r, r.by = c, GoOn(c, to, r) PROVE Continues(c, at, to, r)
  <2>1. pending' = [pending EXCEPT ![c].at = to]
    BY <1>3 DEF GoOn
  <2>2. pending'[c] = [pending[c] EXCEPT !.at = to]
    BY <1>1, <2>1
  <2>3. pending'[c].at = to
    BY <1>1, <2>2 DEF IsCall
  <2>4. \A d \in DOMAIN pending : d # c => pending'[d] = pending[d]
    BY <2>1
  <2> QED BY <1>3, <2>3, <2>4 DEF GoOn, Continues
<1> QED BY <1>2, <1>3

\* What a call asks for, and what it does to the profiles in memory.
Requested(at, r) ==
    \/ /\ at \in {"notify", "save"} /\ Puts(r, "data") /\ r.profile = current' /\ r.of = owner'
       /\ \/ owner' = owner /\ current' = current
          \/ at = "save" /\ owner' = current' /\ torn'
       /\ DOMAIN profiles \subseteq DOMAIN profiles'
       /\ at = "notify" => profiles' = profiles
    \/ /\ at = "finish" /\ Puts(r, "profiles") /\ DOMAIN r.value = DOMAIN profiles'
       /\ owner' = owner /\ current' = current
       /\ current \in DOMAIN profiles => current \in DOMAIN profiles'
    \/ /\ at = "persist" /\ Puts(r, "current") /\ r.value = current'
       /\ owner' = current' /\ current' \in DOMAIN profiles /\ profiles' = profiles

LEMMA SetRequests ==
    ASSUME ConfigTypes, NEW c, NEW path, NEW value, Set(c, path, value) \/ DeleteSetting(c, path)
    PROVE  \E r, v : /\ Starts(c, "notify", r) /\ Requested("notify", r)
                     /\ pending'[c].path = path /\ pending'[c].value = v
                     /\ v = IF Set(c, path, value) THEN value ELSE Undefined
<1> DEFINE r == Persist(c, Copy(entries)', current)
           v == IF Set(c, path, value) THEN value ELSE Undefined
<1>1. /\ ConfigCall(c) /\ Wait(c, "notify", path, v) /\ queue' = Append(queue, r)
      /\ UNCHANGED <<registered, store, torn, owner, current, profiles>>
  BY DEF Set, DeleteSetting
<1>2. r.by = c /\ Puts(r, "data") /\ r.profile = current /\ r.of = owner'
  BY DEF Persist, Puts
<1> HIDE DEF r, v
<1>3. "notify" \in CallerAt
  BY DEF CallerAt
<1>4. Starts(c, "notify", r) /\ pending'[c].path = path /\ pending'[c].value = v
  BY <1>1, <1>2, <1>3, CallStarts
<1>5. Requested("notify", r)
  BY <1>1, <1>2 DEF Requested
<1> QED BY <1>4, <1>5 DEF v

LEMMA ProfilesRequests ==
    ASSUME ConfigTypes, NEW c, NEW name, NEW base, CreateProfile(c, name, base) \/ DeleteProfile(c, name)
    PROVE  \E r : Starts(c, "finish", r) /\ Requested("finish", r)
<1> DEFINE r == SaveProfiles(c, CopyProfiles(profiles'))
<1>1. /\ ConfigCall(c) /\ Wait(c, "finish", <<>>, Undefined) /\ queue' = Append(queue, r)
      /\ UNCHANGED <<registered, store, torn, owner, current>>
      /\ current \in DOMAIN profiles => current \in DOMAIN profiles'
  <2>1. CASE CreateProfile(c, name, base)
    BY <2>1 DEF CreateProfile, With
  <2>2. CASE DeleteProfile(c, name)
    BY <2>2 DEF DeleteProfile
  <2> QED BY <2>1, <2>2
<1>2. r.by = c /\ Puts(r, "profiles") /\ DOMAIN r.value = DOMAIN profiles'
  BY DEF SaveProfiles, Puts, CopyProfiles
<1> HIDE DEF r
<1>3. "finish" \in CallerAt
  BY DEF CallerAt
<1>4. Starts(c, "finish", r)
  BY <1>1, <1>2, <1>3, CallStarts
<1> QED BY <1>1, <1>2, <1>4 DEF Requested

LEMMA SwitchRequests ==
    ASSUME ConfigTypes, NEW c, NEW name, SwitchProfile(c, name)
    PROVE  \E r : Starts(c, "persist", r) /\ Requested("persist", r)
<1> DEFINE r == [by |-> c, op |-> "put", key |-> "current", value |-> name]
<1>1. /\ ConfigCall(c) /\ Wait(c, "persist", <<>>, Undefined) /\ queue' = Append(queue, r)
      /\ UNCHANGED <<registered, store, torn, profiles>>
      /\ current' = name /\ owner' = name /\ name \in DOMAIN profiles
  BY DEF SwitchProfile
<1>2. r.by = c /\ Puts(r, "current") /\ r.value = name
  BY DEF Puts
<1> HIDE DEF r
<1>3. "persist" \in CallerAt
  BY DEF CallerAt
<1>4. Starts(c, "persist", r)
  BY <1>1, <1>2, <1>3, CallStarts
<1> QED BY <1>1, <1>2, <1>4 DEF Requested

LEMMA ImportRequests ==
    ASSUME ConfigTypes, NEW c, NEW merge, NEW named, Import(c, merge, named)
    PROVE  \E r : Starts(c, "save", r) /\ Requested("save", r)
<1> DEFINE r == Persist(c, Copy(entries)', current')
<1>1. /\ ConfigCall(c) /\ Wait(c, "save", <<>>, Undefined) /\ queue' = Append(queue, r)
      /\ UNCHANGED <<registered, store>>
      /\ DOMAIN profiles \subseteq DOMAIN profiles'
  BY DEF Import, Over
<1>2. \/ UNCHANGED <<owner, current, torn>>
      \/ owner' = current' /\ torn'
  BY DEF Import
<1>3. r.by = c /\ Puts(r, "data") /\ r.profile = current' /\ r.of = owner'
  BY DEF Persist, Puts
<1> HIDE DEF r
<1>4. "save" \in CallerAt
  BY DEF CallerAt
<1>5. Starts(c, "save", r)
  BY <1>1, <1>2, <1>3, <1>4, CallStarts
<1> QED BY <1>1, <1>2, <1>3, <1>5 DEF Requested

LEMMA OperationRequests ==
    ASSUME ConfigTypes, NEW c, Operation(c)
    PROVE  \E at, r : Starts(c, at, r) /\ Requested(at, r)
<1>1. ASSUME EditInUI(c) PROVE \E path, value : Set(c, path, value)
  BY <1>1 DEF EditInUI
<1> QED BY <1>1, SetRequests, ProfilesRequests, SwitchRequests, ImportRequests DEF Operation
-----------------------------------------------------------------------------
(* Configuration: the constructor's reads. *)

\* While no call is in progress the queue holds the constructor's read alone.
LEMMA OnlyBoot ==
    ASSUME ConfigTypes, \A c \in Callers : pending[c].at = "idle"
    PROVE  /\ \A i \in DOMAIN queue : i = 1 /\ queue[i].by = Boot
           /\ queue # <<>> => Len(queue) = 1 /\ pending[Boot].at # "idle" /\ Head(queue).by = Boot
           /\ pending[Boot].at # "idle" => queue # <<>>
<1>1. Len(queue) \in Nat /\ DOMAIN queue = 1..Len(queue) /\ IsSeq(queue)
  BY SeqFacts DEF ConfigTypes, QueueOK
<1>2. \A i \in DOMAIN queue : queue[i].by = Boot
  BY DEF ConfigTypes, QueueOK, PendingOK
<1>3. \A i \in DOMAIN queue : i = 1
  <2>1. ASSUME NEW i \in DOMAIN queue PROVE 1 \in DOMAIN queue
    BY <1>1
  <2> QED BY <1>2, <2>1 DEF ConfigTypes, QueueOK
<1>4. ASSUME queue # <<>> PROVE Len(queue) = 1 /\ pending[Boot].at # "idle" /\ Head(queue).by = Boot
  <2>1. 1 \in DOMAIN queue /\ Head(queue) = queue[1] /\ Len(queue) \in Nat \ {0}
    BY <1>1, <1>4, SeqFacts
  <2>2. Len(queue) = 1
    <3>1. Len(queue) \in DOMAIN queue
      BY <1>1, <2>1
    <3> QED BY <1>3, <3>1
  <2>3. queue[1].by = Boot
    BY <1>2, <2>1
  <2> QED BY <2>1, <2>2, <2>3 DEF ConfigTypes, QueueOK
<1>5. ASSUME pending[Boot].at # "idle" PROVE queue # <<>>
  BY <1>5 DEF ConfigTypes, QueueOK, PendingOK
<1> QED BY <1>2, <1>3, <1>4, <1>5

LEMMA OnlyBootNext ==
    ASSUME ConfigTypes, queue # <<>>, Len(queue) = 1, NEW r
    PROVE  Head(Append(Tail(queue), r)) = r
<1>1. IsSeq(Tail(queue)) /\ Len(Tail(queue)) = 0
  BY SeqFacts DEF ConfigTypes, QueueOK
<1> DEFINE t == Tail(queue)
<1> HIDE DEF t
<1>2. /\ IsSeq(Append(t, r)) /\ Len(Append(t, r)) = Len(t) + 1
      /\ Append(t, r)[Len(t) + 1] = r /\ Len(t) = 0
  <2>1. IsSeq(t) /\ Len(t) = 0
    BY <1>1 DEF t
  <2> QED BY <2>1, SeqAppended
<1>3. Append(t, r) # <<>> /\ Append(t, r)[1] = r
  BY <1>2
<1>4. Head(Append(t, r)) = r
  BY <1>2, <1>3, SeqFacts
<1> QED BY <1>4 DEF t

LEMMA OneStoredServed ==
    ASSUME ConfigTypes, NEW c, NEW at, Served(c, at), OneStored(store)
    PROVE  OneStored(store')
BY ServedFacts DEF OneStored

LEMMA BootOKInit == ConfigInit => BootOK
<1> SUFFICES ASSUME ConfigInit PROVE BootOK
  OBVIOUS
<1>1. pending[Boot].at = "profiles" /\ \A c \in Callers : pending[c].at = "idle"
  BY CallersFacts DEF ConfigInit, Constructed, NoCall
<1>2. own = NoMap /\ DOMAIN profiles = {} /\ ~registered /\ store.profiles = {} /\ store.current = {}
  BY DEF ConfigInit, NoMap
<1> QED BY <1>1, <1>2 DEF BootOK, BootPhase, OneStored

\* A call in progress finds the constructor's reads served.
LEMMA CallersAreRegistered ==
    ASSUME ConfigTypes, BootOK, ~early, NEW c \in Callers, pending[c].at # "idle"
    PROVE  registered /\ owner = current /\ pending[Boot].at = "idle"
BY DEF BootOK, BootPhase

LEMMA BootOKReads == ASSUME ConfigTypes, BootOK, BootProfiles \/ BootCurrent \/ BootData PROVE BootOK'
<1>1. PICK at \in BootAt : Served(Boot, at) /\ pending[Boot].at = at
      /\ (BootProfiles => at = "profiles") /\ (BootCurrent => at = "current") /\ (BootData => at = "data")
  BY DEF BootProfiles, BootCurrent, BootData, Served, BootAt
<1>2. queue # <<>> /\ store' = store /\ OneStored(store) /\ ~registered
  BY <1>1, ServedFacts DEF Served, Shape, BootOK, BootAt
<1>3. CASE BootData
  <2>1. registered' /\ owner' = current' /\ early' = early /\ Ends(Boot, "data")
    BY <1>1, <1>3, CallEnds DEF BootData
  <2> QED BY <1>2, <2>1 DEF BootOK, Ends
<1>4. CASE early /\ ~BootData
  <2>1. registered' = registered /\ early' = early
    BY <1>4 DEF BootProfiles, BootCurrent
  <2> QED BY <1>2, <1>4, <2>1 DEF BootOK
<1>5. CASE ~early /\ BootProfiles
  <2>1. Continues(Boot, "profiles", "current", Read("current"))
    BY <1>5, CallEnds DEF BootProfiles, Read
  <2>2. BootPhase /\ at = "profiles"
    BY <1>1, <1>2, <1>5 DEF BootOK
  <2>3. \A c \in Callers : pending'[c].at = "idle"
    BY <2>1, <2>2, CallersFacts DEF BootPhase, Continues, ConfigTypes, QueueOK, PendingOK
  <2>4. DOMAIN profiles = {} /\ own' = NoMap /\ pending'[Boot].at = "current" /\ ~registered' /\ early' = early
    BY <1>1, <1>2, <1>5, <2>1, <2>2 DEF BootPhase, BootProfiles, Continues
  <2>5. DOMAIN profiles' = NamesOf(store.profiles)
    <3>1. CASE store.profiles = {}
      BY <1>5, <2>4, <3>1 DEF BootProfiles, NamesOf
    <3>2. CASE store.profiles # {}
      <4>1. PICK ps \in store.profiles : ps = TheOne(store.profiles)
        BY <3>2 DEF TheOne
      <4>2. store.profiles = {ps}
        BY <1>2, <4>1 DEF OneStored
      <4>3. DOMAIN profiles' = DOMAIN ps
        BY <1>5, <2>4, <3>2, <4>1 DEF BootProfiles, Over, ParsedProfiles
      <4> QED BY <4>2, <4>3 DEF NamesOf
    <3> QED BY <3>1, <3>2
  <2> QED BY <1>2, <2>3, <2>4, <2>5 DEF BootOK, BootPhase
<1>6. CASE ~early /\ BootCurrent
  <2> DEFINE r == [by |-> Boot, op |-> "get", key |-> "data", profile |-> current']
  <2>1. Continues(Boot, "current", "data", r) /\ r.profile = current'
    BY <1>6, CallEnds DEF BootCurrent
  <2> HIDE DEF r
  <2>2. BootPhase /\ at = "current"
    BY <1>1, <1>2, <1>6 DEF BootOK
  <2>3. \A c \in Callers : pending'[c].at = "idle"
    BY <2>1, <2>2, CallersFacts DEF BootPhase, Continues, ConfigTypes, QueueOK, PendingOK
  <2>4. /\ DOMAIN profiles = NamesOf(store.profiles) /\ own' = NoMap /\ pending'[Boot].at = "data"
        /\ ~registered' /\ early' = early /\ profiles' = profiles
    BY <1>1, <1>2, <1>6, <2>1, <2>2 DEF BootPhase, BootCurrent, Continues
  <2>5. Head(queue').profile = current'
    BY <1>2, <2>1, <2>2, OnlyBoot, OnlyBootNext DEF BootPhase, Continues
  <2>6. store.current \subseteq {current'}
    BY <1>2, <1>6 DEF BootCurrent, TheOne, OneStored
  <2> QED BY <1>2, <2>3, <2>4, <2>5, <2>6 DEF BootOK, BootPhase
<1> QED BY <1>3, <1>4, <1>5, <1>6

LEMMA BootOKKept == ConfigTypes /\ BootOK /\ [ConfigNext]_configVars => BootOK'
<1> SUFFICES ASSUME ConfigTypes, BootOK, [ConfigNext]_configVars PROVE BootOK'
  OBVIOUS
<1>1. CASE BootProfiles \/ BootCurrent \/ BootData
  BY <1>1, BootOKReads
<1>2. ASSUME NEW c \in Callers, Operation(c) PROVE BootOK'
  <2>1. PICK at, r : Starts(c, at, r) /\ Requested(at, r)
    BY <1>2, OperationRequests
  <2>2. Boot \in DOMAIN pending /\ c # Boot
    BY CallersFacts DEF ConfigTypes, QueueOK, PendingOK
  <2> QED BY <2>1, <2>2 DEF Starts, Requested, BootOK
<1>3. ASSUME NEW c \in Callers, NEW at, Ends(c, at) \/ \E to, r : Continues(c, at, to, r),
             UNCHANGED <<memory, owner, early>>
      PROVE  BootOK'
  <2>1. Served(c, at) /\ pending[c].at # "idle"
    BY <1>3, ServedFacts, CallersFacts
       DEF Ends, Continues, Served, ConfigTypes, QueueOK, PendingOK, Shape
  <2>2. OneStored(store')
    BY <2>1, OneStoredServed DEF BootOK
  <2>3. pending'[Boot] = pending[Boot]
    BY <1>3, CallersFacts DEF Ends, Continues, ConfigTypes, QueueOK, PendingOK
  <2> QED BY <1>3, <2>1, <2>2, <2>3, CallersAreRegistered DEF BootOK, memory
<1>4. ASSUME NEW c \in Callers, Notify(c) \/ ConfigEnd(c) \/ NotifyAll(c) PROVE BootOK'
  BY <1>3, <1>4, CallEnds DEF Notify, ConfigEnd, NotifyAll
<1>5. ASSUME NEW c \in Callers, SwitchPersist(c) \/ ImportSave(c) PROVE BootOK'
  BY <1>3, <1>5, CallEnds, RequestShapes DEF SwitchPersist, ImportSave
<1>6. CASE RequestFails
  <2> DEFINE c == Head(queue).by
  <2>1. /\ queue # <<>> /\ c \in DOMAIN pending /\ pending' = [pending EXCEPT ![c] = NoCall]
        /\ pending[c].at # "idle"
        /\ UNCHANGED <<own, profiles, current, registered, owner, store, early>>
    <3>1. queue # <<>> /\ pending' = [pending EXCEPT ![c] = NoCall]
          /\ UNCHANGED <<own, profiles, current, registered, owner, store, early>>
      BY <1>6 DEF RequestFails, memory
    <3>2. 1 \in DOMAIN queue /\ Head(queue) = queue[1]
      BY <3>1, SeqFacts DEF ConfigTypes, QueueOK
    <3> QED BY <3>1, <3>2 DEF ConfigTypes, QueueOK
  <2>2. \A d \in DOMAIN pending : pending'[d].at = "idle" \/ pending'[d] = pending[d]
    BY <2>1 DEF NoCall
  <2>3. Boot \in DOMAIN pending /\ Callers \subseteq DOMAIN pending
    BY DEF ConfigTypes, QueueOK, PendingOK
  <2>4. registered' => pending'[Boot].at = "idle"
    BY <2>1, <2>2, <2>3 DEF BootOK
  <2>5. ~early /\ ~registered => pending'[Boot].at = "idle"
    BY <2>1, OnlyBoot DEF BootOK, BootPhase, NoCall
  <2> QED BY <2>1, <2>2, <2>3, <2>4, <2>5 DEF BootOK, BootPhase
<1>7. CASE Reload
  <2>1. pending'[Boot].at = "profiles" /\ \A c \in Callers : pending'[c].at = "idle"
    BY <1>7, CallersFacts DEF Reload, Constructed, NoCall
  <2> QED BY <1>7, <2>1 DEF Reload, BootOK, BootPhase, NoMap
<1>8. CASE Export \/ UNCHANGED configVars
  BY <1>8 DEF Export, configVars, memory, BootOK, BootPhase
<1> QED BY <1>1, <1>2, <1>4, <1>5, <1>6, <1>7, <1>8 DEF ConfigNext
-----------------------------------------------------------------------------
(* Configuration: the data of the profiles is kept apart. *)

LEMMA DataApartKept == ConfigTypes /\ BootOK /\ DataApart /\ [ConfigNext]_configVars => DataApart'
<1> SUFFICES ASSUME ConfigTypes, BootOK, DataApart, [ConfigNext]_configVars, ~early' PROVE DataApart'
  BY DEF DataApart
<1>1. IsSeq(queue) /\ Len(queue) \in Nat /\ DOMAIN queue = 1..Len(queue)
  BY SeqFacts DEF ConfigTypes, QueueOK
<1>2. ASSUME NEW c, NEW at, Served(c, at), ~early,
             queue' = Tail(queue) \/ \E r : /\ queue' = Append(Tail(queue), r)
                                            /\ Puts(r, "data") => r.of = r.profile
      PROVE  DataApart'
  <2>1. queue # <<>> /\ (Puts(Head(queue), "data") => Head(queue).of = Head(queue).profile)
    <3>1. queue # <<>>
      BY <1>2 DEF Served
    <3>2. 1 \in DOMAIN queue /\ Head(queue) = queue[1]
      BY <1>1, <3>1, SeqFacts
    <3> QED BY <1>2, <3>1, <3>2 DEF DataApart
  <2>2. \A n \in Names : \A s \in store'.data[n] : s.of = n
    BY <1>2, <2>1, ServedFacts DEF DataApart
  <2> DEFINE t == Tail(queue)
  <2>3. IsSeq(t) /\ DOMAIN t = 1..Len(t) /\ Len(t) \in Nat
        /\ \A i \in DOMAIN t : Puts(t[i], "data") => t[i].of = t[i].profile
    <3>1. /\ IsSeq(t) /\ Len(t) = Len(queue) - 1 /\ \A k \in 1..Len(queue) - 1 : t[k] = queue[k + 1]
          /\ \A k \in 1..Len(queue) - 1 : k + 1 \in 1..Len(queue)
          /\ Len(queue) - 1 \in Nat /\ DOMAIN t = 1..Len(queue) - 1
      BY <1>1, <2>1, SeqFacts
    <3> QED BY <1>1, <1>2, <3>1 DEF DataApart
  <2> HIDE DEF t
  <2>4. \A i \in DOMAIN queue' : Puts(queue'[i], "data") => queue'[i].of = queue'[i].profile
    <3>1. CASE queue' = t
      BY <2>3, <3>1
    <3>2. ASSUME NEW r, queue' = Append(t, r), Puts(r, "data") => r.of = r.profile
          PROVE  \A i \in DOMAIN queue' : Puts(queue'[i], "data") => queue'[i].of = queue'[i].profile
      <4>1. /\ DOMAIN queue' = 1..Len(t) + 1 /\ queue'[Len(t) + 1] = r
            /\ \A k \in 1..Len(t) : queue'[k] = t[k]
        BY <2>3, <3>2, SeqAppended
      <4>2. \A i \in 1..Len(t) + 1 : i \in 1..Len(t) \/ i = Len(t) + 1
        BY <2>3
      <4> QED BY <2>3, <3>2, <4>1, <4>2
    <3> QED BY <1>2, <3>1, <3>2 DEF t
  <2> QED BY <2>2, <2>4 DEF DataApart
<1>3. CASE BootProfiles \/ BootCurrent \/ BootData
  BY <1>2, <1>3 DEF BootProfiles, BootCurrent, BootData, GoOn, Finish, Read, Puts
<1>4. ASSUME NEW c \in Callers, Operation(c) PROVE DataApart'
  <2>1. PICK at, r : Starts(c, at, r) /\ Requested(at, r)
    BY <1>4, OperationRequests
  <2>2. ~early /\ registered /\ owner = current /\ store' = store /\ queue' = Append(queue, r)
    BY <2>1 DEF Starts, BootOK
  <2>3. Puts(r, "data") => r.of = r.profile
    BY <2>1, <2>2 DEF Requested, Puts
  <2>4. /\ DOMAIN queue' = 1..Len(queue) + 1 /\ queue'[Len(queue) + 1] = r
        /\ \A k \in 1..Len(queue) : queue'[k] = queue[k]
    BY <1>1, <2>2, SeqAppended
  <2>5. \A i \in 1..Len(queue) + 1 : i \in 1..Len(queue) \/ i = Len(queue) + 1
    BY <1>1
  <2> QED BY <1>1, <2>2, <2>3, <2>4, <2>5 DEF DataApart
<1>5. ASSUME NEW c \in Callers, Notify(c) \/ ConfigEnd(c) \/ NotifyAll(c) PROVE DataApart'
  BY <1>2, <1>5 DEF Notify, ConfigEnd, NotifyAll, Finish
<1>6. ASSUME NEW c \in Callers, ImportSave(c) PROVE DataApart'
  BY <1>2, <1>6 DEF ImportSave, GoOn, SaveProfiles, Puts
<1>7. ASSUME NEW c \in Callers, SwitchPersist(c) PROVE DataApart'
  <2>1. Served(c, "persist") /\ ~early /\ owner' = owner
    BY <1>7 DEF SwitchPersist
  <2>2. owner = current
    BY <2>1, CallersAreRegistered DEF Served
  <2> QED BY <1>2, <1>7, <2>1, <2>2 DEF SwitchPersist, GoOn, Persist, Puts
<1>8. CASE RequestFails
  <2>1. queue # <<>> /\ queue' = Tail(queue) /\ store' = store /\ ~early
    BY <1>8 DEF RequestFails
  <2>2. /\ \A k \in 1..Len(queue) - 1 : queue'[k] = queue[k + 1] /\ k + 1 \in 1..Len(queue)
        /\ DOMAIN queue' = 1..Len(queue) - 1
    BY <1>1, <2>1, SeqFacts
  <2> QED BY <1>1, <2>1, <2>2 DEF DataApart
<1>9. CASE Reload
  <2>1. queue' = <<Read("profiles")>> /\ store' = store /\ ~early
    BY <1>9 DEF Reload
  <2>2. DOMAIN queue' = {1} /\ queue'[1] = Read("profiles")
    BY <2>1
  <2> QED BY <2>1, <2>2 DEF DataApart, Read, Puts
<1>10. CASE Export \/ UNCHANGED configVars
  BY <1>10 DEF Export, configVars, DataApart
<1> QED BY <1>3, <1>4, <1>5, <1>6, <1>7, <1>8, <1>9, <1>10 DEF ConfigNext

LEMMA DataApartInit == ConfigInit => DataApart
<1> SUFFICES ASSUME ConfigInit PROVE DataApart
  OBVIOUS
<1>1. DOMAIN queue = {1} /\ queue[1] = Read("profiles")
  BY DEF ConfigInit
<1>2. \A n \in Names : store.data[n] = {}
  BY DEF ConfigInit
<1> QED BY <1>1, <1>2 DEF DataApart, Read, Puts
-----------------------------------------------------------------------------
(* Configuration: the profile that is stored as current exists. *)

AllAgree(q, p, chosen, saved) == \A i \in 1..Len(q) + 1 : Agrees(q, p, chosen, saved, i)

\* The oldest request is served; its call was not the import's first save.
LEMMA AgreesServed ==
    ASSUME NEW q, NEW p, QueueOK(q, p), q # <<>>, NEW s, NEW chosen, NEW saved, NEW chosen2, NEW saved2,
           chosen2 = IF Puts(Head(q), "current") THEN {Head(q).value} ELSE chosen,
           saved2 = IF Puts(Head(q), "profiles") THEN {Head(q).value} ELSE saved,
           p[Head(q).by].at # "save",
           \A d \in DOMAIN p : d # Head(q).by => s[d] = p[d],
           AllAgree(q, p, chosen, saved)
    PROVE  /\ AllAgree(Tail(q), s, chosen2, saved2)
           /\ Stored(Tail(q), "current", chosen2, Len(Tail(q)) + 1) = Stored(q, "current", chosen, Len(q) + 1)
           /\ Stored(Tail(q), "profiles", saved2, Len(Tail(q)) + 1) = Stored(q, "profiles", saved, Len(q) + 1)
<1> DEFINE t == Tail(q)    n == Len(q)
<1>1. /\ n \in Nat \ {0} /\ DOMAIN q = 1..n /\ Len(t) = n - 1 /\ DOMAIN t = 1..n - 1 /\ Head(q) = q[1]
      /\ \A k \in 1..n - 1 : t[k] = q[k + 1]
  BY SeqFacts DEF QueueOK
<1>2. /\ n = Len(t) + 1 /\ n \in 1..n /\ 1 \in 1..n
      /\ \A k \in 1..n - 1 : k + 1 \in 1..n /\ k + 1 # 1
      /\ \A k \in 2..n : k - 1 \in 1..n - 1 /\ (k - 1) + 1 = k
  BY <1>1
<1>3. \A i \in 1..n : /\ Stored(t, "current", chosen2, i) = Stored(q, "current", chosen, i + 1)
                      /\ Stored(t, "profiles", saved2, i) = Stored(q, "profiles", saved, i + 1)
  BY StoredServed DEF QueueOK
<1>4. ASSUME NEW i \in 1..n, Excused(q, p, i + 1) PROVE Excused(t, s, i)
  <2>1. CASE \E c \in Callers : p[c].at = "save"
    <3>1. PICK c \in Callers : p[c].at = "save"
      BY <2>1
    <3>2. c \in DOMAIN p /\ c # Head(q).by
      BY <3>1 DEF QueueOK, PendingOK
    <3> QED BY <3>1, <3>2 DEF Excused
  <2>2. CASE \E j \in DOMAIN q : i + 1 <= j /\ p[q[j].by].at = "imported"
    <3>1. PICK j \in DOMAIN q : i + 1 <= j /\ p[q[j].by].at = "imported"
      BY <2>2
    <3>2. j \in 2..n /\ i <= j - 1
      BY <1>1, <3>1
    <3>3. j - 1 \in DOMAIN t /\ t[j - 1] = q[j]
      BY <1>1, <1>2, <3>2
    <3>4. q[j].by # q[1].by /\ q[j].by \in DOMAIN p
      <4>1. j # 1 /\ 1 \in DOMAIN q
        BY <1>1, <1>2, <3>2
      <4> QED BY <4>1 DEF QueueOK
    <3>5. s[t[j - 1].by].at = "imported"
      BY <1>1, <3>1, <3>3, <3>4
    <3> QED BY <3>2, <3>3, <3>5 DEF Excused
  <2> QED BY <1>4, <2>1, <2>2 DEF Excused
<1>5. ASSUME NEW i \in 1..n PROVE Agrees(t, s, chosen2, saved2, i)
  <2>1. i + 1 \in 1..n + 1
    BY <1>1
  <2>2. Agrees(q, p, chosen, saved, i + 1)
    BY <2>1 DEF AllAgree
  <2> QED BY <1>3, <1>4, <2>2 DEF Agrees
<1> QED BY <1>2, <1>3, <1>5 DEF AllAgree

\* A request is added; what is stored in the end is told apart.
LEMMA AgreesAppended ==
    ASSUME NEW q, IsSeq(q), NEW p, NEW s, NEW chosen, NEW saved, NEW r,
           \A c \in Callers : p[c].at = "save" => s[c].at = "save",
           \A k \in DOMAIN q : p[q[k].by].at = "imported" => s[q[k].by].at = "imported",
           AllAgree(q, p, chosen, saved), Agrees(Append(q, r), s, chosen, saved, Len(q) + 2)
    PROVE  AllAgree(Append(q, r), s, chosen, saved)
<1> DEFINE a == Append(q, r)    n == Len(q)
<1>1. /\ n \in Nat /\ DOMAIN q = 1..n /\ DOMAIN a = 1..n + 1 /\ Len(a) = n + 1
      /\ \A k \in 1..n : a[k] = q[k]
  BY SeqFacts, SeqAppended
<1>2. ASSUME NEW key, NEW S
      PROVE  \A i \in 1..n + 1 : Stored(a, key, S, i) = Stored(q, key, S, i)
  BY StoredBefore
<1> HIDE DEF a
<1>3. ASSUME NEW i \in 1..n + 1 PROVE Agrees(a, s, chosen, saved, i)
  <2>1. Agrees(q, p, chosen, saved, i)
    BY <1>3 DEF AllAgree
  <2>2. Excused(q, p, i) => Excused(a, s, i)
    BY <1>1 DEF Excused
  <2> QED BY <1>2, <2>1, <2>2 DEF Agrees
<1>4. \A i \in 1..(n + 1) + 1 : i \in 1..n + 1 \/ i = n + 2
  BY <1>1
<1>5. Agrees(a, s, chosen, saved, n + 2)
  BY DEF a
<1>6. AllAgree(a, s, chosen, saved)
  BY <1>1, <1>3, <1>4, <1>5 DEF AllAgree
<1> QED BY <1>6 DEF a

\* A request that stores neither.
LEMMA AgreesWithOther ==
    ASSUME NEW q, IsSeq(q), NEW p, NEW s, NEW chosen, NEW saved, NEW r,
           \A c \in Callers : p[c].at = "save" => s[c].at = "save",
           \A k \in DOMAIN q : p[q[k].by].at = "imported" => s[q[k].by].at = "imported",
           AllAgree(q, p, chosen, saved), ~Puts(r, "current"), ~Puts(r, "profiles")
    PROVE  /\ AllAgree(Append(q, r), s, chosen, saved)
           /\ Stored(Append(q, r), "current", chosen, Len(Append(q, r)) + 1) = Stored(q, "current", chosen, Len(q) + 1)
           /\ Stored(Append(q, r), "profiles", saved, Len(Append(q, r)) + 1) = Stored(q, "profiles", saved, Len(q) + 1)
<1> DEFINE a == Append(q, r)    n == Len(q)
<1>1. n \in Nat /\ DOMAIN q = 1..n /\ Len(a) + 1 = n + 2
  BY SeqFacts, SeqAppended
<1>2. /\ Stored(a, "current", chosen, n + 2) = Stored(q, "current", chosen, n + 1)
      /\ Stored(a, "profiles", saved, n + 2) = Stored(q, "profiles", saved, n + 1)
  <2>1. ASSUME NEW key, NEW S, ~Puts(r, key) PROVE Stored(a, key, S, n + 2) = Stored(q, key, S, n + 1)
    <3>1. Stored(a, key, S, n + 2) = IF Puts(r, key) THEN {r.value} ELSE Stored(q, key, S, n + 1)
      BY StoredAppended
    <3> QED BY <2>1, <3>1
  <2> QED BY <2>1
<1>3. Excused(q, p, n + 1) => Excused(a, s, n + 2)
  <2>1. \A j \in 1..n : ~(n + 1 <= j)
    BY <1>1
  <2> QED BY <1>1, <2>1 DEF Excused
<1>4. Agrees(q, p, chosen, saved, n + 1)
  <2>1. n + 1 \in 1..n + 1
    BY <1>1
  <2> QED BY <2>1 DEF AllAgree
<1>5. Agrees(a, s, chosen, saved, n + 2)
  BY <1>2, <1>3, <1>4 DEF Agrees
<1>6. AllAgree(a, s, chosen, saved)
  BY <1>5, AgreesAppended
<1> QED BY <1>1, <1>2, <1>6

LEMMA NextAgrees ==
    ASSUME ConfigTypes, NEW c, NEW at, Served(c, at), at # "save",
           \A d \in DOMAIN pending : d # c => pending'[d] = pending[d],
           AllAgree(queue, pending, store.current, store.profiles)
    PROVE  /\ AllAgree(Tail(queue), pending', store'.current, store'.profiles)
           /\ \A key \in {"current", "profiles"} :
                 Stored(Tail(queue), key, store'[key], Len(Tail(queue)) + 1) =
                     Stored(queue, key, store[key], Len(queue) + 1)
<1>1. /\ queue # <<>> /\ Head(queue).by = c /\ pending[c].at = at
      /\ store'.current = IF Puts(Head(queue), "current") THEN {Head(queue).value} ELSE store.current
      /\ store'.profiles = IF Puts(Head(queue), "profiles") THEN {Head(queue).value} ELSE store.profiles
  BY ServedFacts
<1>2. QueueOK(queue, pending)
  BY DEF ConfigTypes
<1> QED BY <1>1, <1>2, AgreesServed

\* A call ends, and nothing else changes.
LEMMA CurrentKnownEnds ==
    ASSUME ConfigTypes, BootOK, CurrentKnown, NEW c \in Callers, NEW at, Ends(c, at), at # "save",
           UNCHANGED <<memory, early, torn>>
    PROVE  CurrentKnown'
<1> SUFFICES ASSUME ~early, ~torn PROVE CurrentKnown'
  BY DEF CurrentKnown
<1>1. /\ Served(c, at) /\ queue' = Tail(queue) /\ pending[c].at = at /\ pending'[c].at = "idle"
      /\ \A d \in DOMAIN pending : d # c => pending'[d] = pending[d]
      /\ Callers \subseteq DOMAIN pending
  BY DEF Ends, Served, ConfigTypes, QueueOK, PendingOK
<1>2. AllAgree(queue, pending, store.current, store.profiles) /\ (registered => MemoryAgrees)
  BY DEF CurrentKnown, AllAgree
<1>3. /\ AllAgree(queue', pending', store'.current, store'.profiles)
      /\ Stored(queue', "current", store'.current, Len(queue') + 1) = Stored(queue, "current", store.current, Len(queue) + 1)
      /\ Stored(queue', "profiles", store'.profiles, Len(queue') + 1) = Stored(queue, "profiles", store.profiles, Len(queue) + 1)
  BY <1>1, <1>2, NextAgrees
<1>4. (\A d \in Callers : pending'[d].at # "save") => \A d \in Callers : pending[d].at # "save"
  BY <1>1
<1>5. registered' => MemoryAgrees'
  BY <1>2, <1>3, <1>4 DEF MemoryAgrees, memory
<1> QED BY <1>3, <1>5 DEF CurrentKnown, AllAgree

LEMMA CurrentKnownSwitch ==
    ASSUME ConfigTypes, BootOK, CurrentKnown, NEW c \in Callers, SwitchPersist(c)
    PROVE  CurrentKnown'
<1> SUFFICES ASSUME ~early, ~torn PROVE CurrentKnown'
  BY DEF CurrentKnown, SwitchPersist
<1> DEFINE r == Persist(c, Copy(entries), current)    t == Tail(queue)
<1>1. Served(c, "persist") /\ GoOn(c, "notifyall", r) /\ UNCHANGED <<memory, early, torn>>
      /\ r.by = c
  BY RequestShapes DEF SwitchPersist
<1>2. /\ queue' = Append(t, r) /\ pending[c].at = "persist" /\ pending'[c].at = "notifyall"
      /\ \A d \in DOMAIN pending : d # c => pending'[d] = pending[d]
      /\ Callers \subseteq DOMAIN pending
  BY <1>1, CallEnds DEF Continues, Served, ConfigTypes, QueueOK, PendingOK
<1>3. ~Puts(r, "current") /\ ~Puts(r, "profiles")
  BY DEF Persist, Puts
<1>4. AllAgree(queue, pending, store.current, store.profiles) /\ (registered => MemoryAgrees)
  BY DEF CurrentKnown, AllAgree
<1>5. /\ AllAgree(t, pending', store'.current, store'.profiles)
      /\ Stored(t, "current", store'.current, Len(t) + 1) = Stored(queue, "current", store.current, Len(queue) + 1)
      /\ Stored(t, "profiles", store'.profiles, Len(t) + 1) = Stored(queue, "profiles", store.profiles, Len(queue) + 1)
  BY <1>1, <1>2, <1>4, NextAgrees
<1>6. IsSeq(t)
  BY <1>1, SeqFacts DEF Served, ConfigTypes, QueueOK
<1> HIDE DEF r, t
<1>7. /\ AllAgree(queue', pending', store'.current, store'.profiles)
      /\ Stored(queue', "current", store'.current, Len(queue') + 1) = Stored(t, "current", store'.current, Len(t) + 1)
      /\ Stored(queue', "profiles", store'.profiles, Len(queue') + 1) = Stored(t, "profiles", store'.profiles, Len(t) + 1)
  BY <1>2, <1>3, <1>5, <1>6, AgreesWithOther
<1>8. (\A d \in Callers : pending'[d].at # "save") => \A d \in Callers : pending[d].at # "save"
  BY <1>2
<1>9. registered' => MemoryAgrees'
  BY <1>1, <1>4, <1>5, <1>7, <1>8 DEF MemoryAgrees, memory
<1> QED BY <1>7, <1>9 DEF CurrentKnown, AllAgree

\* The import's second save: all profiles in memory.
LEMMA CurrentKnownImported ==
    ASSUME ConfigTypes, BootOK, CurrentKnown, NEW c \in Callers, ImportSave(c)
    PROVE  CurrentKnown'
<1> SUFFICES ASSUME ~early, ~torn PROVE CurrentKnown'
  BY DEF CurrentKnown, ImportSave
<1> DEFINE r == SaveProfiles(c, CopyProfiles(profiles))    t == Tail(queue)    n == Len(queue)
<1>1. /\ Served(c, "save") /\ GoOn(c, "imported", r) /\ UNCHANGED <<memory, early, torn>>
      /\ r.by = c /\ Puts(r, "profiles") /\ ~Puts(r, "current") /\ DOMAIN r.value = DOMAIN profiles
      /\ queue # <<>> /\ queue' = Append(t, r)
  BY DEF ImportSave, SaveProfiles, Puts, CopyProfiles, Served, GoOn
<1>2. /\ pending'[c].at = "imported" /\ pending[c].at = "save"
      /\ Callers \subseteq DOMAIN pending
  BY <1>1, CallEnds DEF Continues, Served, ConfigTypes, QueueOK, PendingOK
<1>3. registered /\ MemoryAgrees
  BY <1>2, CallersAreRegistered DEF CurrentKnown
<1>4. IsSeq(t) /\ n \in Nat \ {0} /\ Len(t) = n - 1 /\ Len(t) \in Nat
  BY <1>1, SeqFacts DEF ConfigTypes, QueueOK
<1> HIDE DEF r
<1>5. Len(queue') = n /\ DOMAIN queue' = 1..n /\ queue'[n] = r
  BY <1>1, <1>4, SeqAppended
<1>6. n \in 1..n
  BY <1>4
<1>7. Stored(t, "current", store'.current, n) = Stored(queue, "current", store.current, n + 1)
  <2>1. /\ store'.current = IF Puts(Head(queue), "current") THEN {Head(queue).value} ELSE store.current
        /\ IsSeq(queue)
    BY <1>1, ServedFacts DEF ConfigTypes, QueueOK
  <2> QED BY <1>1, <1>6, <2>1, StoredServed
<1> HIDE DEF t
<1>8. /\ Stored(queue', "current", store'.current, n + 1) = Stored(queue, "current", store.current, n + 1)
      /\ Stored(queue', "profiles", store'.profiles, n + 1) = {r.value}
  <2>1. Len(t) + 2 = n + 1 /\ Len(t) + 1 = n
    BY <1>4
  <2>2. Stored(queue', "current", store'.current, Len(t) + 2) =
            IF Puts(r, "current") THEN {r.value} ELSE Stored(t, "current", store'.current, Len(t) + 1)
    BY <1>1, <1>4, StoredAppended
  <2>3. Stored(queue', "profiles", store'.profiles, Len(t) + 2) =
            IF Puts(r, "profiles") THEN {r.value} ELSE Stored(t, "profiles", store'.profiles, Len(t) + 1)
    BY <1>1, <1>4, StoredAppended
  <2> QED BY <1>1, <1>7, <2>1, <2>2, <2>3
<1>9. MemoryAgrees'
  BY <1>1, <1>3, <1>5, <1>8 DEF MemoryAgrees, NamesOf, memory
<1>10. ASSUME NEW i \in 1..n + 1
       PROVE  Agrees(queue', pending', store'.current, store'.profiles, i)
  <2>1. CASE i = n + 1
    <3>1. Stored(queue', "current", store'.current, n + 1) \subseteq DOMAIN profiles
      BY <1>3, <1>8 DEF MemoryAgrees
    <3> QED BY <1>1, <1>8, <2>1, <3>1 DEF Agrees, NamesOf
  <2>2. CASE i # n + 1
    <3>1. i <= n /\ n \in DOMAIN queue'
      BY <1>4, <1>5, <2>2
    <3>2. pending'[queue'[n].by].at = "imported"
      BY <1>1, <1>2, <1>5
    <3> QED BY <3>1, <3>2 DEF Agrees, Excused
  <2> QED BY <2>1, <2>2
<1> QED BY <1>5, <1>9, <1>10 DEF CurrentKnown

LEMMA CurrentKnownCalls ==
    ASSUME ConfigTypes, BootOK, CurrentKnown, NEW c \in Callers, NEW at, NEW r,
           Starts(c, at, r), Requested(at, r)
    PROVE  CurrentKnown'
<1> SUFFICES ASSUME ~early', ~torn' PROVE CurrentKnown'
  BY DEF CurrentKnown
<1> DEFINE n == Len(queue)
<1>1. /\ ~early /\ ~torn /\ registered /\ queue' = Append(queue, r) /\ UNCHANGED <<registered, store>>
      /\ pending[c].at = "idle" /\ pending'[c].at = at
      /\ \A d \in DOMAIN pending : d # c => pending'[d] = pending[d]
      /\ Callers \subseteq DOMAIN pending
  BY DEF Starts, ConfigTypes, QueueOK, PendingOK
<1>2. AllAgree(queue, pending, store.current, store.profiles) /\ MemoryAgrees
  BY <1>1 DEF CurrentKnown, AllAgree
<1>3. IsSeq(queue) /\ n \in Nat /\ Len(queue') = n + 1
  BY <1>1, SeqFacts, SeqAppended DEF ConfigTypes, QueueOK
<1>4. /\ \A d \in Callers : pending[d].at = "save" => pending'[d].at = "save"
      /\ \A k \in DOMAIN queue : pending[queue[k].by].at = "imported" => pending'[queue[k].by].at = "imported"
  <2>1. \A k \in DOMAIN queue : queue[k].by \in DOMAIN pending /\ queue[k].by # c
    BY <1>1 DEF ConfigTypes, QueueOK
  <2> QED BY <1>1, <2>1
<1>5. CASE ~Puts(r, "current") /\ ~Puts(r, "profiles")
  <2>1. /\ AllAgree(queue', pending', store.current, store.profiles)
        /\ Stored(queue', "current", store.current, Len(queue') + 1) = Stored(queue, "current", store.current, n + 1)
        /\ Stored(queue', "profiles", store.profiles, Len(queue') + 1) = Stored(queue, "profiles", store.profiles, n + 1)
    BY <1>1, <1>2, <1>3, <1>4, <1>5, AgreesWithOther
  <2>2. /\ current' = current /\ DOMAIN profiles \subseteq DOMAIN profiles'
        /\ at = "save" \/ profiles' = profiles
    BY <1>5 DEF Requested
  <2>3. (\A d \in Callers : pending'[d].at # "save") =>
            profiles' = profiles /\ \A d \in Callers : pending[d].at # "save"
    BY <1>1, <1>4, <2>2
  <2>4. MemoryAgrees'
    BY <1>1, <1>2, <2>1, <2>2, <2>3 DEF MemoryAgrees
  <2> QED BY <1>1, <2>1, <2>4 DEF CurrentKnown, AllAgree
<1>6. CASE Puts(r, "profiles")
  <2>1. /\ ~Puts(r, "current") /\ DOMAIN r.value = DOMAIN profiles' /\ current' = current
        /\ current \in DOMAIN profiles => current \in DOMAIN profiles'
    BY <1>6 DEF Requested, Puts
  <2>2. /\ Stored(queue', "current", store.current, n + 2) = Stored(queue, "current", store.current, n + 1)
        /\ Stored(queue', "profiles", store.profiles, n + 2) = {r.value}
    <3>1. Stored(queue', "current", store.current, n + 2) =
              IF Puts(r, "current") THEN {r.value} ELSE Stored(queue, "current", store.current, n + 1)
      BY <1>1, <1>3, StoredAppended
    <3>2. Stored(queue', "profiles", store.profiles, n + 2) =
              IF Puts(r, "profiles") THEN {r.value} ELSE Stored(queue, "profiles", store.profiles, n + 1)
      BY <1>1, <1>3, StoredAppended
    <3> QED BY <1>6, <2>1, <3>1, <3>2
  <2>3. Stored(queue', "current", store.current, n + 2) \subseteq {current} \intersect DOMAIN profiles'
    BY <1>2, <2>1, <2>2 DEF MemoryAgrees
  <2>4. NamesOf(Stored(queue', "profiles", store.profiles, n + 2)) = DOMAIN profiles'
    BY <2>1, <2>2 DEF NamesOf
  <2>5. Agrees(queue', pending', store.current, store.profiles, n + 2)
    BY <2>3, <2>4 DEF Agrees
  <2>6. AllAgree(queue', pending', store.current, store.profiles)
    BY <1>1, <1>2, <1>3, <1>4, <2>5, AgreesAppended
  <2>7. Len(queue') + 1 = n + 2
    BY <1>3
  <2>8. MemoryAgrees'
    BY <1>1, <2>1, <2>3, <2>4, <2>7 DEF MemoryAgrees
  <2> QED BY <1>1, <2>6, <2>8 DEF CurrentKnown, AllAgree
<1>7. CASE Puts(r, "current")
  <2>1. /\ ~Puts(r, "profiles") /\ r.value = current' /\ current' \in DOMAIN profiles /\ profiles' = profiles
        /\ at = "persist"
    BY <1>7 DEF Requested, Puts
  <2>2. /\ Stored(queue', "profiles", store.profiles, n + 2) = Stored(queue, "profiles", store.profiles, n + 1)
        /\ Stored(queue', "current", store.current, n + 2) = {current'}
    <3>1. Stored(queue', "current", store.current, n + 2) =
              IF Puts(r, "current") THEN {r.value} ELSE Stored(queue, "current", store.current, n + 1)
      BY <1>1, <1>3, StoredAppended
    <3>2. Stored(queue', "profiles", store.profiles, n + 2) =
              IF Puts(r, "profiles") THEN {r.value} ELSE Stored(queue, "profiles", store.profiles, n + 1)
      BY <1>1, <1>3, StoredAppended
    <3> QED BY <1>7, <2>1, <3>1, <3>2
  <2>3. (\A d \in Callers : pending[d].at # "save") =>
            DOMAIN profiles \subseteq NamesOf(Stored(queue', "profiles", store.profiles, n + 2))
    BY <1>2, <2>2 DEF MemoryAgrees
  <2>4. Agrees(queue', pending', store.current, store.profiles, n + 2)
    <3>1. CASE \A d \in Callers : pending[d].at # "save"
      BY <2>1, <2>2, <2>3, <3>1 DEF Agrees
    <3>2. CASE \E d \in Callers : pending[d].at = "save"
      BY <1>4, <3>2 DEF Agrees, Excused
    <3> QED BY <3>1, <3>2
  <2>5. AllAgree(queue', pending', store.current, store.profiles)
    BY <1>1, <1>2, <1>3, <1>4, <2>4, AgreesAppended
  <2>6. Len(queue') + 1 = n + 2
    BY <1>3
  <2>7. (\A d \in Callers : pending'[d].at # "save") => \A d \in Callers : pending[d].at # "save"
    BY <1>4
  <2>8. MemoryAgrees'
    BY <1>1, <2>1, <2>2, <2>3, <2>6, <2>7 DEF MemoryAgrees
  <2> QED BY <1>1, <2>5, <2>8 DEF CurrentKnown, AllAgree
<1> QED BY <1>5, <1>6, <1>7

LEMMA CurrentKnownFails ==
    ASSUME ConfigTypes, BootOK, CurrentKnown, RequestFails
    PROVE  CurrentKnown'
<1> SUFFICES ASSUME ~early', ~torn' PROVE CurrentKnown'
  BY DEF CurrentKnown
<1> DEFINE c == Head(queue).by
<1>1. /\ ~early /\ ~torn /\ queue # <<>> /\ queue' = Tail(queue) /\ store' = store
      /\ pending' = [pending EXCEPT ![c] = NoCall] /\ pending[c].at # "save"
      /\ ~Puts(Head(queue), "current") /\ ~Puts(Head(queue), "profiles")
      /\ UNCHANGED memory
  BY DEF RequestFails, Puts
<1>2. QueueOK(queue, pending) /\ Callers \subseteq DOMAIN pending
  BY DEF ConfigTypes, QueueOK, PendingOK
<1>3. AllAgree(queue, pending, store.current, store.profiles) /\ (registered => MemoryAgrees)
  BY <1>1 DEF CurrentKnown, AllAgree
<1>4. \A d \in DOMAIN pending : d # c => pending'[d] = pending[d]
  BY <1>1
<1>5. /\ AllAgree(queue', pending', store.current, store.profiles)
      /\ Stored(queue', "current", store.current, Len(queue') + 1) = Stored(queue, "current", store.current, Len(queue) + 1)
      /\ Stored(queue', "profiles", store.profiles, Len(queue') + 1) = Stored(queue, "profiles", store.profiles, Len(queue) + 1)
  <2>1. /\ store.current = IF Puts(Head(queue), "current") THEN {Head(queue).value} ELSE store.current
        /\ store.profiles = IF Puts(Head(queue), "profiles") THEN {Head(queue).value} ELSE store.profiles
    BY <1>1
  <2>2. queue # <<>> /\ pending[Head(queue).by].at # "save" /\ queue' = Tail(queue)
    BY <1>1
  <2>3. /\ AllAgree(Tail(queue), pending', store.current, store.profiles)
        /\ Stored(Tail(queue), "current", store.current, Len(Tail(queue)) + 1) =
               Stored(queue, "current", store.current, Len(queue) + 1)
        /\ Stored(Tail(queue), "profiles", store.profiles, Len(Tail(queue)) + 1) =
               Stored(queue, "profiles", store.profiles, Len(queue) + 1)
    BY <1>2, <1>3, <1>4, <2>1, <2>2, AgreesServed
  <2> QED BY <2>2, <2>3
<1>6. (\A d \in Callers : pending'[d].at # "save") => \A d \in Callers : pending[d].at # "save"
  BY <1>1, <1>2, <1>4
<1>7. registered' => MemoryAgrees'
  BY <1>1, <1>3, <1>5, <1>6 DEF MemoryAgrees, memory
<1> QED BY <1>1, <1>5, <1>7 DEF CurrentKnown, AllAgree

LEMMA CurrentKnownReads ==
    ASSUME ConfigTypes, BootOK, CurrentKnown, BootProfiles \/ BootCurrent \/ BootData
    PROVE  CurrentKnown'
<1> SUFFICES ASSUME ~early', ~torn' PROVE CurrentKnown'
  BY DEF CurrentKnown
<1>1. PICK at \in BootAt : Served(Boot, at) /\ pending[Boot].at = at /\ (BootData => at = "data")
  BY DEF BootProfiles, BootCurrent, BootData, Served, BootAt
<1>2. ~early /\ ~torn /\ queue # <<>> /\ store' = store /\ ~registered /\ BootPhase
  <2>1. ~early /\ ~torn
    BY DEF BootProfiles, BootCurrent, BootData
  <2>2. Head(queue).op = "get" /\ queue # <<>> /\ at # "idle"
    BY <1>1, ServedFacts DEF Shape, BootAt
  <2>3. store' = store
    BY <1>1, <2>2 DEF Served
  <2> QED BY <1>1, <2>1, <2>2, <2>3 DEF BootOK
<1>3. Len(queue) = 1 /\ IsSeq(queue) /\ 1 \in 1..Len(queue) + 1
      /\ ~Excused(queue, pending, 1)
  <2>1. Len(queue) = 1 /\ \A i \in DOMAIN queue : queue[i].by = Boot
    BY <1>2, OnlyBoot DEF BootPhase
  <2>2. ~Excused(queue, pending, 1)
    BY <1>1, <1>2, <2>1 DEF Excused, BootPhase, BootAt
  <2> QED BY <2>1, <2>2 DEF ConfigTypes, QueueOK
<1>4. \A key, S : Stored(queue, key, S, 1) = S
  <2>1. \A k \in DOMAIN queue : ~(k < 1)
    BY <1>3, SeqFacts
  <2> QED BY <2>1 DEF Stored, Latest
<1>5. store.current \subseteq NamesOf(store.profiles)
  BY <1>2, <1>3, <1>4 DEF CurrentKnown, Agrees
<1>6. \A k \in DOMAIN queue' : ~Puts(queue'[k], "current") /\ ~Puts(queue'[k], "profiles")
  <2>1. IsSeq(Tail(queue)) /\ Len(Tail(queue)) = 0 /\ DOMAIN Tail(queue) = {}
    <3>1. IsSeq(Tail(queue)) /\ Len(Tail(queue)) = 0
      BY <1>2, <1>3, SeqFacts
    <3>2. DOMAIN Tail(queue) = 1..0
      BY <3>1, SeqFacts
    <3> QED BY <3>1, <3>2
  <2>2. CASE queue' = Tail(queue)
    BY <2>1, <2>2
  <2>3. ASSUME NEW r, queue' = Append(Tail(queue), r), r.op = "get"
        PROVE  \A k \in DOMAIN queue' : ~Puts(queue'[k], "current") /\ ~Puts(queue'[k], "profiles")
    <3> DEFINE t == Tail(queue)
    <3> HIDE DEF t
    <3>1. IsSeq(t) /\ Len(t) = 0 /\ queue' = Append(t, r)
      BY <2>1, <2>3 DEF t
    <3>2. DOMAIN queue' = 1..Len(t) + 1 /\ queue'[Len(t) + 1] = r
      BY <3>1, SeqAppended
    <3>3. \A k \in DOMAIN queue' : queue'[k] = r
      BY <3>1, <3>2
    <3> QED BY <2>3, <3>3 DEF Puts
  <2>4. \/ queue' = Tail(queue)
        \/ \E r : queue' = Append(Tail(queue), r) /\ r.op = "get"
    BY DEF BootProfiles, BootCurrent, BootData, GoOn, Finish, Read
  <2> QED BY <2>2, <2>3, <2>4
<1>7. \A i, S : Stored(queue', "current", S, i) = S /\ Stored(queue', "profiles", S, i) = S
  BY <1>6 DEF Stored, Latest
<1>8. \A i : Agrees(queue', pending', store'.current, store'.profiles, i)
  BY <1>2, <1>5, <1>7 DEF Agrees
<1>9. registered' => MemoryAgrees'
  <2>1. CASE BootData
    <3>1. DOMAIN profiles = NamesOf(store.profiles) /\ store.current \subseteq {current}
      BY <1>1, <1>2, <2>1 DEF BootPhase
    <3>2. profiles' = profiles /\ current' = current
      BY <2>1 DEF BootData
    <3> QED BY <1>2, <1>5, <1>7, <3>1, <3>2 DEF MemoryAgrees
  <2>2. CASE BootProfiles \/ BootCurrent
    BY <1>2, <2>2 DEF BootProfiles, BootCurrent
  <2> QED BY <2>1, <2>2
<1> QED BY <1>8, <1>9 DEF CurrentKnown

LEMMA CurrentNow ==
    ASSUME ConfigTypes, CurrentKnown, ~early, ~torn, ~Importing
    PROVE  store.current \subseteq NamesOf(store.profiles)
<1>1. IsSeq(queue) /\ Len(queue) \in Nat /\ DOMAIN queue = 1..Len(queue)
  BY SeqFacts DEF ConfigTypes, QueueOK
<1>2. ~Excused(queue, pending, 1)
  <2>1. \A j \in DOMAIN queue : pending[queue[j].by].at # "imported"
    BY DEF Importing, ConfigTypes, QueueOK, PendingOK, AtOf, BootAt, CallerAt
  <2> QED BY <2>1 DEF Excused, Importing
<1>3. Stored(queue, "current", store.current, 1) = store.current
      /\ Stored(queue, "profiles", store.profiles, 1) = store.profiles
  <2>1. \A k \in DOMAIN queue : ~(k < 1)
    BY <1>1
  <2> QED BY <2>1 DEF Stored, Latest
<1>4. 1 \in 1..Len(queue) + 1
  BY <1>1
<1> QED BY <1>2, <1>3, <1>4 DEF CurrentKnown, Agrees

LEMMA CurrentKnownReload ==
    ASSUME ConfigTypes, CurrentKnown, Reload
    PROVE  CurrentKnown'
<1> SUFFICES ASSUME ~early', ~torn' PROVE CurrentKnown'
  BY DEF CurrentKnown
<1>1. ~early /\ ~torn /\ ~Importing /\ store' = store /\ ~registered' /\ queue' = <<Read("profiles")>>
  BY DEF Reload
<1>5. store.current \subseteq NamesOf(store.profiles)
  BY <1>1, CurrentNow
<1>6. \A k \in DOMAIN queue' : ~Puts(queue'[k], "current") /\ ~Puts(queue'[k], "profiles")
  <2>1. DOMAIN queue' = {1} /\ queue'[1] = Read("profiles")
    BY <1>1
  <2> QED BY <2>1 DEF Puts, Read
<1>7. \A i, S : Stored(queue', "current", S, i) = S /\ Stored(queue', "profiles", S, i) = S
  BY <1>6 DEF Stored, Latest
<1> QED BY <1>1, <1>5, <1>7 DEF CurrentKnown, Agrees

LEMMA CurrentKnownInit == ConfigInit => CurrentKnown
<1> SUFFICES ASSUME ConfigInit PROVE CurrentKnown
  OBVIOUS
<1>1. ~registered /\ queue = <<Read("profiles")>> /\ store.current = {}
  BY DEF ConfigInit
<1>2. \A k \in DOMAIN queue : ~Puts(queue[k], "current")
  <2>1. DOMAIN queue = {1} /\ queue[1] = Read("profiles")
    BY <1>1
  <2> QED BY <2>1 DEF Puts, Read
<1>3. \A i : Stored(queue, "current", store.current, i) = {}
  BY <1>1, <1>2 DEF Stored, Latest
<1> QED BY <1>1, <1>3 DEF CurrentKnown, Agrees

LEMMA CurrentKnownKept ==
    ConfigTypes /\ BootOK /\ CurrentKnown /\ [ConfigNext]_configVars => CurrentKnown'
<1> SUFFICES ASSUME ConfigTypes, BootOK, CurrentKnown, [ConfigNext]_configVars PROVE CurrentKnown'
  OBVIOUS
<1>1. CASE BootProfiles \/ BootCurrent \/ BootData
  BY <1>1, CurrentKnownReads
<1>2. ASSUME NEW c \in Callers, Operation(c) PROVE CurrentKnown'
  <2>1. PICK at, r : Starts(c, at, r) /\ Requested(at, r)
    BY <1>2, OperationRequests
  <2> QED BY <2>1, CurrentKnownCalls
<1>3. ASSUME NEW c \in Callers, Notify(c) \/ ConfigEnd(c) \/ NotifyAll(c) PROVE CurrentKnown'
  <2>1. PICK at \in {"notify", "finish", "notifyall", "imported"} :
            Served(c, at) /\ Finish(c) /\ UNCHANGED <<memory, early, torn>>
    BY <1>3 DEF Notify, ConfigEnd, NotifyAll
  <2> QED BY <2>1, CallEnds, CurrentKnownEnds
<1>4. ASSUME NEW c \in Callers, SwitchPersist(c) \/ ImportSave(c) PROVE CurrentKnown'
  BY <1>4, CurrentKnownSwitch, CurrentKnownImported
<1>5. CASE RequestFails \/ Reload
  BY <1>5, CurrentKnownFails, CurrentKnownReload
<1>6. CASE Export \/ UNCHANGED configVars
  BY <1>6 DEF Export, configVars, memory, CurrentKnown, MemoryAgrees
<1> QED BY <1>1, <1>2, <1>3, <1>4, <1>5, <1>6 DEF ConfigNext
-----------------------------------------------------------------------------
(* Configuration: the properties. *)

\* The sections of the properties are the same objects, with the same settings.
OwnKept ==
    /\ own' = own
    /\ \A k \in DOMAIN own : own[k][1] = "ref" => heap'[own[k][2]] = heap[own[k][2]]

LEMMA OwnKeptFacts ==
    ASSUME ConfigTypes, OwnKept
    PROVE  /\ \A k \in DOMAIN own : (Content(own[k]))' = Content(own[k])
           /\ \A path : (Content(GetSetting(path)))' = Content(GetSetting(path))
<1>1. \A k \in DOMAIN own : (Content(own[k]))' = Content(own[k])
  BY DEF OwnKept, Content
<1>2. ASSUME NEW path PROVE (Content(GetSetting(path)))' = Content(GetSetting(path))
  <2>1. CASE path[1] \notin DOMAIN own
    <3>1. GetSetting(path) = Undefined /\ (GetSetting(path))' = Undefined
      BY <2>1 DEF GetSetting, OwnKept
    <3> QED BY <3>1 DEF Content, Undefined
  <2>2. CASE path[1] \in DOMAIN own /\ Len(path) = 1
    <3>1. GetSetting(path) = own[path[1]] /\ (GetSetting(path))' = own[path[1]]
      BY <2>2 DEF GetSetting, OwnKept
    <3> QED BY <2>2, <3>1 DEF Content, OwnKept
  <2>3. CASE path[1] \in DOMAIN own /\ Len(path) # 1
    <3> DEFINE section == Content(own[path[1]])
    <3>1. (GetSetting(path))' = GetSetting(path)
      BY <1>1, <2>3 DEF GetSetting, OwnKept
    <3>2. GetSetting(path)[1] # "ref"
      <4>1. CASE section[1] = "object" /\ path[2] \in DOMAIN section[2]
        <5>1. own[path[1]][1] = "ref" /\ own[path[1]][2] \in DOMAIN heap
          BY <2>3, <4>1 DEF Content, ConfigTypes, MemoryOK, MapIn
        <5>2. section[2] = heap[own[path[1]][2]]
          BY <5>1 DEF Content, Obj
        <5>3. section[2][path[2]][1] # "ref"
          BY <4>1, <5>1, <5>2 DEF ConfigTypes, MemoryOK, NoRefs
        <5> QED BY <2>3, <4>1, <5>3 DEF GetSetting
      <4>2. CASE ~(section[1] = "object" /\ path[2] \in DOMAIN section[2])
        BY <2>3, <4>2 DEF GetSetting, Undefined
      <4> QED BY <4>1, <4>2
    <3>3. Content(GetSetting(path)) = GetSetting(path)
      BY <3>2 DEF Content
    <3>4. (Content(GetSetting(path)))' = (GetSetting(path))'
      BY <3>1, <3>2 DEF Content
    <3> QED BY <3>1, <3>3, <3>4
  <2> QED BY <2>1, <2>2, <2>3
<1> QED BY <1>1, <1>2

\* Objects that boot and import make are none of set's.
LEMMA OthersObjects ==
    ASSUME ConfigTypes, own' = own, NEW o, heap' = Over(o, heap),
           \A i \in DOMAIN o : i[2][1] # "set"
    PROVE  OwnKept
<1> SUFFICES ASSUME NEW k \in DOMAIN own, own[k][1] = "ref" PROVE heap'[own[k][2]] = heap[own[k][2]]
  BY DEF OwnKept
<1>1. own[k][2] \in DOMAIN heap /\ own[k][2][2] = <<"set", "own">>
  BY DEF ConfigTypes, MemoryOK, MapIn, OwnIds
<1>2. own[k][2][2][1] = "set"
  BY <1>1
<1> QED BY <1>1, <1>2 DEF Over

LEMMA BootKeepsOwn == ASSUME ConfigTypes, BootProfiles \/ BootCurrent \/ BootData PROVE OwnKept
<1>1. CASE BootProfiles
  <2>1. CASE store.profiles = {}
    BY <1>1, <2>1 DEF BootProfiles, OwnKept
  <2>2. CASE store.profiles # {}
    <3> DEFINE ps == TheOne(store.profiles)    o == ProfileObjects(ps, Boot)
    <3>1. CopiedProfiles(ps)
      BY <2>2 DEF TheOne, ConfigTypes, StoreOK
    <3>2. \A i \in DOMAIN o : i[2][1] = "boot"
      BY <3>1, ParsedProfilesFacts DEF Boot
    <3>3. own' = own /\ heap' = Over(o, heap)
      BY <1>1, <2>2 DEF BootProfiles
    <3> HIDE DEF o
    <3>4. \A i \in DOMAIN o : i[2][1] # "set"
      BY <3>2
    <3> QED BY <3>3, <3>4, OthersObjects
  <2> QED BY <2>1, <2>2
<1>2. CASE BootCurrent
  BY <1>2 DEF BootCurrent, OwnKept
<1>3. CASE BootData
  <2>1. own' = own /\ (heap' = heap \/ \E o : heap' = Over(heap, o))
    BY <1>3 DEF BootData
  <2>2. ASSUME NEW k \in DOMAIN own, own[k][1] = "ref" PROVE heap'[own[k][2]] = heap[own[k][2]]
    <3>1. own[k][2] \in DOMAIN heap
      BY <2>2 DEF ConfigTypes, MemoryOK, MapIn
    <3> QED BY <2>1, <3>1 DEF Over
  <2> QED BY <2>1, <2>2 DEF OwnKept
<1> QED BY <1>1, <1>2, <1>3

LEMMA ImportKeepsOwn ==
    ASSUME ConfigTypes, NEW c, NEW merge, NEW named, Import(c, merge, named)
    PROVE  OwnKept
<1>1. PICK text \in exported :
        /\ own' = own
        /\ heap' = Over(Objects(text.config, <<"import", "entries">>),
                        Over(ProfileObjects(text.profiles, "import"), heap))
  BY DEF Import
<1> DEFINE eo == Objects(text.config, <<"import", "entries">>)
           po == ProfileObjects(text.profiles, "import")
<1>2. Copied(text.config) /\ CopiedProfiles(text.profiles)
  BY DEF ConfigTypes, ExportOK
<1>3. \A i \in DOMAIN eo : i[2] = <<"import", "entries">>
  BY <1>2, ParsedFacts
<1>4. \A i \in DOMAIN po : i[2][1] = "import"
  BY <1>2, ParsedProfilesFacts
<1>5. own' = own /\ heap' = Over(eo, Over(po, heap))
  BY <1>1
<1> HIDE DEF eo, po
<1>6. \A i \in DOMAIN eo : i[2][1] = "import"
  BY <1>3
<1>7. heap' = Over(Over(eo, po), heap) /\ \A i \in DOMAIN Over(eo, po) : i[2][1] # "set"
  <2>1. Over(eo, Over(po, heap)) = Over(Over(eo, po), heap)
    BY DEF Over
  <2>2. \A i \in DOMAIN Over(eo, po) : i[2][1] = "import"
    BY <1>4, <1>6 DEF Over
  <2> QED BY <1>5, <2>1, <2>2
<1> QED BY <1>5, <1>7, OthersObjects

\* What delete leaves.
LEMMA DeletedFacts ==
    ASSUME ConfigTypes, NEW c, NEW path, DeleteSetting(c, path)
    PROVE  /\ (Content(GetSetting(path)) = Undefined)'
           /\ \A k \in DOMAIN own' :
                 /\ k \in DOMAIN own
                 /\ \/ (Content(own[k]))' = Content(own[k])
                    \/ \E h : /\ (Content(own[k]))' = Obj(h)
                              /\ Content(own[k]) = Obj(heap[own[k][2]])
                              /\ \A p \in DOMAIN h : p \in DOMAIN heap[own[k][2]] /\ h[p] = heap[own[k][2]][p]
<1> DEFINE k0 == path[1]    id == own[k0][2]
<1>1. Content(Undefined) = Undefined /\ (Content(Undefined))' = Undefined
  BY DEF Content, Undefined
<1>2. CASE Len(path) = 1
  <2>1. own' = [x \in DOMAIN own \ {k0} |-> own[x]] /\ heap' = heap
    BY <1>2 DEF DeleteSetting
  <2>2. (GetSetting(path))' = Undefined
    BY <1>2, <2>1 DEF GetSetting
  <2>3. (Content(GetSetting(path)))' = Undefined
    BY <1>1, <2>2 DEF Content
  <2>4. \A k \in DOMAIN own' : k \in DOMAIN own /\ (Content(own[k]))' = Content(own[k])
    BY <2>1 DEF Content
  <2> QED BY <2>3, <2>4
<1>3. CASE Len(path) # 1 /\ own[k0][1] # "ref"
  <2>1. own' = own /\ heap' = heap /\ k0 \in DOMAIN own
    BY <1>3 DEF DeleteSetting, HasSection
  <2>2. (Content(own[k0]))' = own[k0] /\ own[k0][1] # "object"
    BY <1>3, <2>1 DEF Content, ConfigTypes, MemoryOK, MapIn
  <2>3. (GetSetting(path))' = Undefined
    BY <1>3, <2>1, <2>2 DEF GetSetting
  <2>4. (Content(GetSetting(path)))' = Undefined
    BY <1>1, <2>3 DEF Content
  <2>5. \A k \in DOMAIN own' : k \in DOMAIN own /\ (Content(own[k]))' = Content(own[k])
    BY <2>1 DEF Content
  <2> QED BY <2>4, <2>5
<1>4. CASE Len(path) # 1 /\ own[k0][1] = "ref"
  <2> DEFINE h == [x \in DOMAIN heap[id] \ {path[2]} |-> heap[id][x]]
  <2>1. own' = own /\ k0 \in DOMAIN own /\ heap' = [heap EXCEPT ![id] = h]
    BY <1>4 DEF DeleteSetting, HasSection
  <2>2. id \in DOMAIN heap
    BY <1>4, <2>1 DEF ConfigTypes, MemoryOK, MapIn
  <2>3. heap'[id] = h /\ \A i \in DOMAIN heap : i # id => heap'[i] = heap[i]
    BY <2>1, <2>2
  <2>4. \A p \in DOMAIN h : p # path[2] /\ p \in DOMAIN heap[id] /\ h[p] = heap[id][p]
    OBVIOUS
  <2> HIDE DEF h
  <2>5. (Content(own[k0]))' = <<"object", h>>
    BY <1>4, <2>1, <2>3 DEF Content, Obj
  <2>6. (GetSetting(path))' = Undefined
    BY <1>4, <2>1, <2>4, <2>5 DEF GetSetting
  <2>7. (Content(GetSetting(path)))' = Undefined
    BY <1>1, <2>6 DEF Content
  <2>8. ASSUME NEW k \in DOMAIN own'
        PROVE  /\ k \in DOMAIN own
               /\ \/ (Content(own[k]))' = Content(own[k])
                  \/ \E g : /\ (Content(own[k]))' = Obj(g)
                            /\ Content(own[k]) = Obj(heap[own[k][2]])
                            /\ \A p \in DOMAIN g : p \in DOMAIN heap[own[k][2]] /\ g[p] = heap[own[k][2]][p]
    <3>1. CASE own[k][1] = "ref" /\ own[k][2] = id
      <4>1. (Content(own[k]))' = Obj(h) /\ Content(own[k]) = Obj(heap[own[k][2]])
        BY <2>1, <2>3, <3>1 DEF Content
      <4> QED BY <2>1, <2>4, <3>1, <4>1
    <3>2. CASE own[k][1] = "ref" /\ own[k][2] # id
      <4>1. own[k][2] \in DOMAIN heap
        BY <2>1, <3>2 DEF ConfigTypes, MemoryOK, MapIn
      <4> QED BY <2>1, <2>3, <3>2, <4>1 DEF Content
    <3>3. CASE own[k][1] # "ref"
      BY <2>1, <3>3 DEF Content
    <3> QED BY <3>1, <3>2, <3>3
  <2> QED BY <2>7, <2>8
<1> QED BY <1>2, <1>3, <1>4

LEMMA SetSections ==
    ASSUME ConfigTypes, registered, NEW path, NEW value, IsPath(path), Plain(value),
           value = <<value[1], value[2]>>, Accepted(path, value), Assign(path, value),
           \A k \in DOMAIN own \intersect DOMAIN BuiltinSchemas : SectionValid(k, Content(own[k]))
    PROVE  \A k \in DOMAIN own' \intersect DOMAIN BuiltinSchemas : SectionValid(k, Content(own[k])')
<1> DEFINE k0 == path[1]    fresh == Id(<<"set", "own">>, k0)    id == own[k0][2]
<1>1. fresh[3] = k0
  BY DEF Id
<1>2. k0 \in DOMAIN BuiltinSchemas =>
        IF Len(path) = 1 THEN SectionValid(k0, value) ELSE SettingValid(<<k0, path[2]>>, value)
  <2>1. Len(path) # 1 => path = <<path[1], path[2]>>
    BY PathFacts
  <2> QED BY <2>1 DEF Accepted
<1>3. \A k \in DOMAIN own : own[k][1] = "ref" => own[k][2] \in DOMAIN heap /\ own[k][2][3] = k
  BY DEF ConfigTypes, MemoryOK, MapIn, OwnIds
<1>4. CASE Len(path) = 2 /\ HasSection(k0)
  <2>0. k0 \in DOMAIN own
    BY <1>4 DEF HasSection
  <2> DEFINE h == With(heap[id], path[2], value)
  <2>1. own[k0][1] = "ref" /\ own' = own /\ heap' = [heap EXCEPT ![id] = h]
    BY <1>4 DEF Assign
  <2>2. heap'[id] = h /\ \A i \in DOMAIN heap : i # id => heap'[i] = heap[i]
    BY <1>3, <2>0, <2>1
  <2>3. /\ \A p \in DOMAIN h : p = path[2] \/ p \in DOMAIN heap[id]
        /\ h[path[2]] = value /\ \A p \in DOMAIN heap[id] : p # path[2] => h[p] = heap[id][p]
    BY DEF With
  <2> HIDE DEF h
  <2>4. ASSUME NEW k \in DOMAIN own, k \in DOMAIN BuiltinSchemas, k # k0 PROVE SectionValid(k, Content(own[k])')
    <3>1. own[k][1] = "ref" => own[k][2] # id /\ own[k][2] \in DOMAIN heap
      BY <1>3, <2>0, <2>1, <2>4
    <3>2. Content(own[k])' = Content(own[k])
      BY <2>1, <2>2, <3>1 DEF Content
    <3> QED BY <2>4, <3>2
  <2>5. ASSUME k0 \in DOMAIN BuiltinSchemas PROVE SectionValid(k0, Content(own[k0])')
    <3>1. Content(own[k0])' = <<"object", h>>
      BY <2>1, <2>2 DEF Content, Obj
    <3>2. Content(own[k0]) = <<"object", heap[id]>>
      BY <2>1 DEF Content, Obj
    <3>3. \A p \in DOMAIN heap[id] : SettingValid(<<k0, p>>, heap[id][p])
      BY <2>0, <2>5, <3>2 DEF SectionValid
    <3>4. SettingValid(<<k0, path[2]>>, value)
      BY <1>2, <1>4, <2>5
    <3>5. \A p \in DOMAIN h : SettingValid(<<k0, p>>, h[p])
      BY <2>3, <3>3, <3>4
    <3> QED BY <3>1, <3>5 DEF SectionValid
  <2> QED BY <2>0, <2>1, <2>4, <2>5
<1>5. CASE ~(Len(path) = 2 /\ HasSection(k0)) /\ (Len(path) = 2 \/ value[1] = "object")
  <2> DEFINE section == IF Len(path) = 2 THEN With(NoMap, path[2], value) ELSE value[2]
  <2>1. heap' = With(heap, fresh, section) /\ own' = With(own, k0, <<"ref", fresh>>)
    BY <1>5 DEF Assign
  <2>2. k0 \in DOMAIN BuiltinSchemas => SectionValid(k0, <<"object", section>>)
    <3>1. CASE Len(path) = 2
      <4>1. DOMAIN section = {path[2]} /\ section[path[2]] = value
        BY <3>1 DEF NoMap, With
      <4> QED BY <1>2, <3>1, <4>1 DEF SectionValid
    <3>2. CASE Len(path) # 2
      <4>1. section = value[2] /\ value = <<"object", section>> /\ Len(path) = 1
        <5>1. Len(path) = 1
          BY <3>2, PathFacts
        <5>2. section = value[2] /\ value[1] = "object"
          BY <1>5, <3>2
        <5> HIDE DEF section
        <5> QED BY <5>1, <5>2
      <4> QED BY <1>2, <4>1
    <3> QED BY <3>1, <3>2
  <2> HIDE DEF section
  <2>3. /\ heap'[fresh] = section /\ \A i \in DOMAIN heap : i # fresh => heap'[i] = heap[i]
        /\ own'[k0] = <<"ref", fresh>> /\ \A x \in DOMAIN own' : x = k0 \/ x \in DOMAIN own
        /\ \A x \in DOMAIN own : x # k0 => own'[x] = own[x]
    BY <2>1 DEF With
  <2>4. ASSUME NEW k \in DOMAIN own, k \in DOMAIN BuiltinSchemas, k # k0 PROVE SectionValid(k, Content(own[k])')
    <3>1. own[k][1] = "ref" => own[k][2] # fresh /\ own[k][2] \in DOMAIN heap
      BY <1>1, <1>3, <2>4
    <3>2. Content(own[k])' = Content(own[k])
      BY <2>3, <2>4, <3>1 DEF Content
    <3> QED BY <2>4, <3>2
  <2>5. Content(own[k0])' = <<"object", section>>
    BY <2>3 DEF Content, Obj
  <2> QED BY <2>2, <2>3, <2>4, <2>5
<1>6. CASE Len(path) # 2 /\ value[1] # "object"
  <2>1. own' = With(own, k0, value) /\ heap' = heap
    BY <1>6 DEF Assign
  <2>2. k0 \notin DOMAIN BuiltinSchemas
    BY <1>2, <1>6, PathFacts DEF SectionValid
  <2>3. /\ \A x \in DOMAIN own' : x = k0 \/ x \in DOMAIN own
        /\ \A x \in DOMAIN own : x # k0 => own'[x] = own[x]
    BY <2>1 DEF With
  <2>4. \A k \in DOMAIN own : k # k0 => Content(own[k])' = Content(own[k])
    BY <2>1, <2>3 DEF Content
  <2> QED BY <2>2, <2>3, <2>4
<1> QED BY <1>4, <1>5, <1>6

LEMMA SectionsKept ==
    ASSUME ConfigTypes, SectionsValid, OwnKept, registered' <=> registered, ~early' => ~early
    PROVE  SectionsValid'
<1>1. own' = own /\ \A k \in DOMAIN own : Content(own[k])' = Content(own[k])
  BY OwnKeptFacts DEF OwnKept
<1> QED BY <1>1 DEF SectionsValid, SectionValid, NoMap

LEMMA SectionsStep == ConfigTypes /\ SectionsValid /\ [ConfigNext]_configVars => SectionsValid'
<1> SUFFICES ASSUME ConfigTypes, SectionsValid, [ConfigNext]_configVars, ~early' PROVE SectionsValid'
  BY DEF SectionsValid
<1>1. CASE BootProfiles \/ BootCurrent
  BY <1>1, BootKeepsOwn, SectionsKept DEF BootProfiles, BootCurrent
<1>2. CASE BootData
  <2>1. own' = own /\ ~early /\ registered'
    BY <1>2 DEF BootData
  <2>2. CASE ~registered
    BY <1>2, <2>1, <2>2 DEF SectionsValid, NoMap, BootData
  <2>3. CASE registered
    BY <1>2, <2>1, <2>3, BootKeepsOwn, SectionsKept
  <2> QED BY <2>2, <2>3
<1>3. ASSUME NEW c \in Callers, Operation(c) PROVE SectionsValid'
  <2>1. ~early /\ registered
    BY <1>3, OperationRequests DEF Starts
  <2>2. \A k \in DOMAIN own \intersect DOMAIN BuiltinSchemas : SectionValid(k, Content(own[k]))
    BY <2>1 DEF SectionsValid
  <2>3. ASSUME NEW path, NEW value, IsPath(path), Plain(value), value = <<value[1], value[2]>>,
               Set(c, path, value)
        PROVE  SectionsValid'
    <3>1. Accepted(path, value) /\ Assign(path, value) /\ registered' = registered
      BY <2>3 DEF Set
    <3>2. \A k \in DOMAIN own' \intersect DOMAIN BuiltinSchemas : SectionValid(k, Content(own[k])')
      BY <2>1, <2>2, <2>3, <3>1, SetSections
    <3> QED BY <2>1, <3>1, <3>2 DEF SectionsValid, SectionValid
  <2>4. ASSUME NEW e \in Edits, Set(c, e[1], e[2]) PROVE SectionsValid'
    BY <2>3, <2>4, ConfigAssumption
  <2>5. CASE EditInUI(c)
    <3>1. PICK s \in DOMAIN BuiltinSchemas :
            \E v \in Produces(DefaultWidget(BuiltinSchemas[s]), BuiltinSchemas[s]) :
                Set(c, <<Category(BuiltinSchemas[s])>>, v)
      BY <2>5 DEF EditInUI
    <3>2. PICK v \in Produces(DefaultWidget(BuiltinSchemas[s]), BuiltinSchemas[s]) :
            Set(c, <<Category(BuiltinSchemas[s])>>, v)
      BY <3>1
    <3>3. IsPath(<<Category(BuiltinSchemas[s])>>)
      BY DEF IsPath
    <3> QED BY <2>3, <3>2, <3>3, ProducedFacts
  <2>6. ASSUME NEW path, DeleteSetting(c, path) PROVE SectionsValid'
    <3>1. registered'
      BY <2>1, <2>6 DEF DeleteSetting
    <3>2. ASSUME NEW k \in DOMAIN own', k \in DOMAIN BuiltinSchemas PROVE SectionValid(k, Content(own[k])')
      <4>1. /\ k \in DOMAIN own
            /\ \/ (Content(own[k]))' = Content(own[k])
               \/ \E h : /\ (Content(own[k]))' = Obj(h)
                         /\ Content(own[k]) = Obj(heap[own[k][2]])
                         /\ \A p \in DOMAIN h : p \in DOMAIN heap[own[k][2]] /\ h[p] = heap[own[k][2]][p]
        BY <2>6, <3>2, DeletedFacts
      <4>2. SectionValid(k, Content(own[k]))
        BY <2>2, <3>2, <4>1
      <4>3. ASSUME NEW h, (Content(own[k]))' = Obj(h), Content(own[k]) = Obj(heap[own[k][2]]),
                   \A p \in DOMAIN h : p \in DOMAIN heap[own[k][2]] /\ h[p] = heap[own[k][2]][p]
            PROVE  SectionValid(k, Content(own[k])')
        BY <4>2, <4>3 DEF SectionValid, Obj
      <4> QED BY <4>1, <4>2, <4>3
    <3> QED BY <3>1, <3>2 DEF SectionsValid, SectionValid
  <2>7. ASSUME NEW n, NEW b, CreateProfile(c, n, b) \/ SwitchProfile(c, n) \/ DeleteProfile(c, n)
        PROVE  SectionsValid'
    <3>1. OwnKept /\ registered' = registered
      BY <2>7 DEF CreateProfile, SwitchProfile, DeleteProfile, OwnKept
    <3> QED BY <2>1, <3>1, SectionsKept
  <2>8. ASSUME NEW merge, NEW named, Import(c, merge, named) PROVE SectionsValid'
    <3>1. OwnKept /\ registered' = registered
      BY <2>8, ImportKeepsOwn DEF Import
    <3> QED BY <2>1, <3>1, SectionsKept
  <2> QED BY <1>3, <2>4, <2>5, <2>6, <2>7, <2>8 DEF Operation
<1>4. ASSUME NEW c \in Callers, Notify(c) \/ ConfigEnd(c) \/ SwitchPersist(c) \/ NotifyAll(c) \/ ImportSave(c)
      PROVE  SectionsValid'
  <2>1. UNCHANGED <<memory, early>>
    BY <1>4 DEF Notify, ConfigEnd, SwitchPersist, NotifyAll, ImportSave
  <2> QED BY <2>1, SectionsKept DEF memory, OwnKept
<1>5. CASE Export \/ RequestFails \/ UNCHANGED configVars
  <2>1. UNCHANGED <<memory, early>>
    BY <1>5 DEF Export, RequestFails, configVars
  <2> QED BY <2>1, SectionsKept DEF memory, OwnKept
<1>6. CASE Reload
  BY <1>6 DEF Reload, SectionsValid, NoMap
<1> QED BY <1>1, <1>2, <1>3, <1>4, <1>5, <1>6 DEF ConfigNext
-----------------------------------------------------------------------------
(* Configuration: what the watchers of all paths are told. *)

Counted == count.failures \in Nat /\ count = [calls |-> count.calls, reloads |-> count.reloads, failures |-> count.failures]

\* A request is served; the call was about to tell, and told, or was not.
LEMMA ToldServed ==
    ASSUME ConfigTypes, Told, NEW c, queue # <<>>, Head(queue).by = c, OwnKept,
           queue' = Tail(queue) \/ \E r : r.by = c /\ queue' = Append(Tail(queue), r),
           \A d \in DOMAIN pending : d # c => pending'[d] = pending[d],
           pending'[c].at # "notify", count' = count,
           \/ heard' = heard /\ pending[c].at # "notify"
           \/ <<>> \in Watched => heard'[<<>>].path = <<>>
           \/ /\ <<>> \in Watched => heard'[<<>>] = [path |-> pending[c].path, value |-> pending[c].value]
              /\ pending[c].at = "notify"
    PROVE  Told'
<1> SUFFICES ASSUME count.failures = 0, <<>> \in Watched
             PROVE  /\ \A i \in DOMAIN queue' :
                          Telling(i)' /\ (\A j \in DOMAIN queue' : i < j => ~Telling(j)') =>
                              (Content(GetSetting(pending[queue[i].by].path)) = pending[queue[i].by].value)'
                    /\ (\A j \in DOMAIN queue' : ~Telling(j)') /\ heard'[<<>>].path # <<>> =>
                          (Content(GetSetting(heard[<<>>].path)) = heard[<<>>].value)'
  BY DEF Told
<1> DEFINE n == Len(queue)
<1>1. n \in Nat \ {0} /\ DOMAIN queue = 1..n /\ IsSeq(Tail(queue)) /\ Len(Tail(queue)) = n - 1
      /\ DOMAIN Tail(queue) = 1..n - 1 /\ Head(queue) = queue[1]
      /\ \A k \in 1..n - 1 : Tail(queue)[k] = queue[k + 1]
  BY SeqFacts DEF ConfigTypes, QueueOK
<1>2. /\ \A k \in 1..n - 1 : k \in DOMAIN queue' /\ queue'[k] = queue[k + 1]
      /\ \A k \in DOMAIN queue' : k \in 1..n - 1 \/ queue'[k].by = c
  <2>1. CASE queue' = Tail(queue)
    BY <1>1, <2>1
  <2>2. ASSUME NEW r, r.by = c, queue' = Append(Tail(queue), r)
        PROVE  /\ \A k \in 1..n - 1 : k \in DOMAIN queue' /\ queue'[k] = queue[k + 1]
               /\ \A k \in DOMAIN queue' : k \in 1..n - 1 \/ queue'[k].by = c
    <3> DEFINE t == Tail(queue)
    <3>1. IsSeq(t) /\ queue' = Append(t, r) /\ Len(t) = n - 1
      BY <1>1, <2>2
    <3> HIDE DEF t
    <3>2. /\ DOMAIN queue' = 1..Len(t) + 1 /\ queue'[Len(t) + 1] = r
          /\ \A k \in 1..Len(t) : queue'[k] = t[k]
      BY <3>1, SeqAppended
    <3>3. n \in Nat /\ n # 0
      BY <1>1
    <3> HIDE DEF n
    <3>4. Len(t) \in Nat /\ Len(t) + 1 = n
      BY <3>1, <3>3
    <3>5. /\ \A k \in 1..n - 1 : k \in DOMAIN queue' /\ queue'[k] = t[k]
          /\ \A k \in DOMAIN queue' : k \in 1..n - 1 \/ k = n
      BY <3>1, <3>2, <3>4
    <3>6. queue'[n] = r
      BY <3>2, <3>4
    <3>7. \A k \in 1..n - 1 : queue'[k] = queue[k + 1]
      BY <1>1, <3>5 DEF t
    <3> QED BY <2>2, <3>5, <3>6, <3>7
  <2> QED BY <2>1, <2>2
<1>3. /\ \A k \in 1..n - 1 : k + 1 \in 1..n /\ k + 1 # 1
      /\ \A k \in 1..n : k = 1 \/ \E m \in 1..n - 1 : k = m + 1
      /\ 1 \in 1..n
  <2>1. ASSUME NEW k \in 1..n, k # 1 PROVE k - 1 \in 1..n - 1 /\ k = (k - 1) + 1
    BY <1>1, <2>1
  <2>2. ASSUME NEW k \in 1..n, k # 1 PROVE \E m \in 1..n - 1 : k = m + 1
    BY <2>1, <2>2
  <2> QED BY <1>1, <2>2
<1>4. ASSUME NEW k \in 1..n - 1
      PROVE  /\ pending'[queue'[k].by] = pending[queue[k + 1].by]
             /\ Telling(k)' <=> Telling(k + 1)
  <2>1. k + 1 \in DOMAIN queue /\ 1 \in DOMAIN queue /\ k + 1 # 1 /\ queue[1].by = c
    BY <1>1, <1>3
  <2>2. queue[k + 1].by \in DOMAIN pending /\ queue[k + 1].by # c
    BY <2>1 DEF ConfigTypes, QueueOK
  <2>3. pending'[queue'[k].by] = pending[queue[k + 1].by]
    BY <1>2, <2>2
  <2> QED BY <2>3 DEF Telling
<1>5. \A k \in DOMAIN queue' : Telling(k)' => k \in 1..n - 1
  BY <1>2 DEF Telling
<1>6. \A path : (Content(GetSetting(path)))' = Content(GetSetting(path))
  BY OwnKeptFacts
<1>7. ASSUME NEW i \in DOMAIN queue', Telling(i)', \A j \in DOMAIN queue' : i < j => ~Telling(j)'
      PROVE  (Content(GetSetting(pending[queue[i].by].path)) = pending[queue[i].by].value)'
  <2>1. i \in 1..n - 1 /\ i + 1 \in DOMAIN queue /\ Telling(i + 1)
    BY <1>1, <1>3, <1>4, <1>5, <1>7
  <2>2. ASSUME NEW j \in DOMAIN queue, i + 1 < j PROVE ~Telling(j)
    <3>0. j # 1
      BY <1>1, <2>1, <2>2
    <3>1. PICK m \in 1..n - 1 : j = m + 1
      BY <1>1, <1>3, <2>2, <3>0
    <3>2. i < m /\ m \in DOMAIN queue'
      BY <1>1, <1>2, <2>1, <2>2, <3>1
    <3> QED BY <1>4, <1>7, <3>1, <3>2
  <2> DEFINE x == pending[queue[i + 1].by]
  <2>3. Content(GetSetting(x.path)) = x.value
    BY <2>1, <2>2 DEF Told
  <2>4. pending'[queue'[i].by] = x
    BY <1>4, <2>1
  <2> HIDE DEF x
  <2>5. (Content(GetSetting(pending[queue[i].by].path)))' = (Content(GetSetting(pending'[queue'[i].by].path)))
    BY <1>6
  <2> QED BY <2>3, <2>4, <2>5
<1>8. ASSUME \A j \in DOMAIN queue' : ~Telling(j)', heard'[<<>>].path # <<>>
      PROVE  (Content(GetSetting(heard[<<>>].path)) = heard[<<>>].value)'
  <2>1. \A j \in 1..n : j # 1 => ~Telling(j)
    BY <1>2, <1>3, <1>4, <1>8
  <2>2. (Content(GetSetting(heard[<<>>].path)))' = Content(GetSetting(heard'[<<>>].path))
    BY <1>6
  <2>3. CASE heard' = heard /\ pending[c].at # "notify"
    <3>1. \A j \in DOMAIN queue : ~Telling(j)
      BY <1>1, <2>1, <2>3 DEF Telling
    <3> QED BY <1>8, <2>2, <2>3, <3>1 DEF Told
  <2>4. CASE /\ heard'[<<>>] = [path |-> pending[c].path, value |-> pending[c].value]
             /\ pending[c].at = "notify"
    <3>1. 1 \in DOMAIN queue /\ Telling(1) /\ \A j \in DOMAIN queue : 1 < j => ~Telling(j)
      BY <1>1, <1>3, <2>1, <2>4 DEF Telling
    <3>2. Content(GetSetting(pending[queue[1].by].path)) = pending[queue[1].by].value
      BY <3>1 DEF Told
    <3>3. Content(GetSetting(pending[c].path)) = pending[c].value
      BY <1>1, <3>2
    <3>4. heard'[<<>>].path = pending[c].path /\ heard'[<<>>].value = pending[c].value
      BY <2>4
    <3> QED BY <2>2, <3>3, <3>4
  <2> QED BY <1>8, <2>3, <2>4
<1> QED BY <1>7, <1>8

\* A call is made: it will tell what it set, or it sets nothing.
LEMMA ToldCalled ==
    ASSUME ConfigTypes, Told, NEW c, NEW at, NEW r, Starts(c, at, r),
           count'.failures = count.failures, heard' = heard,
           \/ at # "notify" /\ OwnKept
           \/ at = "notify" /\ (Content(GetSetting(pending[c].path)) = pending[c].value)'
    PROVE  Told'
<1> SUFFICES ASSUME count.failures = 0, <<>> \in Watched PROVE Told'
  BY DEF Told
<1>0. PICK n : n = Len(queue)
  OBVIOUS
<1>1. IsSeq(queue) /\ n \in Nat /\ DOMAIN queue = 1..n
  BY <1>0, SeqFacts DEF ConfigTypes, QueueOK
<1>2. /\ queue' = Append(queue, r) /\ r.by = c /\ pending[c].at = "idle" /\ pending'[c].at = at
      /\ \A d \in DOMAIN pending : d # c => pending'[d] = pending[d]
  BY DEF Starts
<1>3. DOMAIN queue' = 1..n + 1 /\ queue'[n + 1] = r /\ \A k \in 1..n : queue'[k] = queue[k]
  BY <1>0, <1>1, <1>2, SeqAppended
<1>4. /\ \A k \in 1..n + 1 : k \in 1..n \/ k = n + 1
      /\ \A k \in 1..n : k \in 1..n + 1 /\ k < n + 1
      /\ n + 1 \in 1..n + 1
  BY <1>1
<1>5. ASSUME NEW k \in 1..n PROVE pending'[queue'[k].by] = pending[queue[k].by] /\ (Telling(k)' <=> Telling(k))
  <2>1. queue[k].by \in DOMAIN pending /\ queue[k].by # c
    BY <1>1, <1>2 DEF ConfigTypes, QueueOK
  <2>2. pending'[queue'[k].by] = pending[queue[k].by]
    BY <1>2, <1>3, <2>1
  <2> QED BY <2>2 DEF Telling
<1>6. Telling(n + 1)' <=> at = "notify"
  BY <1>2, <1>3 DEF Telling
<1>7. ASSUME NEW i \in DOMAIN queue', Telling(i)', \A j \in DOMAIN queue' : i < j => ~Telling(j)'
      PROVE  (Content(GetSetting(pending[queue[i].by].path)) = pending[queue[i].by].value)'
  <2>1. CASE i = n + 1
    <3>1. (Content(GetSetting(pending[c].path)) = pending[c].value)'
      BY <1>6, <1>7, <2>1
    <3>2. queue'[i].by = c
      BY <1>2, <1>3, <2>1
    <3> QED BY <3>1, <3>2
  <2>2. CASE i \in 1..n
    <3>1. at # "notify" /\ OwnKept
      BY <1>3, <1>4, <1>6, <1>7, <2>2
    <3>2. Telling(i) /\ \A j \in DOMAIN queue : i < j => ~Telling(j)
      BY <1>1, <1>3, <1>4, <1>5, <1>7, <2>2
    <3> DEFINE x == pending[queue[i].by]
    <3>3. Content(GetSetting(x.path)) = x.value
      BY <1>1, <2>2, <3>2 DEF Told
    <3>4. pending'[queue'[i].by] = x
      BY <1>5, <2>2
    <3> HIDE DEF x
    <3>5. (Content(GetSetting(pending[queue[i].by].path)))' = Content(GetSetting(pending'[queue'[i].by].path))
      BY <3>1, OwnKeptFacts
    <3> QED BY <3>3, <3>4, <3>5
  <2> QED BY <1>3, <1>4, <2>1, <2>2
<1>8. ASSUME \A j \in DOMAIN queue' : ~Telling(j)', heard'[<<>>].path # <<>>
      PROVE  (Content(GetSetting(heard[<<>>].path)) = heard[<<>>].value)'
  <2>1. OwnKept
    BY <1>3, <1>4, <1>6, <1>8
  <2>2. \A j \in DOMAIN queue : ~Telling(j)
    BY <1>1, <1>3, <1>4, <1>5, <1>8
  <2>3. Content(GetSetting(heard[<<>>].path)) = heard[<<>>].value
    BY <1>8, <2>2 DEF Told
  <2>4. (Content(GetSetting(heard[<<>>].path)))' = Content(GetSetting(heard'[<<>>].path))
    BY <2>1, OwnKeptFacts
  <2> QED BY <2>3, <2>4
<1> QED BY <1>7, <1>8 DEF Told

LEMMA CountedKept == Counted /\ [ConfigNext]_configVars => Counted'
<1> SUFFICES ASSUME Counted, [ConfigNext]_configVars PROVE Counted'
  OBVIOUS
<1>1. \/ count' = count
      \/ count' = [count EXCEPT !.calls = @ + 1]
      \/ count' = [count EXCEPT !.reloads = @ + 1]
      \/ count' = [count EXCEPT !.failures = @ + 1]
  <2>1. ASSUME NEW c, Operation(c) PROVE count' = [count EXCEPT !.calls = @ + 1]
    <3>1. ConfigCall(c)
      BY <2>1 DEF Operation, EditInUI, Set, DeleteSetting, CreateProfile, SwitchProfile, DeleteProfile, Import
    <3> QED BY <3>1 DEF ConfigCall
  <2> QED BY <2>1 DEF ConfigNext, BootProfiles, BootCurrent, BootData, Notify, ConfigEnd, SwitchPersist,
                      NotifyAll, ImportSave, Export, RequestFails, Reload, configVars
<1> QED BY <1>1 DEF Counted

\* What a call of set or delete will tell is so when it is made.
LEMMA ToldSet ==
    ASSUME ConfigTypes, Counted, Told, NEW c,
           NEW path, NEW value, Set(c, path, value) \/ DeleteSetting(c, path),
           Set(c, path, value) => IsPath(path) /\ Plain(value) /\ value = <<value[1], value[2]>>
    PROVE  Told'
<1>1. PICK r, v : /\ Starts(c, "notify", r) /\ pending'[c].path = path /\ pending'[c].value = v
                  /\ v = IF Set(c, path, value) THEN value ELSE Undefined
  BY SetRequests
<1>2. heard' = heard /\ count' = [count EXCEPT !.calls = @ + 1]
  BY DEF Set, DeleteSetting, ConfigCall
<1>3. count'.failures = count.failures
  BY <1>2 DEF Counted
<1>4. (Content(GetSetting(path)) = v)'
  <2>1. CASE Set(c, path, value)
    <3>1. MemoryOK /\ Assign(path, value) /\ Len(path) \in {1, 2}
      BY <2>1, PathFacts DEF ConfigTypes, Set
    <3>2. (Content(GetSetting(path)) = value)'
      BY <2>1, <3>1, AssignFacts
    <3> QED BY <1>1, <2>1, <3>2
  <2>2. CASE ~Set(c, path, value)
    <3>1. (Content(GetSetting(path)) = Undefined)'
      BY <2>2, DeletedFacts
    <3> QED BY <1>1, <2>2, <3>1
  <2> QED BY <2>1, <2>2
<1>5. (Content(GetSetting(pending[c].path)) = pending[c].value)'
  BY <1>1, <1>4
<1> QED BY <1>1, <1>2, <1>3, <1>5, ToldCalled

LEMMA ToldOther ==
    ASSUME ConfigTypes, Counted, Told, NEW c,
           \/ \E name, base : CreateProfile(c, name, base) \/ DeleteProfile(c, name) \/ SwitchProfile(c, name)
           \/ \E merge, named : Import(c, merge, named)
    PROVE  Told'
<1>1. \E at, r : Starts(c, at, r) /\ at # "notify"
  BY ProfilesRequests, SwitchRequests, ImportRequests
<1>2. OwnKept
  BY ImportKeepsOwn DEF CreateProfile, DeleteProfile, SwitchProfile, OwnKept
<1>3. heard' = heard /\ count' = [count EXCEPT !.calls = @ + 1]
  BY DEF CreateProfile, DeleteProfile, SwitchProfile, Import, ConfigCall
<1>4. count'.failures = count.failures
  BY <1>3 DEF Counted
<1> QED BY <1>1, <1>2, <1>3, <1>4, ToldCalled

LEMMA ToldEnds ==
    ASSUME ConfigTypes, Told, NEW c \in Callers,
           Notify(c) \/ ConfigEnd(c) \/ SwitchPersist(c) \/ NotifyAll(c) \/ ImportSave(c)
    PROVE  Told'
<1>1. OwnKept /\ count' = count
  BY DEF Notify, ConfigEnd, SwitchPersist, NotifyAll, ImportSave, memory, OwnKept
<1>2. CASE Notify(c)
  <2>1. Ends(c, "notify") /\ pending[c].at = "notify" /\ queue # <<>> /\ Head(queue).by = c
    BY <1>2, CallEnds, ServedFacts DEF Notify
  <2>2. <<>> \in Watched => heard'[<<>>] = [path |-> pending[c].path, value |-> pending[c].value]
    BY <1>2 DEF Notify, Notified
  <2>3. /\ queue' = Tail(queue) /\ \A d \in DOMAIN pending : d # c => pending'[d] = pending[d]
        /\ pending'[c].at # "notify"
    BY <2>1 DEF Ends
  <2> QED BY <1>1, <2>1, <2>2, <2>3, ToldServed
<1>3. CASE ConfigEnd(c) \/ NotifyAll(c)
  <2>1. PICK at : at # "notify" /\ Ends(c, at) /\ pending[c].at = at /\ queue # <<>> /\ Head(queue).by = c
    BY <1>3, CallEnds, ServedFacts DEF ConfigEnd, NotifyAll
  <2>2. heard' = heard \/ (<<>> \in Watched => heard'[<<>>].path = <<>>)
    BY <1>3 DEF ConfigEnd, NotifyAll
  <2>3. /\ queue' = Tail(queue) /\ \A d \in DOMAIN pending : d # c => pending'[d] = pending[d]
        /\ pending'[c].at # "notify"
    BY <2>1 DEF Ends
  <2> QED BY <1>1, <2>1, <2>2, <2>3, ToldServed
<1>4. CASE SwitchPersist(c) \/ ImportSave(c)
  <2>1. \A es, profile : Persist(c, es, profile).by = c
    BY DEF Persist
  <2>2. \A ps : SaveProfiles(c, ps).by = c
    BY DEF SaveProfiles
  <2>3. PICK at, to, r : /\ at # "notify" /\ to # "notify" /\ Continues(c, at, to, r) /\ pending[c].at = at
                         /\ queue # <<>> /\ Head(queue).by = c
    BY <1>4, <2>1, <2>2, CallEnds, ServedFacts DEF SwitchPersist, ImportSave
  <2>4. heard' = heard
    BY <1>4 DEF SwitchPersist, ImportSave
  <2>5. /\ r.by = c /\ queue' = Append(Tail(queue), r)
        /\ \A d \in DOMAIN pending : d # c => pending'[d] = pending[d]
        /\ pending'[c].at # "notify"
    BY <2>3 DEF Continues
  <2> QED BY <1>1, <2>3, <2>4, <2>5, ToldServed
<1> QED BY <1>2, <1>3, <1>4

LEMMA ToldReads ==
    ASSUME ConfigTypes, Told, BootProfiles \/ BootCurrent \/ BootData
    PROVE  Told'
<1>1. OwnKept /\ count' = count /\ heard' = heard
  BY BootKeepsOwn DEF BootProfiles, BootCurrent, BootData
<1>2. \A key : Read(key).by = Boot
  BY DEF Read
<1>3. PICK at : at \in {"profiles", "current", "data"} /\ Served(Boot, at)
  BY DEF BootProfiles, BootCurrent, BootData
<1>4. pending[Boot].at # "notify" /\ queue # <<>> /\ Head(queue).by = Boot
  BY <1>3, ServedFacts
<1>5. Ends(Boot, at) \/ \E to, r : Continues(Boot, at, to, r) /\ to # "notify"
  <2>1. Finish(Boot) \/ \E to, r : GoOn(Boot, to, r) /\ r.by = Boot /\ to # "notify"
    BY <1>2 DEF BootProfiles, BootCurrent, BootData
  <2> QED BY <1>3, <2>1, CallEnds
<1>6. /\ queue' = Tail(queue) \/ \E r : r.by = Boot /\ queue' = Append(Tail(queue), r)
      /\ \A d \in DOMAIN pending : d # Boot => pending'[d] = pending[d]
      /\ pending'[Boot].at # "notify"
  BY <1>5 DEF Ends, Continues
<1> QED BY <1>1, <1>4, <1>6, ToldServed

LEMMA ToldReload == ASSUME Reload PROVE Told'
<1>1. DOMAIN queue' = {1} /\ queue'[1] = Read("profiles") /\ pending' = Constructed /\ heard' = HeardNothing
  BY DEF Reload
<1>2. \A j \in DOMAIN queue' : ~Telling(j)'
  BY <1>1 DEF Telling, Read, Constructed, NoCall
<1>3. <<>> \in Watched => heard'[<<>>].path = <<>>
  BY <1>1 DEF HeardNothing
<1> QED BY <1>2, <1>3 DEF Told

LEMMA ToldInit == ConfigInit => Told /\ Counted
<1> SUFFICES ASSUME ConfigInit PROVE Told /\ Counted
  OBVIOUS
<1>1. DOMAIN queue = {1} /\ queue[1] = Read("profiles") /\ pending = Constructed /\ heard = HeardNothing
  BY DEF ConfigInit
<1>2. \A j \in DOMAIN queue : ~Telling(j)
  BY <1>1 DEF Telling, Read, Constructed, NoCall
<1>3. <<>> \in Watched => heard[<<>>].path = <<>>
  BY <1>1 DEF HeardNothing
<1>4. Counted
  BY DEF Counted, ConfigInit
<1> QED BY <1>2, <1>3, <1>4 DEF Told

LEMMA ToldKept == ConfigTypes /\ Counted /\ Told /\ [ConfigNext]_configVars => Told'
<1> SUFFICES ASSUME ConfigTypes, Counted, Told, [ConfigNext]_configVars PROVE Told'
  OBVIOUS
<1>1. CASE BootProfiles \/ BootCurrent \/ BootData
  BY <1>1, ToldReads
<1>2. ASSUME NEW c \in Callers, Operation(c) PROVE Told'
  <2>1. ASSUME NEW e \in Edits, Set(c, e[1], e[2]) PROVE Told'
    BY <2>1, ToldSet, ConfigAssumption
  <2>2. CASE EditInUI(c)
    <3>1. PICK s \in DOMAIN BuiltinSchemas :
            \E v \in Produces(DefaultWidget(BuiltinSchemas[s]), BuiltinSchemas[s]) :
                Set(c, <<Category(BuiltinSchemas[s])>>, v)
      BY <2>2 DEF EditInUI
    <3>2. PICK v \in Produces(DefaultWidget(BuiltinSchemas[s]), BuiltinSchemas[s]) :
            Set(c, <<Category(BuiltinSchemas[s])>>, v)
      BY <3>1
    <3>3. IsPath(<<Category(BuiltinSchemas[s])>>)
      BY DEF IsPath
    <3> QED BY <3>2, <3>3, ProducedFacts, ToldSet
  <2>3. ASSUME NEW path \in Deletable, DeleteSetting(c, path), ~Set(c, path, Undefined) PROVE Told'
    BY <2>3, ToldSet
  <2>4. ASSUME NEW path \in Deletable, Set(c, path, Undefined) PROVE Told'
    <3>1. IsPath(path) /\ Plain(Undefined) /\ Undefined = <<Undefined[1], Undefined[2]>>
      BY ConfigAssumption DEF Plain, Undefined
    <3> QED BY <2>4, <3>1, ToldSet
  <2> QED BY <1>2, <2>1, <2>2, <2>3, <2>4, ToldOther DEF Operation
<1>3. ASSUME NEW c \in Callers,
             Notify(c) \/ ConfigEnd(c) \/ SwitchPersist(c) \/ NotifyAll(c) \/ ImportSave(c)
      PROVE  Told'
  BY <1>3, ToldEnds
<1>4. CASE RequestFails
  <2>1. count' = [count EXCEPT !.failures = @ + 1]
    BY <1>4 DEF RequestFails
  <2>2. count'.failures # 0
    BY <2>1 DEF Counted
  <2> QED BY <2>2 DEF Told
<1>5. CASE Reload
  BY <1>5, ToldReload
<1>6. CASE Export \/ UNCHANGED configVars
  <2>1. UNCHANGED <<own, heap, pending, queue, heard, count>>
    BY <1>6 DEF Export, configVars, memory
  <2>2. \A value : (Content(value))' = Content(value)
    BY <2>1 DEF Content
  <2>3. \A path : (GetSetting(path))' = GetSetting(path)
    BY <2>1, <2>2 DEF GetSetting
  <2> QED BY <2>1, <2>2, <2>3 DEF Told, Telling
<1> QED BY <1>1, <1>2, <1>3, <1>4, <1>5, <1>6 DEF ConfigNext
-----------------------------------------------------------------------------
(* Configuration: what holds in every state. *)

LEMMA SectionsInit == ConfigInit => SectionsValid
BY DEF ConfigInit, SectionsValid, NoMap

\* The inductive invariant of the configuration.
ConfigInv == ConfigTypes /\ BootOK /\ DataApart /\ CurrentKnown /\ SectionsValid /\ Counted /\ Told

LEMMA ConfigInvariant == ConfigSpec => []ConfigInv
<1>1. ConfigInit => ConfigInv
  BY ConfigTypesInit, BootOKInit, DataApartInit, CurrentKnownInit, SectionsInit, ToldInit DEF ConfigInv
<1>2. ConfigInv /\ [ConfigNext]_configVars => ConfigInv'
  BY ConfigTypesKept, BootOKKept, DataApartKept, CurrentKnownKept, SectionsStep, CountedKept, ToldKept
     DEF ConfigInv
<1> QED BY <1>1, <1>2, PTL DEF ConfigSpec

\* The three keys of the storage tell of the same profiles: whatever calls,
\* reloads and failures overlap, no profile's configuration is stored under the
\* name of another, and the profile the page will be loaded with is one that is
\* stored.
THEOREM ProfilesAgreeInStore == ConfigSpec => []StoredProfilesAgree
<1>1. ConfigInv => StoredProfilesAgree
  <2> SUFFICES ASSUME ConfigInv PROVE StoredProfilesAgree
    OBVIOUS
  <2>1. ProfilesKeepApart
    BY DEF ConfigInv, DataApart, ProfilesKeepApart
  <2>2. StoredCurrentExists
    <3> SUFFICES ASSUME ~early, ~torn, ~Importing, NEW n \in store.current
                 PROVE  \E ps \in store.profiles : n \in DOMAIN ps
      BY DEF StoredCurrentExists
    <3>1. n \in NamesOf(store.profiles)
      BY CurrentNow DEF ConfigInv
    <3> QED BY <3>1 DEF NamesOf
  <2> QED BY <2>1, <2>2 DEF StoredProfilesAgree
<1> QED BY <1>1, ConfigInvariant, PTL

\* A setting that has a schema holds a value the schema accepts, whatever whole
\* sections and single settings were set, deleted, switched or imported; unless
\* something was set before the constructor had registered the schemas.
THEOREM SettingsStayValid == ConfigSpec => []ValidUnlessEarly
<1>1. ConfigInv => ValidUnlessEarly
  BY DEF ConfigInv, SectionsValid, ValidUnlessEarly
<1> QED BY <1>1, ConfigInvariant, PTL

\* Once no call is in progress, what the watchers of all paths heard last is what
\* get returns: calls that overlap notify in the order they assigned.
THEOREM WatchersHearTheLast == ConfigSpec => []QuietWatcherIsCurrent
<1>1. ConfigInv => QuietWatcherIsCurrent
  <2> SUFFICES ASSUME ConfigInv, Quiet PROVE QuietWatcherIsCurrent
    BY DEF QuietWatcherIsCurrent
  <2>1. \A j \in DOMAIN queue : ~Telling(j)
    BY DEF ConfigInv, ConfigTypes, QueueOK, Quiet, Telling
  <2> QED BY <2>1 DEF ConfigInv, Told, QuietWatcherIsCurrent
<1> QED BY <1>1, ConfigInvariant, PTL
=============================================================================
