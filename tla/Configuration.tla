---------------------------- MODULE Configuration ----------------------------
(***************************************************************************)
(* ConfigurationManager over IndexedDBStorage, with its profiles, watchers  *)
(* and generated editors                                                    *)
(* (packages/frontend/src/kernel/ConfigurationSystem.ts).                   *)
(*                                                                         *)
(* `this.config' is a Map.  get, set and delete work on properties of that  *)
(* object (`own'); profiles, import, export and persist work on the Map's   *)
(* entries (`entries').  Objects are shared between the two and with the    *)
(* profiles: `heap' holds the sections, and a value <<"ref", id>> is one of  *)
(* them.  What is stored, exported or imported is a copy.                   *)
(*                                                                         *)
(* The storage is the one this file declares for it.  KernelBootstrap.ts     *)
(* hands the manager a SimpleStorageEngine instead, a Map in memory: it      *)
(* keeps what it is given by reference and nothing across a reload, and no  *)
(* file makes an IndexedDBStorage.                                          *)
(*                                                                         *)
(* A call runs up to its storage request; IndexedDB serves the requests in  *)
(* the order they are made, and the call goes on in the step that serves    *)
(* it.  A reload of the page loses everything but what was served.          *)
(***************************************************************************)
EXTENDS ConfigSchemas, FiniteSets, SequencesExt

CONSTANTS
    Edits,      \* calls of set: pairs of a path and a value
    Deletable,  \* paths that delete is called with
    Watched,    \* paths with a watcher; <<>> stands for watchAll
    Profiles,   \* names of profiles besides "default"
    NamedProfiles, \* profiles that an imported text may name as the current one
    Callers,    \* calls that may be in progress
    MaxCalls,   \* bound: calls made
    MaxReloads, \* bound: reloads of the page
    MaxFailures, \* bound: storage requests that fail
    SettingValid(_, _)  \* validateValue: the schema of a path of two names, if any,
                        \* accepts the value (ConfigValidation)

Default == "default"
Names == Profiles \union {Default}
Undefined == <<"undefined", 0>>
NoMap == [k \in {} |-> Undefined]
TheOne(set) == CHOOSE x \in set : TRUE

\* Map.set of all of f; of one key.
Over(f, g) == [x \in DOMAIN f \union DOMAIN g |-> IF x \in DOMAIN f THEN f[x] ELSE g[x]]
With(g, k, v) == [x \in DOMAIN g \union {k} |-> IF x = k THEN v ELSE g[x]]

\* A value that comes from outside refers to no object of the manager.
Plain(value) ==
    /\ value[1] # "ref"
    /\ value[1] = "object" => \A p \in DOMAIN value[2] : value[2][p][1] # "ref"

\* A path names a section, or a setting of one.
IsPath(path) == path = <<path[1]>> \/ path = <<path[1], path[2]>>

ASSUME ConfigAssumption ==
    /\ "boot" \notin Callers
    /\ "entries" \notin Profiles
    /\ NamedProfiles \subseteq Names
    /\ \A e \in Edits : IsPath(e[1]) /\ e[2] = <<e[2][1], e[2][2]>> /\ Plain(e[2])
    /\ \A path \in Deletable : IsPath(path)

VARIABLES
    own,        \* properties of the Map object
    entries,    \* its entries
    heap,       \* the section objects
    profiles,   \* the Map of profiles: [base, config]
    current,    \* currentProfile
    registered, \* the built-in schemas are registered
    pending,    \* the calls in progress: where each waits, and for what
    queue,      \* the storage requests not served yet
    store,      \* what is stored: profiles, currentProfile, data per profile
    heard,      \* the last notification of each watcher: [path, value]
    exported,   \* the last text export() returned, if any
    owner,      \* history: the profile whose configuration `entries' is
    early,      \* history: a call was made before the constructor's reads were served
    torn,       \* history: an import was cut short or named the current profile, or
                \* the profiles, or which is current, could not be saved
    count       \* calls, reloads and failures so far

memory == <<own, entries, heap, profiles, current, registered>>
configVars == <<memory, pending, queue, store, heard, exported, owner, early, torn, count>>

NoCall == [at |-> "idle", path |-> <<>>, value |-> Undefined]
Boot == "boot"

Read(key) == [by |-> Boot, op |-> "get", key |-> key]

Constructed ==
    [c \in Callers \union {Boot} |-> [NoCall EXCEPT !.at = IF c = Boot THEN "profiles" ELSE "idle"]]
HeardNothing == [w \in Watched |-> [path |-> <<>>, value |-> Undefined]]

ConfigInit ==
    /\ own = NoMap /\ entries = NoMap /\ heap = NoMap /\ profiles = NoMap
    /\ current = Default /\ registered = FALSE
    /\ pending = Constructed
    /\ queue = <<Read("profiles")>>
    /\ store = [profiles |-> {}, current |-> {}, data |-> [n \in Names |-> {}]]
    /\ heard = HeardNothing
    /\ exported = {}
    /\ owner = Default
    /\ early = FALSE
    /\ torn = FALSE
    /\ count = [calls |-> 0, reloads |-> 0, failures |-> 0]
-----------------------------------------------------------------------------
(* Values. *)

Content(value) == IF value[1] = "ref" THEN Obj(heap[value[2]]) ELSE value

\* A copy without references (structured clone, JSON.stringify).
Copy(map) == [k \in DOMAIN map |-> Content(map[k])]
CopyProfiles(ps) == [n \in DOMAIN ps |-> [ps[n] EXCEPT !.config = Copy(@)]]

\* Fresh objects for the sections of a copy that is put into `holder', a pair of
\* what made them and what they are put into: a profile, "entries" or "own".
Id(holder, k) == <<count.calls, holder, k>>
Parsed(copy, holder) ==
    [k \in DOMAIN copy |-> IF copy[k][1] = "object" THEN <<"ref", Id(holder, k)>> ELSE copy[k]]
Objects(copy, holder) ==
    LET sections == {k \in DOMAIN copy : copy[k][1] = "object"}
    IN [i \in {Id(holder, k) : k \in sections} |-> copy[i[3]][2]]
ParsedProfiles(ps, by) == [n \in DOMAIN ps |-> [ps[n] EXCEPT !.config = Parsed(@, <<by, n>>)]]
ProfileObjects(ps, by) ==
    [i \in UNION {DOMAIN Objects(ps[n].config, <<by, n>>) : n \in DOMAIN ps}
        |-> ps[i[2][2]].config[i[3]][2]]

\* get(path): a section, or a setting of one.
GetSetting(path) ==
    IF path[1] \notin DOMAIN own THEN Undefined
    ELSE IF Len(path) = 1 THEN own[path[1]]
    ELSE LET section == Content(own[path[1]])
         IN IF section[1] = "object" /\ path[2] \in DOMAIN section[2] THEN section[2][path[2]] ELSE Undefined
-----------------------------------------------------------------------------
(* Storage. *)

\* For the mutant of Persist: the profile is the one the page was loaded with.
PersistDefault(c, es, profile) ==
    [by |-> c, op |-> "put", key |-> "data", profile |-> Default, value |-> es, of |-> owner']

\* persist(): the entries, under the name of the profile that is current now.
Persist(c, es, profile) ==
    [by |-> c, op |-> "put", key |-> "data", profile |-> profile, value |-> es, of |-> owner']
SaveProfiles(c, ps) == [by |-> c, op |-> "put", key |-> "profiles", value |-> ps]

Wait(c, at, path, value) == pending' = [pending EXCEPT ![c] = [at |-> at, path |-> path, value |-> value]]

\* The oldest request is call c's, which waits at `at', and is served.
Served(c, at) ==
    /\ queue # <<>>
    /\ Head(queue).by = c
    /\ pending[c].at = at
    /\ LET r == Head(queue)
       IN store' = IF r.op = "get" THEN store
                   ELSE IF r.key = "data"
                     THEN [store EXCEPT !.data[r.profile] = {[config |-> r.value, of |-> r.of]}]
                   ELSE [store EXCEPT ![r.key] = {r.value}]

\* The call goes on and ends, or goes on to its next request.
Finish(c) ==
    /\ queue' = Tail(queue)
    /\ pending' = [pending EXCEPT ![c] = NoCall]
GoOn(c, at, request) ==
    /\ queue' = Append(Tail(queue), request)
    /\ pending' = [pending EXCEPT ![c].at = at]
-----------------------------------------------------------------------------
(* initializeDefaults, which the constructor does not wait for. *)

BootProfiles ==
    /\ Served(Boot, "profiles")
    /\ GoOn(Boot, "current", Read("current"))
    /\ IF store.profiles = {} THEN UNCHANGED <<profiles, heap>>
       ELSE /\ profiles' = Over(ParsedProfiles(TheOne(store.profiles), Boot), profiles)
            /\ heap' = Over(ProfileObjects(TheOne(store.profiles), Boot), heap)
    /\ UNCHANGED <<own, entries, current, registered, heard, exported, owner, early, torn, count>>

BootCurrent ==
    /\ Served(Boot, "current")
    /\ current' = IF store.current = {} THEN current ELSE TheOne(store.current)
    /\ GoOn(Boot, "data", [by |-> Boot, op |-> "get", key |-> "data", profile |-> current'])
    /\ UNCHANGED <<own, entries, heap, profiles, registered, heard, exported, owner, early, torn,
                   count>>

\* loadProfile, and registerBuiltinSchemas.
BootData ==
    /\ Served(Boot, "data")
    /\ Finish(Boot)
    /\ registered' = TRUE
    /\ LET saved == store.data[Head(queue).profile]
       IN IF saved = {} THEN UNCHANGED <<entries, heap>>
          ELSE LET copy == TheOne(saved).config
               IN /\ entries' = Parsed(copy, <<Boot, "entries">>)
                  /\ heap' = Over(heap, Objects(copy, <<Boot, "entries">>))
    /\ owner' = current
    /\ UNCHANGED <<own, profiles, current, heard, exported, early, torn, count>>
-----------------------------------------------------------------------------
(* set and delete. *)

ConfigCall(c) ==
    /\ c \in Callers
    /\ pending[c] = NoCall
    /\ count.calls < MaxCalls
    /\ count' = [count EXCEPT !.calls = @ + 1]
    /\ early' = (early \/ ~registered)

\* validateValue of a whole section: every section's schema is a group of
\* settings (BuiltinSchemas).
SectionValid(k, value) ==
    value[1] = "object" /\ \A p \in DOMAIN value[2] : SettingValid(<<k, p>>, value[2][p])

\* For the mutant of Accepted: a schema is looked for under the path itself only.
AcceptedExact(path, value) ==
    registered /\ path[1] \in DOMAIN BuiltinSchemas /\ Len(path) = 1 => SectionValid(path[1], value)

\* Without a schema, and before there are any, every value is accepted.
Accepted(path, value) ==
    registered /\ path[1] \in DOMAIN BuiltinSchemas =>
        IF Len(path) = 1 THEN SectionValid(path[1], value) ELSE SettingValid(path, value)

\* What JavaScript takes for false.
Falsy(value) == value \in {Undefined, Bool(FALSE), Number(0), Str("empty")}

\* What is under the name k is taken for a section.
HasSection(k) == k \in DOMAIN own /\ ~Falsy(own[k])

\* The assignment: a fresh section takes the place of none and of a false value.
\* To a property of any other value but an object it throws.
Assign(path, value) ==
    LET k == path[1]
        made == Id(<<"set", "own">>, k)
    IN IF Len(path) = 2 /\ HasSection(k)
         THEN /\ own[k][1] = "ref"
              /\ heap' = [heap EXCEPT ![own[k][2]] = With(@, path[2], value)]
              /\ UNCHANGED own
       ELSE IF Len(path) = 2 \/ value[1] = "object"
         THEN /\ heap' = With(heap, made, IF Len(path) = 2 THEN With(NoMap, path[2], value) ELSE value[2])
              /\ own' = With(own, k, <<"ref", made>>)
       ELSE own' = With(own, k, value) /\ UNCHANGED heap

\* A call that rejects the value, or throws, changes nothing.
Set(c, path, value) ==
    /\ ConfigCall(c)
    /\ Accepted(path, value)
    /\ Assign(path, value)
    /\ UNCHANGED <<entries, profiles, current, registered, store, heard, exported, owner, torn>>
    /\ Wait(c, "notify", path, value)
    /\ queue' = Append(queue, Persist(c, Copy(entries)', current))

\* Where a path has no section, delete returns before it persists; it persists
\* and notifies whether or not there is anything to delete.
DeleteSetting(c, path) ==
    /\ ConfigCall(c)
    /\ IF Len(path) = 1
         THEN own' = [k \in DOMAIN own \ {path[1]} |-> own[k]] /\ UNCHANGED heap
         ELSE /\ HasSection(path[1])
              /\ LET section == own[path[1]]
                 IN heap' = IF section[1] # "ref" THEN heap
                            ELSE [heap EXCEPT ![section[2]] = [k \in DOMAIN @ \ {path[2]} |-> @[k]]]
              /\ UNCHANGED own
    /\ UNCHANGED <<entries, profiles, current, registered, store, heard, exported, owner, torn>>
    /\ Wait(c, "notify", path, Undefined)
    /\ queue' = Append(queue, Persist(c, Copy(entries)', current))

\* For the mutant of Notified: the old value and the new one are swapped.
NotifiedOld(path, value) ==
    [w \in Watched |-> IF w = <<>> THEN [path |-> path, value |-> Undefined]
                       ELSE IF IsPrefix(w, path) THEN [path |-> w, value |-> Undefined]
                       ELSE heard[w]]

\* notifyWatchers: those of the path and of the paths above it, which are told
\* their own path with the value of the one below, and those of all paths.
Notified(path, value) ==
    [w \in Watched |-> IF w = <<>> THEN [path |-> path, value |-> value]
                       ELSE IF IsPrefix(w, path) THEN [path |-> w, value |-> value]
                       ELSE heard[w]]

\* The configuration was persisted: set and delete notify and end.
Notify(c) ==
    /\ Served(c, "notify")
    /\ Finish(c)
    /\ heard' = Notified(pending[c].path, pending[c].value)
    /\ UNCHANGED <<memory, exported, owner, early, torn, count>>

\* The category of a section: none has a `ui' entry.
Category(schema) == "other"

\* ConfigUIRenderer.render draws one widget per section, and hands renderSchema
\* the category for its path; the widget's listener calls set.
EditInUI(c) ==
    \E s \in DOMAIN BuiltinSchemas : \E v \in Produces(DefaultWidget(BuiltinSchemas[s]), BuiltinSchemas[s]) :
        registered /\ Set(c, <<Category(BuiltinSchemas[s])>>, v)
-----------------------------------------------------------------------------
(* Profiles. *)

\* Without a base the profile gets the properties of the Map object; it shares
\* their sections.
CreateProfile(c, name, base) ==
    /\ ConfigCall(c)
    /\ name \notin DOMAIN profiles
    /\ profiles' = With(profiles, name,
            [base   |-> base,
             config |-> IF base = {} THEN own
                        ELSE IF base \subseteq DOMAIN profiles THEN profiles[TheOne(base)].config
                        ELSE NoMap])
    /\ Wait(c, "finish", <<>>, Undefined)
    /\ queue' = Append(queue, SaveProfiles(c, CopyProfiles(profiles')))
    /\ UNCHANGED <<own, entries, heap, current, registered, store, heard, exported, owner, torn>>

DeleteProfile(c, name) ==
    /\ ConfigCall(c)
    /\ name \notin {Default, current}
    /\ profiles' = [n \in DOMAIN profiles \ {name} |-> profiles[n]]
    /\ Wait(c, "finish", <<>>, Undefined)
    /\ queue' = Append(queue, SaveProfiles(c, CopyProfiles(profiles')))
    /\ UNCHANGED <<own, entries, heap, current, registered, store, heard, exported, owner, torn>>

ConfigEnd(c) ==
    /\ Served(c, "finish")
    /\ Finish(c)
    /\ UNCHANGED <<memory, heard, exported, owner, early, torn, count>>

\* The configuration of a profile over that of its base.
Merged(name) ==
    LET p == profiles[name]
    IN IF p.base # {} /\ p.base \subseteq DOMAIN profiles
         THEN Over(p.config, profiles[TheOne(p.base)].config)
         ELSE p.config

SwitchProfile(c, name) ==
    /\ ConfigCall(c)
    /\ name \in DOMAIN profiles
    /\ entries' = Merged(name)
    /\ current' = name
    /\ owner' = name
    /\ Wait(c, "persist", <<>>, Undefined)
    /\ queue' = Append(queue, [by |-> c, op |-> "put", key |-> "current", value |-> name])
    /\ UNCHANGED <<own, heap, profiles, registered, store, heard, exported, torn>>

\* What is persisted is what is current by now.
SwitchPersist(c) ==
    /\ Served(c, "persist")
    /\ UNCHANGED <<memory, heard, exported, owner, early, torn, count>>
    /\ GoOn(c, "notifyall", Persist(c, Copy(entries), current))

\* The watchers of all paths are told '*'; those of a path nothing.
NotifyAll(c) ==
    /\ \E at \in {"notifyall", "imported"} : Served(c, at)
    /\ Finish(c)
    /\ heard' = [w \in Watched |-> IF w = <<>> THEN [path |-> <<>>, value |-> Undefined] ELSE heard[w]]
    /\ UNCHANGED <<memory, exported, owner, early, torn, count>>
-----------------------------------------------------------------------------
(* Export and import. *)

\* The text holds copies; what it calls `profile' import does not look for.
Export ==
    /\ exported' = {[config |-> Copy(entries), profiles |-> CopyProfiles(profiles)]}
    /\ UNCHANGED <<memory, pending, queue, store, heard, owner, early, torn, count>>

\* A text names no profile as the current one, or one.
Naming == {{}} \union {{n} : n \in NamedProfiles}

\* A text from elsewhere may name the current profile; that it is current is not
\* saved.
Import(c, merge, named) ==
    \E text \in exported :
        /\ ConfigCall(c)
        /\ entries' = Over(Parsed(text.config, <<"import", "entries">>), IF merge THEN entries ELSE NoMap)
        /\ profiles' = Over(ParsedProfiles(text.profiles, "import"), profiles)
        /\ heap' = Over(Objects(text.config, <<"import", "entries">>),
                        Over(ProfileObjects(text.profiles, "import"), heap))
        /\ IF named = {} THEN UNCHANGED <<current, owner, torn>>
           ELSE current' = TheOne(named) /\ owner' = current' /\ torn' = TRUE
        /\ Wait(c, "save", <<>>, Undefined)
        /\ UNCHANGED <<own, registered, store, heard, exported>>
        /\ queue' = Append(queue, Persist(c, Copy(entries)', current'))

ImportSave(c) ==
    /\ Served(c, "save")
    /\ GoOn(c, "imported", SaveProfiles(c, CopyProfiles(profiles)))
    /\ UNCHANGED <<memory, heard, exported, owner, early, torn, count>>
-----------------------------------------------------------------------------
(* Faults. *)

Importing == \E c \in Callers : pending[c].at \in {"save", "imported"}

\* A storage request is answered with an error: its call rejects; without its
\* reads the manager stays as it was constructed.
RequestFails ==
    /\ count.failures < MaxFailures
    /\ count' = [count EXCEPT !.failures = @ + 1]
    /\ queue # <<>>
    /\ queue' = Tail(queue)
    /\ pending' = [pending EXCEPT ![Head(queue).by] = NoCall]
    /\ LET r == Head(queue)
       IN torn' = (torn \/ pending[r.by].at = "save" \/ (r.op = "put" /\ r.key # "data"))
    /\ UNCHANGED <<memory, store, heard, exported, owner, early>>

\* The page is loaded again.
Reload ==
    /\ count.reloads < MaxReloads
    /\ count' = [count EXCEPT !.reloads = @ + 1]
    /\ own' = NoMap /\ entries' = NoMap /\ heap' = NoMap /\ profiles' = NoMap
    /\ current' = Default /\ registered' = FALSE
    /\ pending' = Constructed
    /\ queue' = <<Read("profiles")>>
    /\ heard' = HeardNothing
    /\ owner' = Default
    /\ torn' = (torn \/ Importing)
    /\ UNCHANGED <<store, exported, early>>
-----------------------------------------------------------------------------
Operation(c) ==
    \/ \E e \in Edits : Set(c, e[1], e[2])
    \/ EditInUI(c)
    \/ \E p \in Deletable : DeleteSetting(c, p)
    \/ \E n \in Names : \/ \E b \in {{}} \union {{m} : m \in Names} : CreateProfile(c, n, b)
                        \/ SwitchProfile(c, n)
                        \/ DeleteProfile(c, n)
    \/ \E merge \in BOOLEAN, named \in Naming : Import(c, merge, named)

ConfigNext ==
    \/ BootProfiles \/ BootCurrent \/ BootData
    \/ \E c \in Callers : \/ Operation(c)
                        \/ Notify(c) \/ ConfigEnd(c) \/ SwitchPersist(c) \/ NotifyAll(c) \/ ImportSave(c)
    \/ Export
    \/ RequestFails \/ Reload

ConfigSpec == ConfigInit /\ [][ConfigNext]_configVars
-----------------------------------------------------------------------------
Maps == {own, entries} \union {profiles[n].config : n \in DOMAIN profiles}

\* The types of the variables; a reference leads to a section.
ConfigTypeOK ==
    /\ \A m \in Maps : \A k \in DOMAIN m : m[k][1] = "ref" => m[k][2] \in DOMAIN heap
    /\ DOMAIN profiles \subseteq Names
    /\ current \in Names
    /\ owner \in Names
    /\ DOMAIN pending = Callers \union {Boot}
    /\ \A i \in DOMAIN queue : pending[queue[i].by].at # "idle"
    /\ \A c \in DOMAIN pending : pending[c].at # "idle" =>
          Cardinality({i \in DOMAIN queue : queue[i].by = c}) = 1

Quiet == \A c \in DOMAIN pending : pending[c].at = "idle"

\* A setting that has a schema holds a value the schema accepts, whatever whole
\* sections, single settings and shared objects were written in between; unless
\* something was set before the constructor's reads were served, when there are
\* no schemas.
ValidUnlessEarly ==
    ~early /\ registered =>
        \A k \in DOMAIN own \intersect DOMAIN BuiltinSchemas : SectionValid(k, Content(own[k]))

\* Once no call is in progress, what the watchers of all paths heard last is
\* what get returns for the path they were told: calls that overlap notify in
\* the order they assigned.  Unless a request failed: its call assigned, and
\* notifies nobody.
QuietWatcherIsCurrent ==
    Quiet /\ count.failures = 0 /\ <<>> \in Watched /\ heard[<<>>].path # <<>> =>
        Content(GetSetting(heard[<<>>].path)) = heard[<<>>].value

\* The configuration stored for a profile is that profile's: no overlap of
\* switches, sets and imports stores one profile's entries under the name of
\* another.  Unless a call ran while the constructor was between reading the
\* current profile and reading its configuration.
ProfilesKeepApart ==
    ~early => \A n \in Names : \A s \in store.data[n] : s.of = n

\* The profile a page will be loaded with is one that is stored, so that its
\* getCurrentProfile has an answer, whatever calls overlap; unless it was
\* imported and a reload or a failure fell between the two saves of the import,
\* an import named the current profile, the profiles or which is current could
\* not be saved, or a call was made while they were still being read.
StoredCurrentExists ==
    ~early /\ ~torn /\ ~Importing => \A n \in store.current : \E ps \in store.profiles : n \in DOMAIN ps

\* The three keys of the storage tell of the same profiles.
StoredProfilesAgree == ProfilesKeepApart /\ StoredCurrentExists

\* NOT what the code does: set "Persist"s (ConfigurationSystem.ts:523): once a
\* call of set has ended, what it set is what is stored for the current profile.
SetIsStored ==
    Quiet /\ ~early /\ count.failures = 0 =>
        \A k \in DOMAIN own : \E s \in store.data[current] :
            k \in DOMAIN s.config /\ s.config[k] = Content(own[k])
=============================================================================
