----------------------------- MODULE NetworkStack -----------------------------
(***************************************************************************)
(* The kernel's fetch and its hooks (SimpleNetworkStack in                  *)
(* packages/frontend/src/kernel/KernelBootstrap.ts).                        *)
(*                                                                         *)
(* fetch goes through the live arrays of hooks and awaits each hook, so     *)
(* hooks come and go while requests are under way.  An array iterator is    *)
(* an index: a hook removed at or before it moves the later ones down.      *)
(* Only beforeRequest and completed are ever run.                           *)
(*                                                                         *)
(* The arrays hold functions, and remove() takes the first that is the      *)
(* handle's: a function registered twice is removed by either handle, and   *)
(* by one handle twice.  To tell its registrations apart the model numbers  *)
(* them and remembers the function of each.                                 *)
(***************************************************************************)
EXTENDS Naturals, Sequences, FiniteSets, SequencesExt

CONSTANTS
    Requests,   \* calls of fetch
    Functions,  \* the functions registered as hooks
    MaxHooks    \* bound: hooks registered

ASSUME NetAssumption == MaxHooks \in Nat

Lists == {"beforeRequest", "completed"}

VARIABLES
    hooks,          \* per list, the registrations that are there
    registrations,  \* per registration so far, its list and its function
    request,        \* per request: where it is, the iterator's index, the hooks
                    \* asked, those that were there when it began, and whether
                    \* a hook was removed from under its iterator
    released        \* history: the lists and functions whose remove() was called

netVars == <<hooks, registrations, request, released>>

\* The number of registrations, and the number of the last.
handed == Len(registrations)

NewRequest == [at |-> "new", index |-> 0, asked |-> <<>>, there |-> {}, disturbed |-> FALSE]

NetInit ==
    /\ hooks = [l \in Lists |-> <<>>]
    /\ registrations = <<>>
    /\ request = [r \in Requests |-> NewRequest]
    /\ released = {}
-----------------------------------------------------------------------------
(* Hooks. *)

OnHook(l, f) ==
    /\ handed < MaxHooks
    /\ registrations' = Append(registrations, [list |-> l, function |-> f])
    /\ hooks' = [hooks EXCEPT ![l] = Append(@, handed + 1)]
    /\ UNCHANGED <<request, released>>

PlacesOf(l, f) == {i \in DOMAIN hooks[l] : registrations[hooks[l][i]].function = f}

\* The index i is removed: an iterator that has passed it will skip a hook.
Disturbed(q, l, i) == [q EXCEPT !.disturbed = @ \/ (q.at = l /\ i <= q.index)]

\* remove(), of any handle of the function on the list; when the function is not
\* there, nothing happens.
RemoveHook(l, f) ==
    \E i \in PlacesOf(l, f) :
        /\ \A j \in PlacesOf(l, f) : i <= j
        /\ hooks' = [hooks EXCEPT ![l] = RemoveAt(@, i)]
        /\ request' = [r \in Requests |-> Disturbed(request[r], l, i)]
        /\ released' = released \union {[list |-> l, function |-> f]}
        /\ UNCHANGED registrations
-----------------------------------------------------------------------------
(* fetch(). *)

After(l) == IF l = "beforeRequest" THEN "sent" ELSE "answered"

\* For the mutant of Iterate: the iterator begins at the second hook.
IterateFromSecond(r, l, i) ==
    IF i + 1 < Len(hooks[l])
      THEN [r EXCEPT !.at = l, !.index = i + 1, !.asked = Append(@, hooks[l][i + 2])]
      ELSE [r EXCEPT !.at = After(l)]

\* The next hook of list l is called, or the list is through.
Iterate(r, l, i) ==
    IF i < Len(hooks[l])
      THEN [r EXCEPT !.at = l, !.index = i + 1, !.asked = Append(@, hooks[l][i + 1])]
      ELSE [r EXCEPT !.at = After(l)]

BeginHooks(r, l, from) ==
    /\ request[r].at = from
    /\ request' = [request EXCEPT ![r] =
                     Iterate([NewRequest EXCEPT !.there = ToSet(hooks[l])], l, 0)]
    /\ UNCHANGED <<hooks, registrations, released>>

\* A hook of the list resolves; a cancel, or its exception, rejects the call.
HookSettles(r, l) ==
    /\ request[r].at = l
    /\ \/ request' = [request EXCEPT ![r] = Iterate(@, l, @.index)]
       \/ request' = [request EXCEPT ![r].at = "rejected"]
    /\ UNCHANGED <<hooks, registrations, released>>

\* External: the network answers, and the completed hooks begin, or it fails.
Fetch(r) == BeginHooks(r, "beforeRequest", "new")
Response(r) == BeginHooks(r, "completed", "sent")
NetworkError(r) ==
    /\ request[r].at = "sent"
    /\ request' = [request EXCEPT ![r].at = "rejected"]
    /\ UNCHANGED <<hooks, registrations, released>>

NetNext ==
    \/ \E l \in Lists, f \in Functions : OnHook(l, f) \/ RemoveHook(l, f)
    \/ \E r \in Requests : \/ Fetch(r) \/ Response(r) \/ NetworkError(r)
                           \/ \E l \in Lists : HookSettles(r, l)

NetSpec == NetInit /\ [][NetNext]_netVars
-----------------------------------------------------------------------------
\* The types of the variables; no array holds a registration twice, and one is
\* in its array until remove() is called for its function there, by whatever
\* handle.
NetTypeOK ==
    /\ handed \in 0..MaxHooks
    /\ \A l \in Lists : IsInjective(hooks[l]) /\ ToSet(hooks[l]) \subseteq 1..handed
    /\ \A r \in Requests : request[r].at \in Lists \union {"new", "sent", "answered", "rejected"}
    /\ \A h \in 1..handed : registrations[h] \notin released => h \in ToSet(hooks[registrations[h].list])

\* A request passes a list with every hook asked that was there when it began
\* and still is, in particular what a hook is there to stop, whatever is added,
\* or removed ahead of the iterator; a removal at the iterator or behind it makes
\* it skip a hook, and then this says nothing.  No registration is asked twice for
\* one request in any case.
HooksRunOnce ==
    \A r \in Requests :
        /\ IsInjective(request[r].asked)
        /\ \A l \in Lists : request[r].at = After(l) /\ ~request[r].disturbed =>
              ToSet(hooks[l]) \intersect request[r].there \subseteq ToSet(request[r].asked)
=============================================================================
