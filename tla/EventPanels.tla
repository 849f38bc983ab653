----------------------------- MODULE EventPanels -----------------------------
(***************************************************************************)
(* The events in the frontend's store (stores/appStore.ts) and the panels   *)
(* that list them: the timeline, the console, the proxy history and the     *)
(* inspector of the selected one.  An event is its number, in the order     *)
(* they are added, and its kind.                                            *)
(***************************************************************************)
EXTENDS Naturals, Sequences, FiniteSetsExt, SequencesExt, Ordering

CONSTANTS
    MaxKept,    \* the cap of addTimelineEvent, 10000 in the code
    MaxListed,  \* the cap of the timeline's list, 100 in the code
    MaxLogged,  \* the cap of the console's list, 500 in the code
    MaxAdded    \* bound: events added

ASSUME PanelsAssumption == MaxKept \in Nat \ {0} /\ MaxLogged \in Nat

Kinds == {"network", "console", "error"}
Filters == {"all", "console", "error"}
NothingSelected == 0

VARIABLES
    timelineEvents,
    selectedEventId,
    consoleFilter,
    added,          \* the events added, ever
    cleared         \* history: of those, the ones added before the last clear

panelVars == <<timelineEvents, selectedEventId, consoleFilter, added, cleared>>

PanelsInit ==
    /\ timelineEvents = <<>>
    /\ selectedEventId = NothingSelected
    /\ consoleFilter = "all"
    /\ added = 0 /\ cleared = 0
-----------------------------------------------------------------------------
\* slice(-n).
LastOf(s, n) == IF Len(s) <= n THEN s ELSE SubSeq(s, Len(s) - n + 1, Len(s))

\* For the mutant of Appended: the list is read once, before it is cut.
AppendedToSnapshot(events, e) == Append(events, e)

\* The list is cut if it is full; what is appended to is the cut one.
Appended(events, e) ==
    Append(IF Len(events) >= MaxKept THEN LastOf(events, MaxKept - 1) ELSE events, e)

AddTimelineEvent(kind) ==
    /\ added < MaxAdded
    /\ added' = added + 1
    /\ timelineEvents' = Appended(timelineEvents, [id |-> added + 1, kind |-> kind])
    /\ UNCHANGED <<selectedEventId, consoleFilter, cleared>>

\* The button of the timeline and the console; the selection stays.
ClearTimeline ==
    /\ timelineEvents' = <<>>
    /\ cleared' = added
    /\ UNCHANGED <<selectedEventId, consoleFilter, added>>
-----------------------------------------------------------------------------
(* The panels. *)

\* The timeline's list, newest first.
RecentEvents == Reverse(LastOf(timelineEvents, MaxListed))

OfKind(events, filter) ==
    Sifted(events, {i \in DOMAIN events : /\ events[i].kind \in {"console", "error"}
                                          /\ filter \in {"all", events[i].kind}})

\* The console's list.
Logged(filter) == LastOf(OfKind(timelineEvents, filter), MaxLogged)

\* The proxy history; what its filter hides cannot be clicked.
History == Sifted(timelineEvents, {i \in DOMAIN timelineEvents : timelineEvents[i].kind = "network"})

Select(e) ==
    /\ selectedEventId' = e.id
    /\ UNCHANGED <<timelineEvents, consoleFilter, added, cleared>>

SetFilter(filter) ==
    /\ consoleFilter' = filter
    /\ UNCHANGED <<timelineEvents, selectedEventId, added, cleared>>

PanelsNext ==
    \/ \E kind \in Kinds : AddTimelineEvent(kind)
    \/ ClearTimeline
    \/ \E e \in ToSet(RecentEvents) \union ToSet(History) : Select(e)
    \/ \E filter \in Filters : SetFilter(filter)

PanelsSpec == PanelsInit /\ [][PanelsNext]_panelVars
-----------------------------------------------------------------------------
\* The store keeps the newest events without a gap, as many as it may, and
\* after a clear those added since: whenever the list is cut, nothing comes
\* back and nothing newer is lost.
NewestAreKept ==
    LET kept == Min({MaxKept, added - cleared}) IN
    [i \in DOMAIN timelineEvents |-> timelineEvents[i].id] = [i \in 1..kept |-> added - kept + i]

\* The console has its events, however many others came in between: it leaves
\* one out only when its list is full of newer ones.
ConsoleIsFull ==
    LET log == Logged(consoleFilter) IN
    \A e \in ToSet(OfKind(timelineEvents, consoleFilter)) \ ToSet(log) :
        Len(log) = MaxLogged /\ \A d \in ToSet(log) : d.id > e.id

\* What is cut off at either limit, the store's and the console's, is the oldest.
NewestAreShown == NewestAreKept /\ ConsoleIsFull
=============================================================================
