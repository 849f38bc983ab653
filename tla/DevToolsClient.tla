---------------------------- MODULE DevToolsClient ----------------------------
(***************************************************************************)
(* A plugin's event client and its connection to the server bus             *)
(* (DevToolsEventClient in packages/frontend/src/kernel/TanStackDevTools.ts *)
(* connect, scheduleReconnect, disconnect and the socket's callbacks).      *)
(*                                                                         *)
(* close() only begins to close a socket: its onclose runs later, after     *)
(* disconnect() has returned.  connect() looks at `connected', which is     *)
(* false while a socket is connecting, so there may be several sockets.     *)
(***************************************************************************)
EXTENDS Naturals, FiniteSets

CONSTANTS
    Sockets,        \* bound: slots for sockets that are not closed, numbers
    MaxConnects,    \* bound: calls of connect()
    MaxDisconnects  \* bound: calls of disconnect() or destroy()

ASSUME DevToolsAssumption ==
    /\ IsFiniteSet(Sockets)
    /\ Sockets \subseteq Nat \ {0}
    /\ MaxConnects \in Nat
    /\ MaxDisconnects \in Nat

VARIABLES
    socket,         \* per slot: "none", or its readyState
    ws,             \* the client's field: the slot of the last socket, or 0
    connected,      \* the client's field
    timers,         \* pending reconnect timers
    connects,       \* calls of connect()
    disconnects     \* calls of disconnect() or destroy()

dtVars == <<socket, ws, connected, timers, connects, disconnects>>

DtInit ==
    /\ socket = [s \in Sockets |-> "none"]
    /\ ws = 0
    /\ connected = FALSE
    /\ timers = 0
    /\ connects = 0
    /\ disconnects = 0

Live == {s \in Sockets : socket[s] # "none"}
-----------------------------------------------------------------------------
\* scheduleReconnect(), with `pending' timers: the one it knows is cleared.
ScheduleReconnect(pending) == timers' = 1

\* connect() beyond its guard: a socket, or an exception of its constructor.
NewSocket(pending) ==
    /\ Live # Sockets
    /\ LET s == CHOOSE free \in Sockets \ Live : TRUE IN
         /\ socket' = [socket EXCEPT ![s] = "connecting"]
         /\ ws' = s
    /\ timers' = pending

NewSocketThrows(pending) == ScheduleReconnect(pending) /\ UNCHANGED <<socket, ws>>

Connect ==
    /\ connects < MaxConnects
    /\ connects' = connects + 1
    /\ IF connected THEN UNCHANGED <<socket, ws, timers>>
       ELSE NewSocket(timers) \/ NewSocketThrows(timers)
    /\ UNCHANGED <<connected, disconnects>>

\* For the mutant of TimerFires: an interval, which fires again.
TimerFiresAgain ==
    /\ timers > 0
    /\ IF connected THEN UNCHANGED <<socket, ws, timers>> ELSE NewSocket(timers)
    /\ UNCHANGED <<connected, connects, disconnects>>

\* The timer's callback; it calls connect().
TimerFires ==
    /\ timers > 0
    /\ IF connected THEN timers' = timers - 1 /\ UNCHANGED <<socket, ws>>
       ELSE NewSocket(timers - 1)
    /\ UNCHANGED <<connected, connects, disconnects>>

TimerFiresThrows ==
    /\ timers > 0 /\ ~connected
    /\ NewSocketThrows(timers - 1)
    /\ UNCHANGED <<connected, connects, disconnects>>

\* External: the server accepts; onopen.
Opens(s) ==
    /\ socket[s] = "connecting"
    /\ socket' = [socket EXCEPT ![s] = "open"]
    /\ connected' = TRUE
    /\ UNCHANGED <<ws, timers, connects, disconnects>>

\* For the mutant of Closes: no reconnect is scheduled.
ClosesForGood(s) ==
    /\ socket[s] # "none"
    /\ socket' = [socket EXCEPT ![s] = "none"]
    /\ connected' = FALSE
    /\ UNCHANGED <<ws, timers, connects, disconnects>>

\* The server refuses or goes, or the close handshake is done; onclose.
Closes(s) ==
    /\ socket[s] # "none"
    /\ socket' = [socket EXCEPT ![s] = "none"]
    /\ connected' = FALSE
    /\ ScheduleReconnect(timers)
    /\ UNCHANGED <<ws, connects, disconnects>>

\* disconnect(), also by destroy(): the last socket alone is closed.
Disconnect ==
    /\ disconnects < MaxDisconnects
    /\ disconnects' = disconnects + 1
    /\ socket' = [s \in Sockets |-> IF s = ws /\ socket[s] # "none" THEN "closing" ELSE socket[s]]
    /\ ws' = 0
    /\ connected' = FALSE
    /\ timers' = 0
    /\ UNCHANGED connects

DtNext ==
    \/ Connect \/ Disconnect \/ TimerFires \/ TimerFiresThrows
    \/ \E s \in Sockets : Opens(s) \/ Closes(s)

\* Timers fire; a socket that was closed reaches its onclose; and a server that
\* is tried again and again accepts at last.
DtFairness ==
    /\ WF_dtVars(TimerFires)
    /\ \A s \in Sockets : WF_dtVars(socket[s] = "closing" /\ Closes(s))
    /\ SF_dtVars(\E s \in Sockets : Opens(s))

DtSpec == DtInit /\ [][DtNext]_dtVars /\ DtFairness
-----------------------------------------------------------------------------
\* The types of the variables.
DtTypeOK ==
    /\ socket \in [Sockets -> {"none", "connecting", "open", "closing"}]
    /\ ws \in Sockets \union {0}
    /\ connected \in BOOLEAN
    /\ connects \in 0..MaxConnects
    /\ disconnects \in 0..MaxDisconnects

\* Reconnecting adds no socket: the sockets not closed and the pending timer are
\* never more than the calls of connect(), however often the connection is lost
\* and whenever disconnect() is called.  Each of them would deliver every
\* message once more.
ReconnectAddsNoSocket == Cardinality(Live) + timers <= connects

\* A client that takes itself for connected, and so ignores connect() and its
\* timer, has an open socket that will tell it of its close.
ConnectedIsOpen == connected => \E s \in Sockets : socket[s] = "open"

\* A lost or refused connection comes back, once disconnect() is not called any
\* more.
Reconnects == timers > 0 /\ disconnects = MaxDisconnects ~> connected
=============================================================================
