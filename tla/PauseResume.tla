---------------------------- MODULE PauseResume ----------------------------
(***************************************************************************)
(* Pause and resume of intercepted exchanges                               *)
(* (src-tauri/src/mitm_proxy.rs): the Pause arm of Handler::handle_request *)
(* against concurrent calls of MITMProxyEngine::resume.                    *)
(*                                                                         *)
(* A handler inserts an entry in `paused', announces the exchange on the   *)
(* event channel, creates the future of its Notify and waits for it under  *)
(* a timeout, then removes the entry and forwards.  A resume looks the     *)
(* entry up under the read lock, stores its edit under the write lock, and *)
(* only then calls notify_waiters, which wakes just the futures that exist *)
(* at that moment and leaves no permit.  The three are separate steps, and *)
(* so are the handler's.  The client's connection, whose end makes hyper   *)
(* drop the handler at its next suspension point, is external.             *)
(***************************************************************************)
EXTENDS Naturals

CONSTANTS
    Requests,   \* exchanges that match a Pause rule
    Resumers,   \* calls of resume, each made at most once
    Edits,      \* modification lists, the empty one included
    NoEdit,     \* the empty modification list
    Absent,     \* no entry in `paused'
    NoRequest   \* a resume that has not been called

ASSUME PauseAssumption ==
    /\ NoEdit \in Edits
    /\ Absent \notin Edits
    /\ NoRequest \notin Requests

VARIABLES
    hpc,        \* where each handler is
    paused,     \* the map: Absent, or the queued modifications
    applied,    \* the edit the exchange was forwarded with
    rpc,        \* where each resume call is
    rreq,       \* the request a resume is for
    redit       \* the modifications it carries

pauseVars == <<hpc, paused, applied, rpc, rreq, redit>>

PauseInit ==
    /\ hpc = [r \in Requests |-> "matched"]
    /\ paused = [r \in Requests |-> Absent]
    /\ applied = [r \in Requests |-> NoEdit]
    /\ rpc = [c \in Resumers |-> "idle"]
    /\ rreq = [c \in Resumers |-> NoRequest]
    /\ redit = [c \in Resumers |-> NoEdit]
-----------------------------------------------------------------------------
(* The handler. *)

HandlerGoes(r, from, to) ==
    /\ hpc[r] = from
    /\ hpc' = [hpc EXCEPT ![r] = to]

Insert(r) ==
    /\ HandlerGoes(r, "matched", "inserted")
    /\ paused' = [paused EXCEPT ![r] = NoEdit]
    /\ UNCHANGED <<applied, rpc, rreq, redit>>

\* emit(paused event): from here on the user can know the request id.
Announce(r) ==
    /\ HandlerGoes(r, "inserted", "announced")
    /\ UNCHANGED <<paused, applied, rpc, rreq, redit>>

\* notify.notified() is evaluated: notify_waiters will reach it from now on.
Await(r) ==
    /\ HandlerGoes(r, "announced", "waiting")
    /\ UNCHANGED <<paused, applied, rpc, rreq, redit>>

\* For the mutant of Expire: an exchange with a queued edit never times out.
ExpireUnlessEdited(r) ==
    /\ paused[r] = NoEdit
    /\ HandlerGoes(r, "waiting", "expired")
    /\ UNCHANGED <<paused, applied, rpc, rreq, redit>>

\* The timeout elapses; it loses to a notification that came first, because
\* tokio::time::timeout polls the inner future before its deadline.
Expire(r) ==
    /\ HandlerGoes(r, "waiting", "expired")
    /\ UNCHANGED <<paused, applied, rpc, rreq, redit>>

\* For the mutant of Forward: the entry is left behind.
ForwardKeepingEntry(r) ==
    /\ \/ HandlerGoes(r, "woken", "forwarded") /\ applied' = [applied EXCEPT ![r] = paused[r]]
       \/ HandlerGoes(r, "expired", "forwarded") /\ UNCHANGED applied
    /\ UNCHANGED <<paused, rpc, rreq, redit>>

\* The entry is removed with its modifications.  A handler that was woken
\* applies them, one that timed out forwards unmodified.
Forward(r) ==
    /\ \/ HandlerGoes(r, "woken", "forwarded") /\ applied' = [applied EXCEPT ![r] = paused[r]]
       \/ HandlerGoes(r, "expired", "forwarded") /\ UNCHANGED applied
    /\ paused' = [paused EXCEPT ![r] = Absent]
    /\ UNCHANGED <<rpc, rreq, redit>>

\* External: the client leaves while the handler is suspended in an await.
\* Nothing removes the entry.
ClientGone(r) ==
    /\ \E from \in {"matched", "waiting", "woken", "expired"} : HandlerGoes(r, from, "dropped")
    /\ UNCHANGED <<paused, applied, rpc, rreq, redit>>
-----------------------------------------------------------------------------
(* resume(request_id, modifications). *)

\* The user has seen the paused event of r.
Announced(r) == hpc[r] \notin {"matched", "inserted"} /\ ~(hpc[r] = "dropped" /\ paused[r] = Absent)

\* paused.read(): the entry's Notify is cloned, or the call fails.
Lookup(c, r, m) ==
    /\ rpc[c] = "idle"
    /\ Announced(r)
    /\ rpc' = [rpc EXCEPT ![c] = IF paused[r] = Absent THEN "refused" ELSE "found"]
    /\ rreq' = [rreq EXCEPT ![c] = r]
    /\ redit' = [redit EXCEPT ![c] = m]
    /\ UNCHANGED <<hpc, paused, applied>>

\* For the mutant of Store: the edit lands in every paused exchange.
StoreInAll(c) ==
    /\ rpc[c] = "found"
    /\ paused' = [r \in Requests |-> IF paused[r] = Absent THEN Absent ELSE redit[c]]
    /\ rpc' = [rpc EXCEPT ![c] = "stored"]
    /\ UNCHANGED <<hpc, applied, rreq, redit>>

\* paused.write(): the edit replaces what the entry holds, if it still exists.
Store(c) ==
    /\ rpc[c] = "found"
    /\ paused' = [paused EXCEPT ![rreq[c]] = IF @ = Absent THEN Absent ELSE redit[c]]
    /\ rpc' = [rpc EXCEPT ![c] = "stored"]
    /\ UNCHANGED <<hpc, applied, rreq, redit>>

\* For the mutant of NotifyWaiters: the waiter is woken before the store.
NotifyFirst(c) ==
    /\ rpc[c] \in {"found", "stored"}
    /\ rpc' = [rpc EXCEPT ![c] = "ok"]
    /\ hpc' = [hpc EXCEPT ![rreq[c]] = IF @ = "waiting" THEN "woken" ELSE @]
    /\ UNCHANGED <<paused, applied, rreq, redit>>

\* notify_waiters(): wakes the handler if it waits, is lost otherwise; Ok(()).
NotifyWaiters(c) ==
    /\ rpc[c] = "stored"
    /\ rpc' = [rpc EXCEPT ![c] = "ok"]
    /\ hpc' = [hpc EXCEPT ![rreq[c]] = IF @ = "waiting" THEN "woken" ELSE @]
    /\ UNCHANGED <<paused, applied, rreq, redit>>
-----------------------------------------------------------------------------
Handler(r) == Insert(r) \/ Announce(r) \/ Await(r) \/ Expire(r) \/ Forward(r)

Resume(c) == Store(c) \/ NotifyWaiters(c) \/ \E r \in Requests, m \in Edits : Lookup(c, r, m)

PauseNext ==
    \/ \E r \in Requests : Handler(r) \/ ClientGone(r)
    \/ \E c \in Resumers : Resume(c)

\* A task that can run is run, and a timer that is due fires; nothing obliges
\* a user to call resume or a client to leave.
PauseFairness == \A r \in Requests : WF_pauseVars(Handler(r))

PauseSpec == PauseInit /\ [][PauseNext]_pauseVars /\ PauseFairness
-----------------------------------------------------------------------------
HandlerStates ==
    {"matched", "inserted", "announced", "waiting", "woken", "expired", "forwarded", "dropped"}
ResumeStates == {"idle", "found", "stored", "ok", "refused"}

\* The types of the variables.
PauseTypeOK ==
    /\ hpc \in [Requests -> HandlerStates]
    /\ paused \in [Requests -> Edits \cup {Absent}]
    /\ applied \in [Requests -> Edits]
    /\ rpc \in [Resumers -> ResumeStates]
    /\ rreq \in [Resumers -> Requests \cup {NoRequest}]
    /\ redit \in [Resumers -> Edits]

Holding == {"inserted", "announced", "waiting", "woken", "expired"}

\* The map holds an entry for every exchange its handler holds and for no
\* other one, whatever resumes do at the same time: only an exchange whose
\* client left while it was held can leave its entry behind.
EntryHasHolder ==
    \A r \in Requests :
        /\ hpc[r] \in Holding => paused[r] # Absent
        /\ paused[r] # Absent => hpc[r] \in Holding \cup {"dropped"}

\* Resumes for r whose edit has been stored (or found no entry any more).
Delivered(r) == {c \in Resumers : rreq[c] = r /\ rpc[c] \in {"stored", "ok"}}

\* A handler wakes before its timeout only when a resume for this exchange has
\* returned, and then the entry holds the edit of a resume: store-then-notify
\* never lets a woken handler see the placeholder of its own insert.
WokenWithAnEdit ==
    \A r \in Requests :
        hpc[r] = "woken" =>
            /\ \E c \in Delivered(r) : rpc[c] = "ok"
            /\ \E c \in Delivered(r) : paused[r] = redit[c]

\* An exchange is forwarded with one whole edit submitted for it or unmodified.
AppliedWasSubmitted ==
    \A r \in Requests :
        applied[r] # NoEdit =>
            hpc[r] = "forwarded" /\ \E c \in Delivered(r) : applied[r] = redit[c]

\* Resume or timeout: no exchange is held for ever.
HeldExchangesEnd ==
    \A r \in Requests : hpc[r] \in Holding ~> hpc[r] \in {"forwarded", "dropped"}

\* "resume applies queued modifications": a resume that returned Ok, the only
\* one there is, has had its edit applied once the exchange is forwarded.
OkMeansApplied ==
    \A c \in Resumers :
        rpc[c] = "ok" /\ hpc[rreq[c]] = "forwarded" => applied[rreq[c]] = redit[c]
-----------------------------------------------------------------------------
(* Refinement: pause and resume implement ExchangeHold. *)

HeldState ==
    [r \in Requests |->
        IF hpc[r] = "matched" THEN "flowing"
        ELSE IF hpc[r] = "forwarded" THEN "released"
        ELSE IF hpc[r] = "dropped" THEN "gone"
        ELSE "held"]

Submissions == UNION {{<<r, redit[c]>> : c \in Delivered(r)} : r \in Requests}

Held == INSTANCE ExchangeHold WITH
    state <- HeldState, edit <- applied, submitted <- Submissions

\* Pause and resume keep the promise of ExchangeHold, liveness included.
ImplementsHold == Held!HoldSpec
=============================================================================
