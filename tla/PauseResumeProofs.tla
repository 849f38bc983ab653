------------------------- MODULE PauseResumeProofs -------------------------
(***************************************************************************)
(* Proofs about PauseResume for any number of exchanges, resumes and       *)
(* edits: its types, its safety invariants, and that every step of it is a *)
(* step of ExchangeHold or leaves that specification's state alone.        *)
(***************************************************************************)
EXTENDS PauseResume, TLAPS

\* A resume that has been called is for an exchange that was announced.
CalledAfterAnnounce ==
    \A c \in Resumers :
        rpc[c] # "idle" =>
            /\ rreq[c] \in Requests
            /\ hpc[rreq[c]] \notin {"matched", "inserted"}

\* As long as the exchange is held, its entry holds the edit of one of the
\* resumes that have been delivered, if there is any.
QueuedEdit ==
    \A r \in Requests :
        hpc[r] \in Holding /\ Delivered(r) # {} =>
            \E c \in Delivered(r) : paused[r] = redit[c]

\* A woken handler was woken by a resume that has returned.
WokenByResume ==
    \A r \in Requests :
        hpc[r] = "woken" => \E c \in Delivered(r) : rpc[c] = "ok"

IInv ==
    /\ PauseTypeOK
    /\ CalledAfterAnnounce
    /\ EntryHasHolder
    /\ QueuedEdit
    /\ WokenByResume
    /\ AppliedWasSubmitted

\* Every step keeps the types.
LEMMA TypeStep ==
    ASSUME PauseTypeOK, CalledAfterAnnounce, EntryHasHolder, PauseNext
    PROVE  PauseTypeOK'
<1> USE PauseAssumption DEF PauseTypeOK, HandlerStates, ResumeStates
<1>1. ASSUME NEW r \in Requests, Insert(r) PROVE PauseTypeOK'
  BY <1>1 DEF Insert, HandlerGoes
<1>2. ASSUME NEW r \in Requests, Announce(r) \/ Await(r) \/ Expire(r) PROVE PauseTypeOK'
  BY <1>2 DEF Announce, Await, Expire, HandlerGoes
<1>3. ASSUME NEW r \in Requests, Forward(r) PROVE PauseTypeOK'
  BY <1>3 DEF Forward, HandlerGoes, EntryHasHolder, Holding
<1>4. ASSUME NEW r \in Requests, ClientGone(r) PROVE PauseTypeOK'
  BY <1>4 DEF ClientGone, HandlerGoes
<1>5. ASSUME NEW c \in Resumers, NEW r \in Requests, NEW m \in Edits, Lookup(c, r, m) PROVE PauseTypeOK'
  BY <1>5 DEF Lookup
<1>6. ASSUME NEW c \in Resumers, Store(c) PROVE PauseTypeOK'
  BY <1>6 DEF Store, CalledAfterAnnounce
<1>7. ASSUME NEW c \in Resumers, NotifyWaiters(c) PROVE PauseTypeOK'
  BY <1>7 DEF NotifyWaiters, CalledAfterAnnounce
<1> QED BY <1>1, <1>2, <1>3, <1>4, <1>5, <1>6, <1>7 DEF PauseNext, Handler, Resume

\* A handler step leaves the resumes alone; so does a client that leaves.
LEMMA HandlerFrame ==
    ASSUME NEW r \in Requests, Handler(r) \/ ClientGone(r)
    PROVE  /\ UNCHANGED <<rpc, rreq, redit>>
           /\ \A q \in Requests : Delivered(q)' = Delivered(q)
<1>1. UNCHANGED <<rpc, rreq, redit>>
  BY DEF Handler, Insert, Announce, Await, Expire, Forward, ClientGone
<1> QED BY <1>1 DEF Delivered

\* A handler step is about one exchange, and leads to the next handler state.
LEMMA HandlerMoves ==
    ASSUME PauseTypeOK, NEW r \in Requests, Handler(r) \/ ClientGone(r)
    PROVE  /\ \A q \in Requests \ {r} :
                 hpc'[q] = hpc[q] /\ paused'[q] = paused[q] /\ applied'[q] = applied[q]
           /\ \/ /\ hpc[r] = "matched" /\ hpc'[r] = "inserted"
                 /\ paused'[r] = NoEdit /\ applied'[r] = applied[r]
              \/ /\ \/ hpc[r] = "inserted" /\ hpc'[r] = "announced"
                    \/ hpc[r] = "announced" /\ hpc'[r] = "waiting"
                    \/ hpc[r] = "waiting" /\ hpc'[r] = "expired"
                    \/ hpc[r] \in {"matched", "waiting", "woken", "expired"} /\ hpc'[r] = "dropped"
                 /\ paused'[r] = paused[r] /\ applied'[r] = applied[r]
              \/ /\ hpc[r] = "woken" /\ hpc'[r] = "forwarded"
                 /\ paused'[r] = Absent /\ applied'[r] = paused[r]
              \/ /\ hpc[r] = "expired" /\ hpc'[r] = "forwarded"
                 /\ paused'[r] = Absent /\ applied'[r] = applied[r]
<1> USE DEF PauseTypeOK, HandlerGoes
<1>1. CASE Insert(r)
  BY <1>1 DEF Insert
<1>2. CASE Announce(r) \/ Await(r) \/ Expire(r)
  BY <1>2 DEF Announce, Await, Expire
<1>3. CASE Forward(r)
  BY <1>3 DEF Forward
<1>4. CASE ClientGone(r)
  BY <1>4 DEF ClientGone
<1> QED BY <1>1, <1>2, <1>3, <1>4 DEF Handler

\* The inductive step for the handlers.
LEMMA HandlerStep ==
    ASSUME IInv, NEW r \in Requests, Handler(r) \/ ClientGone(r)
    PROVE  /\ CalledAfterAnnounce'
           /\ EntryHasHolder'
           /\ QueuedEdit'
           /\ WokenByResume'
           /\ AppliedWasSubmitted'
<1> USE DEF IInv
<1>1. CalledAfterAnnounce'
  BY HandlerFrame, HandlerMoves DEF CalledAfterAnnounce
<1>2. EntryHasHolder'
  BY HandlerMoves, PauseAssumption DEF EntryHasHolder, Holding
<1>3. QueuedEdit'
  <2> SUFFICES ASSUME NEW q \in Requests, hpc'[q] \in Holding, Delivered(q)' # {}
               PROVE  \E c \in Delivered(q)' : paused'[q] = redit'[c]
    BY DEF QueuedEdit, Holding
  <2>1. Delivered(q) # {} /\ Delivered(q)' = Delivered(q) /\ redit' = redit
    BY HandlerFrame
  <2>2. hpc[q] \notin {"matched", "inserted"}
    BY <2>1 DEF Delivered, CalledAfterAnnounce
  <2>3. hpc[q] \in Holding /\ paused'[q] = paused[q]
    BY <2>2, HandlerMoves DEF Holding
  <2> QED BY <2>1, <2>3 DEF QueuedEdit
<1>4. WokenByResume'
  <2> SUFFICES ASSUME NEW q \in Requests, hpc'[q] = "woken"
               PROVE  \E c \in Delivered(q)' : rpc'[c] = "ok"
    BY DEF WokenByResume
  <2>1. hpc[q] = "woken"
    BY HandlerMoves
  <2> QED BY <2>1, HandlerFrame DEF WokenByResume
<1>5. AppliedWasSubmitted'
  <2> SUFFICES ASSUME NEW q \in Requests, applied'[q] # NoEdit
               PROVE  hpc'[q] = "forwarded" /\ \E c \in Delivered(q)' : applied'[q] = redit'[c]
    BY DEF AppliedWasSubmitted
  <2>1. CASE applied'[q] = applied[q]
    <3>1. hpc[q] = "forwarded" /\ \E c \in Delivered(q) : applied[q] = redit[c]
      BY <2>1 DEF AppliedWasSubmitted
    <3>2. hpc'[q] = "forwarded"
      BY <3>1, HandlerMoves
    <3> QED BY <2>1, <3>1, <3>2, HandlerFrame
  <2>2. CASE applied'[q] # applied[q]
    <3>1. q = r /\ hpc[q] = "woken" /\ hpc'[q] = "forwarded" /\ applied'[q] = paused[q]
      BY <2>2, HandlerMoves
    <3>2. Delivered(q) # {}
      BY <3>1 DEF WokenByResume
    <3>3. \E c \in Delivered(q) : paused[q] = redit[c]
      BY <3>1, <3>2 DEF QueuedEdit, Holding
    <3> QED BY <3>1, <3>3, HandlerFrame
  <2> QED BY <2>1, <2>2
<1> QED BY <1>1, <1>2, <1>3, <1>4, <1>5

\* Looking an entry up delivers nothing.
LEMMA LookupStep ==
    ASSUME IInv, NEW c \in Resumers, NEW r \in Requests, NEW m \in Edits, Lookup(c, r, m)
    PROVE  /\ CalledAfterAnnounce'
           /\ EntryHasHolder'
           /\ QueuedEdit'
           /\ WokenByResume'
           /\ AppliedWasSubmitted'
<1> USE DEF IInv
<1>1. UNCHANGED <<hpc, paused, applied>>
  BY DEF Lookup
<1>2. /\ \A d \in Resumers \ {c} : rpc'[d] = rpc[d] /\ rreq'[d] = rreq[d] /\ redit'[d] = redit[d]
      /\ rpc[c] = "idle" /\ rpc'[c] \in {"found", "refused"} /\ rreq'[c] = r
  BY DEF Lookup, PauseTypeOK
<1>3. \A q \in Requests : Delivered(q)' = Delivered(q)
  BY <1>2 DEF Delivered
<1>4. \A q \in Requests : \A d \in Delivered(q) : redit'[d] = redit[d] /\ rpc'[d] = rpc[d]
  BY <1>2 DEF Delivered
<1>5. CalledAfterAnnounce'
  BY <1>1, <1>2 DEF Lookup, Announced, CalledAfterAnnounce
<1>6. EntryHasHolder'
  BY <1>1 DEF EntryHasHolder
<1>7. QueuedEdit' /\ WokenByResume' /\ AppliedWasSubmitted'
  BY <1>1, <1>3, <1>4 DEF QueuedEdit, WokenByResume, AppliedWasSubmitted
<1> QED BY <1>5, <1>6, <1>7

\* Storing an edit delivers this resume, and keeps the others delivered.
LEMMA StoreStep ==
    ASSUME IInv, NEW c \in Resumers, Store(c)
    PROVE  /\ CalledAfterAnnounce'
           /\ EntryHasHolder'
           /\ QueuedEdit'
           /\ WokenByResume'
           /\ AppliedWasSubmitted'
<1> USE DEF IInv
<1>1. UNCHANGED <<hpc, applied, rreq, redit>> /\ rpc[c] = "found"
  BY DEF Store
<1>2. /\ \A d \in Resumers \ {c} : rpc'[d] = rpc[d]
      /\ rpc'[c] = "stored"
  BY DEF Store, PauseTypeOK
<1>3. rreq[c] \in Requests /\ redit[c] \in Edits
  BY <1>1 DEF CalledAfterAnnounce, PauseTypeOK
<1>4. /\ \A q \in Requests \ {rreq[c]} : paused'[q] = paused[q]
      /\ paused'[rreq[c]] = IF paused[rreq[c]] = Absent THEN Absent ELSE redit[c]
  BY <1>3 DEF Store, PauseTypeOK
<1>5. \A q \in Requests :
        /\ Delivered(q) \subseteq Delivered(q)'
        /\ q # rreq[c] => Delivered(q)' = Delivered(q)
        /\ q = rreq[c] => c \in Delivered(q)'
        /\ \A d \in Delivered(q) : rpc'[d] = rpc[d]
  BY <1>1, <1>2 DEF Delivered
<1>6. CalledAfterAnnounce'
  BY <1>1, <1>2 DEF CalledAfterAnnounce
<1>7. EntryHasHolder'
  BY <1>1, <1>3, <1>4, PauseAssumption DEF EntryHasHolder
<1>8. QueuedEdit'
  <2> SUFFICES ASSUME NEW q \in Requests, hpc'[q] \in Holding, Delivered(q)' # {}
               PROVE  \E d \in Delivered(q)' : paused'[q] = redit'[d]
    BY DEF QueuedEdit, Holding
  <2>1. CASE q = rreq[c]
    <3>1. paused[q] # Absent
      BY <1>1 DEF EntryHasHolder
    <3>2. paused'[q] = redit[c] /\ c \in Delivered(q)'
      BY <1>4, <1>5, <2>1, <3>1
    <3> QED BY <1>1, <3>2
  <2>2. CASE q # rreq[c]
    BY <1>1, <1>4, <1>5, <2>2 DEF QueuedEdit
  <2> QED BY <2>1, <2>2
<1>9. WokenByResume'
  BY <1>1, <1>5 DEF WokenByResume
<1>10. AppliedWasSubmitted'
  BY <1>1, <1>5 DEF AppliedWasSubmitted
<1> QED BY <1>6, <1>7, <1>8, <1>9, <1>10

\* notify_waiters wakes at most the handler this resume was stored for.
LEMMA NotifyStep ==
    ASSUME IInv, NEW c \in Resumers, NotifyWaiters(c)
    PROVE  /\ CalledAfterAnnounce'
           /\ EntryHasHolder'
           /\ QueuedEdit'
           /\ WokenByResume'
           /\ AppliedWasSubmitted'
<1> USE DEF IInv
<1>1. UNCHANGED <<paused, applied, rreq, redit>> /\ rpc[c] = "stored"
  BY DEF NotifyWaiters
<1>2. /\ \A d \in Resumers \ {c} : rpc'[d] = rpc[d]
      /\ rpc'[c] = "ok"
  BY DEF NotifyWaiters, PauseTypeOK
<1>3. rreq[c] \in Requests
  BY <1>1 DEF CalledAfterAnnounce
<1>4. \A q \in Requests :
        \/ hpc'[q] = hpc[q]
        \/ q = rreq[c] /\ hpc[q] = "waiting" /\ hpc'[q] = "woken"
  BY <1>3 DEF NotifyWaiters, PauseTypeOK
<1>5. \A q \in Requests : Delivered(q)' = Delivered(q)
  BY <1>1, <1>2 DEF Delivered
<1>6. c \in Delivered(rreq[c])
  BY <1>1 DEF Delivered
<1>7. CalledAfterAnnounce'
  BY <1>1, <1>2, <1>4 DEF CalledAfterAnnounce
<1>8. EntryHasHolder'
  BY <1>1, <1>4 DEF EntryHasHolder, Holding
<1>9. QueuedEdit'
  BY <1>1, <1>4, <1>5 DEF QueuedEdit, Holding
<1>10. WokenByResume'
  <2> SUFFICES ASSUME NEW q \in Requests, hpc'[q] = "woken"
               PROVE  \E d \in Delivered(q)' : rpc'[d] = "ok"
    BY DEF WokenByResume
  <2>1. CASE hpc[q] = "woken"
    <3>1. PICK d \in Delivered(q) : rpc[d] = "ok"
      BY <2>1 DEF WokenByResume
    <3>2. d \in Resumers
      BY DEF Delivered
    <3>3. rpc'[d] = "ok"
      BY <1>2, <3>1, <3>2
    <3> QED BY <1>5, <3>3
  <2>2. CASE q = rreq[c]
    BY <1>2, <1>5, <1>6, <2>2
  <2> QED BY <1>4, <2>1, <2>2
<1>11. AppliedWasSubmitted'
  BY <1>1, <1>4, <1>5 DEF AppliedWasSubmitted
<1> QED BY <1>7, <1>8, <1>9, <1>10, <1>11

\* The inductive invariant holds in every behaviour.
THEOREM InvariantHolds == PauseSpec => []IInv
<1>1. PauseInit => IInv
  BY PauseAssumption
  DEF PauseInit, IInv, PauseTypeOK, HandlerStates, ResumeStates, CalledAfterAnnounce, EntryHasHolder,
      QueuedEdit, WokenByResume, AppliedWasSubmitted, Delivered, Holding
<1>2. IInv /\ [PauseNext]_pauseVars => IInv'
  <2> SUFFICES ASSUME IInv, [PauseNext]_pauseVars PROVE IInv'
    OBVIOUS
  <2>1. CASE PauseNext
    <3>1. PauseTypeOK'
      BY <2>1, TypeStep DEF IInv
    <3>2. CASE \E r \in Requests : Handler(r) \/ ClientGone(r)
      BY <3>1, <3>2, HandlerStep DEF IInv
    <3>3. CASE \E c \in Resumers : Resume(c)
      BY <3>1, <3>3, LookupStep, StoreStep, NotifyStep DEF IInv, Resume
    <3> QED BY <2>1, <3>2, <3>3 DEF PauseNext
  <2>2. CASE UNCHANGED pauseVars
    <3>1. \A r \in Requests : Delivered(r)' = Delivered(r)
      BY <2>2 DEF pauseVars, Delivered
    <3> QED BY <2>2, <3>1 DEF pauseVars, IInv, PauseTypeOK, CalledAfterAnnounce, EntryHasHolder,
               QueuedEdit, WokenByResume, AppliedWasSubmitted
  <2> QED BY <2>1, <2>2
<1> QED BY <1>1, <1>2, PTL DEF PauseSpec

\* Every variable keeps its type.
THEOREM TypeCorrect == PauseSpec => []PauseTypeOK
<1>1. IInv => PauseTypeOK
  BY DEF IInv
<1> QED BY <1>1, InvariantHolds, PTL

\* The map has an entry for every held exchange and, clients that left aside,
\* for no other one.
THEOREM EntriesHaveHolders == PauseSpec => []EntryHasHolder
<1>1. IInv => EntryHasHolder
  BY DEF IInv
<1> QED BY <1>1, InvariantHolds, PTL

\* A handler woken before its timeout finds a resume's edit in its entry.
THEOREM WokenHasEdit == PauseSpec => []WokenWithAnEdit
<1>1. IInv => WokenWithAnEdit
  <2> SUFFICES ASSUME IInv, NEW r \in Requests, hpc[r] = "woken"
               PROVE  /\ \E c \in Delivered(r) : rpc[c] = "ok"
                      /\ \E c \in Delivered(r) : paused[r] = redit[c]
    BY DEF WokenWithAnEdit
  <2>1. \E c \in Delivered(r) : rpc[c] = "ok"
    BY DEF IInv, WokenByResume
  <2> QED BY <2>1 DEF IInv, QueuedEdit, Holding
<1> QED BY <1>1, InvariantHolds, PTL

\* What is forwarded was submitted, whole, for this exchange.
THEOREM EditsAreSubmitted == PauseSpec => []AppliedWasSubmitted
<1>1. IInv => AppliedWasSubmitted
  BY DEF IInv
<1> QED BY <1>1, InvariantHolds, PTL
-----------------------------------------------------------------------------
(* PauseResume implements ExchangeHold. *)

\* The pairs submitted so far, seen one by one.
LEMMA SubmissionMembers ==
    \A p : p \in Submissions <=> \E r \in Requests : \E c \in Delivered(r) : p = <<r, redit[c]>>
BY DEF Submissions

\* The same after a step.
LEMMA SubmissionMembersNext ==
    \A p : p \in Submissions' <=> \E r \in Requests : \E c \in Delivered(r)' : p = <<r, redit'[c]>>
BY DEF Submissions

\* A handler's step holds, releases or drops its exchange, or is internal.
LEMMA HandlerRefines ==
    ASSUME IInv, NEW r \in Requests, Handler(r) \/ ClientGone(r)
    PROVE  Held!HoldNext \/ UNCHANGED Held!holdVars
<1>1. Submissions' = Submissions
  BY HandlerFrame, SubmissionMembers, SubmissionMembersNext
<1>2. /\ HeldState \in [Requests -> {"flowing", "held", "released", "gone"}]
      /\ HeldState' = [HeldState EXCEPT ![r] = HeldState'[r]]
  BY HandlerMoves DEF IInv, HeldState
<1>3. applied' = [applied EXCEPT ![r] = applied'[r]] /\ applied' \in [Requests -> Edits]
  <2>1. applied' \in [Requests -> Edits]
    BY TypeStep DEF IInv, PauseNext, PauseTypeOK
  <2> QED BY <2>1, HandlerMoves DEF IInv, PauseTypeOK
<1>4. CASE hpc[r] = "matched" /\ hpc'[r] = "inserted"
  <2>1. HeldState[r] = "flowing" /\ HeldState'[r] = "held"
    BY <1>4 DEF HeldState
  <2>2. applied' = applied
    BY <1>3, <1>4, HandlerMoves DEF IInv, PauseTypeOK
  <2> QED BY <1>1, <1>2, <2>1, <2>2 DEF Held!HoldNext, Held!Hold
<1>5. CASE /\ hpc[r] \in {"inserted", "announced", "waiting"}
           /\ hpc'[r] \in {"announced", "waiting", "expired"}
  <2>1. HeldState[r] = "held" /\ HeldState'[r] = "held"
    BY <1>5 DEF HeldState
  <2>2. applied' = applied
    BY <1>3, <1>5, HandlerMoves DEF IInv, PauseTypeOK
  <2> QED BY <1>1, <1>2, <2>1, <2>2 DEF Held!holdVars
<1>6. CASE hpc'[r] = "dropped"
  <2>1. HeldState[r] \in {"flowing", "held"} /\ HeldState'[r] = "gone"
    BY <1>6, HandlerMoves DEF HeldState, IInv
  <2>2. applied' = applied
    BY <1>3, <1>6, HandlerMoves DEF IInv, PauseTypeOK
  <2> QED BY <1>1, <1>2, <2>1, <2>2 DEF Held!HoldNext, Held!Leave
<1>7. CASE hpc'[r] = "forwarded"
  <2>1. HeldState[r] = "held" /\ HeldState'[r] = "released"
    BY <1>7, HandlerMoves DEF HeldState, IInv
  <2>2. applied'[r] = NoEdit \/ <<r, applied'[r]>> \in Submissions
    <3>1. AppliedWasSubmitted'
      BY HandlerStep
    <3>2. applied'[r] # NoEdit => \E c \in Delivered(r)' : applied'[r] = redit'[c]
      BY <3>1 DEF AppliedWasSubmitted
    <3> QED BY <1>1, <3>2, SubmissionMembersNext
  <2>3. applied'[r] \in Edits
    BY <1>3
  <2> QED BY <1>1, <1>2, <1>3, <2>1, <2>2, <2>3 DEF Held!HoldNext, Held!Release
<1> QED BY <1>4, <1>5, <1>6, <1>7, HandlerMoves DEF IInv

\* A resume's store submits its edit; its other steps are internal.
LEMMA ResumeRefines ==
    ASSUME IInv, NEW c \in Resumers, Resume(c)
    PROVE  Held!HoldNext \/ UNCHANGED Held!holdVars
<1>1. UNCHANGED applied
  BY DEF Resume, Lookup, Store, NotifyWaiters
<1>2. ASSUME NEW r \in Requests, NEW m \in Edits, Lookup(c, r, m)
      PROVE  UNCHANGED Held!holdVars
  <2>1. HeldState' = HeldState
    BY <1>2 DEF Lookup, HeldState
  <2>2. \A q \in Requests : Delivered(q)' = Delivered(q) /\ \A d \in Delivered(q) : redit'[d] = redit[d]
    BY <1>2 DEF Lookup, Delivered, IInv, PauseTypeOK
  <2>3. Submissions' = Submissions
    BY <2>2, SubmissionMembers, SubmissionMembersNext
  <2> QED BY <1>1, <2>1, <2>3 DEF Held!holdVars
<1>3. CASE Store(c)
  <2> DEFINE r == rreq[c]
  <2>1. r \in Requests /\ redit[c] \in Edits /\ hpc[r] # "matched"
    BY <1>3 DEF Store, IInv, CalledAfterAnnounce, PauseTypeOK
  <2>2. HeldState' = HeldState /\ HeldState[r] # "flowing"
    BY <1>3, <2>1 DEF Store, HeldState
  <2>3. \A q \in Requests : Delivered(q)' = IF q = r THEN Delivered(q) \cup {c} ELSE Delivered(q)
    BY <1>3 DEF Store, Delivered, IInv, PauseTypeOK
  <2>4. redit' = redit
    BY <1>3 DEF Store
  <2>5. Submissions' = Submissions \cup {<<r, redit[c]>>}
    <3> HIDE DEF r
    <3> QED BY <2>1, <2>3, <2>4, SubmissionMembers, SubmissionMembersNext
  <2> QED BY <1>1, <2>1, <2>2, <2>5 DEF Held!HoldNext, Held!Submit
<1>4. CASE NotifyWaiters(c)
  <2>1. \A q \in Requests : hpc'[q] = hpc[q] \/ (hpc[q] = "waiting" /\ hpc'[q] = "woken")
    BY <1>4 DEF NotifyWaiters, IInv, CalledAfterAnnounce, PauseTypeOK
  <2>2. HeldState' = HeldState
    BY <2>1 DEF HeldState
  <2>3. \A q \in Requests : Delivered(q)' = Delivered(q)
    BY <1>4 DEF NotifyWaiters, Delivered, IInv, PauseTypeOK
  <2>4. Submissions' = Submissions
    BY <1>4, <2>3, SubmissionMembers, SubmissionMembersNext DEF NotifyWaiters
  <2> QED BY <1>1, <2>2, <2>4 DEF Held!holdVars
<1> QED BY <1>2, <1>3, <1>4 DEF Resume

\* Every behaviour of pause and resume is, seen through the mapping, one that
\* ExchangeHold allows: released once, with nothing or one submitted edit.
THEOREM RefinesHold == PauseSpec => Held!HoldSafety
<1>1. PauseInit => Held!HoldInit
  <2> SUFFICES ASSUME PauseInit PROVE Held!HoldInit
    OBVIOUS
  <2>1. HeldState = [r \in Requests |-> "flowing"]
    BY DEF PauseInit, HeldState
  <2>2. \A r \in Requests : Delivered(r) = {}
    BY DEF PauseInit, Delivered
  <2>3. Submissions = {}
    BY <2>2 DEF Submissions
  <2> QED BY <2>1, <2>3 DEF PauseInit, Held!HoldInit
<1>2. IInv /\ [PauseNext]_pauseVars => [Held!HoldNext]_Held!holdVars
  <2> SUFFICES ASSUME IInv, [PauseNext]_pauseVars PROVE Held!HoldNext \/ UNCHANGED Held!holdVars
    OBVIOUS
  <2>1. CASE UNCHANGED pauseVars
    <3>1. \A r \in Requests : Delivered(r)' = Delivered(r)
      BY <2>1 DEF pauseVars, Delivered
    <3>2. Submissions' = Submissions /\ HeldState' = HeldState
      BY <2>1, <3>1 DEF pauseVars, HeldState, Submissions
    <3> QED BY <2>1, <3>2 DEF pauseVars, Held!holdVars
  <2>2. CASE PauseNext
    BY <2>2, HandlerRefines, ResumeRefines DEF PauseNext
  <2> QED BY <2>1, <2>2
<1> QED BY <1>1, <1>2, InvariantHolds, PTL DEF PauseSpec, Held!HoldSafety
=============================================================================
