----------------------------- MODULE TargetView ------------------------------
(***************************************************************************)
(* The view of the target page (components/target/TargetView.tsx): its      *)
(* address bar, its buttons, and the frame that shows the page.             *)
(*                                                                         *)
(* The frame is the browser's.  It has the entries of the session's         *)
(* history, of which it shows one, and at most one navigation under way.    *)
(* The component hears of it by load events only, and not everything ends   *)
(* in one: a page moves within its document (a link or an address that      *)
(* differs in the fragment, pushState, and the steps through the history    *)
(* between such entries), and a navigation may bring no document (a         *)
(* download, an answer 204).                                                *)
(*                                                                         *)
(* The component can read the history of a page of its own origin only; it  *)
(* takes the length of the history for the position in it.                  *)
(***************************************************************************)
EXTENDS Integers, Sequences, SequencesExt

CONSTANTS
    Documents,      \* addresses without a fragment
    OwnOrigin,      \* those whose history can be read
    FirstDocument,  \* the address at the start
    Fragments,      \* fragments an address may have
    MaxEntries      \* bound: entries of the history

ASSUME TargetAssumption ==
    /\ FirstDocument \in Documents /\ OwnOrigin \subseteq Documents
    /\ MaxEntries \in Nat \ {0}

NoFragment == "no fragment"
Address(document, fragment) == [document |-> document, fragment |-> fragment]
Pages == [document : Documents, fragment : Fragments \union {NoFragment}]
FirstPage == Address(FirstDocument, NoFragment)

Nowhere == 0

VARIABLES
    url, inputValue, loading, historyLen, historyIdx,
    entries,    \* the frame: its history, [page, joined] where `joined' says that
                \* the entry is of the same document as the one before,
    position,   \* the index of the entry it shows, 0 before the first load,
    target,     \* the navigation under way, if any: [page, at], to the entry at
                \* that index, or, with `at' 0, to an address,
    unheard     \* history: since the last load the frame did something else than
                \* what the component asked for without a load event

tvShown == <<url, inputValue, loading, historyLen, historyIdx>>
frame == <<entries, position, target, unheard>>
tvVars == <<tvShown, frame>>

ToAddress(page) == {[page |-> page, at |-> Nowhere]}

TvInit ==
    /\ url = FirstPage /\ inputValue = FirstPage
    /\ loading = FALSE
    /\ historyLen = 0 /\ historyIdx = -1
    /\ entries = <<>> /\ position = Nowhere
    /\ target = ToAddress(FirstPage)
    /\ unheard = FALSE

Idle == target = {}
PageShown == entries[position].page
Readable == position # Nowhere /\ PageShown.document \in OwnOrigin
-----------------------------------------------------------------------------
(* The frame. *)

\* A new entry after the one shown, in place of what is ahead.
Push(page, joined) ==
    /\ position < MaxEntries
    /\ position' = position + 1
    /\ entries' = Append(SubSeq(entries, 1, position), [page |-> page, joined |-> joined])

\* The entry shown gets a document of its own.
Renew ==
    /\ entries' = [i \in DOMAIN entries |->
                     IF i \in {position, position + 1} THEN [entries[i] EXCEPT !.joined = FALSE]
                     ELSE entries[i]]
    /\ UNCHANGED position

\* An address with a fragment is sought in the document that is shown.
WithinDocument(page) ==
    /\ position # Nowhere
    /\ page.fragment # NoFragment /\ page.document = PageShown.document

\* The frame shows another page of its document, and goes on with what is under way.
MoveTo(page) ==
    /\ IF PageShown = page THEN UNCHANGED <<entries, position>> ELSE Push(page, TRUE)
    /\ unheard' = TRUE
    /\ UNCHANGED target

\* The frame is given an address.
GoTo(page) ==
    \/ WithinDocument(page) /\ MoveTo(page)
    \/ ~WithinDocument(page) /\ target' = ToAddress(page) /\ UNCHANGED <<entries, position, unheard>>

\* history.back() and forward(), in place of what is under way; beyond the ends
\* nothing happens, and between entries of one document there is no load.
Traverse(step) ==
    LET to == position + step
        within == entries[IF step > 0 THEN to ELSE position].joined
    IN /\ UNCHANGED entries
       /\ \/ /\ to \notin DOMAIN entries
             /\ UNCHANGED <<position, target>>
          \/ /\ to \in DOMAIN entries /\ ~within
             /\ target' = {[page |-> entries[to].page, at |-> to]}
             /\ UNCHANGED position
          \/ /\ to \in DOMAIN entries /\ within
             /\ position' = to /\ target' = {}

\* For the mutant of HandleLoad: a page that cannot be read is taken for one that
\* is still loading.
HandleLoadThrows(len, readable) ==
    /\ loading' = IF readable THEN FALSE ELSE loading
    /\ historyLen' = IF readable THEN len ELSE 0
    /\ historyIdx' = IF readable THEN len - 1 ELSE -1

HandleLoad(len, readable) ==
    /\ loading' = FALSE
    /\ historyLen' = IF readable THEN len ELSE 0
    /\ historyIdx' = IF readable THEN len - 1 ELSE -1

\* A document has been loaded, also one that says that there is none.  A load of
\* the address that is shown takes the place of its entry.
Load ==
    \E t \in target :
        /\ \/ /\ t.at = Nowhere
              /\ IF position # Nowhere /\ PageShown = t.page THEN Renew ELSE Push(t.page, FALSE)
           \/ /\ t.at \in DOMAIN entries /\ entries[t.at].page = t.page
              /\ position' = t.at /\ UNCHANGED entries
        /\ target' = {} /\ unheard' = FALSE
        /\ HandleLoad(Len(entries'), t.page.document \in OwnOrigin)
        /\ UNCHANGED <<url, inputValue>>

\* What is loaded is a download, or nothing: the page stays.
NoDocument ==
    /\ ~Idle
    /\ target' = {} /\ unheard' = TRUE
    /\ UNCHANGED <<tvShown, entries, position>>

\* A link of the page is followed: the component is not told.
FollowLink ==
    /\ Idle /\ position # Nowhere
    /\ \E page \in Pages : GoTo(page)
    /\ UNCHANGED tvShown

\* The page uses pushState, or goes back or forward itself.
PageMoves ==
    /\ Idle /\ position # Nowhere
    /\ \/ \E page \in Pages :
             /\ \/ page.document = PageShown.document
                \/ {page.document, PageShown.document} \subseteq OwnOrigin
             /\ MoveTo(page)
       \/ \E step \in {-1, 1} : Traverse(step) /\ unheard' = TRUE
    /\ UNCHANGED tvShown
-----------------------------------------------------------------------------
(* The buttons and the address bar. *)

TypeAddress ==
    \E page \in Pages :
        /\ inputValue' = page
        /\ UNCHANGED <<url, loading, historyLen, historyIdx, frame>>

\* Enter: the frame goes there if the address is another than before; if it is
\* not, nothing will end what is taken for loading.
Navigate ==
    /\ url' = inputValue
    /\ loading' = TRUE
    /\ IF inputValue # url THEN GoTo(inputValue)
       ELSE unheard' = TRUE /\ UNCHANGED <<entries, position, target>>
    /\ UNCHANGED <<inputValue, historyLen, historyIdx>>

\* A button that steps through the history; the index steps along.
Step(step) ==
    /\ IF Readable
       THEN /\ Traverse(step)
            /\ historyIdx' = historyIdx + step
            /\ unheard' = (unheard \/ ~Idle)
       ELSE UNCHANGED <<historyIdx, frame>>
    /\ UNCHANGED <<url, inputValue, loading, historyLen>>

GoBack == historyIdx > 0 /\ Step(-1)
GoForward == historyIdx < historyLen - 1 /\ Step(1)

\* The address that was entered last is set again, whatever the frame shows.
ReloadPage ==
    /\ loading' = TRUE
    /\ GoTo(url)
    /\ UNCHANGED <<url, inputValue, historyLen, historyIdx>>

TvNext ==
    \/ Load \/ NoDocument \/ FollowLink \/ PageMoves
    \/ TypeAddress \/ Navigate \/ GoBack \/ GoForward \/ ReloadPage

TvSpec == TvInit /\ [][TvNext]_tvVars
-----------------------------------------------------------------------------
\* The types of the variables; the position the component has taken is one in
\* the history it knows of.
TvTypeOK ==
    /\ {url, inputValue} \subseteq Pages
    /\ loading \in BOOLEAN
    /\ historyLen \in 0..MaxEntries
    /\ historyIdx \in -1..(historyLen - 1)
    /\ entries \in SeqOf([page : Pages, joined : BOOLEAN], MaxEntries)
    /\ position \in DOMAIN entries \union {Nowhere}

\* While everything the frame has done ended in a load event, or was a step back
\* or forward that was asked for here: an idle frame has no spinner over it, also
\* when its page cannot be read, and whoever went further than the first page of a
\* target that can be read is offered the way back.  Of a frame that has moved
\* otherwise the component knows nothing, and this says nothing.
LoadsAreHeard ==
    Idle /\ ~unheard =>
        /\ ~loading
        /\ Readable /\ position > 1 => historyIdx > 0
=============================================================================
