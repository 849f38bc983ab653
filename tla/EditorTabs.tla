------------------------------ MODULE EditorTabs ------------------------------
(***************************************************************************)
(* The open files of the frontend's store (stores/appStore.ts), the tab bar *)
(* and the file list of the sidebar that act on them, and the editor that   *)
(* shows the active one (lib/monaco/MonacoEditor.tsx).                      *)
(*                                                                         *)
(* Solid's setter merges the object it is given into the store, so the file *)
(* that removeFile leaves out of it is still a key of `openFiles' and still *)
(* has a tab.  Monaco's models are looked up by an id that never holds the  *)
(* file's, and createModel throws for a URI that has a model: a file that   *)
(* was shown before is not shown again, and the effect that shows it, which *)
(* runs again when its cursor or scroll position is written, throws then    *)
(* too.  A file is a number, in the order the files are made.               *)
(***************************************************************************)
EXTENDS Naturals, Sequences, FiniteSets, SequencesExt, Ordering

CONSTANTS
    MaxFiles,   \* bound: files made
    MaxTouched  \* bound: the files that are edited and scrolled are the first ones

ASSUME TabsAssumption == MaxFiles \in Nat

NoFile == 0
Files == 1..MaxFiles

VARIABLES
    openFiles,  \* the keys of the store's openFiles, oldest first
    fileOrder,
    activeFile,
    models,     \* the files that have a model
    shown,      \* the file whose model the editor shows
    dirty,      \* the files marked as unsaved
    scrolled,   \* per file, the model its scroll position is of
    scrollTimer,\* the scroll position to be written in 150 ms, if any: [file, from]
    edited,     \* history: the files whose model was changed
    ghosts,     \* history: the files removed and not clicked or dropped since
    revived,    \* history: a drop has put removed files back into fileOrder
    refused     \* history: createModel has thrown for a file that was not shown

files == <<openFiles, fileOrder, activeFile>>
editor == <<models, shown>>
edits == <<dirty, edited>>
tabVars == <<files, editor, edits, scrolled, scrollTimer, ghosts, revived, refused>>

TabsInit ==
    /\ openFiles = <<>> /\ fileOrder = <<>> /\ activeFile = NoFile
    /\ models = {} /\ shown = NoFile
    /\ dirty = {} /\ edited = {}
    /\ scrolled = [f \in Files |-> NoFile]
    /\ scrollTimer = {}
    /\ ghosts = {}
    /\ revived = FALSE
    /\ refused = FALSE
-----------------------------------------------------------------------------
(* The editor. *)

\* The effect, with file f the active one: a model is made for it, which throws when
\* it has one, and the editor goes on showing what it showed.
RunEffect(f) ==
    IF f = NoFile THEN shown' = NoFile /\ UNCHANGED <<models, refused>>
    ELSE IF f \in models THEN refused' = (refused \/ f # shown) /\ UNCHANGED editor
    ELSE models' = models \union {f} /\ shown' = f /\ UNCHANGED refused

\* It runs when file f becomes the active one.
ShowActive(f) == IF f = activeFile THEN UNCHANGED <<editor, refused>> ELSE RunEffect(f)

\* onDidChangeModelContent marks the file that is active, and
\* onDidChangeCursorPosition writes its cursor position, which the effect reads.
Edit ==
    /\ {shown, activeFile} \subseteq 1..MaxTouched
    /\ dirty' = dirty \union {activeFile}
    /\ edited' = edited \union {shown}
    /\ RunEffect(activeFile)
    /\ UNCHANGED <<files, scrolled, scrollTimer, ghosts, revived>>

\* onDidScrollChange, by the user or by a change of the model: what waited is
\* dropped, be it another file's.
Scroll ==
    /\ {shown, activeFile} \subseteq 1..MaxTouched
    /\ scrollTimer' = {[file |-> activeFile, from |-> shown]}
    /\ UNCHANGED <<files, editor, edits, scrolled, ghosts, revived, refused>>

\* For the mutant of ScrollTimerFires: the file is the one that is active now.
ScrollTimerFiresLate ==
    \E t \in scrollTimer :
        /\ activeFile # NoFile
        /\ scrolled' = [scrolled EXCEPT ![activeFile] = t.from]
        /\ scrollTimer' = {}
        /\ UNCHANGED <<files, editor, edits, ghosts, revived, refused>>

\* The effect reads the scroll position of the active file.
ScrollTimerFires ==
    \E t \in scrollTimer :
        /\ scrolled' = [scrolled EXCEPT ![t.file] = t.from]
        /\ scrollTimer' = {}
        /\ IF t.file = activeFile THEN RunEffect(t.file) ELSE UNCHANGED <<editor, refused>>
        /\ UNCHANGED <<files, edits, ghosts, revived>>
-----------------------------------------------------------------------------
(* The store, and the clicks and drags that call it. *)

\* addFile, by the button for a new file.
AddFile ==
    /\ Len(openFiles) < MaxFiles
    /\ LET f == Len(openFiles) + 1
           a == IF activeFile = NoFile THEN f ELSE activeFile
       IN /\ openFiles' = Append(openFiles, f)
          /\ fileOrder' = Append(fileOrder, f)
          /\ activeFile' = a
          /\ ShowActive(a)
    /\ UNCHANGED <<edits, scrolled, scrollTimer, ghosts, revived>>

\* A click on a tab, or on a line of the file list.
Activate(f) ==
    /\ activeFile' = f
    /\ ghosts' = ghosts \ {f}
    /\ ShowActive(f)
    /\ UNCHANGED <<openFiles, fileOrder, edits, scrolled, scrollTimer, revived>>

FirstOf(order) == IF order = <<>> THEN NoFile ELSE Head(order)

\* For the mutant of RemoveFile: the order is read before the file leaves it.
RemoveFileStale(f) ==
    LET a == IF activeFile = f THEN FirstOf(fileOrder) ELSE activeFile IN
    /\ fileOrder' = Without(fileOrder, f)
    /\ activeFile' = a
    /\ ghosts' = ghosts \union {f}
    /\ ShowActive(a)
    /\ UNCHANGED <<openFiles, edits, scrolled, scrollTimer, revived>>

\* removeFile, by the cross of a tab or of a line.
RemoveFile(f) ==
    LET rest == Without(fileOrder, f)
        a == IF activeFile = f THEN FirstOf(rest) ELSE activeFile
    IN /\ fileOrder' = rest
       /\ activeFile' = a
       /\ ghosts' = ghosts \union {f}
       /\ ShowActive(a)
       /\ UNCHANGED <<openFiles, edits, scrolled, scrollTimer, revived>>

IndexOf(order, f) == CHOOSE i \in DOMAIN order : order[i] = f

\* The dragged file takes the index of the target.
Reordered(order, dragged, target) ==
    InsertAt(Without(order, dragged), IndexOf(order, target), dragged)

\* reorderFiles, by a drop; an empty order is filled with every key first.
ReorderFiles(dragged, target) ==
    LET ids == IF fileOrder = <<>> THEN openFiles ELSE fileOrder IN
    /\ dragged # target
    /\ fileOrder' = IF {dragged, target} \subseteq ToSet(ids) THEN Reordered(ids, dragged, target)
                    ELSE ids
    /\ revived' = (revived \/ fileOrder = <<>>)
    /\ ghosts' = ghosts \ ToSet(fileOrder')
    /\ UNCHANGED <<openFiles, activeFile, editor, edits, scrolled, scrollTimer, refused>>

TabsNext ==
    \/ Edit \/ Scroll \/ ScrollTimerFires \/ AddFile
    \/ \E f \in ToSet(openFiles) : \/ Activate(f) \/ RemoveFile(f)
                                   \/ \E g \in ToSet(openFiles) : ReorderFiles(f, g)

TabsSpec == TabsInit /\ [][TabsNext]_tabVars
-----------------------------------------------------------------------------
\* The types of the variables; the order lists files that are open, each once.
TabsTypeOK ==
    /\ IsInjective(fileOrder)
    /\ ToSet(fileOrder) \subseteq ToSet(openFiles)
    /\ activeFile \in Files \union {NoFile}
    /\ models \subseteq Files
    /\ shown \in models \union {NoFile}

\* Closing a file never leaves it active, and while a tab is left that was not
\* closed some file is active: as long as nobody clicks or drops what is left of
\* the closed ones.
ActiveFollows ==
    /\ activeFile \notin ghosts
    /\ activeFile = NoFile => fileOrder = <<>> \/ revived

\* Until a file is visited a second time, the editor shows the active file, a file
\* is marked as unsaved by its own changes alone, and the delayed update writes a
\* scroll position to the file it is of, whatever is opened, dragged or closed
\* within the 150 ms.
FilesKeepTheirOwn ==
    ~refused =>
        /\ shown = activeFile
        /\ dirty = edited
        /\ \A f \in Files : scrolled[f] \in {NoFile, f}
=============================================================================
