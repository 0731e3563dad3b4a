-------------------------------- MODULE UserMap --------------------------------
(***************************************************************************)
(* The authenticated emails file, its file watcher and the map requests    *)
(* are checked against.  NewUserMap starts the watcher goroutine and then  *)
(* loads the file itself, so two loads may overlap; each reads the file and*)
(* swaps the map's pointer afterwards.  The file may be written in place,  *)
(* replaced, removed or made unreadable as CSV at any time.                *)
(* Where a definition is preceded by one of the same form, the earlier one *)
(* is a mutant: the bug a property is shown to catch.                      *)
(***************************************************************************)
EXTENDS Naturals, Sequences

CONSTANTS
    MaxEdits,   \* bound on what happens to the file
    Missing     \* no file

ASSUME EditsAssumption == MaxEdits \in Nat

\* A content is known by the edit that wrote it; 0 is the empty first map.
Content == [version: Nat, parses: BOOLEAN]

ASSUME MissingAssumption == Missing \notin Content

VARIABLES
    file,      \* the content at the file's path
    edits,     \* what happened to the file so far
    watched,   \* the watcher watches the file now at the path
    events,    \* events the watcher goroutine has not received yet
    users,     \* the version in the map
    main,      \* where NewUserMap is
    mainRead,  \* the content it has read
    loop,      \* where the watcher goroutine is
    loopRead,  \* the content it has read
    dead,      \* a load found no file and ended the process
    overtaken  \* history: whose load another one overtook between its two steps

watch == <<watched, events>>
vars == <<file, edits, watched, events, users, main, mainRead, loop, loopRead,
          dead, overtaken>>

--------------------------------------------------------------------------------
Init ==
    /\ file = [version |-> 1, parses |-> TRUE]
    /\ edits = 1
    /\ watched = FALSE
    /\ events = <<>>
    /\ users = 0
    /\ main = "watch"
    /\ mainRead = Missing
    /\ loop = "select"
    /\ loopRead = Missing
    /\ dead = FALSE
    /\ overtaken = {}

Running == ~dead

\* The file's owner.  Writing in place truncates first, so it is two edits.
Edit(content, event, stays) ==
    /\ Running
    /\ edits < MaxEdits
    /\ edits' = edits + 1
    /\ file' = content
    /\ events' = IF watched THEN Append(events, event) ELSE events
    /\ watched' = (watched /\ stays)
    /\ UNCHANGED <<users, main, mainRead, loop, loopRead, dead, overtaken>>

Written(parses) == [version |-> edits + 1, parses |-> parses]
Write(parses)   == file # Missing /\ Edit(Written(parses), "write", TRUE)
Replace(parses) == file # Missing /\ Edit(Written(parses), "gone", FALSE)
Remove          == file # Missing /\ Edit(Missing, "gone", FALSE)
Create(parses)  == file = Missing /\ Edit(Written(parses), "write", TRUE)
Chmod           == file # Missing /\ Edit(file, "chmod", TRUE)

--------------------------------------------------------------------------------
(***************************************************************************)
(* LoadAuthenticatedEmailsFile, in its two callers: the read, and the swap *)
(* of the pointer.  Without the file the process ends; a file that is not  *)
(* CSV leaves the map as it is.                                            *)
(***************************************************************************)
Fatal == dead' = TRUE /\ UNCHANGED <<main, mainRead, loop, loopRead>>

\* NewUserMap: the watch is added, then the file is loaded.
MainWatch ==
    /\ Running
    /\ main = "watch"
    /\ IF file = Missing
       THEN Fatal /\ UNCHANGED watched
       ELSE watched' = TRUE /\ main' = "load" /\ UNCHANGED <<mainRead, loop, loopRead, dead>>
    /\ UNCHANGED <<file, edits, events, users, overtaken>>

MainRead ==
    /\ Running
    /\ main = "load"
    /\ IF file = Missing THEN Fatal
       ELSE /\ mainRead' = file
            /\ main' = IF file.parses THEN "store" ELSE "done"
            /\ UNCHANGED <<loop, loopRead, dead>>
    /\ UNCHANGED <<file, edits, watch, users, overtaken>>

MainStore ==
    /\ Running
    /\ main = "store"
    /\ users' = mainRead.version
    /\ main' = "done"
    /\ overtaken' = IF loop = "store" THEN overtaken \cup {"watcher"} ELSE overtaken
    /\ UNCHANGED <<file, edits, watch, mainRead, loop, loopRead, dead>>

\* The watcher goroutine.
InterruptsOnChmod(event) == event = "chmod"
Interrupts(event) == event \in {"gone", "chmod"}
WatchAfterKept(event) == watched
WatchAfter(event) == IF Interrupts(event) THEN FALSE ELSE watched
Receive ==
    /\ Running
    /\ loop = "select"
    /\ events # <<>>
    /\ events' = Tail(events)
    /\ watched' = WatchAfter(Head(events))
    /\ loop' = IF Interrupts(Head(events)) THEN "replace" ELSE "load"
    /\ UNCHANGED <<file, edits, users, main, mainRead, loopRead, dead, overtaken>>

\* fsnotify keeps an event back when the file is not there any more, unless it
\* says just that.
Skip ==
    /\ Running
    /\ events # <<>>
    /\ Head(events) # "gone"
    /\ file = Missing
    /\ events' = Tail(events)
    /\ UNCHANGED <<file, edits, watched, users, main, mainRead, loop, loopRead,
                   dead, overtaken>>

\* WaitForReplacement: the file is there (again) and watched from now on.
WatchResumedNot == FALSE
WatchResumed == TRUE
AfterReplacementCached == "store"
AfterReplacement == "load"
WaitForReplacement ==
    /\ Running
    /\ loop = "replace"
    /\ file # Missing
    /\ watched' = WatchResumed
    /\ loop' = AfterReplacement
    /\ UNCHANGED <<file, edits, events, users, main, mainRead, loopRead, dead, overtaken>>

LoopRead ==
    /\ Running
    /\ loop = "load"
    /\ IF file = Missing THEN Fatal
       ELSE /\ loopRead' = file
            /\ loop' = IF file.parses THEN "store" ELSE "select"
            /\ UNCHANGED <<main, mainRead, dead>>
    /\ overtaken' = overtaken \ {"watcher"}
    /\ UNCHANGED <<file, edits, watch, users>>

LoopStore ==
    /\ Running
    /\ loop = "store"
    /\ users' = IF loopRead = Missing THEN 0 ELSE loopRead.version
    /\ overtaken' = IF main = "store" THEN overtaken \cup {"main"} ELSE overtaken
    /\ loop' = "select"
    /\ UNCHANGED <<file, edits, watch, main, mainRead, loopRead, dead>>

MainStep == MainWatch \/ MainRead \/ MainStore
LoopStep == Receive \/ WaitForReplacement \/ LoopRead \/ LoopStore

Next ==
    \/ MainStep \/ LoopStep \/ Skip
    \/ \E p \in BOOLEAN : Write(p) \/ Replace(p) \/ Create(p)
    \/ Remove \/ Chmod

Spec == Init /\ [][Next]_vars

\* Both goroutines run; nothing has to happen to the file.
FairSpec == Spec /\ WF_vars(MainStep) /\ WF_vars(LoopStep)

--------------------------------------------------------------------------------
(***************************************************************************)
(* Properties.                                                             *)
(***************************************************************************)
\* Types, and: while the watcher waits for a replacement it watches nothing,
\* and there is nothing to watch without a file.
TypeOK ==
    /\ file \in Content \cup {Missing}
    /\ edits \in Nat
    /\ watched \in BOOLEAN
    /\ events \in Seq({"write", "gone", "chmod"})
    /\ users \in Nat
    /\ main \in {"watch", "load", "store", "done"}
    /\ mainRead \in Content \cup {Missing}
    /\ loop \in {"select", "replace", "load", "store"}
    /\ loopRead \in Content \cup {Missing}
    /\ dead \in BOOLEAN
    /\ overtaken \subseteq {"main", "watcher"}
    /\ watched => file # Missing /\ loop # "replace"

Current == file # Missing /\ (file.parses => users = file.version)

\* When both goroutines are at rest the map holds the file's last content: no
\* write, replacement or removal goes unnoticed, however they fall between the
\* watcher's steps.  (A load at startup that the watcher overtook may have put
\* an older list back.)
AtRest == ~dead /\ main = "done" /\ loop = "select" /\ events = <<>>
MapIsCurrentAtRest == AtRest /\ "main" \notin overtaken => Current

\* Requests go back to an older list only when the loads of NewUserMap and of
\* the watcher overlap and the one that read first stores last.
MapNeverGoesBack ==
    [][users' < users => \/ main' # main /\ "main" \in overtaken
                         \/ loop' # loop /\ "watcher" \in overtaken]_vars

\* Once nobody touches the file any more its content reaches the map, unless
\* the file is gone for good.
MapCatchesUp == <>[](dead \/ "main" \in overtaken \/ file = Missing \/ Current)
================================================================================
