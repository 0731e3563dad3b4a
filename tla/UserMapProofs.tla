---------------------------- MODULE UserMapProofs ----------------------------
(***************************************************************************)
(* The map of authenticated e-mails follows its file, for any number of    *)
(* edits, however they fall between the steps of NewUserMap and of the     *)
(* watcher.                                                                *)
(***************************************************************************)
EXTENDS UserMap, SequenceTheorems, TLAPS

\* Before NewUserMap adds the watch the watcher goroutine has nothing to do.
Quiet == main = "watch" => ~watched /\ events = <<>> /\ loop = "select"

\* What was read, and what is in the map, is no newer than the file; and a version
\* is one content.
NoNewer(x) ==
    x # Missing =>
        /\ x.version <= edits
        /\ file # Missing =>
              x.version <= file.version /\ (x.version = file.version => x = file)
Versions ==
    /\ NoNewer(mainRead) /\ NoNewer(loopRead)
    /\ users <= edits
    /\ file # Missing => file.version <= edits /\ users <= file.version
    /\ main = "store" => mainRead # Missing
    /\ loop = "store" => loopRead # Missing

\* A load that nobody overtook does not take the map back.
Forward ==
    /\ main = "store" /\ "main" \notin overtaken => users <= mainRead.version
    /\ loop = "store" /\ "watcher" \notin overtaken => users <= loopRead.version

\* Once the watch was added, the watcher either watches the file or is told, or knows
\* already, that the one it watched is gone.
Gone(es) == \E i \in DOMAIN es : es[i] = "gone"
Unwatched == ~dead /\ main # "watch" /\ ~watched => Gone(events) \/ loop = "replace"

\* Something will make the watcher load, or store, what is in the file now.
Pending == \/ events # <<>>
           \/ loop \in {"load", "replace"}
           \/ loop = "store" /\ loopRead = file
Broken == file # Missing /\ ~file.parses

\* Of what the watcher is about to store it hears when it is old ...
WatcherTold == ~dead /\ loop = "store" /\ loopRead # file => events # <<>>
\* ... and when NewUserMap is about to store what is old, the watcher is not done yet.
MainToldBy == Pending \/ Broken
MainTold ==
    ~dead /\ main = "store" /\ mainRead # file /\ "main" \notin overtaken => MainToldBy

\* The map is current or will be.
Follows ==
    ~dead /\ main # "watch" /\ "main" \notin overtaken =>
        \/ Current \/ Pending
        \/ main = "load"
        \/ main = "store" /\ mainRead = file

Watching == Quiet /\ Unwatched /\ WatcherTold /\ MainTold /\ Follows
IInv == TypeOK /\ Versions /\ Forward /\ Watching

Events == {"write", "gone", "chmod"}

LEMMA EventAdded ==
    ASSUME NEW es \in Seq(Events), NEW e \in Events
    PROVE  /\ Append(es, e) \in Seq(Events) /\ Append(es, e) # <<>>
           /\ Gone(es) \/ e = "gone" => Gone(Append(es, e))
<1>1. Append(es, e) \in Seq(Events) /\ Append(es, e) # <<>>
  BY AppendProperties
<1>2. /\ DOMAIN es = 1..Len(es) /\ Len(es) \in Nat
      /\ DOMAIN Append(es, e) = 1..(Len(es) + 1)
      /\ Append(es, e)[Len(es) + 1] = e
      /\ \A i \in 1..Len(es) : Append(es, e)[i] = es[i]
  BY AppendProperties
<1>3. QED
  BY <1>1, <1>2 DEF Gone

LEMMA EventTaken ==
    ASSUME NEW es \in Seq(Events)
    PROVE  /\ Gone(es) => es # <<>>
           /\ es # <<>> => Head(es) \in Events /\ Tail(es) \in Seq(Events)
           /\ Gone(es) /\ Head(es) # "gone" => Gone(Tail(es))
<1>1. /\ Gone(es) => es # <<>>
      /\ es # <<>> => Head(es) \in Events /\ Tail(es) \in Seq(Events)
  BY DEF Gone
<1>2. ASSUME Gone(es), Head(es) # "gone" PROVE Gone(Tail(es))
  <2>1. PICK i \in 1..Len(es) : es[i] = "gone"
    BY <1>2 DEF Gone
  <2>2. i > 1
    BY <1>2, <2>1
  <2>3. i - 1 \in DOMAIN Tail(es) /\ Tail(es)[i - 1] = es[i]
    BY <2>1, <2>2
  <2>4. QED
    BY <2>1, <2>3 DEF Gone
<1>3. QED
  BY <1>1, <1>2

\* What an edit may do: the file is new, gone, or the same; the watcher hears of it if
\* it watches, and goes on watching a file that was not replaced.
Edited ==
    \E content \in Content \cup {Missing}, event \in Events, stays \in BOOLEAN :
        /\ Edit(content, event, stays)
        /\ content = Missing => file # Missing
        /\ content # Missing => content = file \/ content.version = edits + 1
        /\ event = "gone" \/ stays
        /\ stays => content # Missing

LEMMA EditSteps ==
    ASSUME TypeOK,
           \/ \E p \in BOOLEAN : Write(p) \/ Replace(p) \/ Create(p)
           \/ Remove \/ Chmod
    PROVE  Edited
<1>1. \A p \in BOOLEAN : Written(p) \in Content /\ Written(p).version = edits + 1
  BY DEF TypeOK, Written, Content
<1>2. QED
  BY <1>1, MissingAssumption
     DEF Write, Replace, Create, Remove, Chmod, Edited, Events, TypeOK

LEMMA Steps ==
    ASSUME TypeOK, [Next]_vars
    PROVE  \/ Edited \/ UNCHANGED vars
           \/ MainWatch \/ MainRead \/ MainStore
           \/ Receive \/ Skip \/ WaitForReplacement \/ LoopRead \/ LoopStore
BY EditSteps DEF Next, MainStep, LoopStep

--------------------------------------------------------------------------------
LEMMA InitIInv == Init => IInv
<1> SUFFICES ASSUME Init PROVE IInv
  OBVIOUS
<1>1. file \in Content /\ file # Missing /\ file.version = 1
  <2>1. file \in Content
    BY Zenon DEF Init, Content
  <2>2. file.version = 1
    BY DEF Init
  <2>3. QED
    BY <2>1, <2>2, MissingAssumption
<1>2. events \in Seq({"write", "gone", "chmod"})
  BY EmptySeq DEF Init
<1>3. TypeOK
  BY <1>1, <1>2 DEF Init, TypeOK
<1>4. QED
  BY <1>1, <1>3 DEF Init, IInv, Versions, NoNewer, Forward, Watching, Quiet, Unwatched,
                    WatcherTold, MainTold, Follows

LEMMA TypedStep == TypeOK /\ Quiet /\ Versions /\ [Next]_vars => TypeOK' /\ Quiet'
<1> SUFFICES ASSUME TypeOK, Quiet, Versions, [Next]_vars PROVE TypeOK' /\ Quiet'
  OBVIOUS
<1> USE DEF TypeOK, Quiet, watch, Fatal
<1>1. CASE Edited
  BY <1>1, EventAdded DEF Edited, Edit, Events
<1>2. CASE MainWatch
  BY <1>2 DEF MainWatch
<1>3. CASE MainRead
  BY <1>3 DEF MainRead
<1>4. CASE MainStore
  BY <1>4 DEF MainStore, Versions, Content
<1>5. CASE Receive \/ Skip
  <2>1. events \in Seq(Events) /\ events # <<>> /\ events' = Tail(events)
    BY <1>5 DEF Receive, Skip, Events
  <2>2. events' \in Seq(Events)
    BY <2>1, EventTaken
  <2>3. watched' \in BOOLEAN
    BY <1>5 DEF Receive, Skip, WatchAfter
  <2>4. watched' => file' # Missing /\ loop' # "replace"
    BY <1>5 DEF Receive, Skip, WatchAfter
  <2>5. loop' \in {"select", "replace", "load", "store"} /\ Quiet'
    BY <1>5 DEF Receive, Skip
  <2>6. QED
    BY <1>5, <2>2, <2>3, <2>4, <2>5 DEF Receive, Skip, Events
<1>6. CASE WaitForReplacement
  BY <1>6 DEF WaitForReplacement, WatchResumed, AfterReplacement
<1>7. CASE LoopRead
  BY <1>7 DEF LoopRead
<1>8. CASE LoopStore
  BY <1>8 DEF LoopStore, Content
<1>9. CASE UNCHANGED vars
  BY <1>9 DEF vars
<1>10. QED
  BY Steps, <1>1, <1>2, <1>3, <1>4, <1>5, <1>6, <1>7, <1>8, <1>9

--------------------------------------------------------------------------------
LEMMA VersionsStep == TypeOK /\ Versions /\ [Next]_vars => Versions'
<1> SUFFICES ASSUME TypeOK, Versions, [Next]_vars PROVE Versions'
  OBVIOUS
<1> USE DEF TypeOK, Versions, NoNewer, Content, watch, Fatal
<1>1. CASE Edited
  BY <1>1, MissingAssumption DEF Edited, Edit
<1>2. CASE MainWatch
  BY <1>2 DEF MainWatch
<1>3. CASE MainRead
  BY <1>3 DEF MainRead
<1>4. CASE MainStore
  BY <1>4 DEF MainStore
<1>5. CASE Receive \/ Skip
  BY <1>5 DEF Receive, Skip
<1>6. CASE WaitForReplacement
  BY <1>6 DEF WaitForReplacement, AfterReplacement
<1>7. CASE LoopRead
  BY <1>7 DEF LoopRead
<1>8. CASE LoopStore
  BY <1>8 DEF LoopStore
<1>9. CASE UNCHANGED vars
  BY <1>9 DEF vars
<1>10. QED
  BY Steps, <1>1, <1>2, <1>3, <1>4, <1>5, <1>6, <1>7, <1>8, <1>9

LEMMA ForwardStep == TypeOK /\ Versions /\ Forward /\ [Next]_vars => Forward'
<1> SUFFICES ASSUME TypeOK, Versions, Forward, [Next]_vars PROVE Forward'
  OBVIOUS
<1> USE DEF TypeOK, Versions, NoNewer, Forward, Content, watch, Fatal
<1>1. CASE MainRead
  BY <1>1 DEF MainRead
<1>2. CASE MainStore
  BY <1>2 DEF MainStore
<1>3. CASE LoopRead
  BY <1>3 DEF LoopRead
<1>4. CASE LoopStore
  BY <1>4 DEF LoopStore
<1>5. CASE Edited
  BY <1>5 DEF Edited, Edit
<1>6. CASE MainWatch \/ Receive \/ Skip \/ WaitForReplacement
  BY <1>6 DEF MainWatch, Receive, Skip, WaitForReplacement, AfterReplacement
<1>7. CASE UNCHANGED vars
  BY <1>7 DEF vars
<1>8. QED
  BY Steps, <1>1, <1>2, <1>3, <1>4, <1>5, <1>6, <1>7

--------------------------------------------------------------------------------
\* An edit is told to the watcher, who watches the file or knows that it was replaced.
LEMMA EditTold ==
    ASSUME TypeOK, Unwatched, Edited
    PROVE  /\ UNCHANGED <<users, main, mainRead, loop, loopRead, dead, overtaken>> /\ ~dead
           /\ Unwatched'
           /\ main # "watch" => events' # <<>> \/ loop = "replace"
<1>1. PICK content \in Content \cup {Missing}, event \in Events, stays \in BOOLEAN :
        Edit(content, event, stays) /\ (event = "gone" \/ stays)
  BY DEF Edited
<1>2. events \in Seq(Events)
  BY DEF TypeOK, Events
<1>3. CASE watched
  <2>1. events' = Append(events, event) /\ watched' = stays
    BY <1>1, <1>3 DEF Edit
  <2>2. events' # <<>> /\ (event = "gone" => Gone(events'))
    BY <1>2, <2>1, EventAdded
  <2>3. QED
    BY <1>1, <2>1, <2>2 DEF Edit, Running, Unwatched
<1>4. CASE ~watched
  <2>1. events' = events /\ ~watched'
    BY <1>1, <1>4 DEF Edit
  <2>2. Gone(events) => events # <<>>
    BY <1>2, EventTaken
  <2>3. QED
    BY <1>1, <1>4, <2>1, <2>2 DEF Edit, Running, Unwatched
<1>5. QED
  BY <1>3, <1>4 DEF TypeOK

\* Nothing is left unsaid when an event is not delivered: the file is gone, and the
\* watcher is still to hear of it.
LEMMA SkipTold ==
    ASSUME TypeOK, Unwatched, Quiet, Skip
    PROVE  /\ UNCHANGED <<file, users, main, mainRead, loop, loopRead, dead, overtaken>>
           /\ Unwatched' /\ (events' # <<>> \/ loop = "replace")
<1>1. events \in Seq(Events) /\ events # <<>> /\ events' = Tail(events)
  BY DEF TypeOK, Events, Skip
<1>2. ~watched /\ main # "watch" /\ ~dead
  BY DEF TypeOK, Skip, Running, Quiet
<1>3. Gone(events) => Gone(events')
  BY <1>1, EventTaken DEF Skip
<1>4. Gone(events') => events' # <<>>
  BY <1>1, EventTaken DEF Gone
<1>5. QED
  BY <1>2, <1>3, <1>4 DEF Unwatched, Skip

LEMMA WatchingStep == TypeOK /\ Versions /\ Watching /\ [Next]_vars =>
    Unwatched' /\ WatcherTold' /\ MainTold' /\ Follows'
<1> DEFINE Told == Unwatched' /\ WatcherTold' /\ MainTold' /\ Follows'
<1> SUFFICES ASSUME TypeOK, Versions, Watching, [Next]_vars PROVE Told
  OBVIOUS
<1> USE DEF Watching, WatcherTold, MainTold, MainToldBy, Follows, Pending, Broken, Current
<1>1. CASE Edited
  BY <1>1, EditTold DEF Quiet
<1>2. CASE Skip
  BY <1>2, SkipTold DEF Quiet
<1>3. CASE MainWatch
  BY <1>3 DEF MainWatch, Fatal, Unwatched, Quiet
<1>4. CASE MainRead
  BY <1>4 DEF MainRead, Fatal, Unwatched, watch
<1>5. CASE MainStore
  BY <1>5 DEF MainStore, Versions, Unwatched, watch
<1>6. CASE Receive
  <2>1. events \in Seq(Events) /\ events # <<>> /\ events' = Tail(events)
    BY <1>6 DEF Receive, TypeOK, Events
  <2>2. Interrupts(Head(events)) => loop' = "replace"
    BY <1>6 DEF Receive
  <2>3. ~Interrupts(Head(events)) => loop' = "load" /\ watched' = watched
    BY <1>6 DEF Receive, WatchAfter
  <2>4. Gone(events) /\ Head(events) # "gone" => Gone(events')
    BY <2>1, EventTaken
  <2>5. Unwatched'
    BY <1>6, <2>2, <2>3, <2>4 DEF Receive, Unwatched, Interrupts
  <2>6. QED
    BY <1>6, <2>2, <2>3, <2>5 DEF Receive
<1>7. CASE WaitForReplacement
  BY <1>7 DEF WaitForReplacement, WatchResumed, AfterReplacement, Unwatched
<1>8. CASE LoopRead
  BY <1>8 DEF LoopRead, Fatal, Unwatched, watch
<1>9. CASE LoopStore
  BY <1>9 DEF LoopStore, Versions, Unwatched, watch
<1>10. CASE UNCHANGED vars
  BY <1>10 DEF vars, Unwatched
<1>11. QED
  BY Steps, <1>1, <1>2, <1>3, <1>4, <1>5, <1>6, <1>7, <1>8, <1>9, <1>10

--------------------------------------------------------------------------------
LEMMA Inductive == IInv /\ [Next]_vars => IInv'
BY TypedStep, VersionsStep, ForwardStep, WatchingStep DEF IInv, Watching

\* The state of the file, the watcher and the map keeps its types, and the watcher
\* never watches while it waits for a replacement, nor where there is no file.
THEOREM TypeInvariant == Spec => []TypeOK
<1>1. IInv => TypeOK
  BY DEF IInv
<1>2. QED
  BY <1>1, InitIInv, Inductive, PTL DEF Spec

\* When NewUserMap and the watcher are at rest, the map holds what is in the file.
THEOREM CurrentAtRest == Spec => []MapIsCurrentAtRest
<1>1. IInv => MapIsCurrentAtRest
  BY DEF IInv, Watching, Follows, Pending, MapIsCurrentAtRest, AtRest
<1>2. QED
  BY <1>1, InitIInv, Inductive, PTL DEF Spec

\* The map goes back to an older list only by a load that another one overtook.
LEMMA MapForward ==
    IInv /\ [Next]_vars =>
        [users' < users => \/ main' # main /\ "main" \in overtaken
                           \/ loop' # loop /\ "watcher" \in overtaken]_vars
<1> SUFFICES ASSUME IInv, [Next]_vars, users' < users
             PROVE  \/ main' # main /\ "main" \in overtaken
                    \/ loop' # loop /\ "watcher" \in overtaken
  OBVIOUS
<1> USE DEF IInv, TypeOK, Versions, Forward, Content
<1>1. CASE MainStore
  BY <1>1 DEF MainStore
<1>2. CASE LoopStore
  BY <1>2 DEF LoopStore
<1>3. CASE UNCHANGED users
  BY <1>3
<1>4. QED
  BY Steps, <1>1, <1>2, <1>3
     DEF Edited, Edit, MainWatch, MainRead, Receive, Skip, WaitForReplacement, LoopRead, vars

\* A load of the emails file that nobody overtook never puts an older list back.
THEOREM NeverBack == Spec => MapNeverGoesBack
BY InitIInv, Inductive, MapForward, PTL DEF Spec, MapNeverGoesBack
================================================================================
