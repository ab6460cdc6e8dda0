--------------------------- MODULE DesktopProofs ---------------------------
(***************************************************************************)
(* Proofs about the desktop side, Tray and TrafficWindow, for any size of  *)
(* the message queue, any number of choices, any table and any number of   *)
(* connections highlighted.  Of the tray: one traffic window and one box   *)
(* of statistics at a time, with their flags, a check mark that tells the  *)
(* registry's value, an icon that follows the traffic.  Of the window: its *)
(* snapshots and the connections' tasks together are a caller that         *)
(* ConnectionTracker allows, so that what TrackerProofs shows holds of the *)
(* table it is drawn from, and the diff leaves the view with the snapshot. *)
(***************************************************************************)
EXTENDS Tray, TrafficWindow, TrackerProofs, WellFoundedInduction

-----------------------------------------------------------------------------
(* The tray.                                                               *)

\* MenuEvent's channel holds at most the entry whose message was the last to
\* be dispatched; before the next is, it was emptied.
Waiting ==
    /\ menu = <<>> \/ \E entry \in Entries : menu = <<entry>>
    /\ main \in {"starting", "opening", "acting"} => menu = <<>>

\* The mark runs ahead of the registry by the one click that is not handled.
Marks ==
    /\ checked \in BOOLEAN /\ registered \in BOOLEAN
    /\ IF menu = <<"Autostart">> THEN checked # registered ELSE checked = registered

\* The threads and the flags that stand for them.
Threads ==
    /\ ui \in {"none", "starting", "running", "closing", "failed"}
    /\ thread_running \in BOOLEAN /\ (thread_running <=> ui # "none")
    /\ dialog \in {"none", "shown", "answered"}
    /\ is_dialog_open \in BOOLEAN /\ (is_dialog_open <=> dialog # "none")

\* The inductive invariant.
YInv == Waiting /\ Marks /\ Threads

LEMMA OneInASequence ==
    ASSUME NEW a
    PROVE  /\ Head(<<a>>) = a /\ Tail(<<a>>) = <<>> /\ <<a>> # <<>>
           /\ Append(<<>>, a) = <<a>>
           /\ DOMAIN <<a>> = {1} /\ <<a>>[1] = a
OBVIOUS

\* An event is the only one in the channel.
LEMMA EventEmpties ==
    ASSUME Waiting, NEW entry \in Entries, Event(entry)
    PROVE  menu = <<entry>> /\ menu' = <<>> /\ main = "draining"
<1>1. PICK e \in Entries : menu = <<e>>
    BY DEF Waiting, Event
<1>2. Head(menu) = e /\ Tail(menu) = <<>>
    BY <1>1, OneInASequence
<1> QED BY <1>1, <1>2 DEF Event

\* Other entries' events leave the mark as it is.
LEMMA OtherEvents ==
    ASSUME YInv, NEW entry \in Entries \ {"Autostart"}, Event(entry), UNCHANGED autostart
    PROVE  (Waiting /\ Marks)'
<1>1. menu = <<entry>> /\ menu' = <<>>
    BY EventEmpties DEF YInv
<1>2. menu # <<"Autostart">> /\ menu' # <<"Autostart">>
    BY <1>1, OneInASequence
<1> QED BY <1>1, <1>2 DEF YInv, Marks, Waiting, autostart

LEMMA LoopKeepsYInv == YInv /\ Loop => YInv'
<1> SUFFICES ASSUME YInv, Loop PROVE YInv'
    OBVIOUS
<1>1. CASE StartLoop \/ GetMessage \/ Drained
    <2>1. /\ UNCHANGED <<menu, window, box, autostart>> /\ main' \in {"waiting", "draining", "acting"}
          /\ main' = "acting" => menu = <<>>
        BY <1>1 DEF StartLoop, GetMessage, Drained
    <2> QED BY <2>1 DEF YInv, Waiting, Marks, Threads, window, box, autostart
<1>2. CASE Act
    <2>1. /\ menu = <<>> /\ main' \in {"left", "waiting"}
          /\ UNCHANGED <<window, box, registered>>
          /\ \/ message \in Entries /\ menu' = <<message>>
             \/ message \notin Entries /\ menu' = <<>>
          /\ checked' = IF message = "Autostart" THEN ~checked ELSE checked
        BY <1>2, OneInASequence DEF Act, YInv, Waiting
    <2>2. Threads'
        BY <2>1 DEF YInv, Threads, window, box
    <2>3. Waiting'
        BY <2>1 DEF Waiting
    <2>4. checked = registered /\ checked \in BOOLEAN /\ registered \in BOOLEAN
        BY <2>1, OneInASequence DEF YInv, Marks
    <2>5. menu' = <<"Autostart">> <=> message = "Autostart"
        BY <2>1, OneInASequence DEF Entries
    <2>6. Marks'
        BY <2>1, <2>4, <2>5 DEF Marks
    <2> QED BY <2>2, <2>3, <2>6 DEF YInv
<1>3. CASE Quit
    <2>1. Event("Quit") /\ UNCHANGED <<window, box, autostart>>
        BY <1>3 DEF Quit
    <2>2. "Quit" \in Entries \ {"Autostart"}
        BY DEF Entries
    <2>3. Threads'
        BY <2>1 DEF YInv, Threads, window, box
    <2> QED BY <2>1, <2>2, <2>3, OtherEvents DEF YInv
<1>4. CASE ToggleAutostart
    <2>1. Event("Autostart") /\ UNCHANGED <<main, window, box>>
        BY <1>4 DEF ToggleAutostart
    <2>2. menu = <<"Autostart">> /\ menu' = <<>> /\ main = "draining"
        BY <2>1, EventEmpties DEF YInv, Entries
    <2>3. Threads' /\ Waiting'
        BY <2>1, <2>2 DEF YInv, Threads, Waiting, window, box
    <2>4. checked # registered /\ checked \in BOOLEAN /\ registered \in BOOLEAN
        BY <2>2 DEF YInv, Marks
    <2>5. checked' = registered' /\ checked' \in BOOLEAN /\ registered' \in BOOLEAN
        BY <1>4, <2>4 DEF ToggleAutostart, autostart
    <2>6. menu' # <<"Autostart">>
        BY <2>2, OneInASequence
    <2> QED BY <2>3, <2>5, <2>6 DEF YInv, Marks
<1>5. CASE ShowStatistics
    <2>1. Event("Statistics") /\ UNCHANGED <<window, autostart>>
        BY <1>5 DEF ShowStatistics
    <2>2. "Statistics" \in Entries \ {"Autostart"}
        BY DEF Entries
    <2>3. Threads'
        BY <1>5 DEF YInv, Threads, ShowStatistics, window
    <2> QED BY <2>1, <2>2, <2>3, OtherEvents DEF YInv
<1>6. CASE WantVisible
    <2>1. Event("Traffic") /\ UNCHANGED <<thread_running, ui, box, autostart>>
        BY <1>6 DEF WantVisible
    <2>2. "Traffic" \in Entries \ {"Autostart"}
        BY DEF Entries
    <2>3. Threads'
        BY <2>1 DEF YInv, Threads, box
    <2> QED BY <2>1, <2>2, <2>3, OtherEvents DEF YInv
<1>7. CASE StartWindow
    <2>1. /\ menu = <<>> /\ main' = "draining" /\ UNCHANGED <<menu, box, autostart>>
        BY <1>7 DEF StartWindow, YInv, Waiting
    <2>2. Threads'
        BY <1>7 DEF YInv, Threads, StartWindow, box
    <2> QED BY <2>1, <2>2 DEF YInv, Waiting, Marks, autostart
<1> QED BY <1>1, <1>2, <1>3, <1>4, <1>5, <1>6, <1>7 DEF Loop

LEMMA NextKeepsYInv == YInv /\ [Next]_vars => YInv'
<1> SUFFICES ASSUME YInv, [Next]_vars PROVE YInv'
    OBVIOUS
<1>1. ASSUME UNCHANGED <<main, menu, autostart>>, Threads' PROVE YInv'
    BY <1>1 DEF YInv, Waiting, Marks, autostart
<1>2. CASE Loop
    BY <1>2, LoopKeepsYInv
<1>3. CASE Exit \/ ForceExit
    <2>1. main' = "exited" /\ UNCHANGED <<menu, window, box, autostart>>
        BY <1>3 DEF Exit, ForceExit
    <2> QED BY <2>1 DEF YInv, Waiting, Marks, Threads, window, box, autostart
<1>4. CASE WindowStarts \/ WindowFails \/ WindowTick \/ OnClosing
    <2>1. UNCHANGED <<main, menu, box, autostart>>
        BY <1>4 DEF WindowStarts, WindowFails, WindowTick, OnClosing, loopVars
    <2>2. Threads'
        <3>1. /\ UNCHANGED <<is_dialog_open, dialog>>
              /\ \/ UNCHANGED thread_running /\ UNCHANGED ui
                 \/ /\ UNCHANGED thread_running
                    /\ ui # "none" /\ ui' \in {"starting", "running", "closing", "failed"}
                 \/ thread_running' = FALSE /\ ui' = "none"
            BY <1>4 DEF WindowStarts, WindowFails, WindowTick, OnClosing, box
        <3>2. CASE UNCHANGED <<thread_running, ui>>
            BY <3>1, <3>2 DEF YInv, Threads
        <3>3. CASE /\ UNCHANGED thread_running
                   /\ ui # "none" /\ ui' \in {"starting", "running", "closing", "failed"}
            BY <3>1, <3>3 DEF YInv, Threads
        <3>4. CASE thread_running' = FALSE /\ ui' = "none"
            BY <3>1, <3>4 DEF YInv, Threads
        <3> QED BY <3>1, <3>2, <3>3, <3>4
    <2> QED BY <1>1, <2>1, <2>2
<1>5. CASE DialogAnswered \/ DialogEnds
    <2>1. UNCHANGED <<main, menu, window, autostart>>
        BY <1>5 DEF DialogAnswered, DialogEnds, loopVars
    <2>2. Threads'
        <3>1. /\ UNCHANGED <<thread_running, ui>>
              /\ \/ UNCHANGED is_dialog_open /\ dialog = "shown" /\ dialog' = "answered"
                 \/ is_dialog_open' = FALSE /\ dialog' = "none"
            BY <1>5 DEF DialogAnswered, DialogEnds, window
        <3> QED BY <3>1 DEF YInv, Threads
    <2> QED BY <1>1, <2>1, <2>2
<1>6. CASE \/ Traffic \/ Sample \/ PostIconUpdate \/ Hover \/ UNCHANGED vars
           \/ \E entry \in Entries : Choose(entry)
    <2>1. UNCHANGED <<main, menu, window, box, autostart>>
        BY <1>6 DEF Traffic, Sample, PostIconUpdate, Hover, Choose, vars, loopVars
    <2>2. Threads'
        BY <2>1 DEF YInv, Threads, window, box
    <2> QED BY <1>1, <2>1, <2>2
<1> QED BY <1>2, <1>3, <1>4, <1>5, <1>6 DEF Next, Ui

\* What the tray's flags, its channel and its check mark stand for.
THEOREM TrayInvariant == Spec => []YInv
<1>1. Init => YInv
    <2> SUFFICES ASSUME Init PROVE YInv
        OBVIOUS
    <2>1. menu # <<"Autostart">>
        BY OneInASequence DEF Init
    <2> QED BY <2>1 DEF Init, YInv, Waiting, Marks, Threads
<1> QED BY <1>1, NextKeepsYInv, PTL DEF Spec

\* UI::init is called for one window at a time and one box of statistics is
\* open, and both can be opened again when they are gone.
THEOREM NothingOpensTwice == Spec => []OneOfEach
<1>1. YInv => OneOfEach
    BY DEF YInv, Threads, OneOfEach
<1> QED BY <1>1, TrayInvariant, PTL

\* The mark of "Run at Startup" is the registry's value unless a click is pending.
THEOREM MarkFollowsRegistry == Spec => []MarkIsRegistered
<1>1. ASSUME YInv PROVE MarkIsRegistered
    <2>1. CASE menu = <<"Autostart">>
        BY <2>1, OneInASequence DEF MarkIsRegistered
    <2>2. CASE menu # <<"Autostart">>
        BY <1>1, <2>2 DEF YInv, Marks, MarkIsRegistered
    <2> QED BY <2>1, <2>2
<1> QED BY <1>1, TrayInvariant, PTL
\* The threads' places and the messages.
TrayTypeOK ==
    /\ main \in {"starting", "waiting", "draining", "opening", "acting", "left", "exited"}
    /\ message \in Messages /\ queue \in Seq(Messages)
    /\ task \in {"asleep", "posting"}
    /\ {traffic_active, currently_active, icon} \subseteq BOOLEAN

\* What the last update that was posted, or is not posted yet, was for.
Told == currently_active # (task = "posting")

\* The inductive invariant of the icon.
IconInv == TrayTypeOK /\ IconFollows

\* WillShow, of an icon in any state.
Settles(messages, shown, active) ==
    \/ \E i \in DOMAIN messages :
          /\ messages[i] = IconMessage(active)
          /\ \A j \in DOMAIN messages : j > i => messages[j] \notin IconMessages
    \/ shown = active /\ \A i \in DOMAIN messages : messages[i] \notin IconMessages

\* A message that is posted after the last update, and a new update.
LEMMA PostedLast ==
    ASSUME NEW q \in Seq(Messages), NEW m \in Messages, NEW shown, NEW active \in BOOLEAN
    PROVE  /\ m \notin IconMessages /\ Settles(q, shown, active) => Settles(Append(q, m), shown, active)
           /\ m = IconMessage(active) => Settles(Append(q, m), shown, active)
<1> DEFINE more == Append(q, m)
<1>1. /\ Len(q) \in Nat /\ DOMAIN q = 1..Len(q) /\ DOMAIN more = 1..(Len(q) + 1)
      /\ \A i \in 1..Len(q) : more[i] = q[i]
      /\ more[Len(q) + 1] = m
    BY AppendProperties, LenProperties
<1>2. DOMAIN more = DOMAIN q \union {Len(q) + 1} /\ \A i \in DOMAIN q : i < Len(q) + 1 /\ i # Len(q) + 1 /\ i \in Int
    BY <1>1
<1> HIDE DEF more
<1>3. ASSUME m \notin IconMessages, Settles(q, shown, active)
      PROVE  Settles(more, shown, active)
    <2>1. CASE \E i \in DOMAIN q : q[i] = IconMessage(active) /\ \A j \in DOMAIN q : j > i => q[j] \notin IconMessages
        BY <1>1, <1>2, <1>3, <2>1 DEF Settles
    <2>2. CASE shown = active /\ \A i \in DOMAIN q : q[i] \notin IconMessages
        BY <1>1, <1>2, <1>3, <2>2 DEF Settles
    <2> QED BY <1>3, <2>1, <2>2 DEF Settles
<1>4. ASSUME m = IconMessage(active)
      PROVE  Settles(more, shown, active)
    <2>1. \A j \in DOMAIN more : ~(j > Len(q) + 1)
        BY <1>1
    <2> QED BY <1>1, <1>2, <1>4, <2>1 DEF Settles
<1> QED BY <1>3, <1>4 DEF more

\* The first message, handled.
LEMMA HandledFirst ==
    ASSUME NEW q \in Seq(Messages), NEW m \in Messages, NEW shown \in BOOLEAN, NEW active \in BOOLEAN,
           Settles(<<m>> \o q, shown, active)
    PROVE  Settles(q, IF m \in IconMessages THEN m = "active" ELSE shown, active)
<1> DEFINE all == <<m>> \o q
           after == IF m \in IconMessages THEN m = "active" ELSE shown
<1>1. <<m>> \in Seq(Messages) /\ Len(<<m>>) = 1 /\ <<m>>[1] = m
    OBVIOUS
<1>2. /\ Len(q) \in Nat /\ DOMAIN q = 1..Len(q) /\ DOMAIN all = 1..(Len(q) + 1)
      /\ all[1] = m /\ \A i \in 1..Len(q) : all[i + 1] = q[i]
    <2>1. all \in Seq(Messages) /\ Len(all) = Len(q) + 1
          /\ \A i \in 1..Len(all) : all[i] = IF i <= 1 THEN <<m>>[i] ELSE q[i - 1]
        BY <1>1, ConcatProperties, LenProperties
    <2> QED BY <1>1, <2>1, LenProperties
<1> HIDE DEF all
<1>3. (m = "active") = active \/ m # IconMessage(active)
    BY DEF IconMessage
<1>4. PICK i0 \in 0..(Len(q) + 1) :
          /\ i0 > 0 => all[i0] = IconMessage(active)
          /\ i0 = 0 => shown = active
          /\ \A j \in DOMAIN all : j > i0 => all[j] \notin IconMessages
    <2>1. Settles(all, shown, active)
        BY DEF all
    <2>2. CASE shown = active /\ \A i \in DOMAIN all : all[i] \notin IconMessages
        BY <1>2, <2>2
    <2>3. CASE \E i \in DOMAIN all : /\ all[i] = IconMessage(active)
                                     /\ \A j \in DOMAIN all : j > i => all[j] \notin IconMessages
        BY <1>2, <2>3
    <2> QED BY <2>1, <2>2, <2>3 DEF Settles
<1>5. \A j \in 1..Len(q) : j + 1 > i0 => q[j] \notin IconMessages
    BY <1>2, <1>4
<1>6. CASE i0 > 1
    <2>1. i0 - 1 \in 1..Len(q) /\ q[i0 - 1] = IconMessage(active)
        BY <1>2, <1>4, <1>6
    <2>2. \A j \in 1..Len(q) : j > i0 - 1 => q[j] \notin IconMessages
        BY <1>2, <1>4, <1>5
    <2> QED BY <1>2, <2>1, <2>2 DEF Settles
<1>7. CASE i0 <= 1
    <2>1. \A j \in 1..Len(q) : q[j] \notin IconMessages
        BY <1>2, <1>4, <1>5, <1>7
    <2>2. after = active
        <3>1. CASE i0 = 1
            <4>1. m = IconMessage(active) /\ m \in IconMessages
                BY <1>2, <1>4, <3>1 DEF IconMessage, IconMessages
            <4> QED BY <1>3, <4>1
        <3>2. CASE i0 = 0
            <4>1. shown = active /\ m \notin IconMessages
                BY <1>2, <1>4, <3>2
            <4> QED BY <4>1
        <3> QED BY <1>4, <1>7, <3>1, <3>2
    <2> QED BY <1>2, <2>1, <2>2 DEF Settles
<1> QED BY <1>2, <1>4, <1>6, <1>7

\* A step that takes, keeps or posts messages and leaves the activity alone.
LEMMA LoopKeepsIcon ==
    ASSUME IconInv, UNCHANGED activity, Running',
           \/ UNCHANGED <<Pending, icon>>
           \/ UNCHANGED icon /\ \E m \in Messages \ IconMessages : Pending' = Append(Pending, m)
           \/ /\ Pending = <<message>> \o Pending' /\ queue' \in Seq(Messages) /\ Pending' = queue'
              /\ icon' = IF message \in IconMessages THEN message = "active" ELSE icon
    PROVE  Running => IconFollows'
<1> SUFFICES ASSUME Running, (~dropped)'
             PROVE  Settles(Pending', icon', Told')
    BY DEF IconFollows, WillShow, Settles, Told
<1>1. UNCHANGED Told /\ Told \in BOOLEAN /\ ~dropped
    BY DEF Told, activity
<1>2. Settles(Pending, icon, Told)
    BY <1>1 DEF IconInv, IconFollows, WillShow, Settles, Told
<1>3. Pending \in Seq(Messages) /\ message \in Messages /\ icon \in BOOLEAN
    <2>1. queue \in Seq(Messages) /\ <<message>> \in Seq(Messages) /\ <<>> \in Seq(Messages)
        BY DEF IconInv, TrayTypeOK
    <2> QED BY <2>1, ConcatProperties DEF Pending, IconInv, TrayTypeOK
<1>4. CASE UNCHANGED <<Pending, icon>>
    BY <1>1, <1>2, <1>4
<1>5. CASE UNCHANGED icon /\ \E m \in Messages \ IconMessages : Pending' = Append(Pending, m)
    <2>1. PICK m \in Messages \ IconMessages : Pending' = Append(Pending, m)
        BY <1>5
    <2>2. Settles(Append(Pending, m), icon, Told)
        BY <1>1, <1>2, <1>3, PostedLast
    <2> QED BY <1>1, <1>5, <2>1, <2>2
<1>6. CASE /\ Pending = <<message>> \o Pending' /\ queue' \in Seq(Messages) /\ Pending' = queue'
           /\ icon' = IF message \in IconMessages THEN message = "active" ELSE icon
    <2>1. Settles(<<message>> \o queue', icon, Told)
        BY <1>2, <1>6
    <2>2. Settles(queue', IF message \in IconMessages THEN message = "active" ELSE icon, Told)
        BY <1>1, <1>3, <1>6, <2>1, HandledFirst
    <2> QED BY <1>1, <1>6, <2>2
<1> QED BY <1>4, <1>5, <1>6

\* What a post does to the messages under way.
LEMMA PostedMessages ==
    ASSUME TrayTypeOK, NEW m \in Messages, UNCHANGED message,
           main' = main \/ (main \in {"draining", "acting"} /\ main' \in {"draining", "acting"}),
           queue' \in {queue, Append(queue, m)}
    PROVE  /\ queue' \in Seq(Messages)
           /\ queue' = queue => UNCHANGED Pending
           /\ queue' = Append(queue, m) => Pending' = Append(Pending, m)
           /\ Pending \in Seq(Messages)
<1>1. queue \in Seq(Messages) /\ <<message>> \in Seq(Messages) /\ <<>> \in Seq(Messages)
    BY DEF TrayTypeOK
<1>2. queue' \in Seq(Messages)
    BY <1>1, AppendProperties
<1> DEFINE taken == IF main \in {"draining", "opening", "acting"} THEN <<message>> ELSE <<>>
<1>3. taken' = taken /\ taken \in Seq(Messages)
    BY <1>1
<1>4. Pending = taken \o queue /\ Pending' = taken \o queue'
    BY <1>3 DEF Pending
<1> HIDE DEF taken
<1>5. Pending \in Seq(Messages)
    BY <1>1, <1>3, <1>4, ConcatProperties
<1>6. taken \o Append(queue, m) = Append(taken \o queue, m)
    BY <1>1, <1>3
<1> QED BY <1>2, <1>4, <1>5, <1>6

LEMMA IconStep == IconInv /\ [Next]_vars => IconInv'
<1> SUFFICES ASSUME IconInv, [Next]_vars PROVE IconInv'
    OBVIOUS
<1>1. /\ TrayTypeOK /\ queue \in Seq(Messages) /\ message \in Messages
      /\ <<>> \in Seq(Messages) /\ <<message>> \in Seq(Messages)
    BY DEF IconInv, TrayTypeOK
<1>2. ASSUME UNCHANGED <<main, message, queue, currently_active, task, dropped, icon>>,
             traffic_active' \in BOOLEAN
      PROVE  IconInv'
    <2>1. TrayTypeOK'
        BY <1>1, <1>2 DEF TrayTypeOK
    <2> QED BY <1>2, <2>1 DEF IconInv, IconFollows, Running, WillShow, Pending
<1>3. CASE StartLoop \/ GetMessage \/ Drained \/ StartWindow
    <2>1. UNCHANGED <<activity, icon>> /\ Running' /\ Running
        BY <1>3 DEF StartLoop, GetMessage, Drained, StartWindow, Running
    <2>2. UNCHANGED Pending
        <3>1. CASE StartLoop \/ Drained \/ StartWindow
            BY <3>1 DEF StartLoop, Drained, StartWindow, Pending
        <3>2. CASE GetMessage
            <4>1. queue = <<Head(queue)>> \o Tail(queue)
                BY <1>1, <3>2 DEF GetMessage
            <4>2. <<>> \o queue = queue
                BY <1>1
            <4> QED BY <3>2, <4>1, <4>2 DEF GetMessage, Pending
        <3> QED BY <1>3, <3>1, <3>2
    <2>3. TrayTypeOK'
        <3>1. message' \in Messages /\ queue' \in Seq(Messages)
            BY <1>1, <1>3, HeadTailProperties DEF StartLoop, GetMessage, Drained, StartWindow
        <3> QED BY <1>1, <1>3, <2>1, <3>1 DEF TrayTypeOK, StartLoop, GetMessage, Drained, StartWindow, activity
    <2> QED BY <2>1, <2>2, <2>3, LoopKeepsIcon DEF IconInv
<1>4. CASE Act
    <2>1. /\ UNCHANGED activity /\ Running' /\ Running /\ queue' = queue /\ UNCHANGED message
          /\ icon' = IF message \in IconMessages THEN message = "active" ELSE icon
          /\ Pending = <<message>> \o queue /\ main' \in {"left", "waiting"}
        BY <1>4 DEF Act, Running, Pending
    <2>2. Pending' = queue'
        BY <1>1, <2>1 DEF Pending
    <2>3. TrayTypeOK'
        BY <1>1, <2>1 DEF TrayTypeOK, activity
    <2> QED BY <1>1, <2>1, <2>2, <2>3, LoopKeepsIcon DEF IconInv
<1>5. ASSUME NEW m \in Messages \ IconMessages, UNCHANGED <<message, activity, icon>>,
             main' = main \/ (main \in {"draining", "acting"} /\ main' \in {"draining", "acting"}),
             queue' \in {queue, Append(queue, m)}, Running
      PROVE  IconInv'
    <2>1. /\ queue' \in Seq(Messages)
          /\ queue' = queue => UNCHANGED Pending
          /\ queue' = Append(queue, m) => Pending' = Append(Pending, m)
        BY <1>1, <1>5, PostedMessages
    <2>2. TrayTypeOK' /\ Running'
        BY <1>1, <1>5, <2>1 DEF TrayTypeOK, activity, Running
    <2> QED BY <1>5, <2>1, <2>2, LoopKeepsIcon DEF IconInv
<1>6. CASE Quit
    <2>1. "quit" \in Messages \ IconMessages
        BY DEF Messages, IconMessages
    <2> QED BY <1>5, <1>6, <2>1 DEF Quit, Event, Post, Running
<1>7. CASE ToggleAutostart \/ ShowStatistics
    <2>1. "tooltip" \in Messages \ IconMessages
        BY DEF Messages, IconMessages
    <2> QED BY <1>5, <1>7, <2>1 DEF ToggleAutostart, ShowStatistics, Event, Running
<1>8. CASE WantVisible
    <2>1. UNCHANGED <<activity, icon, message, queue>> /\ Running' /\ Running /\ UNCHANGED Pending
          /\ main' = "opening"
        BY <1>8 DEF WantVisible, Event, Running, Pending
    <2>2. TrayTypeOK'
        BY <1>1, <2>1 DEF TrayTypeOK, activity
    <2> QED BY <2>1, <2>2, LoopKeepsIcon DEF IconInv
<1>9. CASE Exit \/ ForceExit
    <2>1. main' = "exited" /\ UNCHANGED <<activity, icon, message, queue>>
        BY <1>9 DEF Exit, ForceExit
    <2> QED BY <1>1, <2>1 DEF TrayTypeOK, activity, IconInv, IconFollows, Running
<1>10. CASE Hover \/ \E entry \in Entries : Choose(entry)
    <2>1. "tooltip" \in Messages \ IconMessages /\ Entries \subseteq Messages \ IconMessages
        BY DEF Messages, IconMessages, Entries
    <2> QED BY <1>5, <1>10, <2>1 DEF Hover, Choose, Post
<1>11. CASE Sample
    <2>1. Told' = Told
        BY <1>1, <1>11 DEF Sample, Told, TrayTypeOK
    <2>2. TrayTypeOK'
        BY <1>1, <1>11 DEF Sample, TrayTypeOK, loopVars
    <2>3. UNCHANGED <<main, message, queue, dropped, icon>>
        BY <1>11 DEF Sample, loopVars
    <2> QED BY <2>1, <2>2, <2>3 DEF IconInv, IconFollows, Running, WillShow, Pending, Told
<1>12. CASE PostIconUpdate
    <2>1. UNCHANGED <<main, message, icon, currently_active, traffic_active>> /\ task' = "asleep"
        BY <1>12 DEF PostIconUpdate
    <2> DEFINE m == IconMessage(currently_active)
    <2>2. m \in Messages /\ queue' \in {queue, Append(queue, m)}
        BY <1>12 DEF PostIconUpdate, Post, IconMessage, Messages, IconMessages
    <2>3. /\ queue' \in Seq(Messages) /\ Pending \in Seq(Messages)
          /\ queue' = Append(queue, m) => Pending' = Append(Pending, m)
        BY <1>1, <2>1, <2>2, PostedMessages
    <2>4. TrayTypeOK'
        BY <1>1, <2>1, <2>3 DEF TrayTypeOK
    <2>5. ASSUME (~dropped)' PROVE IconFollows'
        <3>1. queue' = Append(queue, m)
            BY <1>12, <2>5 DEF PostIconUpdate, Post
        <3>2. Told' = currently_active /\ currently_active \in BOOLEAN
            BY <1>1, <2>1 DEF Told, TrayTypeOK
        <3>3. Settles(Append(Pending, m), icon, currently_active)
            BY <2>2, <2>3, <3>2, PostedLast
        <3>4. Settles(Pending', icon', Told')
            BY <2>1, <2>3, <3>1, <3>2, <3>3
        <3> QED BY <3>4 DEF IconFollows, WillShow, Settles, Told
    <2> QED BY <2>4, <2>5 DEF IconInv, IconFollows
<1>13. CASE \/ WindowStarts \/ WindowFails \/ WindowTick \/ OnClosing \/ DialogAnswered \/ DialogEnds
            \/ Traffic \/ UNCHANGED vars
    <2>1. UNCHANGED <<main, message, queue, currently_active, task, dropped, icon>>
        BY <1>13 DEF WindowStarts, WindowFails, WindowTick, OnClosing, DialogAnswered, DialogEnds,
                     Traffic, vars, loopVars, activity
    <2>2. traffic_active' \in BOOLEAN
        BY <1>1, <1>13 DEF WindowStarts, WindowFails, WindowTick, OnClosing, DialogAnswered, DialogEnds,
                     Traffic, vars, loopVars, activity, TrayTypeOK
    <2> QED BY <1>2, <2>1, <2>2
<1> QED BY <1>3, <1>4, <1>6, <1>7, <1>8, <1>9, <1>10, <1>11, <1>12, <1>13 DEF Next, Loop, Ui

\* After every step of the activity task, of the posts and of the loop the icon
\* is going to show what the last update was for, unless that one was dropped.
THEOREM IconFollowsTraffic == Spec => []IconFollows
<1>1. Init => IconInv
    <2> SUFFICES ASSUME Init PROVE IconInv
        OBVIOUS
    <2>1. /\ <<>> \in Seq(Messages) /\ "tooltip" \in Messages
          /\ <<>> \o <<>> = <<>> /\ DOMAIN <<>> = {}
        BY DEF Messages
    <2>2. /\ main = "starting" /\ queue = <<>> /\ message = "tooltip" /\ task = "asleep"
          /\ traffic_active = FALSE /\ currently_active = FALSE /\ icon = FALSE
        BY DEF Init
    <2>3. TrayTypeOK
        BY <2>1, <2>2 DEF TrayTypeOK
    <2>4. Pending = <<>> \o <<>>
        BY <2>2 DEF Pending
    <2>5. (currently_active # (task = "posting")) = FALSE
        BY <2>2
    <2> QED BY <2>1, <2>2, <2>3, <2>4, <2>5 DEF IconInv, IconFollows, WillShow
<1>2. IconInv => IconFollows
    BY DEF IconInv
<1> QED BY <1>1, <1>2, IconStep, PTL DEF Spec

-----------------------------------------------------------------------------
(* The traffic window.                                                     *)

\* A tick and a resize are a snapshot, the rest is what the tasks may do.
LEMMA WindowStepIsTrackerStep == [WindowNext]_tableVars => [TrackerNext]_trackerVars
<1>1. Open \/ Tick \/ Resize => TrackerNext
    BY DEF Open, Tick, Resize, TakeRows, TrackerNext
<1>2. Callers => TrackerNext
    BY DEF Callers, TrackerNext, Setter
<1>3. UNCHANGED tableVars => UNCHANGED trackerVars
    BY DEF tableVars
<1> QED BY <1>1, <1>2, <1>3 DEF WindowNext

\* The window over its tracker implements the tracker with arbitrary callers.
THEOREM WindowImplementsTracker == WindowSpec => TrackerSpec
<1>1. WindowInit => TrackerInit
    BY DEF WindowInit
<1> QED BY <1>1, WindowStepIsTrackerStep, PTL DEF WindowSpec, TrackerSpec

\* What the diff of the list view relies on holds between any two ticks of the
\* running window: rows that stay keep their order, new ones come after them,
\* none is revived, and none leaves without a reason.
THEOREM TableKeepsItsPromises ==
    WindowSpec => /\ []OrderMatchesConnections /\ []WithinCapacity
            /\ SurvivorsKeepOrder /\ RowsLeaveForAReason /\ GoneIsGone
BY WindowImplementsTracker, OrderStaysInStep, CapacityHolds, SurvivorsStayInOrder,
   RowsLeaveOnlyForAReason, GoneStaysGone, PTL
-----------------------------------------------------------------------------
(* Counting up, and sequences that do.                                     *)

LEMMA LeastOf ==
    ASSUME NEW S \in SUBSET Nat, S # {}
    PROVE  \E x \in S : \A y \in S : x <= y
<1> DEFINE R == {p \in Nat \X Nat : p[1] < p[2]}
<1>1. IsWellFoundedOn(R, Nat)
    BY NatLessThanWellFounded, Zenon DEF OpToRel
<1>2. PICK x \in S : \A y \in S : <<y, x>> \notin R
    BY <1>1, WFMin, Zenon
<1>3. \A y \in S : ~(y < x)
    BY <1>2
<1> QED BY <1>3

\* A set that holds 0 and, up to n, with every number the next holds all of them.
LEMMA CountsUp ==
    ASSUME NEW n \in Nat, NEW G, 0 \in G,
           \A m \in Nat : m < n /\ m \in G => m + 1 \in G
    PROVE  \A m \in 0..n : m \in G
<1> SUFFICES ASSUME NEW m0 \in 0..n, m0 \notin G
             PROVE  FALSE
    OBVIOUS
<1> DEFINE Out == {m \in 0..n : m \notin G}
<1>1. Out \in SUBSET Nat /\ Out # {}
    OBVIOUS
<1>2. PICK m \in Out : \A y \in Out : m <= y
    BY <1>1, LeastOf
<1>3. m \in 0..n /\ m \notin G /\ m # 0
    BY <1>2
<1>4. m - 1 \in Nat /\ m - 1 < n /\ m - 1 \in 0..n /\ m - 1 < m /\ (m - 1) + 1 = m
    BY <1>3
<1>5. m - 1 \notin Out
    BY <1>2, <1>4
<1>6. m - 1 \in G
    BY <1>4, <1>5
<1> QED BY <1>3, <1>4, <1>6

\* What a loop does in each of n rounds, and what it makes of v.
Rounds(n, V) == [1..n -> [V -> V]]
Run(f, n, V, v, step) ==
    f \in [0..n -> V] /\ f[0] = v /\ (\A i \in 1..n : f[i] = step[i][f[i - 1]])

\* A loop has a result.
LEMMA LoopRuns ==
    ASSUME NEW n \in Nat, NEW V, NEW v \in V, NEW step \in Rounds(n, V)
    PROVE  \E f : Run(f, n, V, v, step)
<1>0. step \in [1..n -> [V -> V]]
    BY DEF Rounds
<1> DEFINE Runs(m) == \E f \in [0..m -> V] : f[0] = v /\ \A i \in 1..m : f[i] = step[i][f[i - 1]]
           G == {m \in 0..n : Runs(m)}
<1>1. Runs(0)
    <2> DEFINE f == [i \in 0..0 |-> v]
    <2>1. f \in [0..0 -> V] /\ f[0] = v /\ 1..0 = {}
        OBVIOUS
    <2> QED BY <2>1
<1>2. ASSUME NEW m \in Nat, m < n, Runs(m)
      PROVE  Runs(m + 1)
    <2>1. PICK f \in [0..m -> V] : f[0] = v /\ \A i \in 1..m : f[i] = step[i][f[i - 1]]
        BY <1>2
    <2> DEFINE g == [i \in 0..(m + 1) |-> IF i <= m THEN f[i] ELSE step[i][f[m]]]
    <2>2. m + 1 \in 1..n /\ f[m] \in V
        BY <1>2, <2>1
    <2>3. step[m + 1][f[m]] \in V
        BY <1>0, <2>2
    <2>4. \A i \in 0..(m + 1) : (i <= m /\ i \in 0..m) \/ i = m + 1
        OBVIOUS
    <2>5. g \in [0..(m + 1) -> V]
        BY <2>1, <2>3, <2>4
    <2>6. g[0] = v
        BY <2>1
    <2>7. ASSUME NEW i \in 1..(m + 1)
          PROVE  g[i] = step[i][g[i - 1]]
        <3>1. i - 1 \in 0..m /\ i - 1 <= m /\ g[i - 1] = f[i - 1]
            OBVIOUS
        <3>2. CASE i <= m
            BY <2>1, <3>1, <3>2
        <3>3. CASE i = m + 1
            BY <3>1, <3>3
        <3> QED BY <3>2, <3>3
    <2> HIDE DEF g
    <2> QED BY <2>5, <2>6, <2>7
<1> HIDE DEF Runs
<1>3. \A m \in Nat : m < n /\ m \in G => m + 1 \in G
    BY <1>2
<1>4. 0 \in G
    BY <1>1
<1> HIDE DEF G
<1>5. \A m \in 0..n : m \in G
    BY <1>3, <1>4, CountsUp, Zenon
<1>6. n \in 0..n
    OBVIOUS
<1> QED BY <1>5, <1>6 DEF Runs, G, Run

Increasing(f, n) == \A i, j \in 1..n : i < j => f[i] < f[j]

\* There is one way to count a set of numbers upwards.
LEMMA OneCount ==
    ASSUME NEW n \in Nat, NEW f \in [1..n -> Int], Increasing(f, n),
           NEW m \in Nat, NEW g \in [1..m -> Int], Increasing(g, m),
           {f[i] : i \in 1..n} = {g[i] : i \in 1..m}
    PROVE  n = m /\ f = g
<1> DEFINE Out == {i \in 1..n : i \notin 1..m \/ f[i] # g[i]}
<1>1. ASSUME Out # {} PROVE FALSE
    <2>1. Out \in SUBSET Nat
        OBVIOUS
    <2>2. PICK i \in Out : \A j \in Out : i <= j
        BY <1>1, <2>1, LeastOf
    <2>3. i \in 1..n /\ \A j \in 1..n : j < i => j \in 1..m /\ f[j] = g[j]
        BY <2>2
    <2>4. PICK j \in 1..m : f[i] = g[j]
        BY <2>3
    <2>5. ~(j < i)
        <3>1. SUFFICES ASSUME j < i PROVE FALSE
            OBVIOUS
        <3>2. j \in 1..n /\ f[j] = g[j] /\ f[j] < f[i]
            BY <2>3, <3>1 DEF Increasing
        <3> QED BY <2>3, <2>4, <3>2
    <2>6. i \in 1..m /\ f[i] # g[i] /\ i < j
        BY <2>2, <2>3, <2>4, <2>5
    <2>7. PICK k \in 1..n : g[i] = f[k]
        BY <2>6
    <2>8. g[i] < g[j]
        BY <2>4, <2>6 DEF Increasing
    <2>9. k < i
        <3>1. f[k] < f[i]
            BY <2>4, <2>7, <2>8
        <3>2. ~(i < k) /\ k # i
            BY <2>3, <3>1 DEF Increasing
        <3> QED BY <2>3, <3>2
    <2>10. k \in 1..m /\ f[k] = g[k] /\ g[k] < g[i]
        BY <2>3, <2>6, <2>9 DEF Increasing
    <2> QED BY <2>6, <2>7, <2>10
<1>2. \A i \in 1..n : i \in 1..m /\ f[i] = g[i]
    BY <1>1
<1>3. n <= m
    BY <1>2
<1>4. ~(n < m)
    <2>1. SUFFICES ASSUME n < m PROVE FALSE
        OBVIOUS
    <2> HIDE DEF Out
    <2>2. n + 1 \in 1..m
        BY <2>1
    <2>3. g[n + 1] \in {g[i] : i \in 1..m}
        BY <2>2
    <2>4. PICK k \in 1..n : g[n + 1] = f[k]
        BY <2>3
    <2>5. g[k] = g[n + 1] /\ k < n + 1 /\ k \in 1..m
        BY <1>2, <2>1, <2>4
    <2>6. g[k] < g[n + 1]
        BY <2>2, <2>5 DEF Increasing
    <2> QED BY <2>2, <2>5, <2>6
<1> QED BY <1>2, <1>3, <1>4

-----------------------------------------------------------------------------
(* What a notification does to the list view.                              *)

LEMMA DeletedRow ==
    ASSUME NEW S, NEW v \in Seq(S), NEW i \in Nat, i # 0
    PROVE  /\ RowDeleted(v, i) \in Seq(S)
           /\ i <= Len(v) =>
                  /\ Len(RowDeleted(v, i)) = Len(v) - 1
                  /\ \A j \in 1..(Len(v) - 1) : RowDeleted(v, i)[j] = v[IF j < i THEN j ELSE j + 1]
<1>1. PICK n \in Nat : n = Len(v) /\ DOMAIN v = 1..n /\ \A j \in 1..n : v[j] \in S
    BY LenProperties, ElementOfSeq
<1>2. CASE i <= n
    <2>1. i \in 1..n /\ i - 1 \in Nat /\ n - i \in Nat /\ (i - 1) + (n - i) = n - 1
        BY <1>2
    <2>2. PICK front : front = SubSeq(v, 1, i - 1)
        OBVIOUS
    <2>3. PICK back : back = SubSeq(v, i + 1, n)
        OBVIOUS
    <2>4. front \in Seq(S) /\ Len(front) = i - 1 /\ \A j \in 1..(i - 1) : front[j] = v[j]
        BY <1>1, <2>1, <2>2, SubSeqProperties
    <2>5. back \in Seq(S) /\ Len(back) = n - i /\ \A j \in 1..(n - i) : back[j] = v[i + j]
        <3>1. \A j \in (i + 1)..n : v[j] \in S
            BY <1>1
        <3>2. /\ back \in Seq(S) /\ Len(back) = IF i + 1 <= n THEN n - (i + 1) + 1 ELSE 0
              /\ \A j \in 1..(n - (i + 1) + 1) : back[j] = v[(i + 1) + j - 1]
            BY <2>3, <3>1, SubSeqProperties
        <3>3. n - (i + 1) + 1 = n - i /\ (i + 1 <= n \/ n - i = 0)
            BY <1>2
        <3>4. \A j \in 1..(n - i) : (i + 1) + j - 1 = i + j
            OBVIOUS
        <3> QED BY <3>2, <3>3, <3>4
    <2>6. RowDeleted(v, i) = front \o back
        BY <1>1, <2>1, <2>2, <2>3 DEF RowDeleted, Seqs!RemoveAt
    <2>7. /\ front \o back \in Seq(S) /\ Len(front \o back) = n - 1
          /\ \A j \in 1..(n - 1) :
                 (front \o back)[j] = IF j <= i - 1 THEN front[j] ELSE back[j - (i - 1)]
        BY <2>1, <2>4, <2>5, ConcatProperties
    <2>8. ASSUME NEW j \in 1..(n - 1)
          PROVE  (front \o back)[j] = v[IF j < i THEN j ELSE j + 1]
        <3>1. CASE j < i
            BY <2>4, <2>7, <3>1
        <3>2. CASE ~(j < i)
            <4>1. j - (i - 1) \in 1..(n - i) /\ i + (j - (i - 1)) = j + 1 /\ ~(j <= i - 1)
                BY <1>2, <3>2
            <4> QED BY <2>5, <2>7, <3>2, <4>1
        <3> QED BY <3>1, <3>2
    <2> QED BY <1>1, <2>6, <2>7, <2>8
<1>3. CASE ~(i <= n)
    <2>1. i \notin DOMAIN v
        BY <1>1, <1>3
    <2>2. RowDeleted(v, i) = v
        BY <2>1 DEF RowDeleted
    <2> QED BY <1>1, <1>3, <2>2
<1> QED BY <1>2, <1>3

\* Rows are only ever inserted at the end, as it turns out.
LEMMA InsertedRow ==
    ASSUME NEW S, NEW v \in Seq(S), NEW cells \in S, NEW i \in Nat, i # 0
    PROVE  /\ RowInserted(v, i, cells) \in Seq(S)
           /\ i = Len(v) + 1 => RowInserted(v, i, cells) = Append(v, cells)
<1>1. Len(v) \in Nat /\ DOMAIN v = 1..Len(v) /\ \A j \in 1..Len(v) : v[j] \in S
    BY LenProperties, ElementOfSeq
<1>2. CASE i <= Len(v) + 1
    <2> DEFINE front == SubSeq(v, 1, i - 1)
               back == SubSeq(v, i, Len(v))
    <2>1. front \in Seq(S) /\ back \in Seq(S) /\ <<cells>> \in Seq(S)
        BY <1>1, <1>2, SubSeqProperties
    <2>2. RowInserted(v, i, cells) = (front \o <<cells>>) \o back
        BY <1>2 DEF RowInserted, Seqs!InsertAt
    <2>3. i = Len(v) + 1 => front = v /\ back = <<>>
        BY <1>1, SubSeqFull, SubSeqEmpty
    <2> HIDE DEF front, back
    <2>4. front \o <<cells>> \in Seq(S) /\ (front \o <<cells>>) \o back \in Seq(S)
        BY <2>1, ConcatProperties
    <2>5. ASSUME i = Len(v) + 1 PROVE (front \o <<cells>>) \o back = Append(v, cells)
        BY <2>3, <2>4, <2>5, ConcatEmptySeq, AppendIsConcat
    <2> QED BY <2>2, <2>4, <2>5
<1>3. CASE ~(i <= Len(v) + 1)
    <2>1. RowInserted(v, i, cells) = v
        BY <1>3 DEF RowInserted
    <2>2. i # Len(v) + 1
        BY <1>1, <1>3
    <2> QED BY <2>1, <2>2
<1> QED BY <1>2, <1>3

LEMMA ChangedRow ==
    ASSUME NEW S, NEW v \in Seq(S), NEW cells \in S, NEW i \in Nat, i # 0
    PROVE  /\ RowChanged(v, i, cells) \in Seq(S)
           /\ Len(RowChanged(v, i, cells)) = Len(v)
           /\ \A j \in 1..Len(v) : RowChanged(v, i, cells)[j] = IF j = i THEN cells ELSE v[j]
<1>1. Len(v) \in Nat /\ DOMAIN v = 1..Len(v)
    BY LenProperties
<1>2. CASE i \in 1..Len(v)
    BY <1>1, <1>2, ExceptSeq DEF RowChanged
<1>3. CASE i \notin 1..Len(v)
    BY <1>1, <1>3 DEF RowChanged
<1> QED BY <1>2, <1>3

-----------------------------------------------------------------------------
(* The three loops of the diff.                                            *)

\* The view before, between and after the rounds of a loop.
Deleting(left, v, old, new) ==
    /\ Deletions(v, old, new) = left[1]
    /\ left[Len(old) + 1] = v
    /\ \A i \in 1..Len(old) :
          left[i] = IF old[i].id \in Ids(new) THEN left[i + 1] ELSE RowDeleted(left[i + 1], i)

Inserting(filled, v, old, new, hot) ==
    /\ Insertions(v, old, new, hot) = filled[Len(new)]
    /\ filled[0] = v
    /\ \A i \in 1..Len(new) :
          filled[i] = IF new[i].id \in Ids(old) THEN filled[i - 1]
                      ELSE RowInserted(filled[i - 1], i, Painted(new, hot, i))

Changing(drawn, v, old, new, wasHot, hot) ==
    /\ Changes(v, old, new, wasHot, hot) = drawn[Len(new)]
    /\ drawn[0] = v
    /\ \A i \in 1..Len(new) :
          drawn[i] = IF i \in Changed(old, new, wasHot, hot)
                     THEN RowChanged(drawn[i - 1], i, Painted(new, hot, i))
                     ELSE drawn[i - 1]

LEMMA DeletionsLoop ==
    ASSUME NEW S, NEW v \in Seq(S), NEW old, Len(old) \in Nat, NEW new
    PROVE  \E left : Deleting(left, v, old, new)
<1>0. PICK n \in Nat : n = Len(old)
    OBVIOUS
<1> DEFINE Body(f) == [i \in 1..(Len(old) + 1) |->
                          IF i > Len(old) THEN v
                          ELSE IF old[i].id \in Ids(new) THEN f[i + 1] ELSE RowDeleted(f[i + 1], i)]
           result == CHOOSE f : f = Body(f)
<1>1. PICK V : V = Seq(S)
    OBVIOUS
<1>2. PICK step \in Rounds(n, V) :
          \A k \in 1..n, w \in V :
              step[k][w] = IF old[n + 1 - k].id \in Ids(new) THEN w ELSE RowDeleted(w, n + 1 - k)
    <2> DEFINE made == [k \in 1..n |-> [w \in V |->
                           IF old[n + 1 - k].id \in Ids(new) THEN w ELSE RowDeleted(w, n + 1 - k)]]
    <2>1. ASSUME NEW k \in 1..n, NEW w \in V
          PROVE  RowDeleted(w, n + 1 - k) \in V
        <3>1. n + 1 - k \in Nat /\ n + 1 - k # 0
            OBVIOUS
        <3> QED BY <1>1, <3>1, DeletedRow
    <2>2. made \in Rounds(n, V)
        BY <2>1 DEF Rounds
    <2> QED BY <2>2
<1>3. PICK g : Run(g, n, V, v, step)
    BY <1>1, LoopRuns
<1> DEFINE f0 == [i \in 1..(n + 1) |-> g[n + 1 - i]]
<1>4. f0 = Body(f0)
    <2>1. ASSUME NEW i \in 1..(n + 1), ~(i > n)
          PROVE  f0[i] = IF old[i].id \in Ids(new) THEN f0[i + 1] ELSE RowDeleted(f0[i + 1], i)
        <3>1. n + 1 - i \in 1..n /\ n + 1 - (n + 1 - i) = i /\ (n + 1 - i) - 1 = n - i
              /\ n - i \in 0..n /\ i + 1 \in 1..(n + 1) /\ n + 1 - (i + 1) = n - i
            BY <2>1
        <3>2. f0[i] = g[n + 1 - i] /\ f0[i + 1] = g[n - i] /\ g[n - i] \in V
            BY <1>3, <3>1 DEF Run
        <3>3. g[n + 1 - i] = step[n + 1 - i][g[n - i]]
            BY <1>3, <3>1 DEF Run
        <3>4. step[n + 1 - i][g[n - i]] = IF old[i].id \in Ids(new) THEN g[n - i] ELSE RowDeleted(g[n - i], i)
            BY <1>2, <3>1, <3>2
        <3> QED BY <3>2, <3>3, <3>4
    <2>2. ASSUME NEW i \in 1..(n + 1), i > n PROVE f0[i] = v
        BY <1>3, <2>2 DEF Run
    <2>3. f0 = [i \in 1..(n + 1) |-> f0[i]]
        OBVIOUS
    <2> HIDE DEF f0
    <2> QED BY <1>0, <2>1, <2>2, <2>3
<1> HIDE DEF f0
<1>5. result = Body(result)
    BY <1>4
<1>6. Deletions(v, old, new) = result[1]
    BY DEF Deletions
<1> HIDE DEF result
<1>7. n + 1 \in 1..(n + 1) /\ n + 1 > n /\ \A i \in 1..n : i \in 1..(n + 1) /\ ~(i > n)
    OBVIOUS
<1> QED BY <1>0, <1>5, <1>6, <1>7 DEF Deleting

LEMMA InsertionsLoop ==
    ASSUME NEW S, NEW v \in Seq(S), NEW old, NEW new, Len(new) \in Nat, NEW hot,
           \A i \in 1..Len(new) : Painted(new, hot, i) \in S
    PROVE  \E filled : Inserting(filled, v, old, new, hot)
<1>0. PICK n \in Nat : n = Len(new)
    OBVIOUS
<1> DEFINE Body(f) == [i \in 0..Len(new) |->
                          IF i = 0 THEN v
                          ELSE IF new[i].id \in Ids(old) THEN f[i - 1]
                          ELSE RowInserted(f[i - 1], i, Painted(new, hot, i))]
           result == CHOOSE f : f = Body(f)
<1>1. PICK V : V = Seq(S)
    OBVIOUS
<1>2. PICK step \in Rounds(n, V) :
          \A k \in 1..n, w \in V :
              step[k][w] = IF new[k].id \in Ids(old) THEN w ELSE RowInserted(w, k, Painted(new, hot, k))
    <2> DEFINE made == [k \in 1..n |-> [w \in V |->
                           IF new[k].id \in Ids(old) THEN w ELSE RowInserted(w, k, Painted(new, hot, k))]]
    <2>1. ASSUME NEW k \in 1..n, NEW w \in V
          PROVE  RowInserted(w, k, Painted(new, hot, k)) \in V
        <3>1. k \in Nat /\ k # 0 /\ Painted(new, hot, k) \in S
            BY <1>0
        <3> QED BY <1>1, <3>1, InsertedRow
    <2>2. made \in Rounds(n, V)
        BY <2>1 DEF Rounds
    <2> QED BY <2>2
<1>3. PICK g : Run(g, n, V, v, step)
    BY <1>1, LoopRuns
<1>4. g = Body(g)
    <2>1. /\ g = [i \in 0..n |-> g[i]] /\ g[0] = v
          /\ \A i \in 1..n : g[i] = step[i][g[i - 1]] /\ g[i - 1] \in V
        BY <1>3 DEF Run
    <2>2. ASSUME NEW i \in 0..n, i # 0
          PROVE  g[i] = IF new[i].id \in Ids(old) THEN g[i - 1]
                        ELSE RowInserted(g[i - 1], i, Painted(new, hot, i))
        <3>1. i \in 1..n
            BY <2>2
        <3> QED BY <1>2, <2>1, <3>1
    <2> QED BY <1>0, <2>1, <2>2
<1>5. result = Body(result)
    BY <1>4
<1>6. Insertions(v, old, new, hot) = result[Len(new)]
    BY DEF Insertions
<1> HIDE DEF result
<1>7. 0 \in 0..n /\ \A i \in 1..n : i \in 0..n /\ i # 0
    OBVIOUS
<1> QED BY <1>0, <1>5, <1>6, <1>7 DEF Inserting

LEMMA ChangesLoop ==
    ASSUME NEW S, NEW v \in Seq(S), NEW old, NEW new, Len(new) \in Nat, NEW wasHot, NEW hot,
           \A i \in 1..Len(new) : Painted(new, hot, i) \in S
    PROVE  \E drawn : Changing(drawn, v, old, new, wasHot, hot)
<1>0. PICK n \in Nat : n = Len(new)
    OBVIOUS
<1> DEFINE Body(f) == [i \in 0..Len(new) |->
                          IF i = 0 THEN v
                          ELSE IF i \in Changed(old, new, wasHot, hot)
                          THEN RowChanged(f[i - 1], i, Painted(new, hot, i))
                          ELSE f[i - 1]]
           result == CHOOSE f : f = Body(f)
<1>1. PICK V : V = Seq(S)
    OBVIOUS
<1>2. PICK step \in Rounds(n, V) :
          \A k \in 1..n, w \in V :
              step[k][w] = IF k \in Changed(old, new, wasHot, hot)
                           THEN RowChanged(w, k, Painted(new, hot, k)) ELSE w
    <2> DEFINE made == [k \in 1..n |-> [w \in V |->
                           IF k \in Changed(old, new, wasHot, hot)
                           THEN RowChanged(w, k, Painted(new, hot, k)) ELSE w]]
    <2>1. ASSUME NEW k \in 1..n, NEW w \in V
          PROVE  RowChanged(w, k, Painted(new, hot, k)) \in V
        <3>1. k \in Nat /\ k # 0 /\ Painted(new, hot, k) \in S
            BY <1>0
        <3> QED BY <1>1, <3>1, ChangedRow
    <2>2. made \in Rounds(n, V)
        BY <2>1 DEF Rounds
    <2> QED BY <2>2
<1>3. PICK g : Run(g, n, V, v, step)
    BY <1>1, LoopRuns
<1>4. g = Body(g)
    <2>1. /\ g = [i \in 0..n |-> g[i]] /\ g[0] = v
          /\ \A i \in 1..n : g[i] = step[i][g[i - 1]] /\ g[i - 1] \in V
        BY <1>3 DEF Run
    <2>2. ASSUME NEW i \in 0..n, i # 0
          PROVE  g[i] = IF i \in Changed(old, new, wasHot, hot)
                        THEN RowChanged(g[i - 1], i, Painted(new, hot, i)) ELSE g[i - 1]
        <3>1. i \in 1..n
            BY <2>2
        <3> QED BY <1>2, <2>1, <3>1
    <2> QED BY <1>0, <2>1, <2>2
<1>5. result = Body(result)
    BY <1>4
<1>6. Changes(v, old, new, wasHot, hot) = result[Len(new)]
    BY DEF Changes
<1> HIDE DEF result
<1>7. 0 \in 0..n /\ \A i \in 1..n : i \in 0..n /\ i # 0
    OBVIOUS
<1> QED BY <1>0, <1>5, <1>6, <1>7 DEF Changing

-----------------------------------------------------------------------------
(* What each loop leaves.                                                  *)

\* w has the rows of v at the places in kept, in their order, and the first
\* ones at their own.
Thinned(w, v, kept, first) ==
    \E e \in [1..Len(w) -> 1..Len(v)] :
        /\ Increasing(e, Len(w))
        /\ {e[j] : j \in 1..Len(w)} = kept
        /\ \A j \in 1..first : j <= Len(w) /\ e[j] = j
        /\ \A j \in 1..Len(w) : w[j] = v[e[j]]

\* One more row goes, in front of those that went before.
LEMMA ThinnedMore ==
    ASSUME NEW S, NEW v \in Seq(S), NEW w \in Seq(S), NEW kept,
           NEW i \in 1..Len(v), Thinned(w, v, kept, i)
    PROVE  Thinned(RowDeleted(w, i), v, kept \ {i}, i - 1)
<1>1. PICK n \in Nat : n = Len(v)
    BY LenProperties
<1>2. PICK m \in Nat : m = Len(w)
    BY LenProperties
<1>3. PICK e \in [1..m -> 1..n] :
          /\ Increasing(e, m) /\ {e[j] : j \in 1..m} = kept
          /\ \A j \in 1..i : j <= m /\ e[j] = j
          /\ \A j \in 1..m : w[j] = v[e[j]]
    BY <1>1, <1>2 DEF Thinned
<1>4. i \in 1..n /\ i \in 1..i /\ i <= m /\ e[i] = i /\ i \in 1..m
    BY <1>1, <1>3
<1> DEFINE to(j) == IF j < i THEN j ELSE j + 1
           less == [j \in 1..(m - 1) |-> e[to(j)]]
<1>5. /\ m - 1 \in Nat /\ Len(RowDeleted(w, i)) = m - 1
      /\ \A j \in 1..(m - 1) : RowDeleted(w, i)[j] = w[to(j)]
    <2>1. i \in Nat /\ i # 0 /\ i <= Len(w) /\ m - 1 \in Nat
        BY <1>2, <1>4
    <2>2. /\ Len(RowDeleted(w, i)) = Len(w) - 1
          /\ \A j \in 1..(Len(w) - 1) : RowDeleted(w, i)[j] = w[IF j < i THEN j ELSE j + 1]
        BY <2>1, DeletedRow
    <2> QED BY <1>2, <2>1, <2>2
<1>6. /\ \A j \in 1..(m - 1) : to(j) \in 1..m /\ to(j) # i
      /\ \A j, k \in 1..(m - 1) : j < k => to(j) < to(k)
      /\ \A k \in 1..m : k # i => \E j \in 1..(m - 1) : to(j) = k
    <2>1. ASSUME NEW k \in 1..m, k # i PROVE \E j \in 1..(m - 1) : to(j) = k
        <3>1. CASE k < i
            <4>1. k \in 1..(m - 1) /\ to(k) = k
                BY <1>4, <3>1
            <4> QED BY <4>1
        <3>2. CASE ~(k < i)
            <4>1. k - 1 \in 1..(m - 1) /\ ~(k - 1 < i) /\ (k - 1) + 1 = k
                BY <1>4, <2>1, <3>2
            <4> QED BY <4>1
        <3> QED BY <3>1, <3>2
    <2> QED BY <1>4, <2>1
<1> HIDE DEF to
<1>7. less \in [1..(m - 1) -> 1..n]
    BY <1>6
<1>8. Increasing(less, m - 1)
    BY <1>3, <1>6 DEF Increasing
<1>9. \A k \in 1..m : k # i => e[k] # i
    BY <1>3, <1>4 DEF Increasing
<1>10. {less[j] : j \in 1..(m - 1)} = kept \ {i}
    <2>1. ASSUME NEW j \in 1..(m - 1) PROVE less[j] \in kept \ {i}
        BY <1>3, <1>6, <1>9
    <2>2. ASSUME NEW x \in kept \ {i} PROVE x \in {less[j] : j \in 1..(m - 1)}
        <3>1. PICK k \in 1..m : x = e[k]
            BY <1>3
        <3>2. k # i
            BY <1>4, <3>1
        <3> QED BY <1>6, <3>1, <3>2
    <2> QED BY <2>1, <2>2
<1>11. \A j \in 1..(i - 1) : j <= m - 1 /\ less[j] = j
    BY <1>3, <1>4 DEF to
<1>12. \A j \in 1..(m - 1) : RowDeleted(w, i)[j] = v[less[j]]
    BY <1>3, <1>5, <1>6
<1> HIDE DEF less
<1> QED BY <1>1, <1>5, <1>7, <1>8, <1>10, <1>11, <1>12 DEF Thinned

\* The rows that stay are left, in their order.
LEMMA DeletionsLeave ==
    ASSUME NEW S, NEW v \in Seq(S), NEW old, Len(old) = Len(v), NEW new
    PROVE  /\ Deletions(v, old, new) \in Seq(S)
           /\ Thinned(Deletions(v, old, new), v, {j \in 1..Len(v) : old[j].id \in Ids(new)}, 0)
<1>1. PICK n \in Nat : n = Len(v) /\ n = Len(old)
    BY LenProperties
<1>2. PICK left :
          /\ Deletions(v, old, new) = left[1] /\ left[n + 1] = v
          /\ \A i \in 1..n :
                left[i] = IF old[i].id \in Ids(new) THEN left[i + 1] ELSE RowDeleted(left[i + 1], i)
    <2>1. PICK left : Deleting(left, v, old, new)
        BY <1>1, DeletionsLoop
    <2> QED BY <1>1, <2>1 DEF Deleting
<1> DEFINE Stays(j) == old[j].id \in Ids(new)
           Kept(i) == {j \in 1..n : j < i \/ Stays(j)}
           Goes(i) == left[i] \in Seq(S) /\ Thinned(left[i], v, Kept(i), i - 1)
           G == {k \in 0..n : Goes(n + 1 - k)}
<1>3. Goes(n + 1)
    <2> DEFINE e == [j \in 1..n |-> j]
    <2>1. e \in [1..n -> 1..n] /\ Increasing(e, n) /\ {e[j] : j \in 1..n} = 1..n
        BY DEF Increasing
    <2>2. \A j \in 1..((n + 1) - 1) : j <= n /\ e[j] = j
        OBVIOUS
    <2>3. \A j \in 1..n : v[j] = v[e[j]]
        OBVIOUS
    <2> HIDE DEF e
    <2>4. Kept(n + 1) = 1..n
        OBVIOUS
    <2> HIDE DEF Kept
    <2> QED BY <1>1, <1>2, <2>1, <2>2, <2>3, <2>4 DEF Thinned
<1>4. ASSUME NEW i \in 1..n, Goes(i + 1)
      PROVE  Goes(i)
    <2>1. PICK w \in Seq(S) : w = left[i + 1] /\ Thinned(w, v, Kept(i + 1), i)
        <3>1. (i + 1) - 1 = i
            OBVIOUS
        <3> QED BY <1>4, <3>1
    <2>2. CASE Stays(i)
        <3>1. left[i] = w /\ Kept(i) = Kept(i + 1)
            BY <1>2, <2>1, <2>2
        <3>2. \A j \in 1..(i - 1) : j \in 1..i
            OBVIOUS
        <3> HIDE DEF Kept
        <3>3. Thinned(w, v, Kept(i), i - 1)
            BY <2>1, <3>1, <3>2 DEF Thinned
        <3> QED BY <2>1, <3>1, <3>3
    <2>3. CASE ~Stays(i)
        <3>1. left[i] = RowDeleted(w, i) /\ Kept(i) = Kept(i + 1) \ {i}
            BY <1>2, <2>1, <2>3
        <3>2. i \in 1..Len(v) /\ i \in Nat /\ i # 0
            BY <1>1
        <3> HIDE DEF Kept
        <3>3. RowDeleted(w, i) \in Seq(S)
            BY <2>1, <3>2, DeletedRow
        <3>4. Thinned(RowDeleted(w, i), v, Kept(i + 1) \ {i}, i - 1)
            BY <2>1, <3>2, ThinnedMore
        <3> QED BY <3>1, <3>3, <3>4
    <2> QED BY <2>2, <2>3
<1> HIDE DEF Goes
<1>5. 0 \in G
    BY <1>3
<1>6. ASSUME NEW k \in Nat, k < n, k \in G PROVE k + 1 \in G
    <2>1. n + 1 - (k + 1) \in 1..n /\ (n + 1 - (k + 1)) + 1 = n + 1 - k /\ k + 1 \in 0..n
        BY <1>6
    <2>2. Goes(n + 1 - k)
        BY <1>6
    <2>3. Goes((n + 1 - (k + 1)) + 1)
        BY <2>1, <2>2
    <2>4. Goes(n + 1 - (k + 1))
        BY <1>4, <2>1, <2>3
    <2> QED BY <2>1, <2>4
<1>7. n \in G
    <2> HIDE DEF G
    <2>1. \A k \in 0..n : k \in G
        BY <1>5, <1>6, CountsUp, Zenon
    <2>2. n \in 0..n
        OBVIOUS
    <2> QED BY <2>1, <2>2
<1>8. n + 1 - n = 1 /\ 1 - 1 = 0
    OBVIOUS
<1>9. Goes(1)
    BY <1>7, <1>8
<1>10. Kept(1) = {j \in 1..n : Stays(j)}
    OBVIOUS
<1> HIDE DEF Kept
<1> QED BY <1>1, <1>2, <1>8, <1>9, <1>10 DEF Goes

KnownFirst(k, old, m, new) == \A i \in 1..m : new[i].id \in Ids(old) <=> i <= k
Filled(w, u, k, m, new, hot) ==
    \A i \in 1..m : w[i] = IF i <= k THEN u[i] ELSE Painted(new, hot, i)

\* New rows that all come after the ones that stay are appended.
LEMMA InsertionsFill ==
    ASSUME NEW S, NEW u \in Seq(S), NEW old, NEW new, NEW hot, NEW m \in Nat, NEW k \in Nat,
           k <= m, m = Len(new), k = Len(u),
           \A i \in 1..m : Painted(new, hot, i) \in S,
           KnownFirst(k, old, m, new)
    PROVE  /\ Insertions(u, old, new, hot) \in Seq(S)
           /\ Len(Insertions(u, old, new, hot)) = m
           /\ Filled(Insertions(u, old, new, hot), u, k, m, new, hot)
<1>1. PICK filled :
          /\ Insertions(u, old, new, hot) = filled[m] /\ filled[0] = u
          /\ \A i \in 1..m :
                filled[i] = IF new[i].id \in Ids(old) THEN filled[i - 1]
                            ELSE RowInserted(filled[i - 1], i, Painted(new, hot, i))
    <2>1. PICK filled : Inserting(filled, u, old, new, hot)
        BY InsertionsLoop
    <2> QED BY <2>1 DEF Inserting
<1> DEFINE Is(w, i) == /\ w \in Seq(S) /\ Len(w) = IF i <= k THEN k ELSE i
                       /\ \A j \in 1..Len(w) : w[j] = IF j <= k THEN u[j] ELSE Painted(new, hot, j)
           G == {i \in 0..m : Is(filled[i], i)}
<1>2. Is(u, 0)
    OBVIOUS
<1>3. ASSUME NEW i \in 1..m, Is(filled[i - 1], i - 1)
      PROVE  Is(filled[i], i)
    <2>1. PICK w \in Seq(S) : w = filled[i - 1]
        BY <1>3
    <2>2. PICK p \in S : p = Painted(new, hot, i)
        OBVIOUS
    <2>3. /\ Len(w) = IF i - 1 <= k THEN k ELSE i - 1
          /\ \A j \in 1..Len(w) : w[j] = IF j <= k THEN u[j] ELSE Painted(new, hot, j)
        BY <1>3, <2>1
    <2>4. CASE i <= k
        <3>1. filled[i] = w /\ i - 1 <= k
            BY <1>1, <2>1, <2>4 DEF KnownFirst
        <3> QED BY <2>1, <2>3, <2>4, <3>1
    <2>5. CASE ~(i <= k)
        <3>1. filled[i] = RowInserted(w, i, p) /\ Len(w) = i - 1
            <4>1. new[i].id \notin Ids(old) /\ (i - 1 <= k => i - 1 = k)
                BY <2>5 DEF KnownFirst
            <4>2. Len(w) = i - 1
                BY <2>3, <4>1
            <4> HIDE DEF Is
            <4>3. filled[i] = RowInserted(filled[i - 1], i, Painted(new, hot, i))
                BY <1>1, <4>1
            <4> QED BY <2>1, <2>2, <4>2, <4>3
        <3>2. i \in Nat /\ i # 0 /\ i = Len(w) + 1
            BY <3>1
        <3> HIDE DEF Is
        <3>3. RowInserted(w, i, p) = Append(w, p)
            <4>1. w \in Seq(S) /\ p \in S /\ i \in Nat /\ i # 0
                BY <2>1, <2>2, <3>2
            <4>2. i = Len(w) + 1 => RowInserted(w, i, p) = Append(w, p)
                BY <4>1, InsertedRow
            <4> QED BY <3>2, <4>2
        <3>4. /\ Append(w, p) \in Seq(S) /\ Len(Append(w, p)) = Len(w) + 1
              /\ \A j \in 1..Len(w) : Append(w, p)[j] = w[j]
              /\ Append(w, p)[Len(w) + 1] = p
            BY <2>1, <2>2, AppendProperties
        <3>5. /\ filled[i] \in Seq(S) /\ Len(filled[i]) = i
              /\ \A j \in 1..(i - 1) : filled[i][j] = w[j]
              /\ filled[i][i] = p
            BY <3>1, <3>2, <3>3, <3>4
        <3>6. \A j \in 1..(i - 1) : w[j] = IF j <= k THEN u[j] ELSE Painted(new, hot, j)
            BY <2>3, <3>1
        <3> QED BY <2>2, <2>5, <3>5, <3>6 DEF Is
    <2> QED BY <2>4, <2>5
<1> HIDE DEF Is
<1>4. 0 \in G
    BY <1>1, <1>2
<1>5. ASSUME NEW i \in Nat, i < m, i \in G PROVE i + 1 \in G
    <2>1. i + 1 \in 1..m /\ (i + 1) - 1 = i /\ i + 1 \in 0..m
        BY <1>5
    <2>2. Is(filled[(i + 1) - 1], (i + 1) - 1)
        BY <1>5, <2>1
    <2>3. Is(filled[i + 1], i + 1)
        BY <1>3, <2>1, <2>2
    <2> QED BY <2>1, <2>3
<1>6. Is(filled[m], m)
    <2> HIDE DEF G
    <2>1. \A i \in 0..m : i \in G
        BY <1>4, <1>5, CountsUp, Zenon
    <2>2. m \in 0..m
        OBVIOUS
    <2> QED BY <2>1, <2>2 DEF G
<1> QED BY <1>1, <1>6 DEF Is, Filled

Drawn(w, u, m, new, hot, places) ==
    \A i \in 1..m : w[i] = IF i \in places THEN Painted(new, hot, i) ELSE u[i]

\* The rows that changed, and only they, are painted.
LEMMA ChangesDraw ==
    ASSUME NEW S, NEW u \in Seq(S), NEW old, NEW new, NEW m \in Nat, NEW wasHot, NEW hot,
           m = Len(new), m = Len(u), \A i \in 1..m : Painted(new, hot, i) \in S
    PROVE  /\ Changes(u, old, new, wasHot, hot) \in Seq(S)
           /\ Len(Changes(u, old, new, wasHot, hot)) = m
           /\ Drawn(Changes(u, old, new, wasHot, hot), u, m, new, hot, Changed(old, new, wasHot, hot))
<1>0. PICK C : C = Changed(old, new, wasHot, hot)
    OBVIOUS
<1>1. PICK drawn :
          /\ Changes(u, old, new, wasHot, hot) = drawn[m] /\ drawn[0] = u
          /\ \A i \in 1..m :
                drawn[i] = IF i \in C THEN RowChanged(drawn[i - 1], i, Painted(new, hot, i))
                           ELSE drawn[i - 1]
    <2>1. PICK drawn : Changing(drawn, u, old, new, wasHot, hot)
        BY ChangesLoop
    <2> QED BY <1>0, <2>1 DEF Changing
<1> DEFINE Is(w, i) == /\ w \in Seq(S) /\ Len(w) = m
                       /\ \A j \in 1..m : w[j] = IF j <= i /\ j \in C THEN Painted(new, hot, j) ELSE u[j]
           G == {i \in 0..m : Is(drawn[i], i)}
<1>2. Is(u, 0)
    OBVIOUS
<1>3. ASSUME NEW i \in 1..m, Is(drawn[i - 1], i - 1)
      PROVE  Is(drawn[i], i)
    <2>1. PICK w \in Seq(S) : w = drawn[i - 1] /\ Len(w) = m
        BY <1>3
    <2>2. \A j \in 1..m : j <= i - 1 <=> j <= i /\ j # i
        OBVIOUS
    <2>3. \A j \in 1..m : w[j] = IF j <= i - 1 /\ j \in C THEN Painted(new, hot, j) ELSE u[j]
        BY <1>3, <2>1
    <2>4. CASE i \in C
        <3> HIDE DEF Is
        <3>1. PICK p \in S : p = Painted(new, hot, i)
            OBVIOUS
        <3>2. drawn[i] = RowChanged(w, i, p) /\ i \in Nat /\ i # 0
            BY <1>1, <2>1, <2>4, <3>1
        <3>3. /\ RowChanged(w, i, p) \in Seq(S) /\ Len(RowChanged(w, i, p)) = Len(w)
              /\ \A j \in 1..Len(w) : RowChanged(w, i, p)[j] = IF j = i THEN p ELSE w[j]
            <4>1. w \in Seq(S) /\ p \in S /\ i \in Nat /\ i # 0
                BY <2>1, <3>1, <3>2
            <4> QED BY <4>1, ChangedRow
        <3>4. /\ drawn[i] \in Seq(S) /\ Len(drawn[i]) = m
              /\ \A j \in 1..m : drawn[i][j] = IF j = i THEN p ELSE w[j]
            BY <2>1, <3>2, <3>3
        <3> QED BY <2>2, <2>3, <2>4, <3>1, <3>4 DEF Is
    <2>5. CASE i \notin C
        <3>1. drawn[i] = w
            BY <1>1, <2>1, <2>5
        <3> QED BY <2>1, <2>2, <2>3, <2>5, <3>1
    <2> QED BY <2>4, <2>5
<1> HIDE DEF Is
<1>4. 0 \in G
    BY <1>1, <1>2
<1>5. ASSUME NEW i \in Nat, i < m, i \in G PROVE i + 1 \in G
    <2>1. i + 1 \in 1..m /\ (i + 1) - 1 = i /\ i + 1 \in 0..m
        BY <1>5
    <2>2. Is(drawn[(i + 1) - 1], (i + 1) - 1)
        BY <1>5, <2>1
    <2>3. Is(drawn[i + 1], i + 1)
        BY <1>3, <2>1, <2>2
    <2> QED BY <2>1, <2>3
<1>6. Is(drawn[m], m)
    <2> HIDE DEF G
    <2>1. \A i \in 0..m : i \in G
        BY <1>4, <1>5, CountsUp, Zenon
    <2>2. m \in 0..m
        OBVIOUS
    <2> QED BY <2>1, <2>2 DEF G
<1>7. \A j \in 1..m : j <= m
    OBVIOUS
<1> QED BY <1>0, <1>1, <1>6, <1>7 DEF Is, Drawn

-----------------------------------------------------------------------------
(* The whole diff.                                                         *)

\* Rows of one snapshot that are in an earlier one come first, in its order.
Continues(old, new) ==
    \A i, j \in DOMAIN new : i < j /\ new[j].id \in Ids(old) =>
        \E x, y \in DOMAIN old : x < y /\ old[x].id = new[i].id /\ old[y].id = new[j].id

OneRowEach(table) == \A i, j \in DOMAIN table : table[i].id = table[j].id => i = j

\* The first k new rows are the old rows that stay, at the places f.
Staying(k, f, n, old, m, new) ==
    /\ KnownFirst(k, old, m, new)
    /\ \A i \in 1..k : old[f[i]].id = new[i].id
    /\ Increasing(f, k)
    /\ {f[i] : i \in 1..k} = {j \in 1..n : old[j].id \in Ids(new)}

LEMMA RowsThatStay ==
    ASSUME NEW n \in Nat, NEW old, NEW m \in Nat, NEW new, DOMAIN old = 1..n, DOMAIN new = 1..m,
           OneRowEach(old), Continues(old, new)
    PROVE  \E k \in 0..m : \E f \in [1..k -> 1..n] : Staying(k, f, n, old, m, new)
<1> DEFINE New == {i \in 1..(m + 1) : i = m + 1 \/ new[i].id \notin Ids(old)}
<1>1. New \in SUBSET Nat /\ m + 1 \in New
    OBVIOUS
<1>2. PICK x \in New : \A y \in New : x <= y
    BY <1>1, LeastOf
<1>3. x \in 1..(m + 1) /\ (x = m + 1 \/ new[x].id \notin Ids(old))
    BY <1>2
<1>4. PICK k \in 0..m : x = k + 1
    BY <1>3
<1>5. ASSUME NEW i \in 1..m
      PROVE  new[i].id \in Ids(old) <=> i <= k
    <2>1. CASE i <= k
        BY <1>2, <1>4, <2>1
    <2>2. CASE ~(i <= k)
        <3>1. x \in 1..m /\ new[x].id \notin Ids(old) /\ x <= i
            BY <1>3, <1>4, <2>2
        <3>2. ASSUME new[i].id \in Ids(old), x < i PROVE FALSE
            <4>1. \E y \in DOMAIN old : old[y].id = new[x].id
                BY <3>1, <3>2 DEF Continues
            <4> QED BY <3>1, <4>1 DEF Ids
        <3> QED BY <2>2, <3>1, <3>2
    <2> QED BY <2>1, <2>2
<1> HIDE DEF New
<1>6. \A i \in 1..k : i \in 1..m /\ \E y \in 1..n : old[y].id = new[i].id
    <2>1. ASSUME NEW i \in 1..k PROVE i \in 1..m /\ i <= k
        OBVIOUS
    <2> QED BY <1>5, <2>1 DEF Ids
<1> DEFINE f == [i \in 1..k |-> CHOOSE y \in 1..n : old[y].id = new[i].id]
<1>7. \A i \in 1..k : f[i] \in 1..n /\ old[f[i]].id = new[i].id
    BY <1>6
<1>8. f \in [1..k -> 1..n]
    BY <1>6
<1> HIDE DEF f
<1>9. ASSUME NEW i \in 1..k, NEW j \in 1..k, i < j
      PROVE  f[i] < f[j]
    <2>1. new[j].id \in Ids(old) /\ i \in DOMAIN new /\ j \in DOMAIN new
        BY <1>6 DEF Ids
    <2>2. PICK y \in DOMAIN old, z \in DOMAIN old : y < z /\ old[y].id = new[i].id /\ old[z].id = new[j].id
        <3>1. \E y, z \in DOMAIN old : y < z /\ old[y].id = new[i].id /\ old[z].id = new[j].id
            BY <1>9, <2>1 DEF Continues
        <3> QED BY <3>1
    <2>3. f[i] = y /\ f[j] = z
        BY <1>7, <2>2 DEF OneRowEach
    <2> QED BY <2>2, <2>3
<1>10. {f[i] : i \in 1..k} = {j \in 1..n : old[j].id \in Ids(new)}
    <2>1. ASSUME NEW i \in 1..k PROVE f[i] \in 1..n /\ old[f[i]].id \in Ids(new)
        BY <1>6, <1>7 DEF Ids
    <2>2. ASSUME NEW j \in 1..n, old[j].id \in Ids(new) PROVE \E i \in 1..k : f[i] = j
        <3>1. PICK i \in 1..m : new[i].id = old[j].id
            BY <2>2 DEF Ids
        <3>2. i <= k
            BY <1>5, <3>1 DEF Ids
        <3>3. i \in 1..k
            BY <3>2
        <3>4. f[i] = j
            BY <1>7, <3>1, <3>3 DEF OneRowEach
        <3> QED BY <3>3, <3>4
    <2> QED BY <2>1, <2>2
<1>11. Increasing(f, k)
    BY <1>9 DEF Increasing
<1>12. Staying(k, f, n, old, m, new)
    BY <1>5, <1>7, <1>10, <1>11 DEF Staying, KnownFirst
<1> QED BY <1>8, <1>12

\* What makes a function a list of rows, whatever its rows are.
Table(t) == \E n \in Nat : t = [i \in 1..n |-> t[i]]

LEMMA TableSeq ==
    ASSUME NEW t, Table(t), NEW S, \A i \in 1..Len(t) : t[i] \in S
    PROVE  t \in Seq(S) /\ Len(t) \in Nat /\ DOMAIN t = 1..Len(t) /\ t = [i \in 1..Len(t) |-> t[i]]
<1>1. PICK n \in Nat : t = [i \in 1..n |-> t[i]]
    BY DEF Table
<1> DEFINE T == {t[i] : i \in 1..n}
<1>2. t \in [1..n -> T]
    BY <1>1
<1>3. t \in Seq(T)
    BY <1>2, SeqDef
<1>4. Len(t) \in Nat /\ 1..Len(t) = 1..n
    BY <1>2, <1>3, LenProperties
<1>5. Len(t) = n
    BY <1>4
<1>6. t \in [1..n -> S]
    BY <1>1, <1>5
<1>7. t \in Seq(S)
    BY <1>6, SeqDef
<1> QED BY <1>1, <1>5, <1>7

\* Rows that stay unchanged look as they did, and all others as they are now.
Renewed(w, v, k, f, old, m, new, wasHot, hot) ==
    \A i \in 1..m : w[i] = IF i \in Changed(old, new, wasHot, hot) \/ i > k
                           THEN Painted(new, hot, i) ELSE v[f[i]]

\* What the diff makes of a view with a row for each old one.
LEMMA DiffMakes ==
    ASSUME NEW n \in Nat, NEW old, NEW m \in Nat, NEW new, NEW wasHot, NEW hot,
           NEW S, NEW v \in Seq(S),
           DOMAIN old = 1..n, n = Len(old), DOMAIN new = 1..m, m = Len(new),
           OneRowEach(old), Continues(old, new),
           n = Len(v), \A i \in 1..m : Painted(new, hot, i) \in S
    PROVE  /\ Notified(v, old, new, wasHot, hot) \in Seq(S)
           /\ Len(Notified(v, old, new, wasHot, hot)) = m
           /\ \E k \in 0..m : \E f \in [1..k -> 1..n] :
                  /\ Staying(k, f, n, old, m, new)
                  /\ Renewed(Notified(v, old, new, wasHot, hot), v, k, f, old, m, new, wasHot, hot)
<1>1. PICK k \in 0..m : \E f \in [1..k -> 1..n] : Staying(k, f, n, old, m, new)
    BY RowsThatStay
<1>2. PICK f \in [1..k -> 1..n] : Staying(k, f, n, old, m, new)
    BY <1>1
<1>3. /\ f \in [1..k -> 1..n]
      /\ \A i \in 1..m : new[i].id \in Ids(old) <=> i <= k
      /\ \A i \in 1..k : old[f[i]].id = new[i].id
      /\ Increasing(f, k)
      /\ {f[i] : i \in 1..k} = {j \in 1..n : old[j].id \in Ids(new)}
    BY <1>2 DEF Staying, KnownFirst
<1>4. PICK left : left = Deletions(v, old, new)
    OBVIOUS
<1>5. left \in Seq(S) /\ Thinned(left, v, {j \in 1..n : old[j].id \in Ids(new)}, 0)
    BY <1>4, DeletionsLeave
<1>6. PICK q \in Nat : q = Len(left)
    BY <1>5, LenProperties
<1>7. PICK e \in [1..q -> 1..n] :
          /\ Increasing(e, q)
          /\ {e[j] : j \in 1..q} = {j \in 1..n : old[j].id \in Ids(new)}
          /\ \A j \in 1..q : left[j] = v[e[j]]
    BY <1>5, <1>6 DEF Thinned
<1>8. k = q /\ e = f
    <2>1. k \in Nat /\ f \in [1..k -> Int] /\ e \in [1..q -> Int]
        BY <1>1, <1>3, <1>7
    <2> QED BY <1>3, <1>6, <1>7, <2>1, OneCount
<1>9. PICK filled : filled = Insertions(left, old, new, hot)
    OBVIOUS
<1>10. /\ filled \in Seq(S) /\ Len(filled) = m
       /\ \A i \in 1..m : filled[i] = IF i <= k THEN left[i] ELSE Painted(new, hot, i)
    <2>1. /\ left \in Seq(S) /\ k = Len(left) /\ k \in Nat /\ k <= m /\ m = Len(new)
          /\ \A i \in 1..m : Painted(new, hot, i) \in S
          /\ KnownFirst(k, old, m, new)
        BY <1>1, <1>3, <1>5, <1>6, <1>8 DEF KnownFirst
    <2>2. filled \in Seq(S) /\ Len(filled) = m /\ Filled(filled, left, k, m, new, hot)
        <3>1. /\ Insertions(left, old, new, hot) \in Seq(S)
              /\ Len(Insertions(left, old, new, hot)) = m
              /\ Filled(Insertions(left, old, new, hot), left, k, m, new, hot)
            BY <2>1, InsertionsFill
        <3> QED BY <1>9, <3>1
    <2> QED BY <2>2 DEF Filled
<1>11. PICK drawn : drawn = Changes(filled, old, new, wasHot, hot)
    OBVIOUS
<1>12. /\ drawn \in Seq(S) /\ Len(drawn) = m
       /\ \A i \in 1..m : drawn[i] = IF i \in Changed(old, new, wasHot, hot)
                                     THEN Painted(new, hot, i) ELSE filled[i]
    <2>1. /\ drawn \in Seq(S) /\ Len(drawn) = m
          /\ Drawn(drawn, filled, m, new, hot, Changed(old, new, wasHot, hot))
        BY <1>10, <1>11, ChangesDraw
    <2> QED BY <2>1 DEF Drawn
<1>13. drawn = Notified(v, old, new, wasHot, hot)
    BY <1>4, <1>9, <1>11 DEF Notified
<1>14. ASSUME NEW i \in 1..m
       PROVE  drawn[i] = IF i \in Changed(old, new, wasHot, hot) \/ i > k
                         THEN Painted(new, hot, i) ELSE v[f[i]]
    <2>1. CASE i > k
        BY <1>1, <1>10, <1>12, <2>1
    <2>2. CASE ~(i > k)
        <3>1. i \in 1..k /\ i <= k
            BY <1>1, <2>2
        <3>2. filled[i] = v[f[i]]
            BY <1>7, <1>8, <1>10, <3>1
        <3> QED BY <1>12, <2>2, <3>2
    <2> QED BY <2>1, <2>2
<1>15. Renewed(drawn, v, k, f, old, m, new, wasHot, hot)
    BY <1>14 DEF Renewed
<1> QED BY <1>1, <1>2, <1>12, <1>13, <1>15

\* The tick's three loops turn a view of the old snapshot into a view of the
\* new one, every notification at an index that means the row it is about.
THEOREM DiffIsExact ==
    ASSUME NEW old, Table(old), OneRowEach(old), NEW new, Table(new), Continues(old, new),
           NEW wasHot, NEW hot
    PROVE  Notified(AllPainted(old, wasHot), old, new, wasHot, hot) = AllPainted(new, hot)
<1>1. PICK n \in Nat : n = Len(old) /\ DOMAIN old = 1..n
    BY TableSeq
<1>2. PICK m \in Nat : m = Len(new) /\ DOMAIN new = 1..m
    BY TableSeq
<1>3. PICK v : v = AllPainted(old, wasHot)
    OBVIOUS
<1> DEFINE S == {Painted(old, wasHot, i) : i \in 1..n} \union {Painted(new, hot, i) : i \in 1..m}
<1>4. v \in Seq(S) /\ Len(v) = n /\ \A i \in 1..n : v[i] = Painted(old, wasHot, i)
    BY <1>1, <1>3 DEF AllPainted
<1>5. \A i \in 1..m : Painted(new, hot, i) \in S
    OBVIOUS
<1> HIDE DEF S
<1>6. PICK w : w = Notified(v, old, new, wasHot, hot)
    OBVIOUS
<1>7. w \in Seq(S) /\ Len(w) = m /\ \E k \in 0..m : \E f \in [1..k -> 1..n] :
          Staying(k, f, n, old, m, new) /\ Renewed(w, v, k, f, old, m, new, wasHot, hot)
    BY <1>1, <1>2, <1>4, <1>5, <1>6, DiffMakes
<1>8. PICK k \in 0..m : \E f \in [1..k -> 1..n] :
          Staying(k, f, n, old, m, new) /\ Renewed(w, v, k, f, old, m, new, wasHot, hot)
    BY <1>7
<1>9. PICK f \in [1..k -> 1..n] :
          Staying(k, f, n, old, m, new) /\ Renewed(w, v, k, f, old, m, new, wasHot, hot)
    BY <1>8
<1>10. /\ k \in 0..m /\ f \in [1..k -> 1..n]
       /\ \A i \in 1..k : old[f[i]].id = new[i].id
       /\ w \in Seq(S) /\ Len(w) = m
       /\ \A i \in 1..m : w[i] = IF i \in Changed(old, new, wasHot, hot) \/ i > k
                                 THEN Painted(new, hot, i) ELSE v[f[i]]
    BY <1>7, <1>8, <1>9 DEF Staying, Renewed
<1>11. ASSUME NEW i \in 1..m
      PROVE  w[i] = Painted(new, hot, i)
    <2>1. CASE i \in Changed(old, new, wasHot, hot) \/ i > k
        BY <1>10, <2>1
    <2>2. CASE ~(i \in Changed(old, new, wasHot, hot) \/ i > k)
        <3>1. i \in 1..k
            BY <1>10, <2>2
        <3>2. PICK j \in 1..n : j = f[i]
            BY <1>10, <3>1
        <3>3. w[i] = Painted(old, wasHot, j) /\ old[j].id = new[i].id
            BY <1>4, <1>10, <2>2, <3>1, <3>2
        <3>4. old[j].data = new[i].data /\ (old[j].id \in wasHot) = (old[j].id \in hot)
            BY <1>1, <1>2, <2>2, <3>2, <3>3 DEF Changed
        <3> QED BY <1>1, <1>2, <3>2, <3>3, <3>4 DEF Painted
    <2> QED BY <2>1, <2>2
<1>12. AllPainted(new, hot) = [i \in 1..m |-> Painted(new, hot, i)]
    BY <1>2 DEF AllPainted
<1>13. w = [i \in 1..m |-> w[i]]
    BY <1>10
<1> QED BY <1>3, <1>6, <1>11, <1>12, <1>13

\* A view that only has as many rows as the old snapshot has gets as many as the new.
LEMMA DiffLayout ==
    ASSUME NEW old, Table(old), OneRowEach(old), NEW new, Table(new), Continues(old, new),
           NEW wasHot, NEW hot, NEW v, Table(v), Len(v) = Len(old)
    PROVE  Repainted(Notified(v, old, new, wasHot, hot), new, hot) = AllPainted(new, hot)
<1>1. PICK n \in Nat : n = Len(old) /\ DOMAIN old = 1..n
    BY TableSeq
<1>2. PICK m \in Nat : m = Len(new) /\ DOMAIN new = 1..m
    BY TableSeq
<1> DEFINE S == {v[i] : i \in 1..n} \union {Painted(new, hot, i) : i \in 1..m}
<1>3. v \in Seq(S)
    BY <1>1, TableSeq
<1>4. \A i \in 1..m : Painted(new, hot, i) \in S
    OBVIOUS
<1> HIDE DEF S
<1>5. PICK w : w = Notified(v, old, new, wasHot, hot)
    OBVIOUS
<1>6. w \in Seq(S) /\ Len(w) = m
    BY <1>1, <1>2, <1>3, <1>4, <1>5, DiffMakes
<1>7. DOMAIN w = 1..m
    BY <1>6
<1> QED BY <1>2, <1>5, <1>7 DEF Repainted, AllPainted

-----------------------------------------------------------------------------
(* What the tracker does to the rows of an earlier snapshot.               *)

\* Ids of the table that are in s come first there, in the table's order.
Before(table, s) ==
    \A i, j \in DOMAIN s : i < j /\ s[j] \in Ids(table) =>
        \E x, y \in DOMAIN table : x < y /\ table[x].id = s[i] /\ table[y].id = s[j]

\* The same of two queues.
KeepsOrder(old, new) ==
    \A i, j \in DOMAIN new : i < j /\ new[j] \in RangeOf(old) =>
        \E x, y \in DOMAIN old : x < y /\ old[x] = new[i] /\ old[y] = new[j]

LEMMA FollowsKeepsOrder ==
    ASSUME NEW S, NEW old \in Seq(S), NEW new \in Seq(S), Follows(old, new)
    PROVE  KeepsOrder(old, new)
<1>1. PICK kept : kept = Retain(old, RangeOf(new))
    OBVIOUS
<1>2. PICK P : P = Places(old, RangeOf(new))
    OBVIOUS
<1>3. PICK n \in Nat : n = Len(old) /\ DOMAIN old = 1..n
    BY LenProperties
<1>4. PICK l \in Nat : l = Len(new) /\ DOMAIN new = 1..l
    BY LenProperties
<1>5. PICK q \in Nat : q = Cardinality(P)
    BY <1>2, <1>3, RanksCount
<1> DEFINE rank(p) == Rank(old, RangeOf(new), p)
<1>6. /\ \A p \in P : p \in 1..n /\ rank(p) \in 1..q
      /\ \A o, p \in P : o < p => rank(o) < rank(p)
      /\ \A i \in 1..q : \E p \in P : rank(p) = i
    <2>1. \A p \in P : p \in 1..n
        BY <1>2, <1>3 DEF Places
    <2>2. /\ \A p \in P : rank(p) \in 1..q
          /\ \A o, p \in P : o < p => rank(o) < rank(p)
          /\ \A i \in 1..q : \E p \in P : rank(p) = i
        BY <1>2, <1>3, <1>5, RanksCount
    <2> QED BY <2>1, <2>2
<1>7. /\ kept \in Seq(S) /\ DOMAIN kept = 1..q
      /\ \A p \in P : kept[rank(p)] = old[p]
    BY <1>1, <1>2, <1>5, RetainKeeps
<1> HIDE DEF rank
<1>8. Len(kept) = q
    BY <1>5, <1>7, LenProperties
<1>9. /\ SubSeq(new, 1, q) = kept
      /\ \A i \in (q + 1)..l : new[i] \notin RangeOf(old)
    BY <1>1, <1>4, <1>8 DEF Follows
<1>10. ASSUME NEW i \in 1..q, i <= l
       PROVE  new[i] = kept[i]
    <2>1. i \in 1..l /\ i \in 1..Len(new)
        BY <1>4, <1>10
    <2>2. SubSeq(new, 1, q)[i] = new[1 + i - 1]
        BY <1>5, <2>1
    <2>3. 1 + i - 1 = i
        OBVIOUS
    <2> QED BY <1>9, <2>2, <2>3
<1>11. ASSUME NEW i \in 1..l, NEW j \in 1..l, i < j, new[j] \in RangeOf(old)
       PROVE  \E x, y \in DOMAIN old : x < y /\ old[x] = new[i] /\ old[y] = new[j]
    <2>1. i \in 1..q /\ j \in 1..q
        BY <1>9, <1>11
    <2>2. PICK x \in P : rank(x) = i
        BY <1>6, <2>1
    <2>3. PICK y \in P : rank(y) = j
        BY <1>6, <2>1
    <2>4. x < y
        <3>1. x \in 1..n /\ y \in 1..n
            BY <1>6, <2>2, <2>3
        <3>2. ~(y < x) /\ x # y
            BY <1>6, <1>11, <2>2, <2>3
        <3> QED BY <3>1, <3>2
    <2>5. old[x] = new[i] /\ old[y] = new[j]
        BY <1>7, <1>10, <2>1, <2>2, <2>3
    <2> QED BY <1>3, <1>6, <2>2, <2>3, <2>4, <2>5
<1> QED BY <1>4, <1>11 DEF KeepsOrder

\* No row is taken away from the ids that were given out.
LEMMA IssuedStays ==
    ASSUME TInv, [TrackerNext]_trackerVars
    PROVE  Issued \subseteq Issued'
<1>1. next_id \in Nat
    BY TrackerAssumption DEF TInv, TrackerTypeOK
<1>2. CASE TakeId
    BY <1>1, <1>2 DEF TakeId, Issued
<1>3. CASE \E id \in registering : Insert(id)
    BY <1>3 DEF Insert, Issued
<1>4. CASE \E id \in Issued : Setter(id)
    <2>1. UNCHANGED <<next_id, registering>>
        BY <1>4, SettersModify DEF TInv, Modify
    <2> QED BY <2>1 DEF Issued
<1>5. CASE Snapshot \/ TrackerTick \/ UNCHANGED trackerVars
    BY <1>5 DEF Snapshot, TrackerTick, trackerVars, Issued
<1> QED BY <1>2, <1>3, <1>4, <1>5 DEF TrackerNext

\* A row of the table that is not in the queue any more does not return to it,
\* so that what holds of one step holds from one snapshot to the next.
LEMMA BeforeStays ==
    ASSUME TInv, [TrackerNext]_trackerVars, TInv', NEW table,
           Ids(table) \subseteq Issued, Before(table, order)
    PROVE  Before(table, order')
<1>1. CASE UNCHANGED trackerVars
    BY <1>1 DEF trackerVars
<1>2. CASE TrackerNext
    <2>1. order \in Seq(1..MaxId) /\ order' \in Seq(1..MaxId)
        BY DEF TInv, TrackerTypeOK
    <2>2. PICK a : a = order
        OBVIOUS
    <2>3. PICK b : b = order'
        OBVIOUS
    <2>4. KeepsOrder(a, b)
        BY <1>2, <2>1, <2>2, <2>3, OrderStep, FollowsKeepsOrder
    <2>5. \A j \in DOMAIN b : b[j] \in Ids(table) => b[j] \in RangeOf(a)
        <3>1. RangeOf(a) = DOMAIN connections /\ RangeOf(b) = DOMAIN connections'
            BY <2>2, <2>3 DEF TInv, OrderMatchesConnections
        <3>2. \A id \in Issued \ DOMAIN connections : id \notin DOMAIN connections'
            BY <1>2, GoneStep
        <3> QED BY <3>1, <3>2 DEF RangeOf
    <2>6. Before(table, a)
        BY <2>2
    <2>7. Before(table, b)
        <3>1. SUFFICES ASSUME NEW i \in DOMAIN b, NEW j \in DOMAIN b, i < j, b[j] \in Ids(table)
                       PROVE  \E x, y \in DOMAIN table : x < y /\ table[x].id = b[i] /\ table[y].id = b[j]
            BY DEF Before
        <3>2. PICK k \in DOMAIN a, l \in DOMAIN a : k < l /\ a[k] = b[i] /\ a[l] = b[j]
            BY <2>4, <2>5, <3>1 DEF KeepsOrder
        <3> QED BY <2>6, <3>1, <3>2 DEF Before
    <2> QED BY <2>3, <2>7
<1> QED BY <1>1, <1>2

-----------------------------------------------------------------------------
(* The view shows the snapshot.                                            *)

\* The rows of the last snapshot, as far as the tracker has got since.
RowsInv ==
    /\ Table(rows) /\ OneRowEach(rows)
    /\ Ids(rows) \subseteq Issued
    /\ Before(rows, order)

\* As long as no resize swallowed rows, the view has one for each row taken.
ViewInv ==
    /\ windows \in BOOLEAN /\ swallowed \in BOOLEAN
    /\ last \in {"closed", "tick", "resize"}
    /\ last = "resize" => windows
    /\ last # "closed" /\ ~swallowed => Table(view) /\ Len(view) = Len(rows)
    /\ ViewIsSnapshot

WInv == TInv /\ RowsInv /\ ViewInv

\* A view that was painted from a list of rows has a row for each.
LEMMA PaintedTable ==
    ASSUME NEW table, Table(table), NEW hot
    PROVE  Table(AllPainted(table, hot)) /\ Len(AllPainted(table, hot)) = Len(table)
<1>1. PICK n \in Nat : n = Len(table) /\ DOMAIN table = 1..n
    BY TableSeq
<1>2. PICK w : w = AllPainted(table, hot)
    OBVIOUS
<1>3. w = [i \in 1..n |-> Painted(table, hot, i)]
    BY <1>1, <1>2 DEF AllPainted
<1>4. w = [i \in 1..n |-> w[i]]
    BY <1>3
<1>5. Table(w)
    BY <1>4 DEF Table
<1>6. Len(w) \in Nat /\ 1..Len(w) = 1..n
    BY <1>3, <1>5, TableSeq
<1>7. Len(w) = n
    BY <1>6
<1> QED BY <1>1, <1>2, <1>5, <1>7

\* Two snapshots with the same ids have as many rows.
LEMMA SameRows ==
    ASSUME NEW old, NEW new, Table(old), Table(new), OneRowEach(old), Continues(old, new),
           Ids(old) = Ids(new)
    PROVE  Len(old) = Len(new)
<1>1. PICK n \in Nat : n = Len(old) /\ DOMAIN old = 1..n
    BY TableSeq
<1>2. PICK m \in Nat : m = Len(new) /\ DOMAIN new = 1..m
    BY TableSeq
<1>3. PICK k \in 0..m : \E f \in [1..k -> 1..n] : Staying(k, f, n, old, m, new)
    BY <1>1, <1>2, RowsThatStay
<1>4. PICK f \in [1..k -> 1..n] : Staying(k, f, n, old, m, new)
    BY <1>3
<1>5. k = m
    <2>1. \A i \in 1..m : i <= k
        BY <1>2, <1>4 DEF Staying, KnownFirst, Ids
    <2> QED BY <1>3, <2>1
<1>6. {f[i] : i \in 1..k} = 1..n
    BY <1>1, <1>4 DEF Staying, Ids
<1>7. PICK all \in [1..n -> Int] : \A i \in 1..n : all[i] = i
    <2>1. [i \in 1..n |-> i] \in [1..n -> Int]
        OBVIOUS
    <2> QED BY <2>1
<1>8. Increasing(all, n) /\ {all[i] : i \in 1..n} = 1..n
    BY <1>7 DEF Increasing
<1>9. k \in Nat /\ f \in [1..k -> Int] /\ Increasing(f, k)
    BY <1>3, <1>4 DEF Staying
<1>10. k = n
    BY <1>6, <1>7, <1>8, <1>9, OneCount
<1> QED BY <1>1, <1>2, <1>5, <1>10

LEMMA WindowInitInv == WindowInit => WInv
<1> SUFFICES ASSUME WindowInit PROVE WInv
    OBVIOUS
<1>1. TInv /\ order = <<>> /\ rows = <<>> /\ last = "closed" /\ swallowed = FALSE /\ windows \in BOOLEAN
    BY TrackerInitInv DEF WindowInit, TrackerInit
<1>2. DOMAIN rows = {} /\ DOMAIN order = {} /\ rows = [i \in 1..0 |-> rows[i]]
    BY <1>1
<1>3. RowsInv
    BY <1>2 DEF RowsInv, Table, OneRowEach, Ids, Before
<1>4. ViewInv
    BY <1>1 DEF ViewInv, ViewIsSnapshot
<1> QED BY <1>1, <1>3, <1>4 DEF WInv

\* The rows of a new snapshot continue those of the one before.
LEMMA TakesRows ==
    ASSUME TInv, TInv', RowsInv, TakeRows
    PROVE  RowsInv' /\ Continues(rows, rows')
<1>1. PICK s : s = order'
    OBVIOUS
<1>2. PICK t : t = rows'
    OBVIOUS
<1>3. [TrackerNext]_trackerVars
    BY DEF TakeRows, TrackerNext
<1>4. /\ s \in Seq(1..MaxId) /\ Distinct(s)
      /\ RangeOf(s) \subseteq Issued'
    BY <1>1 DEF TInv, TrackerTypeOK, OrderMatchesConnections, Distinct
<1>5. PICK n \in Nat : DOMAIN s = 1..n
    BY <1>4, LenProperties
<1>6. DOMAIN t = 1..n /\ t = [i \in 1..n |-> t[i]] /\ \A i \in 1..n : t[i].id = s[i]
    BY <1>1, <1>2, <1>5 DEF TakeRows, Taken
<1>7. Table(t) /\ OneRowEach(t) /\ Before(t, s)
    <2>1. Table(t)
        BY <1>6 DEF Table
    <2>2. OneRowEach(t)
        BY <1>4, <1>5, <1>6 DEF OneRowEach, Distinct
    <2>3. Before(t, s)
        BY <1>5, <1>6 DEF Before
    <2> QED BY <2>1, <2>2, <2>3
<1>8. Ids(t) \subseteq Issued'
    BY <1>4, <1>5, <1>6 DEF Ids, RangeOf
<1>9. Before(rows, s)
    BY <1>1, <1>3, BeforeStays DEF RowsInv
<1>10. Continues(rows, t)
    BY <1>5, <1>6, <1>9 DEF Before, Continues
<1> QED BY <1>1, <1>2, <1>7, <1>8, <1>10 DEF RowsInv

LEMMA WindowStep ==
    ASSUME WInv, [WindowNext]_tableVars
    PROVE  WInv'
<1>1. [TrackerNext]_trackerVars
    BY WindowStepIsTrackerStep
<1>2. TInv /\ TInv'
    BY <1>1, TrackerStepInv DEF WInv
<1>3. CASE UNCHANGED windowVars
    <2>1. UNCHANGED <<windows, rows, top, view, last, swallowed>>
        BY <1>3 DEF windowVars
    <2>2. ViewInv'
        BY <2>1 DEF WInv, ViewInv, ViewIsSnapshot, AllPainted, Painted, Table
    <2>3. RowsInv'
        <3>1. PICK t : t = rows
            OBVIOUS
        <3>2. Before(t, order')
            BY <1>1, <1>2, <3>1, BeforeStays DEF WInv, RowsInv
        <3>3. Ids(t) \subseteq Issued'
            BY <1>1, <1>2, <3>1, IssuedStays DEF WInv, RowsInv
        <3>4. Table(t) /\ OneRowEach(t) /\ t = rows'
            BY <2>1, <3>1 DEF WInv, RowsInv
        <3> QED BY <3>2, <3>3, <3>4 DEF RowsInv
    <2> QED BY <1>2, <2>2, <2>3 DEF WInv
<1>4. ASSUME TakeRows
      PROVE  RowsInv' /\ Continues(rows, rows') /\ windows' = windows
    BY <1>2, <1>4, TakesRows DEF WInv, TakeRows
<1> DEFINE Shows == Table(view') /\ Len(view') = Len(rows') /\ view' = AllPainted(rows', top')
<1>5. ASSUME RowsInv', view' = AllPainted(rows', top')
      PROVE  Shows
    <2>1. PICK t : t = rows'
        OBVIOUS
    <2>2. PICK w : w = view'
        OBVIOUS
    <2>3. Table(t) /\ w = AllPainted(t, top')
        BY <1>5, <2>1, <2>2 DEF RowsInv
    <2>4. Table(w) /\ Len(w) = Len(t)
        BY <2>3, PaintedTable
    <2> QED BY <1>5, <2>1, <2>2, <2>4
<1>6. CASE Open
    <2>1. TakeRows /\ last' = "tick" /\ swallowed' = swallowed /\ view' = AllPainted(rows', top')
        BY <1>6 DEF Open
    <2>2. ViewInv'
        BY <1>4, <1>5, <2>1 DEF WInv, ViewInv, ViewIsSnapshot
    <2> QED BY <1>2, <1>4, <2>1, <2>2 DEF WInv
<1>7. CASE Tick
    <2>1. TakeRows /\ last # "closed" /\ last' = "tick" /\ swallowed' = swallowed
        BY <1>7 DEF Tick
    <2>2. ASSUME ~swallowed PROVE view' = AllPainted(rows', top')
        <3>1. PICK old : old = rows
            OBVIOUS
        <3>2. PICK new : new = rows'
            OBVIOUS
        <3>3. PICK hot : hot = top'
            OBVIOUS
        <3>4. PICK after : after = Notified(view, old, new, top, hot)
            OBVIOUS
        <3>5. view' = IF windows THEN Repainted(after, new, hot) ELSE after
            BY <1>7, <3>1, <3>2, <3>3, <3>4 DEF Tick
        <3>6. /\ Table(old) /\ OneRowEach(old) /\ Table(new) /\ Continues(old, new)
              /\ Table(view) /\ Len(view) = Len(old)
            BY <1>4, <2>1, <2>2, <3>1, <3>2 DEF WInv, RowsInv, ViewInv
        <3>7. CASE windows
            <4>1. Repainted(after, new, hot) = AllPainted(new, hot)
                BY <3>4, <3>6, DiffLayout
            <4> QED BY <3>2, <3>3, <3>5, <3>7, <4>1
        <3>8. CASE ~windows
            <4>1. view = AllPainted(old, top)
                BY <2>1, <2>2, <3>1, <3>8 DEF WInv, ViewInv, ViewIsSnapshot
            <4>2. after = AllPainted(new, hot)
                BY <3>4, <3>6, <4>1, DiffIsExact
            <4> QED BY <3>2, <3>3, <3>5, <3>8, <4>2
        <3> QED BY <3>7, <3>8
    <2>3. ViewInv'
        BY <1>4, <1>5, <2>1, <2>2 DEF WInv, ViewInv, ViewIsSnapshot
    <2> QED BY <1>2, <1>4, <2>1, <2>3 DEF WInv
<1>8. CASE Resize
    <2>1. /\ TakeRows /\ windows /\ last # "closed" /\ last' = "resize" /\ view' = view
          /\ swallowed' = (swallowed \/ Ids(rows') # Ids(rows))
        BY <1>8 DEF Resize
    <2>2. ASSUME ~swallowed' PROVE ~swallowed /\ Len(rows') = Len(rows)
        <3>1. PICK old : old = rows
            OBVIOUS
        <3>2. PICK new : new = rows'
            OBVIOUS
        <3>3. ~swallowed /\ Ids(old) = Ids(new)
            BY <2>1, <2>2, <3>1, <3>2
        <3>4. Table(old) /\ OneRowEach(old) /\ Table(new) /\ Continues(old, new)
            BY <1>4, <2>1, <3>1, <3>2 DEF WInv, RowsInv
        <3>5. Len(old) = Len(new)
            BY <3>3, <3>4, SameRows
        <3> QED BY <3>1, <3>2, <3>3, <3>5
    <2>3. swallowed' \in BOOLEAN
        BY <2>1
    <2>4. ViewInv'
        BY <1>4, <2>1, <2>2, <2>3 DEF WInv, ViewInv, ViewIsSnapshot, Table
    <2> QED BY <1>2, <1>4, <2>1, <2>4 DEF WInv
<1> QED BY <1>3, <1>6, <1>7, <1>8 DEF WindowNext, tableVars

\* After a tick the list view shows the snapshot, whatever happened since the
\* last one: the deletions, insertions and changes, each at its index of the
\* moment, add up to it.
THEOREM ViewShowsSnapshot == WindowSpec => []ViewIsSnapshot
<1>1. WInv => ViewIsSnapshot
    BY DEF WInv, ViewInv
<1> QED BY <1>1, WindowInitInv, WindowStep, PTL DEF WindowSpec

=============================================================================
