-------------------------------- MODULE Tray --------------------------------
(***************************************************************************)
(* The Windows build's desktop side: TrayManager of tray.rs with its       *)
(* activity task, its message loop and what a menu entry starts, the two   *)
(* flags of open_traffic_window (traffic_window.rs), and the way out       *)
(* through main.  Threads meet in one message queue and in atomic flags.   *)
(*                                                                         *)
(* A chosen menu entry is a window message first: dispatching it puts an   *)
(* event into a channel, which the loop empties when the next message      *)
(* comes.  What is drawn, and the registry's values, are left out.         *)
(***************************************************************************)
EXTENDS Integers, Sequences

CONSTANTS
    QueueSize,   \* how many posted messages the system holds for a thread
    MaxChoices   \* bound: how many times the user chooses a menu entry

ASSUME TrayAssumption == QueueSize \in Nat \ {0} /\ MaxChoices \in Nat

Entries == {"Quit", "Autostart", "Statistics", "Traffic"}
IconMessages == {"active", "inactive"}                       \* WM_USER + 1
Messages == Entries \union IconMessages \union {"quit", "tooltip"}   \* + 2, + 3

VARIABLES
    main,        \* where the main thread is
    message,     \* the message the loop has taken
    queue,       \* the messages posted to it
    menu,        \* MenuEvent's channel
    choices,     \* entries chosen so far
    forcing,     \* the thread that exits after FORCE_EXIT_TIMEOUT_SECS runs
    traffic_active, currently_active,
    task,        \* the activity task: asleep, or about to post
    dropped,     \* the last icon update was not posted
    icon,        \* the icon shows activity
    want_visible, thread_running,
    ui,          \* the traffic window's thread
    visible,     \* its window is on the screen
    asked,       \* history: the window was asked for and not closed since
    is_dialog_open,
    dialog,      \* the statistics' message box
    checked,     \* the check mark of "Run at Startup"
    registered   \* the Run key's value is there

loopVars == <<main, message, queue, menu, choices, forcing>>
activity == <<traffic_active, currently_active, task, dropped>>
window == <<want_visible, thread_running, ui, visible, asked>>
box == <<is_dialog_open, dialog>>
autostart == <<checked, registered>>
vars == <<loopVars, activity, icon, window, box, autostart>>

Running == main # "exited"
HasThreadId == main # "starting"

Init ==
    /\ main = "starting" /\ message = "tooltip"
    /\ queue = <<>> /\ menu = <<>> /\ choices = 0 /\ forcing = FALSE
    /\ traffic_active = FALSE /\ currently_active = FALSE
    /\ task = "asleep" /\ dropped = FALSE /\ icon = FALSE
    /\ want_visible = FALSE /\ thread_running = FALSE
    /\ ui = "none" /\ visible = FALSE /\ asked = FALSE
    /\ is_dialog_open = FALSE /\ dialog = "none"
    /\ registered \in BOOLEAN /\ checked = registered

-----------------------------------------------------------------------------
(* Posting.                                                                *)

\* PostThreadMessage fails when the queue is full.
Posts == HasThreadId /\ Len(queue) < QueueSize
Post(m) == queue' = IF Posts THEN Append(queue, m) ELSE queue
IconMessage(active) == IF active THEN "active" ELSE "inactive"

\* The relay has passed bytes on.
Traffic ==
    /\ Running
    /\ traffic_active' = TRUE
    /\ UNCHANGED <<loopVars, currently_active, task, dropped, icon, window, box, autostart>>

\* Every ACTIVITY_CHECK_INTERVAL_MS; a change is posted.
Sample ==
    /\ Running /\ task = "asleep"
    /\ traffic_active' = FALSE
    /\ currently_active' = traffic_active
    /\ task' = IF traffic_active # currently_active THEN "posting" ELSE "asleep"
    /\ UNCHANGED <<loopVars, dropped, icon, window, box, autostart>>

\* Slip: the flag is read again when the update is posted.
PostIconUpdate_ReadsAgain ==
    /\ Running /\ task = "posting"
    /\ task' = "asleep"
    /\ Post(IconMessage(traffic_active))
    /\ dropped' = ~Posts
    /\ UNCHANGED <<main, message, menu, choices, forcing, traffic_active, currently_active,
                   icon, window, box, autostart>>

PostIconUpdate ==
    /\ Running /\ task = "posting"
    /\ task' = "asleep"
    /\ Post(IconMessage(currently_active))
    /\ dropped' = ~Posts
    /\ UNCHANGED <<main, message, menu, choices, forcing, traffic_active, currently_active,
                   icon, window, box, autostart>>

\* The pointer moves over the icon; the thread that hears of it is throttled.
Hover ==
    /\ Running /\ Post("tooltip")
    /\ UNCHANGED <<main, message, menu, choices, forcing, activity, icon, window, box, autostart>>

\* The user chooses an entry; its message is never refused.
Choose(entry) ==
    /\ Running /\ HasThreadId /\ choices < MaxChoices
    /\ choices' = choices + 1
    /\ queue' = Append(queue, entry)
    /\ UNCHANGED <<main, message, menu, forcing, activity, icon, window, box, autostart>>

-----------------------------------------------------------------------------
(* run_message_loop.                                                       *)

StartLoop ==
    /\ main = "starting" /\ main' = "waiting"
    /\ UNCHANGED <<message, queue, menu, choices, forcing, activity, icon, window, box, autostart>>

GetMessage ==
    /\ main = "waiting" /\ queue # <<>>
    /\ main' = "draining" /\ message' = Head(queue) /\ queue' = Tail(queue)
    /\ UNCHANGED <<menu, choices, forcing, activity, icon, window, box, autostart>>

Drained ==
    /\ main = "draining" /\ menu = <<>>
    /\ main' = "acting"
    /\ UNCHANGED <<message, queue, menu, choices, forcing, activity, icon, window, box, autostart>>

Event(entry) ==
    /\ main = "draining" /\ menu # <<>> /\ Head(menu) = entry
    /\ menu' = Tail(menu)
    /\ UNCHANGED <<message, choices, activity, icon>>

\* Slip: nothing ends the program when the loop does not.
Quit_Unforced ==
    /\ Event("Quit")
    /\ Post("quit")
    /\ main' = "acting"
    /\ UNCHANGED <<forcing, window, box, autostart>>

\* The break leaves the draining only; the posted message is to end the loop.
Quit ==
    /\ Event("Quit")
    /\ Post("quit")
    /\ forcing' = TRUE
    /\ main' = "acting"
    /\ UNCHANGED <<window, box, autostart>>

\* Slip: a failure is logged and no more.
ToggleAutostart_KeepsMark ==
    /\ Event("Autostart")
    /\ registered' \in {registered, checked}
    /\ UNCHANGED <<main, queue, forcing, window, box, checked>>

\* The mark was changed by the choice.  The registry is made to follow, or
\* refuses, also to delete what is not there, and the mark goes back.
ToggleAutostart ==
    /\ Event("Autostart")
    /\ \/ /\ registered # checked
          /\ registered' = checked /\ UNCHANGED checked
       \/ /\ checked /\ registered /\ UNCHANGED autostart
       \/ /\ checked' = ~checked /\ UNCHANGED registered
    /\ UNCHANGED <<main, queue, forcing, window, box>>

ShowStatistics ==
    /\ Event("Statistics")
    /\ is_dialog_open' = TRUE
    /\ dialog' = IF is_dialog_open THEN dialog
                 ELSE IF dialog = "none" THEN "shown" ELSE "two"
    /\ UNCHANGED <<main, queue, forcing, window, autostart>>

\* open_traffic_window: first the wish, then, if there is none, a thread.
WantVisible ==
    /\ Event("Traffic")
    /\ want_visible' = TRUE /\ asked' = TRUE
    /\ main' = "opening"
    /\ UNCHANGED <<queue, forcing, thread_running, ui, visible, box, autostart>>

StartWindow ==
    /\ main = "opening" /\ main' = "draining"
    /\ thread_running' = TRUE
    /\ ui' = IF thread_running THEN ui ELSE IF ui = "none" THEN "starting" ELSE "two"
    /\ UNCHANGED <<message, queue, menu, choices, forcing, activity, icon, want_visible, visible,
                   asked, box, autostart>>

Act ==
    /\ main = "acting"
    /\ main' = IF message = "quit" THEN "left" ELSE "waiting"
    /\ icon' = IF message \in IconMessages THEN message = "active" ELSE icon
    /\ menu' = IF message \in Entries THEN Append(menu, message) ELSE menu
    /\ checked' = IF message = "Autostart" THEN ~checked ELSE checked
    /\ UNCHANGED <<message, queue, choices, forcing, activity, window, box, registered>>

\* cleanup stops the trace's session, which may take its time.
Exit ==
    /\ main = "left" /\ main' = "exited"
    /\ UNCHANGED <<message, queue, menu, choices, forcing, activity, icon, window, box, autostart>>

ForceExit ==
    /\ forcing /\ Running /\ main' = "exited"
    /\ UNCHANGED <<message, queue, menu, choices, forcing, activity, icon, window, box, autostart>>

-----------------------------------------------------------------------------
(* The threads a menu entry starts.                                        *)

DialogAnswered ==
    /\ Running /\ dialog = "shown" /\ dialog' = "answered"
    /\ UNCHANGED <<loopVars, activity, icon, window, is_dialog_open, autostart>>

DialogEnds ==
    /\ Running /\ dialog = "answered"
    /\ dialog' = "none" /\ is_dialog_open' = FALSE
    /\ UNCHANGED <<loopVars, activity, icon, window, autostart>>

\* UI::init fails, or the window is shown.
WindowStarts ==
    /\ Running /\ ui = "starting"
    /\ \/ ui' = "running" /\ visible' = TRUE
       \/ ui' = "failed" /\ UNCHANGED visible
    /\ UNCHANGED <<loopVars, activity, icon, want_visible, thread_running, asked, box, autostart>>

\* Slip: a thread that failed leaves its flag behind.
WindowFails_KeepsFlag ==
    /\ Running /\ ui = "failed" /\ ui' = "none"
    /\ UNCHANGED <<loopVars, activity, icon, want_visible, thread_running, visible, asked, box, autostart>>

WindowFails ==
    /\ Running /\ ui = "failed" /\ ui' = "none"
    /\ thread_running' = FALSE
    /\ UNCHANGED <<loopVars, activity, icon, want_visible, visible, asked, box, autostart>>

WindowTick ==
    /\ Running /\ ui = "running"
    /\ visible' = want_visible
    /\ UNCHANGED <<loopVars, activity, icon, want_visible, thread_running, ui, asked, box, autostart>>

\* Slip: the window is hidden, then the wish is withdrawn.
OnClosing_HidesFirst ==
    /\ Running
    /\ \/ /\ ui = "running" /\ visible /\ ui' = "closing"
          /\ visible' = FALSE /\ asked' = FALSE /\ UNCHANGED want_visible
       \/ /\ ui = "closing" /\ ui' = "running"
          /\ want_visible' = FALSE /\ UNCHANGED <<visible, asked>>
    /\ UNCHANGED <<loopVars, activity, icon, thread_running, box, autostart>>

\* The user closes the window: the wish is withdrawn, then the window hidden.
OnClosing ==
    /\ Running
    /\ \/ /\ ui = "running" /\ visible /\ ui' = "closing"
          /\ want_visible' = FALSE /\ asked' = FALSE /\ UNCHANGED visible
       \/ /\ ui = "closing" /\ ui' = "running"
          /\ visible' = FALSE /\ UNCHANGED <<want_visible, asked>>
    /\ UNCHANGED <<loopVars, activity, icon, thread_running, box, autostart>>

-----------------------------------------------------------------------------
Loop ==
    \/ StartLoop \/ GetMessage \/ Drained \/ Act
    \/ Quit \/ ToggleAutostart \/ ShowStatistics \/ WantVisible \/ StartWindow

Ui == WindowStarts \/ WindowFails \/ WindowTick \/ (ui = "closing" /\ OnClosing)

Next ==
    \/ Loop \/ Exit \/ ForceExit
    \/ Ui \/ OnClosing \/ DialogAnswered \/ DialogEnds
    \/ Traffic \/ Sample \/ PostIconUpdate \/ Hover
    \/ \E entry \in Entries : Choose(entry)

\* The threads are scheduled and the timer fires; the user, the peers and the
\* trace's session owe nothing.
Fairness == WF_vars(Loop) /\ WF_vars(Ui) /\ WF_vars(ForceExit)

Spec == Init /\ [][Next]_vars
FairSpec == Spec /\ Fairness

-----------------------------------------------------------------------------
(* Properties.                                                             *)

\* The messages under way, the one the loop has taken first.
Pending == (IF main \in {"draining", "opening", "acting"} THEN <<message>> ELSE <<>>) \o queue

\* What the icon shows once these are handled: what the last update among them
\* says or, if there is none, what it shows now.
WillShow(messages, active) ==
    \/ \E i \in DOMAIN messages :
          /\ messages[i] = IconMessage(active)
          /\ \A j \in DOMAIN messages : j > i => messages[j] \notin IconMessages
    \/ icon = active /\ \A i \in DOMAIN messages : messages[i] \notin IconMessages

\* post_icon_update drops an update that comes before the loop has stored its
\* thread id, or finds the queue full.  Unless that was the last one, the icon
\* will end up as the activity task has it, in whatever order sampling,
\* posting and handling meet.
IconFollows == Running /\ ~dropped => WillShow(Pending, currently_active # (task = "posting"))

\* However fast the user clicks and however the threads end: one traffic window
\* (UI::init is single-use), one box of statistics, and their flags are reset
\* when they are gone, so that another can be opened.
OneOfEach ==
    /\ ui # "two" /\ (thread_running <=> ui # "none")
    /\ dialog # "two" /\ (is_dialog_open <=> dialog # "none")

\* Unless a choice is still to be handled, the check mark is the registry's
\* value, also when the registry refused.
MarkIsRegistered ==
    (\A i \in DOMAIN menu : menu[i] # "Autostart") => checked = registered

\* A window that was asked for while its thread runs is shown, unless the user
\* closes it afterwards or it cannot be made: a wish that meets on_closing
\* halfway is not lost.
ShowHonoured ==
    asked /\ ui \in {"starting", "running", "closing"}
        ~> visible \/ ~asked \/ ui = "failed" \/ ~Running

\* Quit ends the program, also when the queue has no room for its message or
\* the cleanup hangs: at the latest when one more message comes.
QuitEnds == queue # <<>> /\ menu # <<>> /\ Head(menu) = "Quit" ~> ~Running
=============================================================================
