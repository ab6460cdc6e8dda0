---------------------------- MODULE ConfigReload ----------------------------
(***************************************************************************)
(* The hot reload of config.yaml (main.rs): the notify callback, the      *)
(* channel of capacity one, the reload task, and the rules it replaces,   *)
(* while an editor saves the file in one write or in two.  A content of   *)
(* the file is the number of its save, whether all of it is there yet,    *)
(* and what becomes of it when it is loaded.                              *)
(***************************************************************************)
EXTENDS Integers

CONSTANT MaxSaves   \* bound: saves of the file

ASSUME SavesAssumption == MaxSaves \in Nat

VARIABLES
    file,       \* the content of config.yaml now
    saving,     \* the content a save in two writes will end with, or NoSave
    events,     \* modify events the callback has not been called for yet
    chan,       \* messages in the channel
    pc,         \* where run_app_init, and then the reload task, is
    seen,       \* the content read last
    rules,      \* the content whose rules are in force
    dialog,     \* CONFIG_ERROR_DIALOG_OPEN
    excused     \* history: nobody was told of what the file holds now, because
                \* it was saved before the watch or its read failed

vars == <<file, saving, events, chan, pc, seen, rules, dialog, excused>>

\* Loading a content yields rules, a YAML error, or an error in a rule.
Outcomes == {"rules", "yaml_error", "rule_error"}
Contents == [save : 0..MaxSaves, complete : BOOLEAN, outcome : Outcomes]
Initial == [save |-> 0, complete |-> TRUE, outcome |-> "rules"]
NoSave == [save |-> 0, complete |-> FALSE, outcome |-> "rules"]

\* The configuration was loaded without error, or the program would have ended;
\* the watch is not installed yet.
Init ==
    /\ file = Initial /\ saving = NoSave
    /\ events = 0 /\ chan = 0
    /\ pc = "startup"
    /\ seen = Initial /\ rules = Initial
    /\ dialog = FALSE /\ excused = FALSE

-----------------------------------------------------------------------------
(* The editor.  Once the watch is installed every write is an event, which *)
(* the operating system may merge with one that is still queued.           *)

Writes(content) ==
    /\ file' = content
    /\ IF pc = "startup"
         THEN excused' = TRUE /\ UNCHANGED events
         ELSE /\ excused' = FALSE
              /\ events' \in {events + 1} \union (IF events > 0 THEN {events} ELSE {})
    /\ UNCHANGED <<chan, pc, seen, rules, dialog>>

NextSave(whole) == [save : {file.save + 1}, complete : {whole}, outcome : Outcomes]

SaveAtOnce ==
    /\ saving = NoSave /\ file.save < MaxSaves
    /\ \E content \in NextSave(TRUE) : Writes(content)
    /\ UNCHANGED saving

SaveBegins ==
    /\ saving = NoSave /\ file.save < MaxSaves
    /\ \E content \in NextSave(FALSE) : Writes(content)
    /\ saving' \in NextSave(TRUE)

SaveEnds ==
    /\ saving # NoSave
    /\ Writes(saving)
    /\ saving' = NoSave

-----------------------------------------------------------------------------
(* Startup's last step, the callback, and the reload task.                 *)

InstallWatch ==
    /\ pc = "startup"
    /\ pc' = "recv"
    /\ UNCHANGED <<file, saving, events, chan, seen, rules, dialog, excused>>

\* Slip: an event is not reported while a reload is under way.
Callback_SkipsWhenBusy ==
    /\ events > 0
    /\ events' = events - 1
    /\ chan' = IF pc = "recv" THEN 1 ELSE chan
    /\ UNCHANGED <<file, saving, pc, seen, rules, dialog, excused>>

\* try_send: a message that finds the channel full is dropped.
Callback ==
    /\ events > 0
    /\ events' = events - 1
    /\ chan' = 1
    /\ UNCHANGED <<file, saving, pc, seen, rules, dialog, excused>>

Recv ==
    /\ pc = "recv" /\ chan = 1
    /\ chan' = 0
    /\ pc' = "sleep"
    /\ UNCHANGED <<file, saving, events, seen, rules, dialog, excused>>

WakeUp ==
    /\ pc = "sleep"
    /\ pc' = "read"
    /\ UNCHANGED <<file, saving, events, chan, seen, rules, dialog, excused>>

Read ==
    /\ pc = "read"
    /\ seen' = file
    /\ excused' = FALSE
    /\ pc' = "apply"
    /\ UNCHANGED <<file, saving, events, chan, rules, dialog>>

\* An I/O error or the five-second timeout: nothing is retried.
ReadFails ==
    /\ pc = "read"
    /\ pc' = "recv"
    /\ excused' = TRUE
    /\ UNCHANGED <<file, saving, events, chan, seen, rules, dialog>>

\* Slip: what queued up during the reload is thrown away after it.
Apply_DrainsChannel ==
    /\ pc = "apply"
    /\ pc' = "recv"
    /\ rules' = IF seen.outcome = "rules" THEN seen ELSE rules
    /\ dialog' = (dialog \/ seen.outcome = "yaml_error")
    /\ chan' = 0
    /\ UNCHANGED <<file, saving, events, seen, excused>>

\* Slip: a file that does not load puts the rules of the start back in force.
Apply_FallsBack ==
    /\ pc = "apply"
    /\ pc' = "recv"
    /\ rules' = IF seen.outcome = "rules" THEN seen ELSE Initial
    /\ dialog' = (dialog \/ seen.outcome = "yaml_error")
    /\ UNCHANGED <<file, saving, events, chan, seen, excused>>

\* Slip: rules that parse are replaced even when one of them is in error.
Apply_KeepsRuleErrors ==
    /\ pc = "apply"
    /\ pc' = "recv"
    /\ rules' = IF seen.outcome # "yaml_error" THEN seen ELSE rules
    /\ dialog' = (dialog \/ seen.outcome = "yaml_error")
    /\ UNCHANGED <<file, saving, events, chan, seen, excused>>

\* Only a content that parses and whose rules are all right is put in force; a
\* YAML error opens a dialog unless one is open.
Apply ==
    /\ pc = "apply"
    /\ pc' = "recv"
    /\ rules' = IF seen.outcome = "rules" THEN seen ELSE rules
    /\ dialog' = (dialog \/ seen.outcome = "yaml_error")
    /\ UNCHANGED <<file, saving, events, chan, seen, excused>>

\* The user answers the message box.
DismissDialog ==
    /\ dialog
    /\ dialog' = FALSE
    /\ UNCHANGED <<file, saving, events, chan, pc, seen, rules, excused>>

Task == InstallWatch \/ Recv \/ WakeUp \/ Read \/ ReadFails \/ Apply

Next == SaveAtOnce \/ SaveBegins \/ SaveEnds \/ Callback \/ Task \/ DismissDialog

\* The task and notify's thread are scheduled, and a save that was begun ends.
Fairness == WF_vars(Task) /\ WF_vars(Callback) /\ WF_vars(SaveEnds)

Spec == Init /\ [][Next]_vars
FairSpec == Spec /\ Fairness

-----------------------------------------------------------------------------
(* Properties.                                                             *)

\* Type invariant of the watcher's channel, the task and the rules.
TypeOK ==
    /\ file \in Contents /\ saving \in Contents
    /\ events \in Nat
    /\ chan \in {0, 1}
    /\ pc \in {"startup", "recv", "sleep", "read", "apply"}
    /\ seen \in Contents /\ rules \in Contents
    /\ dialog \in BOOLEAN /\ excused \in BOOLEAN

\* A channel of one message, with try_send, is enough: whenever the file holds
\* something that was not read yet, an event, a message or the task itself is
\* on its way to read it.
NoLostUpdate ==
    seen # file =>
        events > 0 \/ chan = 1 \/ pc \in {"sleep", "read"} \/ excused

\* The rules in force always come from one content that loaded without error,
\* and from the one read last if that is such a content: a broken save never
\* disturbs the rules, a good one is never held back by the broken one before.
RulesFollowReads ==
    /\ rules.outcome = "rules"
    /\ pc # "apply" /\ seen.outcome = "rules" => rules = seen

\* The rules never go back to an older save of the file.
RulesNeverRegress ==
    [][/\ rules'.save >= rules.save
       /\ rules'.save = rules.save /\ rules.complete => rules' = rules]_vars

\* When saves come to an end with a content that loads, its rules come into
\* force, unless the save was before the watch or reading it failed.
ReloadSettles == <>[](excused \/ file.outcome # "rules" \/ rules = file)

\* README.md:15: the program "automatically detects changes to config.yaml and
\* reloads routing rules": the same without the two exceptions.
ChangesAreReloaded == <>[](file.outcome # "rules" \/ rules = file)
=============================================================================
