---------------------------- MODULE ReloadProofs ----------------------------
(***************************************************************************)
(* Proofs about ConfigReload: the one-message channel loses no update, the *)
(* rules in force follow the reads, and they never go back to an older     *)
(* content, for any number of saves.                                       *)
(***************************************************************************)
EXTENDS ConfigReload, TLAPS

\* A content is as new as another one if its save is later, or if it is the
\* same save and nothing of it was missing before that is there now.
NoOlder(x, y) == x.save < y.save \/ (x.save = y.save /\ (x.complete => x = y))

\* Between its two writes a save is the file's own, of which a part is there.
SaveUnderWay == saving # NoSave => saving.save = file.save /\ ~file.complete

\* What was read is no newer than the file, what is in force than what was read.
InOrder == NoOlder(rules, seen) /\ NoOlder(seen, file)

IInv == TypeOK /\ NoLostUpdate /\ RulesFollowReads /\ SaveUnderWay /\ InOrder

-----------------------------------------------------------------------------
LEMMA NoOlderIsTransitive ==
    ASSUME NEW x \in Contents, NEW y \in Contents, NEW z \in Contents,
           NoOlder(x, y), NoOlder(y, z)
    PROVE  NoOlder(x, z)
<1> USE SavesAssumption DEF Contents
<1>1. x.save \in Int /\ y.save \in Int /\ z.save \in Int
  OBVIOUS
<1>2. CASE x.save < y.save
  BY <1>1, <1>2 DEF NoOlder
<1>3. CASE x.save = y.save /\ (x.complete => x = y)
  BY <1>1, <1>3 DEF NoOlder
<1> QED BY <1>2, <1>3 DEF NoOlder

\* What an editor's next save looks like.
LEMMA NextSaveIsNewer ==
    ASSUME TypeOK, file.save < MaxSaves, NEW whole \in BOOLEAN, NEW x \in NextSave(whole)
    PROVE  /\ x \in Contents
           /\ x.save = file.save + 1 /\ x.complete = whole
           /\ NoOlder(file, x) /\ x # NoSave
<1> USE SavesAssumption
<1>1. file \in Contents
  BY DEF TypeOK
<1>2. file.save \in 0..MaxSaves
  BY <1>1 DEF Contents
<1>3. x.save = file.save + 1 /\ x.complete = whole /\ x.outcome \in Outcomes
  BY DEF NextSave
<1>4. x.save \in 0..MaxSaves
  BY <1>2, <1>3
<1>5. x = [save |-> x.save, complete |-> x.complete, outcome |-> x.outcome]
  BY DEF NextSave
<1>6. x \in Contents
  BY <1>3, <1>4, <1>5 DEF Contents
<1>7. NoOlder(file, x)
  BY <1>2, <1>3 DEF NoOlder
<1>8. NoSave.save = 0
  BY DEF NoSave
<1>9. x # NoSave
  BY <1>2, <1>3, <1>8
<1> QED BY <1>3, <1>6, <1>7, <1>9

-----------------------------------------------------------------------------
LEMMA InitInvariant == Init => IInv
<1> SUFFICES ASSUME Init PROVE IInv
  OBVIOUS
<1> USE DEF Init
<1>1. Initial \in Contents /\ NoSave \in Contents
  BY SavesAssumption DEF Initial, NoSave, Contents, Outcomes
<1>2. TypeOK
  BY <1>1 DEF TypeOK
<1>3. NoLostUpdate /\ RulesFollowReads /\ SaveUnderWay
  BY DEF NoLostUpdate, RulesFollowReads, SaveUnderWay, Initial
<1>4. InOrder
  BY DEF InOrder, NoOlder
<1> QED BY <1>2, <1>3, <1>4 DEF IInv

\* What any write to the file keeps.
LEMMA WriteInvariant ==
    ASSUME IInv, NEW content \in Contents, Writes(content), NoOlder(file, content)
    PROVE  /\ file' \in Contents /\ events' \in Nat
           /\ NoLostUpdate' /\ RulesFollowReads' /\ InOrder'
           /\ chan' \in {0, 1} /\ pc' \in {"startup", "recv", "sleep", "read", "apply"}
           /\ seen' \in Contents /\ rules' \in Contents
           /\ dialog' \in BOOLEAN /\ excused' \in BOOLEAN
<1>1. events' \in Nat /\ (pc # "startup" => events' > 0)
  BY DEF IInv, TypeOK, Writes
<1>2. NoLostUpdate'
  BY <1>1 DEF Writes, NoLostUpdate
<1>3. RulesFollowReads'
  BY DEF IInv, RulesFollowReads, Writes
<1>4. InOrder'
  BY NoOlderIsTransitive DEF IInv, TypeOK, InOrder, Writes
<1> QED BY <1>1, <1>2, <1>3, <1>4 DEF IInv, TypeOK, Writes

LEMMA NextInvariant == IInv /\ [Next]_vars => IInv'
<1> SUFFICES ASSUME IInv, [Next]_vars PROVE IInv'
  OBVIOUS
<1> USE SavesAssumption
<1>0. file \in Contents /\ NoSave \in Contents
  BY DEF IInv, TypeOK, NoSave, Contents, Outcomes
<1>1. CASE SaveAtOnce
  <2>1. PICK content \in NextSave(TRUE) : Writes(content)
    BY <1>1 DEF SaveAtOnce
  <2>2. content \in Contents /\ NoOlder(file, content)
    BY <1>1, NextSaveIsNewer DEF SaveAtOnce, IInv
  <2>3. SaveUnderWay' /\ saving' \in Contents
    BY <1>0, <1>1 DEF SaveAtOnce, SaveUnderWay
  <2> QED BY <2>1, <2>2, <2>3, WriteInvariant DEF IInv, TypeOK
<1>2. CASE SaveBegins
  <2>1. PICK content \in NextSave(FALSE) : Writes(content)
    BY <1>2 DEF SaveBegins
  <2>2. /\ content \in Contents /\ NoOlder(file, content)
        /\ content.save = file.save + 1 /\ content.complete = FALSE
    BY <1>2, NextSaveIsNewer DEF SaveBegins, IInv
  <2>3. saving' \in Contents /\ saving'.save = file.save + 1
    BY <1>2, NextSaveIsNewer DEF SaveBegins, IInv
  <2>4. SaveUnderWay'
    BY <2>1, <2>2, <2>3 DEF SaveUnderWay, Writes
  <2> QED BY <2>1, <2>2, <2>3, <2>4, WriteInvariant DEF IInv, TypeOK
<1>3. CASE SaveEnds
  <2>1. saving \in Contents /\ saving.save = file.save /\ ~file.complete
    BY <1>3 DEF SaveEnds, IInv, TypeOK, SaveUnderWay
  <2>2. NoOlder(file, saving)
    BY <2>1 DEF NoOlder
  <2>3. SaveUnderWay' /\ saving' \in Contents
    BY <1>0, <1>3 DEF SaveEnds, SaveUnderWay
  <2> QED BY <1>3, <2>1, <2>2, <2>3, WriteInvariant DEF SaveEnds, IInv, TypeOK
<1>4. CASE Callback
  BY <1>4 DEF Callback, IInv, TypeOK, NoLostUpdate, RulesFollowReads, SaveUnderWay, InOrder
<1>5. CASE InstallWatch
  BY <1>5 DEF InstallWatch, IInv, TypeOK, NoLostUpdate, RulesFollowReads, SaveUnderWay, InOrder
<1>6. CASE Recv
  BY <1>6 DEF Recv, IInv, TypeOK, NoLostUpdate, RulesFollowReads, SaveUnderWay, InOrder
<1>7. CASE WakeUp
  BY <1>7 DEF WakeUp, IInv, TypeOK, NoLostUpdate, RulesFollowReads, SaveUnderWay, InOrder
<1>8. CASE Read
  <2>1. TypeOK' /\ NoLostUpdate' /\ RulesFollowReads' /\ SaveUnderWay'
    BY <1>8 DEF Read, IInv, TypeOK, NoLostUpdate, RulesFollowReads, SaveUnderWay
  <2>2. NoOlder(rules, file) /\ NoOlder(file, file)
    BY NoOlderIsTransitive DEF IInv, TypeOK, InOrder, NoOlder
  <2>3. InOrder'
    BY <1>8, <2>2 DEF Read, InOrder
  <2> QED BY <2>1, <2>3 DEF IInv
<1>9. CASE ReadFails
  BY <1>9 DEF ReadFails, IInv, TypeOK, NoLostUpdate, RulesFollowReads, SaveUnderWay, InOrder
<1>10. CASE Apply
  <2>1. TypeOK'
    BY <1>10 DEF Apply, IInv, TypeOK
  <2>2. NoLostUpdate' /\ RulesFollowReads' /\ SaveUnderWay'
    BY <1>10 DEF Apply, IInv, NoLostUpdate, RulesFollowReads, SaveUnderWay
  <2>3. InOrder'
    BY <1>10 DEF Apply, IInv, InOrder, NoOlder
  <2> QED BY <2>1, <2>2, <2>3 DEF IInv
<1>11. CASE DismissDialog
  BY <1>11 DEF DismissDialog, IInv, TypeOK, NoLostUpdate, RulesFollowReads, SaveUnderWay, InOrder
<1>12. CASE UNCHANGED vars
  BY <1>12 DEF vars, IInv, TypeOK, NoLostUpdate, RulesFollowReads, SaveUnderWay, InOrder
<1> QED BY <1>1, <1>2, <1>3, <1>4, <1>5, <1>6, <1>7, <1>8, <1>9, <1>10, <1>11, <1>12
        DEF Next, Task

\* The inductive invariant of the watcher, the task and the rules.
THEOREM ReloadInvariant == Spec => []IInv
<1> QED BY InitInvariant, NextInvariant, PTL DEF Spec

\* Types of the watcher's channel, the task and the rules.
THEOREM ReloadTypeCorrect == Spec => []TypeOK
<1>1. IInv => TypeOK
  BY DEF IInv
<1> QED BY <1>1, ReloadInvariant, PTL

\* The one-message channel with try_send (main.rs:216) is enough, for any
\* number of saves: whenever the file holds something that was not read, an
\* event, a message or the task itself is on its way to read it.
THEOREM NoUpdateIsLost == Spec => []NoLostUpdate
<1>1. IInv => NoLostUpdate
  BY DEF IInv
<1> QED BY <1>1, ReloadInvariant, PTL

\* The reload task (main.rs:246) leaves the rules of the last good read in
\* force, and no others.
THEOREM RulesAlwaysFollowReads == Spec => []RulesFollowReads
<1>1. IInv => RulesFollowReads
  BY DEF IInv
<1> QED BY <1>1, ReloadInvariant, PTL

\* However saves, events and reloads interleave, rules never give way to those
\* of an older save, nor those of a whole file to those of a part.
THEOREM RulesStayInOrder == Spec => RulesNeverRegress
<1>1. ASSUME IInv, [Next]_vars
      PROVE  [/\ rules'.save >= rules.save
              /\ rules'.save = rules.save /\ rules.complete => rules' = rules]_vars
  <2>1. rules.save \in Int /\ seen.save \in Int
    BY <1>1, SavesAssumption DEF IInv, TypeOK, Contents
  <2>2. rules' = rules \/ rules' = seen
    BY <1>1 DEF Next, Task, SaveAtOnce, SaveBegins, SaveEnds, Writes, Callback, InstallWatch,
                Recv, WakeUp, Read, ReadFails, Apply, DismissDialog, vars
  <2> QED BY <1>1, <2>1, <2>2 DEF IInv, InOrder, NoOlder
<1> QED BY <1>1, ReloadInvariant, PTL DEF Spec, RulesNeverRegress
=============================================================================
