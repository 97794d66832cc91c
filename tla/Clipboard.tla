------------------------------- MODULE Clipboard -------------------------------
(***************************************************************************)
(* The paste fallback and the restoration of the clipboard: paste,         *)
(* spawn_restore and clear_pending (insert_fallback.rs) over PENDING,      *)
(* CLIPBOARD_MU and NEXT_RESTORE_ID, with remember_pending and             *)
(* decide_restore (voice-core insert.rs).                                  *)
(*                                                                         *)
(* CLIPBOARD_MU covers the get and the set of a paste, and the get and the *)
(* decision of a restore; the chord, the registration and the set of a     *)
(* restore run without it.  The user writes the clipboard at any time.     *)
(***************************************************************************)
EXTENDS Integers

CONSTANTS
  Pastes,    \* the runs of paste
  Text,      \* [Pastes -> the text each of them inserts]
  Original,  \* what the clipboard holds at first
  Copies,    \* what the user may copy meanwhile
  NonText,   \* the contents get_text does not see: images, files, nothing
  NoText,    \* None
  RestoreClipboard,  \* InsertOpts.restore_clipboard
  Scenarios  \* the circumstances the pastes are made in

Texts    == {Text[p] : p \in Pastes}
Contents == {Original} \cup Copies \cup Texts

\* get: the main thread does not answer.  read: the clipboard cannot be read, which
\* reads as None.  set: it stays busy.  late: run_on_main_blocking gives up after
\* 1 s and the write comes later.  silent: the write fails on the main thread and
\* is reported as made.  chord, spawn: the key events, or the restore thread, are
\* refused.  release: Ctrl cannot be let go of after Ctrl+V was sent.
FailureSteps == {"get", "read", "set", "late", "silent", "chord", "release", "spawn"}

\* Which pastes and copies are made and which steps may fail; whether pastes
\* come one after another, as those of one session do, no restore is due while
\* a paste is under way, and the target has read the clipboard before the next
\* paste begins.
Scenario ==
  [pastes : SUBSET Pastes, copies : SUBSET Copies, failures : SUBSET FailureSteps,
   serial : BOOLEAN, apart : BOOLEAN, prompt : BOOLEAN]

ASSUME ClipboardAssumption ==
  /\ DOMAIN Text = Pastes
  /\ NonText \subseteq {Original} \cup Copies
  /\ NoText \notin Contents
  /\ ({Original} \cup Copies) \cap Texts = {}
  /\ RestoreClipboard \in BOOLEAN
  /\ Scenarios \subseteq Scenario

VARIABLES
  scenario,   \* the circumstances, which stay as they are
  clipboard,  \* what the system clipboard holds
  late,       \* writes still queued on the main thread
  pending,    \* PENDING, with id 0 for None
  next_id,    \* NEXT_RESTORE_ID
  pc,         \* [Pastes -> PasteStep]
  before,     \* [Pastes -> what the paste read before overwriting]
  id,         \* [Pastes -> its restore id, 0 until it has one]
  delivered,  \* [Pastes -> what the target read when the chord reached it]
  restorer,   \* [Pastes -> RestoreStep]: the restore thread of each paste
  target,     \* [Pastes -> what that thread has decided to write back]
  copied      \* history: [Pastes -> the user copied between set and decision]

vars == <<scenario, clipboard, late, pending, next_id, pc, before, id,
          delivered, restorer, target, copied>>

Failures == scenario.failures

PasteStep   == {"idle", "get", "set", "chord", "number", "remember", "spawn",
                "pasted", "copiedFallback", "copiedSent", "failed"}
UnderWay    == {"get", "set", "chord", "number", "remember", "spawn"}
RestoreStep == {"none", "sleep", "set", "clear", "done"}

Maybe(S) == S \cup {NoText}

PendingRestore ==
  [id : Nat, original : Maybe(Contents), last_inserted : Maybe(Contents)]

NoPending == [id |-> 0, original |-> NoText, last_inserted |-> NoText]

ClipboardTypeOK ==
  /\ scenario \in Scenarios
  /\ clipboard \in Contents
  /\ late \subseteq Contents
  /\ pending \in PendingRestore
  /\ next_id \in Nat
  /\ pc \in [Pastes -> PasteStep]
  /\ before \in [Pastes -> Maybe(Contents)]
  /\ id \in [Pastes -> Nat]
  /\ delivered \in [Pastes -> Maybe(Contents)]
  /\ restorer \in [Pastes -> RestoreStep]
  /\ target \in [Pastes -> Maybe(Contents)]
  /\ copied \in [Pastes -> BOOLEAN]

Init ==
  /\ scenario \in Scenarios
  /\ clipboard = Original
  /\ late = {}
  /\ pending = NoPending
  /\ next_id = 0
  /\ pc = [p \in Pastes |-> "idle"]
  /\ before = [p \in Pastes |-> NoText]
  /\ id = [p \in Pastes |-> 0]
  /\ delivered = [p \in Pastes |-> NoText]
  /\ restorer = [p \in Pastes |-> "none"]
  /\ target = [p \in Pastes |-> NoText]
  /\ copied = [p \in Pastes |-> FALSE]

\* clipboard_get_text when it answers: an error of the clipboard reads as None.
GetText ==
  {IF clipboard \in NonText THEN NoText ELSE clipboard} \cup
  (IF "read" \in Failures THEN {NoText} ELSE {})

\* CLIPBOARD_MU is held over a step only between the get and the set of a paste.
MuFree == \A p \in Pastes : pc[p] # "set"

Goto(p, s)        == pc' = [pc EXCEPT ![p] = s]
RestorerGoto(p, s) == restorer' = [restorer EXCEPT ![p] = s]

\* clipboard_set_text: whether it reports success, and what it does.
SetText(text, ok) ==
  \/ ok /\ clipboard' = text /\ UNCHANGED late
  \/ ok /\ "silent" \in Failures /\ UNCHANGED <<clipboard, late>>
  \/ ~ok /\ "set" \in Failures /\ UNCHANGED <<clipboard, late>>
  \/ ~ok /\ "late" \in Failures /\ late' = late \cup {text} /\ UNCHANGED clipboard

\* A write that was given up on and is made after all.
LateSet(text) ==
  /\ text \in late
  /\ late' = late \ {text}
  /\ clipboard' = text
  /\ UNCHANGED <<pending, next_id, pc, before, id, delivered, restorer, target,
                 copied>>

-----------------------------------------------------------------------------
(* paste *)

ChordSent(p) == pc[p] \in {"number", "remember", "spawn", "pasted", "copiedSent"}

\* CopiedFallback: the text stays on the clipboard, for the user to paste it.
Left(p) == pc[p] \in {"copiedFallback", "copiedSent"}

BeginPaste(p) ==
  /\ pc[p] = "idle" /\ p \in scenario.pastes
  /\ scenario.serial => \A q \in Pastes : pc[q] \notin UnderWay
  /\ scenario.apart => \A q \in Pastes : restorer[q] \notin {"set", "clear"}
  /\ scenario.prompt => \A q \in Pastes : ChordSent(q) => delivered[q] # NoText
  /\ Goto(p, "get")
  /\ UNCHANGED <<clipboard, late, pending, next_id, before, id, delivered,
                 restorer, target, copied>>

\* CLIPBOARD_MU is taken and the old content read.
PasteGet(p) ==
  /\ pc[p] = "get"
  /\ MuFree
  /\ \/ /\ \E text \in GetText : before' = [before EXCEPT ![p] = text]
        /\ Goto(p, "set")
     \/ /\ "get" \in Failures
        /\ Goto(p, "failed")
        /\ UNCHANGED before
  /\ UNCHANGED <<clipboard, late, pending, next_id, id, delivered, restorer,
                 target, copied>>

\* The text is written and CLIPBOARD_MU given back.
PasteSet(p) ==
  /\ pc[p] = "set"
  /\ \E ok \in BOOLEAN :
       /\ SetText(Text[p], ok)
       /\ Goto(p, IF ok THEN "chord" ELSE "failed")
  /\ UNCHANGED <<pending, next_id, before, id, delivered, restorer, target,
                 copied>>

\* simulate_paste; the target application reads the clipboard later.
Chord(p) ==
  /\ pc[p] = "chord"
  /\ \/ Goto(p, IF RestoreClipboard THEN "number" ELSE "pasted")
     \/ "chord" \in Failures /\ Goto(p, "copiedFallback")
     \/ "release" \in Failures /\ Goto(p, "copiedSent")
  /\ UNCHANGED <<clipboard, late, pending, next_id, before, id, delivered,
                 restorer, target, copied>>

\* NEXT_RESTORE_ID.fetch_add.
Number(p) ==
  /\ pc[p] = "number"
  /\ next_id' = next_id + 1
  /\ id' = [id EXCEPT ![p] = next_id + 1]
  /\ Goto(p, "remember")
  /\ UNCHANGED <<clipboard, late, pending, before, delivered, restorer, target,
                 copied>>

\* Mutant of remember_pending: every paste registers what it has itself read.
RememberOwn(p) ==
  [id |-> id[p], original |-> before[p], last_inserted |-> Text[p]]

\* The original of a registration that is still open is kept.
remember_pending(p) ==
  [id |-> id[p],
   original |-> IF pending.original # NoText THEN pending.original
                ELSE before[p],
   last_inserted |-> Text[p]]

Remember(p) ==
  /\ pc[p] = "remember"
  /\ pending' = remember_pending(p)
  /\ Goto(p, "spawn")
  /\ UNCHANGED <<clipboard, late, next_id, before, id, delivered, restorer,
                 target, copied>>

\* spawn_restore ignores the error of a thread that cannot be started.
Spawn(p) ==
  /\ pc[p] = "spawn"
  /\ \/ RestorerGoto(p, "sleep")
     \/ "spawn" \in Failures /\ UNCHANGED restorer
  /\ Goto(p, "pasted")
  /\ UNCHANGED <<clipboard, late, pending, next_id, before, id, delivered,
                 target, copied>>

-----------------------------------------------------------------------------
(* The restore thread. *)

\* Mutants of decide_restore: the clipboard is not compared; every thread that
\* wakes up takes the registration for its own.
DecideBlindly(p, now) ==
  IF pending.id # id[p] THEN "DoNothing"
  ELSE IF pending.original # NoText THEN "Restore" ELSE "Clear"

DecideIgnoresId(p, now) ==
  IF now # NoText /\ now = pending.last_inserted /\ pending.original # NoText
  THEN "Restore" ELSE "Clear"

decide_restore(p, now) ==
  IF pending.id # id[p] THEN "DoNothing"
  ELSE IF now # NoText /\ now = pending.last_inserted
            /\ pending.original # NoText
       THEN "Restore" ELSE "Clear"

\* Mutant of Decide: a thread that finds the clipboard changed leaves PENDING.
DecideKeepsPending(p) ==
  /\ restorer[p] = "sleep"
  /\ delivered[p] # NoText
  /\ MuFree
  /\ scenario.apart => \A q \in Pastes : pc[q] \notin UnderWay
  /\ \E now \in GetText \cup (IF "get" \in Failures THEN {NoText} ELSE {}) :
       LET action == decide_restore(p, now)
       IN  /\ RestorerGoto(p, IF action = "Restore" THEN "set" ELSE "done")
           /\ target' = IF action = "Restore"
                        THEN [target EXCEPT ![p] = pending.original]
                        ELSE target
  /\ UNCHANGED <<clipboard, late, pending, next_id, pc, before, id, delivered,
                 copied>>

\* 750 ms later: the clipboard is read (an error reads as None) and the
\* decision taken under CLIPBOARD_MU.  The target application is taken to have
\* read the clipboard by then.
Decide(p) ==
  /\ restorer[p] = "sleep"
  /\ delivered[p] # NoText
  /\ MuFree
  /\ scenario.apart => \A q \in Pastes : pc[q] \notin UnderWay
  /\ \E now \in GetText \cup (IF "get" \in Failures THEN {NoText} ELSE {}) :
       LET action == decide_restore(p, now)
       IN  /\ RestorerGoto(p, IF action = "Restore" THEN "set"
                              ELSE IF action = "Clear" THEN "clear" ELSE "done")
           /\ target' = IF action = "Restore"
                        THEN [target EXCEPT ![p] = pending.original]
                        ELSE target
  /\ UNCHANGED <<clipboard, late, pending, next_id, pc, before, id, delivered,
                 copied>>

\* The original is written back, without CLIPBOARD_MU.
RestoreSet(p) ==
  /\ restorer[p] = "set"
  /\ \E ok \in BOOLEAN : SetText(target[p], ok)
  /\ RestorerGoto(p, "clear")
  /\ UNCHANGED <<pending, next_id, pc, before, id, delivered, target, copied>>

\* clear_pending
ClearPending(p) ==
  /\ restorer[p] = "clear"
  /\ pending' = IF pending.id = id[p] THEN NoPending ELSE pending
  /\ RestorerGoto(p, "done")
  /\ UNCHANGED <<clipboard, late, next_id, pc, before, id, delivered, target,
                 copied>>

-----------------------------------------------------------------------------
(* The target application and the user. *)

AppReads(p) ==
  /\ ChordSent(p)
  /\ delivered[p] = NoText
  /\ delivered' = [delivered EXCEPT ![p] = clipboard]
  /\ UNCHANGED <<clipboard, late, pending, next_id, pc, before, id, restorer,
                 target, copied>>

\* The text of p is, or was, on the clipboard, and its thread has not decided.
Undecided(p) ==
  (pc[p] = "chord" \/ ChordSent(p)) /\ restorer[p] \in {"none", "sleep"}

UserCopies(c) ==
  /\ c \in scenario.copies
  /\ clipboard' = c
  /\ copied' = [p \in Pastes |-> copied[p] \/ Undecided(p)]
  /\ UNCHANGED <<late, pending, next_id, pc, before, id, delivered, restorer,
                 target>>

-----------------------------------------------------------------------------

\* The steps that are made without the user.
Runs(p) ==
  /\ \/ PasteGet(p) \/ PasteSet(p) \/ Chord(p) \/ Number(p) \/ Remember(p)
     \/ Spawn(p) \/ Decide(p) \/ RestoreSet(p) \/ ClearPending(p) \/ AppReads(p)
  /\ UNCHANGED scenario

Next ==
  \/ \E p \in Pastes : Runs(p)
  \/ /\ \/ \E p \in Pastes : BeginPaste(p)
        \/ \E c \in Copies : UserCopies(c)
        \/ \E text \in Contents : LateSet(text)
     /\ UNCHANGED scenario

Spec == Init /\ [][Next]_vars

\* Each task and thread runs on; the target application reads the clipboard.
\* A thread that waits for CLIPBOARD_MU gets it: with a few pastes a free lock
\* stays free, so weak fairness is enough.
Fairness == \A p \in Pastes : WF_vars(Runs(p))

FairSpec == Spec /\ Fairness

-----------------------------------------------------------------------------
(* Properties. *)

\* An open registration has its thread: one that will look at it again and
\* restore or drop it, if threads can be started.  No order of registrations,
\* decisions and clears of several pastes leaves the original of one behind for
\* a later one.
PendingHasThread ==
  pending.id # 0 /\ "spawn" \notin Failures =>
    \E p \in Pastes :
      /\ id[p] = pending.id
      /\ pc[p] = "spawn" \/ restorer[p] \in {"sleep", "set", "clear"}

\* A thread never decides to restore when the user has copied anything between
\* its paste and its decision (A7.3).
CopySeenByDecision ==
  \A p \in Pastes : restorer[p] = "set" => ~copied[p]

\* No restore falls into a paste, and nothing fails but chords, sent or not.
Calm == /\ scenario.serial /\ scenario.apart /\ scenario.prompt
        /\ Failures \subseteq {"chord", "release"}

\* The texts that were dictated into an application, not left for the user.
Dictated == {Text[p] : p \in {q \in Pastes : ~Left(q)}}

\* What a restore will write back is what the user had, never a dictated text
\* (A7.4: the original is the content before the first paste).
OriginalIsUsers ==
  Calm => /\ pending.original \notin Dictated
          /\ \A p \in Pastes : target[p] \notin Dictated

\* A restore gives the user what was the user's, and never takes it away.
RestoreIsSound == CopySeenByDecision /\ OriginalIsUsers

\* The target application receives the text of the paste that sent the chord,
\* unless the user has copied something in between.
ReadsOwn == \A p \in Pastes : delivered[p] \in {NoText, Text[p]} \/ copied[p]

\* So it is, whichever earlier paste failed and whatever restores were decided
\* meanwhile, as long as none falls into a paste (the code breaks it where one
\* does: insert_fallback.rs:34 says that they exclude each other).
PasteDelivers == Calm => ReadsOwn

\* FR-7.8: the text left on the clipboard for a manual paste is not taken away
\* by the restore of an older paste.
FallbackTextStays ==
  [][Calm => \A p \in Pastes :
       Left(p) /\ clipboard = Text[p] /\ clipboard' # Text[p]
         => clipboard' \in Copies \/ \E q \in Pastes : pc[q] = "set"]_vars

\* The clipboard comes back: in the end it holds its original content, what the
\* user copied meanwhile, or a text that was left for a manual paste, with or
\* without pastes in between.
ClipboardComesBack ==
  Calm /\ scenario.copies \cap NonText = {} =>
    <>[](clipboard \in {Original} \cup scenario.copies \cup
           {Text[p] : p \in {q \in Pastes : Left(q)}})

=============================================================================
