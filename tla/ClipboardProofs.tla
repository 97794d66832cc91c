---------------------------- MODULE ClipboardProofs ----------------------------
(***************************************************************************)
(* For any number of pastes, concurrent or not, and any failing steps: an  *)
(* open registration always has a restore thread that will look at it, as  *)
(* long as threads can be started.  Pastes that no restore falls into are  *)
(* delivered; if their texts differ, a text left for a manual paste stays, *)
(* and what comes back is what the user had.                               *)
(***************************************************************************)
EXTENDS Clipboard, TLAPS

\* Every paste of which the thread is still to come, or to decide, or to clear.
Watches(p) == pc[p] = "spawn" \/ restorer[p] \in {"sleep", "set", "clear"}

\* A thread is started at the very end of its paste.
ThreadAfterPaste ==
  \A p \in Pastes : restorer[p] # "none" => pc[p] = "pasted"

\* A thread that restores has something to write back.
RestoreHasTarget ==
  \A p \in Pastes : restorer[p] = "set" => target[p] # NoText

\* The inductive invariant.  PendingHasThread alone is not inductive: a paste
\* that took a second id while its thread runs would lose it.
IInv ==
  /\ ClipboardTypeOK
  /\ ThreadAfterPaste
  /\ PendingHasThread

-----------------------------------------------------------------------------
(* Types. *)

LEMMA TextTypes == \A p \in Pastes : Text[p] \in Contents
  BY DEF Contents, Texts

LEMMA SetTextTypes ==
  ASSUME clipboard \in Contents, late \subseteq Contents,
         NEW text \in Contents, NEW ok \in BOOLEAN, SetText(text, ok)
  PROVE  clipboard' \in Contents /\ late' \subseteq Contents
  BY DEF SetText

\* The types hold at first.
LEMMA InitTypes == Init => ClipboardTypeOK /\ RestoreHasTarget
  BY DEF Init, ClipboardTypeOK, RestoreHasTarget, Contents, PendingRestore,
         NoPending, Maybe, PasteStep, RestoreStep

\* No step breaks them.
LEMMA TypesStep ==
  ASSUME ClipboardTypeOK, RestoreHasTarget, [Next]_vars
  PROVE  ClipboardTypeOK' /\ RestoreHasTarget'
<1> USE DEF ClipboardTypeOK, RestoreHasTarget, Goto, RestorerGoto, PasteStep,
            RestoreStep, Maybe
<1> USE ClipboardAssumption, TextTypes
<1>0. scenario' = scenario
  BY DEF Next, Runs, vars
<1> USE <1>0
<1>1. ASSUME NEW p \in Pastes, BeginPaste(p)
      PROVE  ClipboardTypeOK' /\ RestoreHasTarget'
  BY <1>1 DEF BeginPaste
<1>2. ASSUME NEW p \in Pastes, PasteGet(p)
      PROVE  ClipboardTypeOK' /\ RestoreHasTarget'
  BY <1>2 DEF PasteGet, GetText
<1>3. ASSUME NEW p \in Pastes, PasteSet(p)
      PROVE  ClipboardTypeOK' /\ RestoreHasTarget'
  <2>1. clipboard' \in Contents /\ late' \subseteq Contents
    BY <1>3, SetTextTypes DEF PasteSet
  <2> QED BY <1>3, <2>1 DEF PasteSet
<1>4. ASSUME NEW p \in Pastes, Chord(p)
      PROVE  ClipboardTypeOK' /\ RestoreHasTarget'
  BY <1>4 DEF Chord
<1>5. ASSUME NEW p \in Pastes, Number(p)
      PROVE  ClipboardTypeOK' /\ RestoreHasTarget'
  BY <1>5 DEF Number
<1>6. ASSUME NEW p \in Pastes, Remember(p)
      PROVE  ClipboardTypeOK' /\ RestoreHasTarget'
  <2>1. pending' \in PendingRestore
    BY <1>6 DEF Remember, remember_pending, PendingRestore
  <2> QED BY <1>6, <2>1 DEF Remember
<1>7. ASSUME NEW p \in Pastes, Spawn(p)
      PROVE  ClipboardTypeOK' /\ RestoreHasTarget'
  BY <1>7 DEF Spawn
<1>8. ASSUME NEW p \in Pastes, Decide(p)
      PROVE  ClipboardTypeOK' /\ RestoreHasTarget'
  <2>1. PICK now : 
          LET action == decide_restore(p, now)
          IN  /\ RestorerGoto(p, IF action = "Restore" THEN "set"
                              ELSE IF action = "Clear" THEN "clear" ELSE "done")
              /\ target' = IF action = "Restore"
                           THEN [target EXCEPT ![p] = pending.original]
                           ELSE target
    BY <1>8 DEF Decide
  <2>2. pending.original \in Maybe(Contents)
    BY DEF PendingRestore
  <2>3. decide_restore(p, now) = "Restore" => pending.original # NoText
    BY DEF decide_restore
  <2> QED BY <1>8, <2>1, <2>2, <2>3 DEF Decide
<1>9. ASSUME NEW p \in Pastes, RestoreSet(p)
      PROVE  ClipboardTypeOK' /\ RestoreHasTarget'
  <2>1. target[p] \in Contents
    BY <1>9 DEF RestoreSet
  <2>2. clipboard' \in Contents /\ late' \subseteq Contents
    BY <1>9, <2>1, SetTextTypes DEF RestoreSet
  <2> QED BY <1>9, <2>2 DEF RestoreSet
<1>10. ASSUME NEW p \in Pastes, ClearPending(p)
       PROVE  ClipboardTypeOK' /\ RestoreHasTarget'
  BY <1>10 DEF ClearPending, NoPending, PendingRestore
<1>11. ASSUME NEW p \in Pastes, AppReads(p)
       PROVE  ClipboardTypeOK' /\ RestoreHasTarget'
  BY <1>11 DEF AppReads
<1>12. ASSUME NEW c \in Copies, UserCopies(c)
       PROVE  ClipboardTypeOK' /\ RestoreHasTarget'
  <2>1. \A p \in Pastes : (copied[p] \/ Undecided(p)) \in BOOLEAN
    BY Zenon DEF Undecided, ChordSent
  <2> QED BY <1>12, <2>1 DEF UserCopies, Contents
<1>13. ASSUME NEW text \in Contents, LateSet(text)
       PROVE  ClipboardTypeOK' /\ RestoreHasTarget'
  BY <1>13 DEF LateSet
<1>14. CASE UNCHANGED vars
  BY <1>14 DEF vars
<1> QED
  BY <1>1, <1>2, <1>3, <1>4, <1>5, <1>6, <1>7, <1>8, <1>9, <1>10, <1>11,
     <1>12, <1>13, <1>14 DEF Next, Runs

\* Every variable keeps its type, for any pastes, copies and failures.
THEOREM ClipboardTyping == Spec => []ClipboardTypeOK
<1>1. ClipboardTypeOK /\ RestoreHasTarget /\ [Next]_vars
        => ClipboardTypeOK' /\ RestoreHasTarget'
  BY TypesStep
<1> QED BY InitTypes, <1>1, PTL DEF Spec

-----------------------------------------------------------------------------
(* Registrations and their threads. *)

\* A step keeps every thread behind its paste.
LEMMA ThreadAfterPasteStep ==
  ASSUME ClipboardTypeOK, ThreadAfterPaste, [Next]_vars
  PROVE  ThreadAfterPaste'
  BY DEF ClipboardTypeOK, ThreadAfterPaste, Next, Runs, vars, Goto,
         RestorerGoto, BeginPaste, PasteGet, PasteSet, Chord, Number, Remember,
         Spawn, Decide, RestoreSet, ClearPending, AppReads, UserCopies, LateSet

\* The thread that watches the open registration, if one is open.
Watcher(p) == id[p] = pending.id /\ Watches(p)

\* A step that leaves PENDING alone keeps the watcher: the only step that ends
\* a thread without clearing is the decision of one whose id is another.
LEMMA WatcherStays ==
  ASSUME IInv, "spawn" \notin Failures, [Next]_vars,
         NEW w \in Pastes, Watcher(w), pending' = pending, pending.id # 0
  PROVE  Watcher(w)'
<1> USE DEF IInv, ClipboardTypeOK, ThreadAfterPaste, Watcher, Watches, Goto,
            RestorerGoto
<1>1. ASSUME NEW p \in Pastes, BeginPaste(p) PROVE Watcher(w)'
  BY <1>1 DEF BeginPaste
<1>2. ASSUME NEW p \in Pastes, PasteGet(p) PROVE Watcher(w)'
  BY <1>2 DEF PasteGet
<1>3. ASSUME NEW p \in Pastes, PasteSet(p) PROVE Watcher(w)'
  BY <1>3 DEF PasteSet
<1>4. ASSUME NEW p \in Pastes, Chord(p) PROVE Watcher(w)'
  BY <1>4 DEF Chord
<1>5. ASSUME NEW p \in Pastes, Number(p) PROVE Watcher(w)'
  BY <1>5 DEF Number
<1>6. ASSUME NEW p \in Pastes, Remember(p) PROVE Watcher(w)'
  BY <1>6 DEF Remember
<1>7. ASSUME NEW p \in Pastes, Spawn(p) PROVE Watcher(w)'
  BY <1>7 DEF Spawn
<1>8. ASSUME NEW p \in Pastes, Decide(p) PROVE Watcher(w)'
  <2>1. CASE p # w
    BY <1>8, <2>1 DEF Decide
  <2>2. CASE p = w
    <3>1. restorer'[w] \in {"set", "clear"}
      BY <1>8, <2>2 DEF Decide, decide_restore
    <3> QED BY <1>8, <2>2, <3>1 DEF Decide
  <2> QED BY <2>1, <2>2
<1>9. ASSUME NEW p \in Pastes, RestoreSet(p) PROVE Watcher(w)'
  BY <1>9 DEF RestoreSet
<1>10. ASSUME NEW p \in Pastes, ClearPending(p) PROVE Watcher(w)'
  BY <1>10 DEF ClearPending, NoPending, PendingRestore
<1>11. ASSUME NEW p \in Pastes, AppReads(p) PROVE Watcher(w)'
  BY <1>11 DEF AppReads
<1>12. ASSUME NEW c \in Copies, UserCopies(c) PROVE Watcher(w)'
  BY <1>12 DEF UserCopies
<1>13. ASSUME NEW text \in Contents, LateSet(text) PROVE Watcher(w)'
  BY <1>13 DEF LateSet
<1>14. CASE UNCHANGED vars
  BY <1>14 DEF vars
<1> QED
  BY <1>1, <1>2, <1>3, <1>4, <1>5, <1>6, <1>7, <1>8, <1>9, <1>10, <1>11,
     <1>12, <1>13, <1>14 DEF Next, Runs

\* PENDING changes only when a paste registers or a thread clears.
LEMMA PendingChanges ==
  ASSUME [Next]_vars, pending' # pending
  PROVE  \E p \in Pastes : Remember(p) \/ ClearPending(p)
  BY DEF Next, Runs, vars, BeginPaste, PasteGet, PasteSet, Chord, Number,
         Spawn, Decide, RestoreSet, AppReads, UserCopies, LateSet

\* Nothing changes the circumstances.
LEMMA ScenarioStays == [Next]_vars => Failures' = Failures
  BY DEF Next, Runs, vars, Failures

LEMMA IInvStep ==
  ASSUME IInv, RestoreHasTarget, [Next]_vars
  PROVE  IInv'
<1>1. ClipboardTypeOK' /\ ThreadAfterPaste'
  BY TypesStep, ThreadAfterPasteStep DEF IInv
<1>2. PendingHasThread'
  <2> SUFFICES ASSUME "spawn" \notin Failures PROVE PendingHasThread'
    BY ScenarioStays DEF PendingHasThread
  <2>1. CASE pending' = pending /\ pending.id # 0
    <3>1. PICK w \in Pastes : Watcher(w)
      BY <2>1 DEF IInv, PendingHasThread, Watcher, Watches
    <3>2. Watcher(w)'
      BY <2>1, <3>1, WatcherStays
    <3> QED BY <3>2 DEF PendingHasThread, Watcher, Watches
  <2>2. CASE pending' = pending /\ pending.id = 0
    BY <2>2 DEF PendingHasThread
  <2>3. CASE pending' # pending
    <3>1. PICK p \in Pastes : Remember(p) \/ ClearPending(p)
      BY <2>3, PendingChanges
    <3>2. CASE Remember(p)
      <4>1. pc'[p] = "spawn" /\ id'[p] = pending'.id
        BY <3>2 DEF Remember, remember_pending, Goto, IInv, ClipboardTypeOK
      <4> QED BY <4>1 DEF PendingHasThread
    <3>3. CASE ClearPending(p)
      BY <2>3, <3>3 DEF ClearPending, NoPending, PendingHasThread
    <3> QED BY <3>1, <3>2, <3>3
  <2> QED BY <2>1, <2>2, <2>3
<1> QED BY <1>1, <1>2 DEF IInv

\* No registration is ever left without a thread, as long as threads can be
\* started: spawn_restore ignores the error of one that cannot.
THEOREM PendingIsWatched == Spec => []PendingHasThread
<1>1. Init => IInv /\ RestoreHasTarget
  BY InitTypes DEF Init, IInv, ThreadAfterPaste, PendingHasThread, NoPending
<1>2. IInv /\ RestoreHasTarget /\ [Next]_vars => IInv' /\ RestoreHasTarget'
  BY IInvStep, TypesStep DEF IInv
<1>3. IInv => PendingHasThread
  BY DEF IInv
<1> QED BY <1>1, <1>2, <1>3, PTL DEF Spec

-----------------------------------------------------------------------------
(* Delivery. *)

\* Ids are given out once, and only to pastes that will restore.
IdsApart ==
  /\ pending.id <= next_id
  /\ \A p \in Pastes :
       /\ id[p] <= next_id
       /\ pc[p] \in {"number", "remember", "spawn"} => RestoreClipboard
       /\ pc[p] \in {"remember", "spawn"} \/ restorer[p] # "none"
            => id[p] # 0 /\ RestoreClipboard
  /\ \A p, q \in Pastes : id[p] = id[q] /\ id[p] # 0 => p = q

\* A paste is made alone: no other is under way, no restore is due, and what was
\* pasted before has been read.
Alone ==
  \A p, q \in Pastes : pc[p] \in UnderWay =>
    /\ restorer[q] \notin {"set", "clear"}
    /\ q # p => pc[q] \notin UnderWay /\ (ChordSent(q) => delivered[q] # NoText)

\* The text of p is on the clipboard and the target has not read it.
Awaited(p) == (pc[p] = "chord" \/ ChordSent(p)) /\ delivered[p] = NoText

\* Until it is read it stays there, or the user has copied something: nobody else
\* pastes, and a thread that wakes up does not find the registration its own, or
\* finds another text on the clipboard.
Awaits ==
  \A p \in Pastes : Awaited(p) =>
    /\ restorer[p] \in {"none", "sleep"}
    /\ ~copied[p] => clipboard = Text[p] /\ \A q \in Pastes : restorer[q] # "set"
    /\ \A q \in Pastes \ {p} :
         /\ pc[q] \notin UnderWay
         /\ pc[p] \in {"spawn", "pasted"} /\ restorer[q] = "sleep"
              => id[q] # pending.id

\* The registration holds the text of its paste, and nobody has an id early.
Owned ==
  \A p \in Pastes :
    /\ id[p] = pending.id /\ id[p] # 0 => pending.last_inserted = Text[p]
    /\ pc[p] \in {"idle", "get", "set", "chord", "number"} => id[p] = 0

\* Every paste has a text of its own.
TextsDiffer == \A p, q \in Pastes : Text[p] = Text[q] => p = q

\* A text that was sent and is left to the user has no registration: a thread tells
\* it from its own by the text alone.
SentIsKnown == TextsDiffer \/ "release" \notin Failures

SentIfReleased == \A p \in Pastes : pc[p] = "copiedSent" => "release" \in Failures

Serial ==
  late = {} /\ IdsApart /\ Owned /\ SentIfReleased /\ Alone /\ Awaits /\ ReadsOwn

\* Without failures of the clipboard a write is made at once.
LEMMA CalmSet ==
  ASSUME Calm, NEW text, NEW ok \in BOOLEAN, SetText(text, ok)
  PROVE  clipboard' = text /\ UNCHANGED late
BY DEF Calm, SetText

LEMMA IdsStep ==
  ASSUME ClipboardTypeOK, ThreadAfterPaste, IdsApart, [Next]_vars
  PROVE  IdsApart'
<1> USE DEF ClipboardTypeOK, ThreadAfterPaste, IdsApart, Goto, RestorerGoto
<1>1. ASSUME NEW p \in Pastes,
             BeginPaste(p) \/ PasteGet(p) \/ PasteSet(p) \/ Chord(p) \/ Spawn(p)
      PROVE  IdsApart'
  BY <1>1 DEF BeginPaste, PasteGet, PasteSet, Chord, Spawn
<1>2. ASSUME NEW p \in Pastes, Number(p) PROVE IdsApart'
  <2>1. /\ pc[p] = "number" /\ pc'[p] = "remember"
        /\ next_id' = next_id + 1 /\ id'[p] = next_id + 1
        /\ \A q \in Pastes : q # p => pc'[q] = pc[q] /\ id'[q] = id[q]
        /\ UNCHANGED <<pending, restorer>>
    BY <1>2 DEF Number
  <2>2. next_id \in Nat /\ pending.id \in Nat /\ \A q \in Pastes : id[q] \in Nat
    BY DEF PendingRestore
  <2> QED BY <2>1, <2>2
<1>3. ASSUME NEW p \in Pastes, Remember(p) PROVE IdsApart'
  BY <1>3 DEF Remember, remember_pending
<1>4. ASSUME NEW p \in Pastes, Decide(p) \/ RestoreSet(p) \/ AppReads(p) PROVE IdsApart'
  BY <1>4 DEF Decide, RestoreSet, AppReads
<1>5. ASSUME NEW p \in Pastes, ClearPending(p) PROVE IdsApart'
  BY <1>5 DEF ClearPending, NoPending
<1>6. CASE (\E c \in Copies : UserCopies(c)) \/ (\E t \in Contents : LateSet(t))
  BY <1>6 DEF UserCopies, LateSet
<1>7. CASE UNCHANGED vars
  BY <1>7 DEF vars
<1> QED BY <1>1, <1>2, <1>3, <1>4, <1>5, <1>6, <1>7 DEF Next, Runs

LEMMA OwnedStep ==
  ASSUME ClipboardTypeOK, ThreadAfterPaste, IdsApart, Owned, [Next]_vars
  PROVE  Owned'
<1> USE DEF ClipboardTypeOK, Owned, Goto
<1>1. ASSUME NEW p \in Pastes, Number(p) PROVE Owned'
  <2>1. /\ id'[p] = next_id + 1 /\ \A q \in Pastes : q # p => id'[q] = id[q]
        /\ pc'[p] = "remember" /\ \A q \in Pastes : q # p => pc'[q] = pc[q]
        /\ UNCHANGED pending
    BY <1>1 DEF Number
  <2>2. pending.id \in Nat /\ next_id \in Nat /\ pending.id <= next_id
    BY DEF IdsApart, PendingRestore
  <2> QED BY <2>1, <2>2
<1>2. ASSUME NEW p \in Pastes, Remember(p) PROVE Owned'
  <2>1. pending'.id = id[p] /\ pending'.last_inserted = Text[p]
    BY <1>2 DEF Remember, remember_pending
  <2>2. \A q \in Pastes : id[q] = id[p] /\ id[q] # 0 => q = p
    BY DEF IdsApart
  <2> QED BY <1>2, <2>1, <2>2 DEF Remember
<1>3. ASSUME NEW p \in Pastes, ClearPending(p) PROVE Owned'
  BY <1>3 DEF ClearPending, NoPending
<1>4. ASSUME NEW p \in Pastes,
             BeginPaste(p) \/ PasteGet(p) \/ PasteSet(p) \/ Chord(p) \/ Spawn(p)
      PROVE  Owned'
  BY <1>4 DEF BeginPaste, PasteGet, PasteSet, Chord, Spawn
<1>5. CASE UNCHANGED <<pc, pending, id>>
  BY <1>5
<1> QED
  BY <1>1, <1>2, <1>3, <1>4, <1>5
     DEF Next, Runs, vars, Decide, RestoreSet, AppReads, UserCopies, LateSet

LEMMA SentStep ==
  ASSUME ClipboardTypeOK, SentIfReleased, [Next]_vars
  PROVE  SentIfReleased'
BY DEF ClipboardTypeOK, SentIfReleased, Failures, Next, Runs, vars, Goto, BeginPaste,
       PasteGet, PasteSet, Chord, Number, Remember, Spawn, Decide, RestoreSet,
       ClearPending, AppReads, UserCopies, LateSet

LEMMA AloneStep ==
  ASSUME ClipboardTypeOK, Calm, Alone, [Next]_vars
  PROVE  Alone'
<1> USE DEF ClipboardTypeOK, Alone, Goto, RestorerGoto, ChordSent, UnderWay
<1>1. ASSUME NEW p \in Pastes, BeginPaste(p) PROVE Alone'
  BY <1>1 DEF BeginPaste, Calm
<1>2. ASSUME NEW p \in Pastes, PasteGet(p) \/ PasteSet(p) \/ Chord(p) PROVE Alone'
  BY <1>2 DEF PasteGet, PasteSet, Chord
<1>3. ASSUME NEW p \in Pastes, Number(p) \/ Remember(p) \/ Spawn(p) PROVE Alone'
  BY <1>3 DEF Number, Remember, Spawn
<1>4. ASSUME NEW p \in Pastes, Decide(p) PROVE Alone'
  BY <1>4 DEF Decide, Calm
<1>5. ASSUME NEW p \in Pastes, RestoreSet(p) \/ ClearPending(p) PROVE Alone'
  BY <1>5 DEF RestoreSet, ClearPending
<1>6. ASSUME NEW p \in Pastes, AppReads(p) PROVE Alone'
  <2>1. clipboard # NoText
    BY ClipboardAssumption
  <2> QED BY <1>6, <2>1 DEF AppReads
<1>7. CASE (\E c \in Copies : UserCopies(c)) \/ (\E t \in Contents : LateSet(t))
  BY <1>7 DEF UserCopies, LateSet
<1>8. CASE UNCHANGED vars
  BY <1>8 DEF vars
<1> QED BY <1>1, <1>2, <1>3, <1>4, <1>5, <1>6, <1>7, <1>8 DEF Next, Runs

LEMMA AwaitsStep ==
  ASSUME ClipboardTypeOK, ThreadAfterPaste, Calm, SentIsKnown, Serial,
         [Next]_vars
  PROVE  Awaits'
<1> USE DEF ClipboardTypeOK, Awaits, Awaited, Goto, RestorerGoto, ChordSent, UnderWay
<1>1. ASSUME NEW p \in Pastes, BeginPaste(p) PROVE Awaits'
  BY <1>1 DEF BeginPaste, Calm, Serial
<1>2. ASSUME NEW p \in Pastes, PasteGet(p) PROVE Awaits'
  BY <1>2 DEF PasteGet, Serial, Alone
<1>3. ASSUME NEW p \in Pastes, PasteSet(p) PROVE Awaits'
  <2>1. clipboard' = Text[p]
    BY <1>3, CalmSet DEF PasteSet
  <2>2. restorer[p] = "none" /\ \A q \in Pastes : restorer[q] # "set"
    BY <1>3 DEF PasteSet, ThreadAfterPaste, Serial, Alone
  <2>3. \A q \in Pastes : q # p => pc[q] \notin UnderWay /\ ~Awaited(q)
    BY <1>3 DEF PasteSet, Serial, Alone
  <2> QED BY <1>3, <2>1, <2>2, <2>3 DEF PasteSet
<1>4. ASSUME NEW p \in Pastes, Chord(p) PROVE Awaits'
  <2>1. ~RestoreClipboard => \A q \in Pastes : restorer[q] = "none"
    BY DEF Serial, IdsApart
  <2> QED BY <1>4, <2>1 DEF Chord, Serial
<1>5. ASSUME NEW p \in Pastes, Number(p) PROVE Awaits'
  <2>1. \A q \in Pastes : q # p => ~Awaited(q)
    BY <1>5 DEF Number, Serial, Alone
  <2> QED BY <1>5, <2>1 DEF Number, Serial
<1>6. ASSUME NEW p \in Pastes, Remember(p) PROVE Awaits'
  <2>1. \A q \in Pastes : q # p => ~Awaited(q)
    BY <1>6 DEF Remember, Serial, Alone
  <2>2. pending'.id = id[p]
    BY <1>6 DEF Remember, remember_pending
  <2>3. \A q \in Pastes : q # p => id[q] # id[p]
    BY <1>6 DEF Remember, Serial, IdsApart
  <2> QED BY <1>6, <2>1, <2>2, <2>3 DEF Remember, Serial
<1>7. ASSUME NEW p \in Pastes, Spawn(p) PROVE Awaits'
  <2>1. \A q \in Pastes : q # p => ~Awaited(q)
    BY <1>7 DEF Spawn, Serial, Alone
  <2> QED BY <1>7, <2>1 DEF Spawn, Serial
<1>8. ASSUME NEW p \in Pastes, Decide(p) PROVE Awaits'
  <2>1. \A q \in Pastes : pc[q] \notin UnderWay
    BY <1>8 DEF Decide, Calm
  <2>2. ASSUME NEW q \in Pastes, Awaited(q)
        PROVE  pc[q] \in {"pasted", "copiedSent"} /\ p # q
    BY <1>8, <2>1, <2>2 DEF Decide
  <2>3. ASSUME NEW q \in Pastes, Awaited(q), ~copied[q]
        PROVE  restorer'[p] # "set"
    <3>1. CASE pc[q] = "pasted"
      <4>1. id[p] # pending.id
        BY <1>8, <2>2, <2>3, <3>1 DEF Decide, Serial
      <4> QED BY <1>8, <4>1 DEF Decide, decide_restore
    <3>2. CASE pc[q] = "copiedSent"
      <4>1. TextsDiffer
        BY <3>2 DEF SentIsKnown, Serial, SentIfReleased
      <4>2. clipboard = Text[q] /\ Text[q] # Text[p]
        BY <2>2, <2>3, <4>1 DEF Serial, TextsDiffer
      <4>3. id[p] = pending.id => pending.last_inserted = Text[p]
        BY <1>8 DEF Decide, Serial, IdsApart, Owned
      <4> QED BY <1>8, <4>2, <4>3 DEF Decide, decide_restore, GetText
    <3> QED BY <2>2, <2>3, <3>1, <3>2
  <2>4. /\ UNCHANGED <<clipboard, pending, pc, id, delivered, copied>>
        /\ \A q \in Pastes : q # p => restorer'[q] = restorer[q]
        /\ restorer'[p] \in {"set", "clear", "done"}
    BY <1>8 DEF Decide
  <2> QED BY <2>2, <2>3, <2>4 DEF Serial
<1>9. ASSUME NEW p \in Pastes, RestoreSet(p) PROVE Awaits'
  BY <1>9 DEF RestoreSet, Serial
<1>10. ASSUME NEW p \in Pastes, ClearPending(p) PROVE Awaits'
  <2>1. pending' = pending \/ pending'.id = 0
    BY <1>10 DEF ClearPending, NoPending
  <2>2. \A q \in Pastes : restorer[q] = "sleep" => id[q] # 0
    BY DEF Serial, IdsApart
  <2> QED BY <1>10, <2>1, <2>2 DEF ClearPending, Serial
<1>11. ASSUME NEW p \in Pastes, AppReads(p) PROVE Awaits'
  <2>1. clipboard # NoText
    BY ClipboardAssumption
  <2> QED BY <1>11, <2>1 DEF AppReads, Serial
<1>12. ASSUME NEW c \in Copies, UserCopies(c) PROVE Awaits'
  <2>1. \A q \in Pastes : Awaited(q) => copied'[q]
    BY <1>12 DEF UserCopies, Undecided, Serial
  <2> QED BY <1>12, <2>1 DEF UserCopies, Serial
<1>13. ASSUME NEW t \in Contents, LateSet(t) PROVE Awaits'
  BY <1>13 DEF LateSet, Serial
<1>14. CASE UNCHANGED vars
  BY <1>14 DEF vars, Serial
<1> QED
  BY <1>1, <1>2, <1>3, <1>4, <1>5, <1>6, <1>7, <1>8, <1>9, <1>10, <1>11,
     <1>12, <1>13, <1>14 DEF Next, Runs

\* What is read is the text that is awaited.
LEMMA ReadsStep ==
  ASSUME ClipboardTypeOK, Serial, [Next]_vars
  PROVE  ReadsOwn'
<1> USE DEF ClipboardTypeOK, ReadsOwn
<1>1. ASSUME NEW p \in Pastes, AppReads(p) PROVE ReadsOwn'
  <2>1. clipboard = Text[p] \/ copied[p]
    BY <1>1 DEF AppReads, Serial, Awaits, Awaited
  <2> QED BY <1>1, <2>1 DEF AppReads, Serial
<1>2. CASE \E c \in Copies : UserCopies(c)
  BY <1>2 DEF UserCopies, Serial
<1>3. CASE \/ UNCHANGED vars
           \/ \E t \in Contents : LateSet(t)
           \/ \E p \in Pastes :
                \/ BeginPaste(p) \/ PasteGet(p) \/ PasteSet(p) \/ Chord(p) \/ Number(p)
                \/ Remember(p) \/ Spawn(p) \/ Decide(p) \/ RestoreSet(p) \/ ClearPending(p)
  <2>1. UNCHANGED <<delivered, copied>>
    BY <1>3, Zenon
       DEF LateSet, BeginPaste, PasteGet, PasteSet, Chord, Number, Remember, Spawn,
           Decide, RestoreSet, ClearPending, vars
  <2> QED BY <2>1 DEF Serial
<1> QED BY <1>1, <1>2, <1>3, Zenon DEF Next, Runs

LEMMA LateStep == ASSUME Calm, Serial, [Next]_vars PROVE late' = {}
<1>1. ASSUME NEW p \in Pastes, PasteSet(p) \/ RestoreSet(p) PROVE late' = late
  BY <1>1, CalmSet DEF PasteSet, RestoreSet
<1>2. CASE \/ UNCHANGED vars
           \/ \E c \in Copies : UserCopies(c)
           \/ \E p \in Pastes :
                \/ BeginPaste(p) \/ PasteGet(p) \/ Chord(p) \/ Number(p)
                \/ Remember(p) \/ Spawn(p) \/ Decide(p) \/ ClearPending(p) \/ AppReads(p)
  BY <1>2, Zenon
     DEF Serial, UserCopies, BeginPaste, PasteGet, Chord, Number, Remember, Spawn,
         Decide, ClearPending, AppReads, vars
<1>3. ASSUME NEW t \in Contents, LateSet(t) PROVE FALSE
  BY <1>3 DEF LateSet, Serial
<1> QED BY <1>1, <1>2, <1>3, Zenon DEF Next, Runs, Serial

\* Each paste delivers its own text, unless the user has copied something since, for
\* any number of pastes, when no restore falls into one; of equal texts too, unless
\* a chord may be sent and yet fail.
THEOREM PastesAreDelivered == Spec => [](SentIsKnown => PasteDelivers)
<1> DEFINE Inv == ThreadAfterPaste /\ (Calm /\ SentIsKnown => Serial)
<1>1. Init => Inv
  <2>1. ASSUME Init PROVE Serial
    BY <2>1, ClipboardAssumption
       DEF Init, Serial, IdsApart, Owned, SentIfReleased, Alone, Awaits, Awaited, ReadsOwn,
           NoPending, ChordSent, UnderWay
  <2> QED BY <2>1 DEF Init, ThreadAfterPaste
<1>2. ClipboardTypeOK /\ Inv /\ [Next]_vars => Inv'
  <2>1. [Next]_vars => Calm' = Calm /\ (SentIsKnown' <=> SentIsKnown)
    BY DEF Next, Runs, vars, Calm, SentIsKnown, TextsDiffer, Failures
  <2> QED
    BY <2>1, ThreadAfterPasteStep, IdsStep, OwnedStep, SentStep, AloneStep, AwaitsStep,
       ReadsStep, LateStep
       DEF Serial
<1>3. Inv => (SentIsKnown => PasteDelivers)
  BY DEF PasteDelivers, Serial
<1> QED BY <1>1, <1>2, <1>3, ClipboardTyping, PTL DEF Spec

-----------------------------------------------------------------------------
(* Copies. *)

\* The pastes of a session come one after another.
OneAtATime == \A p, q \in Pastes : {pc[p], pc[q]} \subseteq UnderWay => p = q

\* The pastes that are still to be registered, or have the registration.
ToRegister(p) == pc[p] \in {"idle", "get", "set", "chord", "number", "remember"}
MayRestore(p) == ToRegister(p) \/ (id[p] # 0 /\ pending.id = id[p])

\* The text of such a paste is written by that paste only: it is no late write, and
\* nobody has it to restore.  So once the user has copied over it, it is gone.
WrittenOnce ==
  \A p \in Pastes : MayRestore(p) =>
    /\ Text[p] \notin late
    /\ pending.original # Text[p] /\ \A q \in Pastes : target[q] # Text[p]
    /\ ToRegister(p) => \A q \in Pastes : before[q] # Text[p]
    /\ pc[p] \in {"idle", "get", "set"} => ~copied[p] /\ clipboard # Text[p]
    /\ copied[p] => clipboard # Text[p]

SeenInv == OneAtATime /\ Owned /\ WrittenOnce /\ CopySeenByDecision

LEMMA OneAtATimeStep ==
  ASSUME ClipboardTypeOK, scenario.serial, OneAtATime, [Next]_vars
  PROVE  OneAtATime'
<1> USE DEF ClipboardTypeOK, OneAtATime, Goto, UnderWay
<1>1. ASSUME NEW p \in Pastes, BeginPaste(p) PROVE OneAtATime'
  BY <1>1 DEF BeginPaste
<1>2. ASSUME NEW p \in Pastes, PasteGet(p) \/ PasteSet(p) \/ Chord(p) PROVE OneAtATime'
  BY <1>2 DEF PasteGet, PasteSet, Chord
<1>3. ASSUME NEW p \in Pastes, Number(p) \/ Remember(p) \/ Spawn(p) PROVE OneAtATime'
  BY <1>3 DEF Number, Remember, Spawn
<1>4. CASE UNCHANGED pc
  BY <1>4
<1> QED
  BY <1>1, <1>2, <1>3, <1>4
     DEF Next, Runs, vars, Decide, RestoreSet, ClearPending, AppReads, UserCopies, LateSet

LEMMA WrittenOnceStep ==
  ASSUME ClipboardTypeOK, TextsDiffer, ThreadAfterPaste, IdsApart, SeenInv, [Next]_vars
  PROVE  WrittenOnce'
<1> USE DEF ClipboardTypeOK, MayRestore, ToRegister, Goto, RestorerGoto
<1>0. /\ WrittenOnce /\ OneAtATime /\ Owned
      /\ \A p \in Pastes : Text[p] # NoText
  BY ClipboardAssumption DEF SeenInv, Contents, Texts
<1>1. ASSUME NEW p \in Pastes, PasteGet(p) PROVE WrittenOnce'
  <2>1. \A q \in Pastes : q # p => pc[q] \notin UnderWay
    BY <1>0, <1>1 DEF PasteGet, OneAtATime, UnderWay
  <2>2. \A q \in Pastes : ToRegister(q) => clipboard # Text[q]
    BY <1>0, <1>1, <2>1 DEF PasteGet, WrittenOnce, UnderWay
  <2>3. /\ \A q \in Pastes : before'[q] \in {before[q], clipboard, NoText}
        /\ \A q \in Pastes : ToRegister(q)' => ToRegister(q)
        /\ \A q \in Pastes : pc'[q] \in {"idle", "get", "set"} =>
                                pc[q] \in {"idle", "get", "set"}
        /\ UNCHANGED <<clipboard, late, pending, id, target, copied>>
    BY <1>1 DEF PasteGet, GetText
  <2> QED BY <1>0, <2>2, <2>3 DEF WrittenOnce
<1>2. ASSUME NEW p \in Pastes, PasteSet(p) PROVE WrittenOnce'
  <2>1. PICK ok \in BOOLEAN :
          SetText(Text[p], ok) /\ pc' = [pc EXCEPT ![p] = IF ok THEN "chord" ELSE "failed"]
    BY <1>2 DEF PasteSet
  <2>2. /\ clipboard' \in {clipboard, Text[p]} /\ late' \subseteq late \cup {Text[p]}
        /\ ok => late' = late
        /\ UNCHANGED <<pending, id, before, target, copied>>
    BY <1>2, <2>1 DEF PasteSet, SetText
  <2>3. MayRestore(p)' => ok /\ MayRestore(p)
    BY <1>0, <1>2, <2>1, <2>2 DEF PasteSet, Owned
  <2>4. pc[p] = "set" /\ \A q \in Pastes : q # p => Text[q] # Text[p] /\ pc'[q] = pc[q]
    BY <1>2, <2>1 DEF PasteSet, TextsDiffer
  <2>5. \A q \in Pastes : q # p => (MayRestore(q)' <=> MayRestore(q))
    BY <2>2, <2>4
  <2> QED BY <1>0, <2>1, <2>2, <2>3, <2>4, <2>5 DEF WrittenOnce
<1>3. ASSUME NEW p \in Pastes, Remember(p) PROVE WrittenOnce'
  <2>1. /\ pending'.id = id[p] /\ pending'.original \in {pending.original, before[p]}
        /\ pc[p] = "remember" /\ pc' = [pc EXCEPT ![p] = "spawn"]
        /\ UNCHANGED <<clipboard, late, before, id, target, copied>>
    BY <1>3 DEF Remember, remember_pending
  <2>2. \A q \in Pastes : MayRestore(q)' => ToRegister(q)
    BY <1>3, <2>1 DEF IdsApart
  <2> QED BY <1>0, <2>1, <2>2 DEF WrittenOnce
<1>4. ASSUME NEW p \in Pastes, Decide(p) PROVE WrittenOnce'
  <2>1. /\ \A q \in Pastes : target'[q] \in {target[q], pending.original}
        /\ UNCHANGED <<clipboard, late, pending, pc, before, id, copied>>
    BY <1>4 DEF Decide
  <2> QED BY <1>0, <2>1 DEF WrittenOnce
<1>5. ASSUME NEW p \in Pastes, RestoreSet(p) PROVE WrittenOnce'
  <2>1. /\ clipboard' \in {clipboard, target[p]} /\ late' \subseteq late \cup {target[p]}
        /\ UNCHANGED <<pending, pc, before, id, target, copied>>
    BY <1>5 DEF RestoreSet, SetText
  <2> QED BY <1>0, <2>1 DEF WrittenOnce
<1>6. ASSUME NEW p \in Pastes, ClearPending(p) PROVE WrittenOnce'
  <2>1. /\ pending' = pending \/ (pending'.id = 0 /\ pending'.original = NoText)
        /\ UNCHANGED <<clipboard, late, pc, before, id, target, copied>>
    BY <1>6 DEF ClearPending, NoPending
  <2> QED BY <1>0, <2>1 DEF WrittenOnce
<1>7. ASSUME NEW c \in Copies, UserCopies(c) PROVE WrittenOnce'
  <2>1. /\ \A q \in Pastes : clipboard' # Text[q]
        /\ \A q \in Pastes : pc[q] \in {"idle", "get", "set"} => copied'[q] = copied[q]
        /\ UNCHANGED <<late, pending, pc, before, id, target>>
    BY <1>7, ClipboardAssumption DEF UserCopies, Texts, Undecided, ChordSent
  <2> QED BY <1>0, <2>1 DEF WrittenOnce
<1>8. ASSUME NEW t \in Contents, LateSet(t) PROVE WrittenOnce'
  BY <1>0, <1>8 DEF LateSet, WrittenOnce
<1>9. ASSUME NEW p \in Pastes,
             BeginPaste(p) \/ Chord(p) \/ Number(p) \/ Spawn(p) \/ AppReads(p)
      PROVE  WrittenOnce'
  <2>1. /\ \A q \in Pastes : MayRestore(q)' => MayRestore(q)
        /\ \A q \in Pastes : ToRegister(q)' => ToRegister(q)
        /\ \A q \in Pastes : pc'[q] \in {"idle", "get", "set"} =>
                                pc[q] \in {"idle", "get", "set"}
        /\ UNCHANGED <<clipboard, late, pending, before, target, copied>>
    BY <1>9 DEF BeginPaste, Chord, Number, Spawn, AppReads
  <2> QED BY <1>0, <2>1 DEF WrittenOnce
<1>10. CASE UNCHANGED vars
  BY <1>0, <1>10 DEF vars, WrittenOnce
<1> QED
  BY <1>1, <1>2, <1>3, <1>4, <1>5, <1>6, <1>7, <1>8, <1>9, <1>10 DEF Next, Runs

LEMMA CopySeenStep ==
  ASSUME ClipboardTypeOK, ThreadAfterPaste, IdsApart, SeenInv, [Next]_vars
  PROVE  CopySeenByDecision'
<1> USE DEF ClipboardTypeOK, RestorerGoto
<1>0. WrittenOnce /\ Owned /\ CopySeenByDecision
  BY DEF SeenInv
<1>1. ASSUME NEW p \in Pastes, Decide(p) PROVE CopySeenByDecision'
  <2>1. UNCHANGED copied /\ \A q \in Pastes : q # p => restorer'[q] = restorer[q]
    BY <1>1 DEF Decide
  <2>2. restorer'[p] = "set" => pending.id = id[p] /\ clipboard = pending.last_inserted
    BY <1>1 DEF Decide, decide_restore, GetText
  <2>3. id[p] # 0
    BY <1>1 DEF Decide, IdsApart
  <2>4. restorer'[p] = "set" => ~copied[p]
    BY <1>0, <2>2, <2>3 DEF Owned, WrittenOnce, MayRestore
  <2> QED BY <1>0, <2>1, <2>4 DEF CopySeenByDecision
<1>2. ASSUME NEW c \in Copies, UserCopies(c) PROVE CopySeenByDecision'
  BY <1>0, <1>2 DEF UserCopies, Undecided, CopySeenByDecision
<1>3. CASE UNCHANGED copied /\ \A p \in Pastes : restorer'[p] = "set" => restorer[p] = "set"
  BY <1>0, <1>3 DEF CopySeenByDecision
<1> QED
  BY <1>1, <1>2, <1>3
     DEF Next, Runs, vars, BeginPaste, PasteGet, PasteSet, Chord, Number, Remember, Spawn,
         RestoreSet, ClearPending, AppReads, LateSet

\* A7.3 for the pastes of one session: a copy the user makes before the decision is
\* never overwritten, whichever steps fail, are made late or fall into a paste.
THEOREM CopiesAreSeen ==
  ASSUME TextsDiffer
  PROVE  Spec => [](scenario.serial => CopySeenByDecision)
<1> DEFINE Inv == ThreadAfterPaste /\ IdsApart /\ (scenario.serial => SeenInv)
<1>1. Init => Inv
  BY ClipboardAssumption
     DEF Init, ThreadAfterPaste, IdsApart, NoPending, SeenInv, OneAtATime, Owned,
         WrittenOnce, MayRestore, ToRegister, CopySeenByDecision, UnderWay, Texts, Contents
<1>2. ClipboardTypeOK /\ Inv /\ [Next]_vars => Inv'
  <2>1. [Next]_vars => scenario' = scenario
    BY DEF Next, Runs, vars
  <2>2. ASSUME ClipboardTypeOK, ThreadAfterPaste, IdsApart, scenario.serial, SeenInv,
               [Next]_vars
        PROVE  SeenInv'
    BY <2>2, OneAtATimeStep, OwnedStep, WrittenOnceStep, CopySeenStep DEF SeenInv
  <2> QED BY <2>1, <2>2, ThreadAfterPasteStep, IdsStep
<1>3. Inv => (scenario.serial => CopySeenByDecision)
  BY DEF SeenInv
<1> QED BY <1>1, <1>2, <1>3, ClipboardTyping, PTL DEF Spec

-----------------------------------------------------------------------------
(* Restorations. *)

\* What the user has and copies is text.
TextOnly == Original \notin NonText /\ scenario.copies \cap NonText = {}

Written(p) == pc[p] \in {"chord", "number", "remember", "spawn"}

\* The registration is that of its paste; who is to restore is its owner, and
\* finds the text of its paste on the clipboard, or what the user has copied.
Restoring ==
  /\ \A p \in Pastes : id[p] = pending.id /\ id[p] # 0 => pending.last_inserted = Text[p]
  /\ \A p \in Pastes : restorer[p] = "set" =>
       id[p] = pending.id /\ clipboard \in {Text[p]} \cup Copies

\* A text is on the clipboard only after its paste has written it ...
Appears ==
  \A p \in Pastes :
    /\ clipboard = Text[p] => Written(p) \/ pc[p] = "pasted" \/ Left(p)
    /\ Written(p) => clipboard \in {Text[p]} \cup Copies

\* ... while its registration, with an original, is open; once the clipboard is
\* given back it does not come back.
Covered ==
  /\ \A p \in Pastes :
       /\ RestoreClipboard /\ clipboard = Text[p] /\ pc[p] \in {"spawn", "pasted"}
            => pending.original # NoText /\ pending.last_inserted = Text[p]
       /\ restorer[p] = "clear" => clipboard \notin Dictated

\* What was read before the text was written is the user's, or will not be used.
ReadIsUsers ==
  \A p \in Pastes : pc[p] \in {"set", "chord", "number", "remember"} =>
    /\ before[p] # NoText
    /\ RestoreClipboard => before[p] \notin Dictated \/ pending.original # NoText

KeptIsUsers ==
  /\ pending.original \notin Dictated
  /\ \A p \in Pastes : target[p] \notin Dictated

\* The clipboard is always a text, and so is what comes back to it.
AllText ==
  /\ clipboard \notin NonText /\ pending.original \notin NonText
  /\ \A p \in Pastes : before[p] \notin NonText /\ target[p] \notin NonText

Sound == AllText /\ Appears /\ Covered /\ ReadIsUsers /\ KeptIsUsers

\* What is not dictated stays so: a text that is left to the user is left for good.
LEMMA DictatedShrinks ==
  ASSUME ClipboardTypeOK, [Next]_vars
  PROVE  \A x : x \notin Dictated => x \notin Dictated'
<1>1. \A p \in Pastes : Left(p) => Left(p)'
  BY DEF Left, ClipboardTypeOK, Next, Runs, vars, Goto, BeginPaste, PasteGet, PasteSet,
         Chord, Number, Remember, Spawn, Decide, RestoreSet, ClearPending, AppReads,
         UserCopies, LateSet
<1> QED BY <1>1 DEF Dictated

LEMMA RestoringStep ==
  ASSUME ClipboardTypeOK, ThreadAfterPaste, Calm, Serial, Restoring, [Next]_vars
  PROVE  Restoring'
<1> USE DEF ClipboardTypeOK, Restoring, Goto, RestorerGoto
<1>1. ASSUME NEW p \in Pastes, BeginPaste(p) \/ PasteGet(p) \/ Chord(p) \/ AppReads(p)
      PROVE  Restoring'
  BY <1>1 DEF BeginPaste, PasteGet, Chord, AppReads
<1>2. ASSUME NEW p \in Pastes, PasteSet(p) PROVE Restoring'
  BY <1>2 DEF PasteSet, Serial, Alone, UnderWay
<1>3. ASSUME NEW p \in Pastes, Number(p) PROVE Restoring'
  <2>1. /\ id'[p] = next_id + 1 /\ \A q \in Pastes : q # p => id'[q] = id[q]
        /\ UNCHANGED <<pending, restorer, clipboard>>
    BY <1>3 DEF Number
  <2>2. pending.id \in Nat /\ next_id \in Nat /\ pending.id <= next_id
    BY DEF Serial, IdsApart, PendingRestore
  <2>3. \A q \in Pastes : restorer[q] # "set"
    BY <1>3 DEF Number, Serial, Alone, UnderWay
  <2> QED BY <2>1, <2>2, <2>3
<1>4. ASSUME NEW p \in Pastes, Remember(p) PROVE Restoring'
  <2>1. pending'.id = id[p] /\ pending'.last_inserted = Text[p]
    BY <1>4 DEF Remember, remember_pending
  <2>2. \A q \in Pastes : id[q] = id[p] /\ id[q] # 0 => q = p
    BY DEF Serial, IdsApart
  <2>3. \A q \in Pastes : restorer[q] # "set"
    BY <1>4 DEF Remember, Serial, Alone, UnderWay
  <2> QED BY <1>4, <2>1, <2>2, <2>3 DEF Remember
<1>5. ASSUME NEW p \in Pastes, Spawn(p) PROVE Restoring'
  BY <1>5 DEF Spawn
<1>6. ASSUME NEW p \in Pastes, Decide(p) PROVE Restoring'
  <2>1. /\ UNCHANGED <<clipboard, pending, id>>
        /\ \A q \in Pastes : q # p => restorer'[q] = restorer[q]
    BY <1>6 DEF Decide
  <2>2. restorer'[p] = "set" => id[p] = pending.id /\ clipboard = Text[p]
    <3>1. restorer'[p] = "set" => id[p] = pending.id /\ clipboard = pending.last_inserted
      BY <1>6 DEF Decide, decide_restore, GetText, Calm
    <3>2. id[p] # 0
      BY <1>6 DEF Decide, Serial, IdsApart
    <3> QED BY <3>1, <3>2
  <2> QED BY <2>1, <2>2
<1>7. ASSUME NEW p \in Pastes, RestoreSet(p) PROVE Restoring'
  <2>1. \A q \in Pastes : q # p => restorer[q] # "set"
    BY <1>7 DEF RestoreSet, Serial, IdsApart
  <2> QED BY <1>7, <2>1 DEF RestoreSet
<1>8. ASSUME NEW p \in Pastes, ClearPending(p) PROVE Restoring'
  <2>1. CASE pending.id = id[p]
    <3>1. \A q \in Pastes : restorer[q] # "set"
      BY <1>8, <2>1 DEF ClearPending, Serial, IdsApart
    <3> QED BY <1>8, <2>1, <3>1 DEF ClearPending, NoPending
  <2>2. CASE pending.id # id[p]
    BY <1>8, <2>2 DEF ClearPending
  <2> QED BY <2>1, <2>2
<1>9. ASSUME NEW c \in Copies, UserCopies(c) PROVE Restoring'
  BY <1>9 DEF UserCopies
<1>10. ASSUME NEW t \in Contents, LateSet(t) PROVE Restoring'
  BY <1>10 DEF LateSet, Serial
<1>11. CASE UNCHANGED vars
  BY <1>11 DEF vars
<1> QED
  BY <1>1, <1>2, <1>3, <1>4, <1>5, <1>6, <1>7, <1>8, <1>9, <1>10, <1>11 DEF Next, Runs

\* The invariant of the calm pastes.
CalmInv == ThreadAfterPaste /\ (Calm => Serial /\ Restoring)

LEMMA CalmInvHolds ==
  ASSUME TextsDiffer
  PROVE  Spec => []CalmInv
<1>1. Init => CalmInv
  BY ClipboardAssumption
     DEF Init, CalmInv, ThreadAfterPaste, Serial, IdsApart, Owned, SentIfReleased, Alone, Awaits, Awaited,
         ReadsOwn, NoPending, ChordSent, UnderWay, Restoring
<1>2. ClipboardTypeOK /\ CalmInv /\ [Next]_vars => CalmInv'
  <2>1. [Next]_vars => Calm' = Calm
    BY DEF Next, Runs, vars, Calm, Failures
  <2> QED
    BY <2>1, ThreadAfterPasteStep, IdsStep, OwnedStep, SentStep, AloneStep, AwaitsStep,
       ReadsStep, LateStep, RestoringStep
       DEF Serial, SentIsKnown, CalmInv
<1> QED BY <1>1, <1>2, ClipboardTyping, PTL DEF Spec

\* A text left for a manual paste is taken away by the user or by the next paste
\* only: whoever restores finds the text of a paste that was delivered.
THEOREM LeftTextsStay ==
  ASSUME TextsDiffer
  PROVE  Spec => FallbackTextStays
<1>1. ASSUME ClipboardTypeOK, CalmInv, Calm, [Next]_vars,
             NEW p \in Pastes, Left(p), clipboard = Text[p],
             clipboard' # Text[p]
      PROVE  clipboard' \in Copies \/ \E q \in Pastes : pc[q] = "set"
  <2>1. ASSUME NEW q \in Pastes, RestoreSet(q) PROVE FALSE
    <3>1. pc[q] = "pasted" /\ clipboard \in {Text[q]} \cup Copies
      BY <1>1, <2>1 DEF RestoreSet, CalmInv, ThreadAfterPaste, Restoring
    <3>2. Text[p] \notin Copies
      BY ClipboardAssumption DEF Texts
    <3> QED BY <1>1, <3>1, <3>2 DEF TextsDiffer, Left
  <2>2. ASSUME NEW t \in Contents, LateSet(t) PROVE FALSE
    BY <1>1, <2>2 DEF LateSet, CalmInv, Serial
  <2>3. ASSUME NEW c \in Copies, UserCopies(c) PROVE clipboard' \in Copies
    BY <2>3 DEF UserCopies
  <2>4. ASSUME NEW q \in Pastes, PasteSet(q) PROVE pc[q] = "set"
    BY <2>4 DEF PasteSet
  <2>5. CASE \/ UNCHANGED vars
             \/ \E q \in Pastes :
                  \/ BeginPaste(q) \/ PasteGet(q) \/ Chord(q) \/ Number(q) \/ Remember(q)
                  \/ Spawn(q) \/ Decide(q) \/ ClearPending(q) \/ AppReads(q)
    <3>1. clipboard' = clipboard
      BY <2>5, Zenon
         DEF BeginPaste, PasteGet, Chord, Number, Remember, Spawn, Decide,
             ClearPending, AppReads, vars
    <3> QED BY <1>1, <3>1
  <2> QED BY <1>1, <2>1, <2>2, <2>3, <2>4, <2>5, Zenon DEF Next, Runs
<1>2. ClipboardTypeOK /\ CalmInv /\ [Next]_vars
        => [Calm => \A p \in Pastes :
              Left(p) /\ clipboard = Text[p] /\ clipboard' # Text[p]
                => clipboard' \in Copies \/ \E q \in Pastes : pc[q] = "set"]_vars
  BY <1>1
<1> QED BY <1>2, ClipboardTyping, CalmInvHolds, PTL DEF Spec, FallbackTextStays

\* A write that is reported made is made, and every write is.
LEMMA CalmSetOk ==
  ASSUME Calm, NEW text, NEW ok \in BOOLEAN, SetText(text, ok)
  PROVE  ok
BY DEF Calm, SetText

\* While p pastes nobody restores and nobody else pastes.
LEMMA NobodyElse ==
  ASSUME Serial, NEW p \in Pastes, pc[p] \in UnderWay
  PROVE  \A q \in Pastes : /\ restorer[q] \notin {"set", "clear"}
                           /\ q # p => pc[q] \notin UnderWay
BY DEF Serial, Alone

LEMMA AllTextStep ==
  ASSUME ClipboardTypeOK, Calm, Serial, TextOnly, AllText, [Next]_vars
  PROVE  AllText'
<1> USE DEF ClipboardTypeOK, AllText
<1>0. NoText \notin NonText /\ \A p \in Pastes : Text[p] \notin NonText
  BY ClipboardAssumption DEF Contents, Texts
<1>1. ASSUME NEW p \in Pastes, PasteGet(p) PROVE AllText'
  BY <1>0, <1>1 DEF PasteGet, GetText
<1>2. ASSUME NEW p \in Pastes, PasteSet(p) PROVE AllText'
  BY <1>0, <1>2, CalmSet DEF PasteSet
<1>3. ASSUME NEW p \in Pastes, Remember(p) PROVE AllText'
  BY <1>3 DEF Remember, remember_pending
<1>4. ASSUME NEW p \in Pastes, Decide(p) PROVE AllText'
  BY <1>4 DEF Decide
<1>5. ASSUME NEW p \in Pastes, RestoreSet(p) PROVE AllText'
  BY <1>5, CalmSet DEF RestoreSet
<1>6. ASSUME NEW p \in Pastes, ClearPending(p) PROVE AllText'
  BY <1>0, <1>6 DEF ClearPending, NoPending
<1>7. ASSUME NEW c \in Copies, UserCopies(c) PROVE AllText'
  BY <1>7 DEF UserCopies, TextOnly
<1>8. ASSUME NEW t \in Contents, LateSet(t) PROVE AllText'
  BY <1>8 DEF LateSet, Serial
<1>9. CASE \/ UNCHANGED vars
           \/ \E p \in Pastes :
                \/ BeginPaste(p) \/ Chord(p) \/ Number(p) \/ Spawn(p) \/ AppReads(p)
  BY <1>9 DEF vars, BeginPaste, Chord, Number, Spawn, AppReads
<1> QED
  BY <1>1, <1>2, <1>3, <1>4, <1>5, <1>6, <1>7, <1>8, <1>9, Zenon DEF Next, Runs

LEMMA AppearsStep ==
  ASSUME ClipboardTypeOK, TextsDiffer, ThreadAfterPaste, Calm, Serial,
         Restoring, Sound, [Next]_vars
  PROVE  Appears'
<1> USE DEF Left, ClipboardTypeOK, Appears, Written, Goto, RestorerGoto
<1>0. Appears
  BY DEF Sound
<1>1. ASSUME NEW p \in Pastes,
             \/ BeginPaste(p) \/ PasteGet(p) \/ Chord(p) \/ Number(p) \/ Remember(p)
             \/ Spawn(p)
      PROVE  Appears'
  BY <1>0, <1>1 DEF BeginPaste, PasteGet, Chord, Number, Remember, Spawn, Calm
<1>2. ASSUME NEW p \in Pastes, PasteSet(p) PROVE Appears'
  <2>1. clipboard' = Text[p] /\ pc' = [pc EXCEPT ![p] = "chord"]
    BY <1>2, CalmSet, CalmSetOk DEF PasteSet
  <2>2. \A q \in Pastes : q # p => ~Written(q)
    BY <1>2, NobodyElse DEF PasteSet, UnderWay
  <2> QED BY <1>0, <1>2, <2>1, <2>2 DEF PasteSet, TextsDiffer
<1>3. ASSUME NEW p \in Pastes, Decide(p) \/ ClearPending(p) \/ AppReads(p) PROVE Appears'
  BY <1>0, <1>3 DEF Decide, ClearPending, AppReads
<1>4. ASSUME NEW p \in Pastes, RestoreSet(p) PROVE Appears'
  <2>1. clipboard' = target[p] /\ UNCHANGED <<pc, copied>>
    BY <1>4, CalmSet DEF RestoreSet
  <2>2. \A q \in Pastes : ~Written(q)
    BY <1>4, NobodyElse DEF RestoreSet, UnderWay
  <2>3. \A q \in Pastes : target[p] = Text[q] => Left(q)
    BY DEF Sound, KeptIsUsers, Dictated
  <2> QED BY <1>0, <2>1, <2>2, <2>3
<1>5. ASSUME NEW c \in Copies, UserCopies(c) PROVE Appears'
  <2>1. \A q \in Pastes : c # Text[q]
    BY ClipboardAssumption DEF Texts
  <2> QED BY <1>0, <1>5, <2>1 DEF UserCopies, Undecided, ChordSent
<1>6. ASSUME NEW t \in Contents, LateSet(t) PROVE Appears'
  BY <1>6 DEF LateSet, Serial
<1>7. CASE UNCHANGED vars
  BY <1>0, <1>7 DEF vars
<1> QED
  BY <1>1, <1>2, <1>3, <1>4, <1>5, <1>6, <1>7 DEF Next, Runs

LEMMA CoveredStep ==
  ASSUME ClipboardTypeOK, TextsDiffer, ThreadAfterPaste, Calm, Serial,
         Restoring, Sound, [Next]_vars
  PROVE  Covered'
<1> USE DEF Left, ClipboardTypeOK, Goto, RestorerGoto
<1>0. Covered /\ \A x : x \notin Dictated => x \notin Dictated'
  BY DictatedShrinks DEF Sound
<1>1. ASSUME NEW p \in Pastes, BeginPaste(p) \/ PasteGet(p) \/ Chord(p) \/ Number(p)
      PROVE  Covered'
  <2>1. /\ UNCHANGED <<clipboard, pending, restorer, copied>>
        /\ \A q \in Pastes : /\ pc'[q] \in {"spawn", "pasted"} /\ RestoreClipboard
                                  => pc[q] = pc'[q]
                             /\ Left(q) => Left(q)'
    BY <1>1 DEF BeginPaste, PasteGet, Chord, Number
  <2> QED BY <1>0, <2>1 DEF Covered
<1>2. ASSUME NEW p \in Pastes, PasteSet(p) PROVE Covered'
  <2>1. clipboard' = Text[p] /\ pc' = [pc EXCEPT ![p] = "chord"]
        /\ UNCHANGED <<restorer, copied>>
    BY <1>2, CalmSet, CalmSetOk DEF PasteSet
  <2>2. \A q \in Pastes : restorer[q] # "clear"
    BY <1>2, NobodyElse DEF PasteSet, UnderWay
  <2> QED BY <2>1, <2>2 DEF Covered, TextsDiffer
<1>3. ASSUME NEW p \in Pastes, Remember(p) PROVE Covered'
  <2>1. /\ pending'.last_inserted = Text[p]
        /\ UNCHANGED <<clipboard, restorer, copied>>
        /\ pc' = [pc EXCEPT ![p] = "spawn"]
    BY <1>3 DEF Remember, remember_pending
  <2>2. pending'.original # NoText
    BY <1>3 DEF Remember, remember_pending, Sound, ReadIsUsers
  <2>3. \A q \in Pastes : clipboard = Text[q] => q = p
    BY <1>3, ClipboardAssumption DEF Remember, Sound, Appears, Written, TextsDiffer, Texts
  <2> QED BY <1>0, <1>3, <2>1, <2>2, <2>3 DEF Covered, Remember
<1>4. ASSUME NEW p \in Pastes, Spawn(p) PROVE Covered'
  BY <1>0, <1>4 DEF Spawn, Covered
<1>5. ASSUME NEW p \in Pastes, Decide(p) PROVE Covered'
  <2>1. /\ UNCHANGED <<clipboard, pending, pc, copied>>
        /\ \A q \in Pastes : q # p => restorer'[q] = restorer[q]
    BY <1>5 DEF Decide
  <2>2. ASSUME restorer'[p] = "clear", NEW q \in Pastes, clipboard = Text[q]
        PROVE  Left(q)
    <3>1. clipboard # pending.last_inserted \/ pending.original = NoText
      BY <1>5, <2>2, ClipboardAssumption DEF Decide, decide_restore, GetText, Calm, Sound, AllText
    <3>2. RestoreClipboard
      BY <1>5 DEF Decide, Serial, IdsApart
    <3>3. pc[q] \notin UnderWay
      BY <1>5 DEF Decide, Calm
    <3> QED BY <1>0, <2>2, <3>1, <3>2, <3>3 DEF Covered, Sound, Appears, Written, UnderWay
  <2>3. restorer'[p] = "clear" => clipboard \notin Dictated
    BY <2>2 DEF Dictated
  <2> QED BY <1>0, <2>1, <2>3 DEF Covered
<1>6. ASSUME NEW p \in Pastes, RestoreSet(p) PROVE Covered'
  <2>1. /\ clipboard' = target[p]
        /\ UNCHANGED <<pc, pending, copied>>
    BY <1>6, CalmSet DEF RestoreSet
  <2>2. target[p] \notin Dictated
    BY DEF Sound, KeptIsUsers
  <2>3. \A q \in Pastes : target[p] = Text[q] => Left(q)
    BY <2>2 DEF Dictated
  <2> QED BY <1>0, <2>1, <2>2, <2>3 DEF Covered
<1>7. ASSUME NEW p \in Pastes, ClearPending(p) PROVE Covered'
  <2>1. UNCHANGED <<clipboard, pc, copied>>
        /\ \A q \in Pastes : restorer'[q] = "clear" => restorer[q] = "clear"
    BY <1>7 DEF ClearPending
  <2>2. \A q \in Pastes : clipboard = Text[q] => Left(q)
    BY <1>0, <1>7 DEF Covered, ClearPending, Dictated
  <2> QED BY <1>0, <2>1, <2>2 DEF Covered
<1>8. ASSUME NEW p \in Pastes, AppReads(p) PROVE Covered'
  BY <1>0, <1>8 DEF AppReads, Covered
<1>9. ASSUME NEW c \in Copies, UserCopies(c) PROVE Covered'
  <2>1. c \notin Dictated' /\ \A q \in Pastes : c # Text[q]
    BY ClipboardAssumption DEF Texts, Dictated
  <2> QED BY <1>0, <1>9, <2>1 DEF UserCopies, Covered
<1>10. ASSUME NEW t \in Contents, LateSet(t) PROVE Covered'
  BY <1>10 DEF LateSet, Serial
<1>11. CASE UNCHANGED vars
  BY <1>0, <1>11 DEF vars, Covered
<1> QED
  BY <1>1, <1>2, <1>3, <1>4, <1>5, <1>6, <1>7, <1>8, <1>9, <1>10, <1>11 DEF Next, Runs

LEMMA UsersStep ==
  ASSUME ClipboardTypeOK, TextsDiffer, ThreadAfterPaste, Calm, Serial,
         Restoring, Sound, [Next]_vars
  PROVE  ReadIsUsers' /\ KeptIsUsers'
<1> USE DEF ClipboardTypeOK, Goto, RestorerGoto
<1>0. /\ ReadIsUsers /\ KeptIsUsers
      /\ \A x : x \notin Dictated => x \notin Dictated'
  BY DictatedShrinks DEF Sound
<1> USE DEF ReadIsUsers, KeptIsUsers
<1>1. ASSUME NEW p \in Pastes, PasteGet(p)
      PROVE  ReadIsUsers' /\ KeptIsUsers'
  <2>1. before' = [before EXCEPT ![p] = clipboard]
        /\ UNCHANGED <<pending, restorer, target, copied>>
    BY <1>1 DEF PasteGet, GetText, Sound, AllText, Calm
  <2>2. clipboard # NoText
    BY ClipboardAssumption
  <2>3. ASSUME RestoreClipboard, NEW q \in Pastes, clipboard = Text[q],
               ~Left(q)
        PROVE  pending.original # NoText
    <3>1. q # p => pc[q] \notin UnderWay
      BY <1>1, NobodyElse DEF PasteGet, UnderWay
    <3>2. pc[q] = "pasted"
      BY <1>1, <2>3, <3>1 DEF PasteGet, Sound, Appears, Written, UnderWay
    <3> QED BY <2>3, <3>2 DEF Sound, Covered
  <2>4. RestoreClipboard => clipboard \notin Dictated \/ pending.original # NoText
    BY <2>3 DEF Dictated
  <2> QED BY <1>0, <1>1, <2>1, <2>2, <2>4 DEF PasteGet
<1>2. ASSUME NEW p \in Pastes, Remember(p)
      PROVE  ReadIsUsers' /\ KeptIsUsers'
  <2>1. RestoreClipboard
    BY <1>2 DEF Remember, Serial, IdsApart
  <2>2. pending'.original \notin Dictated
    BY <1>0, <1>2, <2>1 DEF Remember, remember_pending
  <2>3. \A q \in Pastes : q # p => pc[q] \notin UnderWay
    BY <1>2, NobodyElse DEF Remember, UnderWay
  <2> QED BY <1>0, <1>2, <2>2, <2>3 DEF Remember, UnderWay
<1>3. ASSUME NEW p \in Pastes, Decide(p)
      PROVE  ReadIsUsers' /\ KeptIsUsers'
  <2>1. /\ UNCHANGED <<clipboard, pending, pc, before, copied>>
        /\ \A q \in Pastes : q # p => restorer'[q] = restorer[q] /\ target'[q] = target[q]
        /\ target'[p] \in {target[p], pending.original}
    BY <1>3 DEF Decide
  <2> QED BY <1>0, <2>1
<1>4. ASSUME NEW p \in Pastes, ClearPending(p)
      PROVE  ReadIsUsers' /\ KeptIsUsers'
  <2>1. \A q \in Pastes : pc[q] \notin UnderWay
    BY <1>4, NobodyElse DEF ClearPending
  <2>2. NoText \notin Dictated
    BY ClipboardAssumption DEF Dictated, Contents, Texts
  <2> QED BY <1>0, <1>4, <2>1, <2>2 DEF ClearPending, NoPending, UnderWay
<1>5. ASSUME NEW c \in Copies, UserCopies(c)
      PROVE  ReadIsUsers' /\ KeptIsUsers'
  BY <1>0, <1>5 DEF UserCopies, Undecided
<1>6. CASE \/ UNCHANGED vars
           \/ \E t \in Contents : LateSet(t)
           \/ \E p \in Pastes :
                \/ BeginPaste(p) \/ PasteSet(p) \/ Chord(p) \/ Number(p) \/ Spawn(p)
                \/ RestoreSet(p) \/ AppReads(p)
  <2>1. /\ UNCHANGED <<pending, before, target, copied>>
        /\ \A q \in Pastes :
             /\ restorer'[q] = "set" => restorer[q] = "set"
             /\ pc'[q] \in {"set", "chord", "number", "remember"}
                  => pc[q] \in {"set", "chord", "number", "remember"}
    BY <1>6 DEF vars, LateSet, BeginPaste, PasteSet, Chord, Number, Spawn, RestoreSet,
                AppReads
  <2> QED BY <1>0, <2>1
<1> QED BY <1>1, <1>2, <1>3, <1>4, <1>5, <1>6, Zenon DEF Next, Runs

\* Pastes of one session, of different texts: no restore is decided over a copy of
\* the user's; and what calm pastes write back is never a dictated text, if what the
\* user has and copies meanwhile is text (RestoreIsSound).
THEOREM RestoresAreSound ==
  ASSUME TextsDiffer
  PROVE  Spec => [](scenario.serial /\ (Calm => TextOnly) => RestoreIsSound)
<1> DEFINE Inv == Calm /\ TextOnly => Sound
<1>1. Init => Inv
  BY ClipboardAssumption
     DEF Init, TextOnly, Sound, AllText, Appears, Covered, ReadIsUsers, KeptIsUsers,
         Written, NoPending, Dictated, Texts, Contents
<1>2. ClipboardTypeOK /\ CalmInv /\ Inv /\ [Next]_vars => Inv'
  <2>1. [Next]_vars => (Calm' <=> Calm) /\ (TextOnly' <=> TextOnly)
    BY DEF Next, Runs, vars, Calm, Failures, TextOnly
  <2>2. ASSUME ClipboardTypeOK, CalmInv, Calm, TextOnly, Sound, [Next]_vars
        PROVE  Sound'
    <3>1. AllText' /\ Appears' /\ Covered'
      BY <2>2, AllTextStep, AppearsStep, CoveredStep DEF CalmInv, Sound
    <3>2. ReadIsUsers' /\ KeptIsUsers'
      BY <2>2, UsersStep DEF CalmInv
    <3> QED BY <3>1, <3>2 DEF Sound
  <2> QED BY <2>1, <2>2, Zenon
<1>3. Inv /\ (scenario.serial => CopySeenByDecision)
        => (scenario.serial /\ (Calm => TextOnly) => RestoreIsSound)
  BY DEF Sound, RestoreIsSound, KeptIsUsers, OriginalIsUsers
<1> QED BY <1>1, <1>2, <1>3, CopiesAreSeen, ClipboardTyping, CalmInvHolds, PTL DEF Spec

=============================================================================
