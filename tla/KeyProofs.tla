------------------------------ MODULE KeyProofs ------------------------------
(***************************************************************************)
(* The keys and the sessions they start.                                   *)
(*                                                                         *)
(* What recording_guard guarantees for any number of calls of any kind and *)
(* any set of failing steps: the flag is held by exactly the call that is  *)
(* inside, sessions are serial, `recording` is up only inside a session,   *)
(* a stop is never taken back while one is recorded, and the overlay goes  *)
(* when all calls have ended well.                                         *)
(*                                                                         *)
(* The record key for any number of presses, drops and calls, in either    *)
(* mode: at most one delay-start and one tail are still to come, those of  *)
(* the last press and release, and the sessions they start and stop stay   *)
(* exclusive; in Toggle mode a release asks nothing of them.               *)
(*                                                                         *)
(* The hotkeys for any texts, packs and bounds: what is registered is      *)
(* routed, and on_fn_edge hears a press and a release in turn.             *)
(***************************************************************************)
EXTENDS FnKey, Hotkeys, TLAPS

-----------------------------------------------------------------------------
(* The recording sessions. *)

\* The inductive invariant.  OneSession alone is not inductive: a call may
\* only enter because recording_guard tells it that nobody is inside.
IInv ==
  /\ SessionTypeOK
  /\ OneSession
  /\ GuardHasHolder
  /\ RecordingInsideGuard

\* What a step does to the two flags and to its call's position: nothing that
\* the invariant sees, or one of the five crossings.
Inside == Running \cup Ending

Stays(c) ==
  \E s \in Step :
    /\ Goto(c, s)
    /\ PhaseOf(s) = PhaseOf(pc[c])
    /\ (s \in Inside) = (pc[c] \in Inside)
    /\ UNCHANGED <<recording_guard, recording>>

IsRefused(c) ==
  /\ pc[c] = "cas" /\ recording_guard = TRUE
  /\ Goto(c, "done")
  /\ UNCHANGED <<recording_guard, recording>>

Enters(c) ==
  /\ pc[c] = "cas" /\ recording_guard = FALSE
  /\ Goto(c, "clear")
  /\ recording_guard' = TRUE /\ UNCHANGED recording

Raises(c) ==
  /\ pc[c] = "arm"
  /\ Goto(c, "connect")
  /\ recording' = TRUE /\ UNCHANGED recording_guard

Lowers(c) ==
  /\ pc[c] \in {"unset", "errUnset"}
  /\ \E s \in Releasing : Goto(c, s)
  /\ recording' = FALSE /\ UNCHANGED recording_guard

Leaves(c) ==
  /\ pc[c] \in HoldsGuard \ Inside
  /\ \E s \in AfterGuard : Goto(c, s)
  /\ recording_guard' = FALSE /\ UNCHANGED recording

Moves(c) ==
  Stays(c) \/ IsRefused(c) \/ Enters(c) \/ Raises(c) \/ Lowers(c) \/ Leaves(c)

\* The phase of a call is read off the part of the program it is in.
LEMMA PhaseOfSteps ==
  /\ \A s \in BeforeGuard : PhaseOf(s) = "waiting"
  /\ \A s \in HoldsGuard : PhaseOf(s) = "live"
  /\ \A s \in AfterGuard : PhaseOf(s) = "over"
  BY DEF PhaseOf, BeforeGuard, HoldsGuard, AfterGuard, Starting, Running,
         Ending, Releasing

-----------------------------------------------------------------------------

\* Every step of a call is of one of the six kinds.
LEMMA StepKinds ==
  ASSUME SessionTypeOK, NEW c \in Calls, OutsideStep(c) \/ CallStep(c)
  PROVE  Moves(c)
<1> USE DEF Step, BeforeGuard, Starting, Running, Ending, Releasing,
            AfterGuard, HoldsGuard, Inside, flags, PhaseOf, Moves
<1>1. CASE TranslateKey(c)
  BY <1>1 DEF TranslateKey, Stays
<1>2. CASE SetIntent(c)
  BY <1>2 DEF SetIntent, Stays
<1>3. CASE Trigger(c)
  BY <1>3 DEF Trigger, Stays
<1>4. CASE ShowOverlay(c)
  BY <1>4 DEF ShowOverlay, Stays
<1>5. CASE UiToggle(c)
  BY <1>5 DEF UiToggle, Stays
<1>6. CASE Cas(c)
  <2>1. CASE recording_guard = FALSE
    BY <1>6, <2>1 DEF Cas, Enters
  <2>2. CASE recording_guard = TRUE
    BY <1>6, <2>2 DEF Cas, IsRefused
  <2> QED BY <2>1, <2>2 DEF SessionTypeOK
<1>7. CASE ClearStop(c)
  BY <1>7 DEF ClearStop, Stays
<1>8. CASE TakeIntent(c)
  BY <1>8 DEF TakeIntent, Stays
<1>9. CASE Prepare(c)
  BY <1>9 DEF Prepare, FailStart, Stays, Leaves
<1>10. CASE CheckBackend(c)
  BY <1>10 DEF CheckBackend, Stays
<1>11. CASE OpenAudio(c)
  BY <1>11 DEF OpenAudio, FailStart, Stays, Leaves
<1>12. CASE StartRecording(c)
  BY <1>12 DEF StartRecording, Raises
<1>13. CASE FailHide(c)
  BY <1>13 DEF FailHide, Stays
<1>14. CASE Connect(c)
  BY <1>14 DEF Connect, Stays
<1>15. CASE Record(c)
  BY <1>15 DEF Record, Stays
<1>16. CASE SourceEnds(c)
  BY <1>16 DEF SourceEnds, Stays
<1>17. CASE Drain(c)
  BY <1>17 DEF Drain, Stays
<1>18. CASE Insert(c)
  BY <1>18 DEF Insert, Stays
<1>19. CASE UnsetRecording(c)
  BY <1>19 DEF UnsetRecording, Lowers
<1>20. CASE ReleaseGuard(c)
  BY <1>20 DEF ReleaseGuard, Leaves
<1>21. CASE HideOverlay(c)
  BY <1>21 DEF HideOverlay, Stays
<1> QED
  BY <1>1, <1>2, <1>3, <1>4, <1>5, <1>6, <1>7, <1>8, <1>9, <1>10, <1>11,
     <1>12, <1>13, <1>14, <1>15, <1>16, <1>17, <1>18, <1>19, <1>20, <1>21
     DEF OutsideStep, CallStep

\* A step of any kind moves its call to a step of the program and leaves the
\* other calls where they are.
LEMMA KindsMove ==
  ASSUME NEW c \in Calls, pc \in [Calls -> Step],
         Moves(c)
  PROVE  /\ pc' \in [Calls -> Step]
         /\ \A d \in Calls : d # c => pc'[d] = pc[d]
  BY DEF Moves, Stays, IsRefused, Enters, Raises, Lowers, Leaves, Goto, Step,
         Starting, Running, Releasing, AfterGuard

\* The variables the kinds say nothing of keep their types.
LEMMA OtherTypes ==
  ASSUME SessionTypeOK, NEW c \in Calls, OutsideStep(c) \/ CallStep(c)
  PROVE  /\ stop_flag' \in BOOLEAN
         /\ pending_intent' \in SessionIntent
         /\ hud' \in BOOLEAN
         /\ intent' \in [Calls -> SessionIntent]
         /\ already' \in [Calls -> BOOLEAN]
<1> USE DEF SessionTypeOK, SessionIntent, flags, locals
<1>1. CASE SetIntent(c) \/ Trigger(c) \/ ShowOverlay(c)
  BY <1>1 DEF SetIntent, Trigger, ShowOverlay
<1>2. CASE Cas(c) \/ ClearStop(c) \/ TakeIntent(c)
  BY <1>2 DEF Cas, ClearStop, TakeIntent
<1>3. CASE Prepare(c) \/ CheckBackend(c) \/ OpenAudio(c)
  BY <1>3 DEF Prepare, CheckBackend, OpenAudio, FailStart
<1>4. CASE StartRecording(c) \/ FailHide(c) \/ Connect(c) \/ Record(c)
  BY <1>4 DEF StartRecording, FailHide, Connect, Record
<1>5. CASE Drain(c) \/ Insert(c) \/ UnsetRecording(c) \/ ReleaseGuard(c)
  BY <1>5 DEF Drain, Insert, UnsetRecording, ReleaseGuard
<1>6. CASE HideOverlay(c) \/ TranslateKey(c) \/ UiToggle(c) \/ SourceEnds(c)
  BY <1>6 DEF HideOverlay, TranslateKey, UiToggle, SourceEnds
<1> QED
  BY <1>1, <1>2, <1>3, <1>4, <1>5, <1>6 DEF OutsideStep, CallStep

-----------------------------------------------------------------------------

\* Each kind of step keeps the three parts of the invariant that relate the
\* flags to the positions of the calls.
LEMMA KindsKeepInvariant ==
  ASSUME IInv, NEW c \in Calls,
         Moves(c)
  PROVE  /\ OneSession'
         /\ GuardHasHolder'
         /\ RecordingInsideGuard'
<1> USE DEF IInv
<1>0. /\ pc' \in [Calls -> Step]
      /\ \A d \in Calls : d # c => pc'[d] = pc[d]
  BY KindsMove DEF SessionTypeOK
<1>1. CASE Stays(c)
  <2>1. /\ (pc'[c] \in HoldsGuard) <=> (pc[c] \in HoldsGuard)
        /\ (pc'[c] \in Inside) <=> (pc[c] \in Inside)
        /\ UNCHANGED <<recording_guard, recording>>
    BY <1>0, <1>1 DEF Stays, Goto, SessionTypeOK, PhaseOf
  <2>2. Holders' = Holders
    BY <1>0, <2>1 DEF Holders
  <2> QED
    BY <1>0, <2>1, <2>2 DEF OneSession, GuardHasHolder, RecordingInsideGuard,
                            Inside
<1>2. CASE Enters(c)
  <2>1. Holders = {} /\ ~ \E d \in Calls : pc[d] \in Running \cup Ending
    BY <1>2 DEF Enters, GuardHasHolder, Holders, HoldsGuard
  <2>2. pc'[c] = "clear" /\ recording_guard' = TRUE /\ recording' = recording
    BY <1>2 DEF Enters, Goto, SessionTypeOK
  <2>3. Holders' = {c}
    BY <1>0, <2>1, <2>2 DEF Holders, HoldsGuard, Starting
  <2>4. ~ \E d \in Calls : pc'[d] \in Running \cup Ending
    BY <1>0, <2>1, <2>2 DEF Running, Ending
  <2> QED
    BY <2>1, <2>2, <2>3, <2>4
       DEF OneSession, GuardHasHolder, RecordingInsideGuard
<1>3. CASE Raises(c)
  <2>1. /\ pc[c] = "arm" /\ pc'[c] = "connect"
        /\ recording' = TRUE /\ recording_guard' = recording_guard
    BY <1>3 DEF Raises, Goto, SessionTypeOK
  <2>2. Holders' = Holders
    BY <1>0, <2>1 DEF Holders, HoldsGuard, Starting, Running
  <2> QED
    BY <2>1, <2>2 DEF OneSession, GuardHasHolder, RecordingInsideGuard, Running
<1>4. CASE Lowers(c)
  <2>1. /\ pc[c] \in Ending /\ pc'[c] \in Releasing
        /\ recording' = FALSE /\ recording_guard' = recording_guard
    BY <1>4 DEF Lowers, Goto, SessionTypeOK, Ending
  <2>2. Holders' = Holders /\ c \in Holders
    BY <1>0, <2>1 DEF Holders, HoldsGuard
  <2>3. \A d \in Calls : pc[d] \in Running \cup Ending => d = c
    BY <2>2 DEF OneSession, Holders, HoldsGuard
  <2>4. ~ \E d \in Calls : pc'[d] \in Running \cup Ending
    BY <1>0, <2>1, <2>3 DEF Releasing, Running, Ending
  <2> QED
    BY <2>1, <2>2, <2>4 DEF OneSession, GuardHasHolder, RecordingInsideGuard
<1>5. CASE Leaves(c)
  <2>1. /\ pc[c] \in HoldsGuard /\ pc[c] \notin Running \cup Ending
        /\ pc'[c] \in AfterGuard
        /\ recording' = recording /\ recording_guard' = FALSE
    BY <1>5 DEF Leaves, Goto, SessionTypeOK, Inside
  <2>2. Holders = {c}
    BY <2>1 DEF OneSession, Holders
  <2>3. Holders' = {}
    <3>1. pc'[c] \notin HoldsGuard
      BY <2>1 DEF AfterGuard, HoldsGuard, Starting, Running, Ending, Releasing
    <3> QED BY <1>0, <2>2, <3>1 DEF Holders
  <2>4. \A d \in Calls : pc'[d] \in Running \cup Ending
                         <=> pc[d] \in Running \cup Ending
    BY <1>0, <2>1 DEF AfterGuard, Running, Ending
  <2> QED
    BY <2>1, <2>3, <2>4 DEF OneSession, GuardHasHolder, RecordingInsideGuard
<1>6. CASE IsRefused(c)
  <2>1. pc[c] = "cas" /\ pc'[c] = "done" /\ UNCHANGED <<recording_guard, recording>>
    BY <1>6 DEF IsRefused, Goto, SessionTypeOK
  <2>2. Holders' = Holders
    BY <1>0, <2>1 DEF Holders, HoldsGuard, Starting, Running, Ending, Releasing
  <2>3. \A d \in Calls : pc'[d] \in Running \cup Ending
                         <=> pc[d] \in Running \cup Ending
    BY <1>0, <2>1 DEF Running, Ending
  <2> QED
    BY <2>1, <2>2, <2>3 DEF OneSession, GuardHasHolder, RecordingInsideGuard
<1> QED BY <1>1, <1>2, <1>3, <1>4, <1>5, <1>6 DEF Moves

\* The invariant holds initially and every step keeps it.
LEMMA InitInvariant == SessionInit => IInv
<1> SUFFICES ASSUME SessionInit PROVE IInv
  OBVIOUS
<1>1. SessionTypeOK
  BY DEF SessionInit, SessionTypeOK, SessionIntent, Step, BeforeGuard
<1>2. \A c \in Calls : pc[c] \notin HoldsGuard
  BY DEF SessionInit, HoldsGuard, Starting, Running, Ending, Releasing
<1> QED
  BY <1>1, <1>2 DEF IInv, SessionInit, OneSession, GuardHasHolder, Holders,
                    RecordingInsideGuard, HoldsGuard

LEMMA NextInvariant == IInv /\ [SessionNext]_sessionVars => IInv'
<1> SUFFICES ASSUME IInv, [SessionNext]_sessionVars PROVE IInv'
  OBVIOUS
<1>1. CASE UNCHANGED sessionVars
  BY <1>1 DEF sessionVars, IInv, SessionTypeOK, OneSession, GuardHasHolder,
              RecordingInsideGuard, Holders
<1>2. ASSUME NEW c \in Calls, OutsideStep(c) \/ CallStep(c)
      PROVE  IInv'
  <2>1. Moves(c)
    BY <1>2, StepKinds DEF IInv
  <2>2. OneSession' /\ GuardHasHolder' /\ RecordingInsideGuard'
    BY <2>1, KindsKeepInvariant
  <2>3. pc' \in [Calls -> Step]
    BY <2>1, KindsMove DEF IInv, SessionTypeOK
  <2>4. recording_guard' \in BOOLEAN /\ recording' \in BOOLEAN
    BY <2>1 DEF IInv, SessionTypeOK, Moves, Stays, IsRefused, Enters, Raises,
                Lowers, Leaves
  <2> QED
    BY <1>2, <2>2, <2>3, <2>4, OtherTypes DEF IInv, SessionTypeOK
<1> QED BY <1>1, <1>2 DEF SessionNext

LEMMA Invariance == SessionSpec => []IInv
  BY InitInvariant, NextInvariant, PTL DEF SessionSpec

-----------------------------------------------------------------------------

\* Types of the flags, the overlay and the calls.
THEOREM SessionTyping == SessionSpec => []SessionTypeOK
  BY Invariance, PTL DEF IInv

\* At most one call is between taking recording_guard and giving it back.
THEOREM SessionsAreExclusive == SessionSpec => []OneSession
  BY Invariance, PTL DEF IInv

\* The guard is neither leaked nor released under another call's feet.
THEOREM GuardIsOwned == SessionSpec => []GuardHasHolder
  BY Invariance, PTL DEF IInv

\* All three together: the guard is owned (GuardOwned).
THEOREM GuardHasOneOwner == SessionSpec => []GuardOwned
<1>1. IInv => GuardOwned
  BY DEF IInv, GuardOwned
<1> QED
  BY <1>1, Invariance, PTL

\* `recording` is up exactly while a session is inside the guard.
THEOREM RecordingIsGuarded == SessionSpec => []RecordingInsideGuard
  BY Invariance, PTL DEF IInv

-----------------------------------------------------------------------------

\* The only step that lowers the stop flag is ClearStop, and it is taken by a
\* holder that records nothing yet: by exclusion nobody else does.
LEMMA StopKeptStep ==
  ASSUME IInv, [SessionNext]_sessionVars, stop_flag, recording
  PROVE  stop_flag' \/ ~recording'
<1>1. CASE UNCHANGED sessionVars
  BY <1>1 DEF sessionVars
<1>2. ASSUME NEW c \in Calls, ClearStop(c)
      PROVE  FALSE
  <2>1. c \in Holders /\ pc[c] \notin Running \cup Ending
    BY <1>2 DEF ClearStop, Holders, HoldsGuard, Starting, Running, Ending
  <2>2. PICK d \in Calls : pc[d] \in Running \cup Ending
    BY DEF IInv, RecordingInsideGuard
  <2>3. d \in Holders
    BY <2>2 DEF Holders, HoldsGuard
  <2> QED BY <2>1, <2>2, <2>3 DEF IInv, OneSession
<1>3. ASSUME NEW c \in Calls, OutsideStep(c) \/ CallStep(c), ~ ClearStop(c)
      PROVE  stop_flag'
  <2> USE DEF flags
  <2>1. CASE OutsideStep(c)
    BY <2>1 DEF OutsideStep, Trigger, TranslateKey, UiToggle, SourceEnds
  <2>2. CASE SetIntent(c) \/ Trigger(c) \/ ShowOverlay(c) \/ Cas(c)
               \/ TakeIntent(c) \/ Prepare(c) \/ CheckBackend(c)
    BY <2>2 DEF SetIntent, Trigger, ShowOverlay, Cas, TakeIntent, Prepare,
                CheckBackend, FailStart
  <2>3. CASE OpenAudio(c) \/ StartRecording(c) \/ FailHide(c) \/ Connect(c)
               \/ Record(c) \/ Drain(c) \/ Insert(c)
    BY <2>3 DEF OpenAudio, StartRecording, FailHide, Connect, Record, Drain,
                Insert, FailStart
  <2>4. CASE UnsetRecording(c) \/ ReleaseGuard(c) \/ HideOverlay(c)
    BY <2>4 DEF UnsetRecording, ReleaseGuard, HideOverlay
  <2> QED BY <1>3, <2>1, <2>2, <2>3, <2>4 DEF CallStep
<1> QED BY <1>1, <1>2, <1>3 DEF SessionNext

\* While a session is recorded no step takes back a stop.
THEOREM StopIsKept == SessionSpec => StopKept
<1>1. IInv /\ [SessionNext]_sessionVars
        => [stop_flag /\ recording => stop_flag' \/ ~recording']_sessionVars
  BY StopKeptStep
<1> QED BY <1>1, Invariance, PTL DEF SessionSpec, StopKept

-----------------------------------------------------------------------------

\* A call that is over has taken the overlay away, or lost the compare-exchange
\* to one that is not.
LEMMA EndsHidden ==
  ASSUME SessionTypeOK, NEW c \in Calls, OutsideStep(c) \/ CallStep(c),
         pc'[c] \in {"idle", "done"}
  PROVE  ~hud' \/ IsRefused(c)
<1> USE DEF SessionTypeOK, Goto
<1>1. CASE OutsideStep(c)
  BY <1>1 DEF OutsideStep, Trigger, TranslateKey, UiToggle, SourceEnds
<1>2. CASE SetIntent(c) \/ Trigger(c) \/ ShowOverlay(c) \/ ClearStop(c) \/ TakeIntent(c)
  BY <1>2 DEF SetIntent, Trigger, ShowOverlay, ClearStop, TakeIntent
<1>3. CASE Cas(c)
  BY <1>3 DEF Cas, IsRefused
<1>4. CASE Prepare(c) \/ CheckBackend(c) \/ OpenAudio(c) \/ StartRecording(c)
  BY <1>4 DEF Prepare, CheckBackend, OpenAudio, StartRecording, FailStart
<1>5. CASE Connect(c) \/ Record(c) \/ Drain(c) \/ Insert(c)
  BY <1>5 DEF Connect, Record, Drain, Insert
<1>6. CASE UnsetRecording(c) \/ ReleaseGuard(c)
  BY <1>6 DEF UnsetRecording, ReleaseGuard
<1>7. CASE FailHide(c) \/ HideOverlay(c)
  BY <1>7 DEF FailHide, HideOverlay
<1> QED BY <1>1, <1>2, <1>3, <1>4, <1>5, <1>6, <1>7 DEF CallStep

LEMMA HudStep == IInv /\ HudGoneWhenIdle /\ [SessionNext]_sessionVars => HudGoneWhenIdle'
<1> SUFFICES ASSUME IInv, HudGoneWhenIdle, [SessionNext]_sessionVars
             PROVE  HudGoneWhenIdle'
  OBVIOUS
<1>1. CASE UNCHANGED sessionVars
  BY <1>1 DEF sessionVars, HudGoneWhenIdle
<1>2. ASSUME NEW c \in Calls, OutsideStep(c) \/ CallStep(c)
      PROVE  HudGoneWhenIdle'
  <2>1. CASE pc'[c] \notin {"idle", "done"}
    BY <2>1 DEF HudGoneWhenIdle
  <2>2. CASE pc'[c] \in {"idle", "done"} /\ ~hud'
    BY <2>2 DEF HudGoneWhenIdle
  <2>3. CASE IsRefused(c)
    <3>1. PICK d \in Calls : pc[d] \in HoldsGuard
      BY <2>3 DEF IsRefused, IInv, GuardHasHolder, Holders
    <3>2. d # c
      BY <2>3, <3>1 DEF IsRefused, HoldsGuard, Starting, Running, Ending, Releasing
    <3>3. pc'[d] = pc[d]
      BY <2>3, <3>2, KindsMove DEF IInv, SessionTypeOK, Moves
    <3> QED
      BY <3>1, <3>3 DEF HudGoneWhenIdle, HoldsGuard, Starting, Running, Ending,
                        Releasing
  <2> QED BY <1>2, <2>1, <2>2, <2>3, EndsHidden DEF IInv
<1> QED BY <1>1, <1>2 DEF SessionNext

\* When every call has ended well the overlay is gone: a key that showed it and
\* lost the compare-exchange lost it to a session that hides it later.
THEOREM OverlayGoesAway == SessionSpec => []HudGoneWhenIdle
<1>1. SessionInit => HudGoneWhenIdle
  BY DEF SessionInit, HudGoneWhenIdle
<1> QED BY <1>1, HudStep, Invariance, PTL DEF SessionSpec

-----------------------------------------------------------------------------

phaseBar == [c \in Calls |-> PhaseOf(pc[c])]

\* The live calls of the abstract specification are the holders.
LEMMA LiveAreHolders ==
  ASSUME pc \in [Calls -> Step]
  PROVE  {c \in Calls : phaseBar[c] = "live"} = Holders
<1>1. \A c \in Calls : phaseBar[c] = "live" <=> pc[c] \in HoldsGuard
  BY DEF phaseBar, PhaseOf
<1> QED BY <1>1 DEF Holders

\* Each kind of step is a step of the abstract specification or a stutter.
LEMMA MoveRefines ==
  ASSUME IInv, NEW c \in Calls, Moves(c)
  PROVE  \/ phaseBar' = phaseBar
         \/ /\ phaseBar[c] = "waiting" /\ Holders = {}
            /\ phaseBar' = [phaseBar EXCEPT ![c] = "live"]
         \/ /\ phaseBar[c] = "waiting" /\ Holders # {}
            /\ phaseBar' = [phaseBar EXCEPT ![c] = "over"]
         \/ /\ phaseBar[c] = "live"
            /\ phaseBar' = [phaseBar EXCEPT ![c] = "over"]
<1>0. /\ pc \in [Calls -> Step] /\ pc' \in [Calls -> Step]
      /\ \A d \in Calls : d # c => pc'[d] = pc[d]
  BY KindsMove DEF IInv, SessionTypeOK
<1>1. phaseBar' = [phaseBar EXCEPT ![c] = PhaseOf(pc'[c])]
  BY <1>0 DEF phaseBar
<1>2. CASE Stays(c)
  <2>1. PhaseOf(pc'[c]) = PhaseOf(pc[c])
    BY <1>0, <1>2 DEF Stays, Goto
  <2> QED BY <1>0, <2>1 DEF phaseBar
<1>3. CASE IsRefused(c)
  <2>1. pc[c] \in BeforeGuard /\ pc'[c] \in AfterGuard /\ Holders # {}
    BY <1>0, <1>3 DEF IsRefused, Goto, BeforeGuard, AfterGuard, IInv, GuardHasHolder
  <2> QED BY <1>1, <2>1, PhaseOfSteps DEF phaseBar
<1>4. CASE Enters(c)
  <2>1. pc[c] \in BeforeGuard /\ pc'[c] \in HoldsGuard /\ Holders = {}
    BY <1>0, <1>4 DEF Enters, Goto, BeforeGuard, HoldsGuard, Starting, IInv,
                      GuardHasHolder
  <2> QED BY <1>1, <2>1, PhaseOfSteps DEF phaseBar
<1>5. CASE Raises(c) \/ Lowers(c)
  <2>1. pc[c] \in HoldsGuard /\ pc'[c] \in HoldsGuard
    BY <1>0, <1>5 DEF Raises, Lowers, Goto, HoldsGuard, Starting, Running,
                      Ending, Releasing
  <2>2. PhaseOf(pc'[c]) = PhaseOf(pc[c])
    BY <2>1, PhaseOfSteps
  <2> QED BY <1>0, <2>2 DEF phaseBar
<1>6. CASE Leaves(c)
  <2>1. pc[c] \in HoldsGuard /\ pc'[c] \in AfterGuard
    BY <1>0, <1>6 DEF Leaves, Goto
  <2> QED BY <1>1, <2>1, PhaseOfSteps DEF phaseBar
<1> QED BY <1>2, <1>3, <1>4, <1>5, <1>6 DEF Moves

LEMMA SerialFirst == SessionInit => Serial!Init
<1> SUFFICES ASSUME SessionInit PROVE Serial!Init
  OBVIOUS
<1>1. \A c \in Calls : PhaseOf(pc[c]) = "waiting"
  BY PhaseOfSteps DEF SessionInit, BeforeGuard
<1> QED BY <1>1 DEF Serial!Init

LEMMA SerialStep == IInv /\ [SessionNext]_sessionVars => [Serial!Next]_phaseBar
<1> SUFFICES ASSUME IInv, [SessionNext]_sessionVars
             PROVE  Serial!Next \/ UNCHANGED phaseBar
  OBVIOUS
<1>1. CASE UNCHANGED sessionVars
  BY <1>1 DEF sessionVars, phaseBar
<1>2. ASSUME NEW c \in Calls, OutsideStep(c) \/ CallStep(c)
      PROVE  Serial!Next \/ UNCHANGED phaseBar
  <2>1. Moves(c)
    BY <1>2, StepKinds DEF IInv
  <2>2. Serial!Live = Holders
    BY LiveAreHolders DEF IInv, SessionTypeOK, Serial!Live, phaseBar
  <2> QED
    BY <2>1, <2>2, MoveRefines
       DEF Serial!Next, Serial!Begin, Serial!Refuse, Serial!End, phaseBar
<1> QED BY <1>1, <1>2 DEF SessionNext

\* The calls implement serial sessions: a call goes live only when no other
\* is, and is refused only when one is.
THEOREM SessionsAreSerial == SessionSpec => SerialSpec
  BY SerialFirst, SerialStep, Invariance, PTL
     DEF SessionSpec, SerialSpec, Serial!Spec, phaseBar

-----------------------------------------------------------------------------
(* The record key. *)

\* The hook thread handles the press it has counted.
PressCounted ==
  hook.at \in {"press", "cancel", "trigger", "overlay"} => presses \in RecordCalls

\* While it stores a press it has already stored that the key is down.
DownStored == hook.at = "cancel" => fn_down = TRUE

\* Generations only grow, so an old one never becomes the current one again.
GensBelow ==
  /\ \A p \in RecordCalls : timer[p].gen <= hold_gen
  /\ \A r \in Releases : tail[r].gen <= stop_gen

\* Tails are armed in the order of the releases.
TailsInOrder == \A r \in Releases : r > releases => tail[r].at = "none"

\* A release is answered under its own number.
ReleaseCounted ==
  hook.at \in {"release", "classify", "clear"} => releases \in Releases

FnInv ==
  /\ FnTypeOK
  /\ PressCounted
  /\ DownStored
  /\ GensBelow
  /\ TailsInOrder
  /\ ReleaseCounted
  /\ ArmedTimerIsHeld
  /\ LiveTailIsLast

-----------------------------------------------------------------------------
(* The sessions. *)

\* Every step of the key leaves the session alone, makes one of its steps, or
\* is the stop of a tail.
LEMMA FnSteps ==
  ASSUME PressCounted, [Next]_vars
  PROVE  \/ [SessionNext]_sessionVars
         \/ \E r \in Releases : TailRequest(r)
<1> USE DEF SessionNext, OutsideStep, CallStep
<1>1. CASE Environment
  BY <1>1 DEF Environment, EdgeDropped, PressEdge, ReleaseEdge
<1>2. CASE HookTrigger
  <2>1. presses \in RecordCalls /\ Trigger(presses)
    BY <1>2 DEF HookTrigger, PressCounted
  <2> QED BY <2>1 DEF Trigger, Calls
<1>3. CASE HookRuns /\ ~HookTrigger
  BY <1>3 DEF HookRuns, PressDown, Press, HookReturn, Release, Classify,
              ClearPress
<1>4. ASSUME NEW p \in RecordCalls, TimerRuns(p)
      PROVE  [SessionNext]_sessionVars
  <2>1. CASE TimerTrigger(p)
    BY <2>1 DEF TimerTrigger, Trigger, Calls
  <2>2. CASE ~TimerTrigger(p)
    BY <1>4, <2>2 DEF TimerRuns, TimerCheckGen, TimerCheckDown, TimerStart
  <2> QED BY <2>1, <2>2
<1>5. ASSUME NEW r \in Releases, TailCheck(r) \/ TailRequest(r)
      PROVE  [SessionNext]_sessionVars \/ TailRequest(r)
  BY <1>5 DEF TailCheck
<1>6. ASSUME NEW c \in Calls, CallStep(c)
      PROVE  [SessionNext]_sessionVars
  BY <1>6
<1>7. CASE UNCHANGED vars
  BY <1>7 DEF vars
<1> QED BY <1>1, <1>2, <1>3, <1>4, <1>5, <1>6, <1>7 DEF Next

\* The stop of a tail raises the stop flag and touches nothing else.
LEMMA TailKeepsSession ==
  ASSUME IInv, NEW r \in Releases, TailRequest(r)
  PROVE  IInv'
  BY DEF IInv, SessionTypeOK, OneSession, GuardHasHolder, Holders,
         RecordingInsideGuard, TailRequest, locals

LEMMA SessionKept ==
  ASSUME IInv, PressCounted, [Next]_vars
  PROVE  IInv'
  BY FnSteps, NextInvariant, TailKeepsSession

-----------------------------------------------------------------------------
(* The key. *)

LEMMA InitFn == Init => FnInv /\ IInv
<1> SUFFICES ASSUME Init PROVE FnInv /\ IInv
  OBVIOUS
<1>1. IInv
  BY InitInvariant DEF Init
<1>2. FnTypeOK
  <2>1. hook \in [at : HookStep, rec : BOOLEAN]
    BY DEF Init, HookStep
  <2>2. timer \in [RecordCalls -> [at : TimerStep, gen : Nat]]
    BY DEF Init, TimerStep
  <2>3. tail \in [Releases -> [at : TailStep, gen : Nat, press : 0..MaxPress]]
    BY FnKeyAssumption DEF Init, TailStep
  <2>4. /\ presses \in 0..MaxPress
        /\ releases \in 0..(MaxPress + MaxDrops)
        /\ drops \in 0..MaxDrops
    BY FnKeyAssumption DEF Init
  <2> QED BY <1>1, <2>1, <2>2, <2>3, <2>4 DEF Init, FnTypeOK, IInv
<1> QED
  BY <1>1, <1>2, FnKeyAssumption
     DEF Init, FnInv, PressCounted, DownStored, GensBelow, TailsInOrder,
         ReleaseCounted, ArmedTimerIsHeld, LiveTailIsLast

\* A step of the session leaves the key alone.
LEMMA SessionLeavesKey ==
  ASSUME FnInv, SessionTypeOK', UNCHANGED fnVars
  PROVE  FnInv'
  BY DEF FnInv, FnTypeOK, PressCounted, DownStored, GensBelow, TailsInOrder,
         ReleaseCounted, ArmedTimerIsHeld, LiveTailIsLast, PressUnderWay, fnVars

\* The hook thread: one step of on_fn_edge at a time.
LEMMA HookKeeps ==
  ASSUME FnInv, SessionTypeOK',
         EdgeDropped \/ PressEdge \/ ReleaseEdge \/ HookRuns
  PROVE  FnInv'
<1> USE FnKeyAssumption
<1> USE DEF FnInv, FnTypeOK, PressCounted, DownStored, GensBelow, TailsInOrder,
            ReleaseCounted, ArmedTimerIsHeld, LiveTailIsLast, PressUnderWay,
            HookStep, TimerStep, TailStep, Releases, statics, keyVars, HookGoto
<1>1. CASE EdgeDropped
  BY <1>1 DEF EdgeDropped
<1>2. CASE PressEdge
  BY <1>2 DEF PressEdge, SessionTypeOK
<1>3. CASE ReleaseEdge
  <2>1. /\ hook' \in [at : HookStep, rec : BOOLEAN]
        /\ releases' \in 0..(MaxPress + MaxDrops)
    BY <1>3 DEF ReleaseEdge, SessionTypeOK
  <2>2. releases' \in Releases /\ hook'.at = "release"
    BY <1>3 DEF ReleaseEdge
  <2>3. FnTypeOK'
    BY <1>3, <2>1 DEF ReleaseEdge
  <2> QED BY <1>3, <2>2, <2>3 DEF ReleaseEdge
<1>4. CASE PressDown
  <2>1. FnTypeOK'
    BY <1>4 DEF PressDown
  <2>2. PressCounted' /\ DownStored' /\ GensBelow'
    BY <1>4 DEF PressDown
  <2>3. TailsInOrder' /\ ReleaseCounted'
    BY <1>4 DEF PressDown
  <2>4. ArmedTimerIsHeld'
    BY <1>4 DEF PressDown
  <2>5. LiveTailIsLast'
    BY <1>4 DEF PressDown
  <2> QED BY <2>1, <2>2, <2>3, <2>4, <2>5
<1>5. CASE Press
  <2>1. /\ hold_gen' = hold_gen + 1 /\ stop_gen' = stop_gen + 1
        /\ this_press_started' = FALSE
        /\ UNCHANGED <<fn_down, hold, key, presses, releases, drops, tail,
                       reposted>>
    BY <1>5 DEF Press
  <2>2. fn_down = TRUE /\ presses \in RecordCalls
    BY <1>5 DEF Press
  <2>3. \/ timer' = timer
        \/ timer' = [timer EXCEPT ![presses] =
                        [at |-> "sleep", gen |-> hold_gen + 1]]
    BY <1>5, <2>1 DEF Press
  <2>4. hook' \in [at : HookStep, rec : BOOLEAN]
        /\ hook'.at \in {"trigger", "idle"}
    BY <1>5 DEF Press
  <2>5. /\ timer' \in [RecordCalls -> [at : TimerStep, gen : Nat]]
        /\ \A p \in RecordCalls : timer'[p].gen <= hold_gen'
        /\ \A p \in RecordCalls : timer'[p].gen = hold_gen' => p = presses
    <3>1. /\ hold_gen' \in Nat
          /\ \A p \in RecordCalls :
               timer[p].gen <= hold_gen' /\ timer[p].gen # hold_gen'
      BY <2>1
    <3>2. CASE timer' = timer
      <4> HIDE DEF FnInv
      <4>1. timer' \in [RecordCalls -> [at : TimerStep, gen : Nat]]
        BY <3>2 DEF FnInv
      <4> QED BY <3>1, <3>2, <4>1
    <3>3. CASE timer' = [timer EXCEPT ![presses] =
                           [at |-> "sleep", gen |-> hold_gen + 1]]
      <4>1. timer' \in [RecordCalls -> [at : TimerStep, gen : Nat]]
        BY <2>1, <3>1, <3>3
      <4>2. /\ timer'[presses].gen = hold_gen'
            /\ \A p \in RecordCalls : p # presses => timer'[p] = timer[p]
        BY <2>1, <2>2, <3>3
      <4>3. \A p \in RecordCalls : timer'[p].gen <= hold_gen'
        <5>1. hold_gen' <= hold_gen'
          BY <3>1
        <5> HIDE DEF FnInv
        <5> QED BY <3>1, <4>2, <5>1
      <4>4. \A p \in RecordCalls : timer'[p].gen = hold_gen' => p = presses
        BY <3>1, <4>2
      <4> QED BY <4>1, <4>3, <4>4
    <3> QED BY <2>3, <3>2, <3>3
  <2>6. \A r \in Releases : tail'[r].gen < stop_gen'
    BY <2>1
  <2>7. FnTypeOK'
    <3>1. hold_gen' \in Nat /\ stop_gen' \in Nat
      BY <2>1
    <3> QED BY <2>1, <2>4, <2>5, <3>1
  <2>8. PressCounted' /\ DownStored' /\ TailsInOrder' /\ ReleaseCounted'
    BY <2>1, <2>2, <2>4
  <2>9. GensBelow'
    BY <2>5, <2>6, <2>7
  <2>10. ArmedTimerIsHeld'
    BY <2>1, <2>2, <2>5
  <2>11. LiveTailIsLast'
    BY <2>6, <2>7
  <2> QED BY <2>7, <2>8, <2>9, <2>10, <2>11
<1>6. CASE HookTrigger
  <2>1. FnTypeOK'
    BY <1>6 DEF HookTrigger
  <2>2. PressCounted' /\ DownStored' /\ GensBelow'
    BY <1>6 DEF HookTrigger
  <2>3. TailsInOrder' /\ ReleaseCounted'
    BY <1>6 DEF HookTrigger
  <2>4. ArmedTimerIsHeld'
    BY <1>6 DEF HookTrigger
  <2>5. LiveTailIsLast'
    BY <1>6 DEF HookTrigger
  <2> QED BY <2>1, <2>2, <2>3, <2>4, <2>5
<1>7. CASE HookReturn
  BY <1>7 DEF HookReturn
<1>8. CASE Release
  <2>1. /\ hold_gen' = hold_gen + 1 /\ fn_down' = FALSE
        /\ hook.at = "release"
        /\ hook' = [hook EXCEPT !.at = "classify"]
        /\ UNCHANGED <<stop_gen, this_press_started, hold, key, presses,
                       releases, drops, timer, tail, reposted>>
    BY <1>8 DEF Release
  <2>2. FnTypeOK'
    <3>1. hold_gen' \in Nat
      BY <2>1
    <3>2. hook' \in [at : HookStep, rec : BOOLEAN]
      BY <2>1
    <3> QED BY <2>1, <3>1, <3>2
  <2>3. \A p \in RecordCalls : timer'[p].gen < hold_gen'
    BY <2>1
  <2> QED BY <2>1, <2>2, <2>3
<1>9. CASE Classify
  <2>1. /\ UNCHANGED <<fn_down, hold_gen, this_press_started, hold, key,
                       presses, releases, drops, timer>>
        /\ hook.at = "classify" /\ releases \in Releases
    BY <1>9 DEF Classify
  <2>2. hook' \in [at : HookStep, rec : BOOLEAN] /\ hook'.at \in {"idle", "clear"}
    BY <1>9 DEF Classify
  <2>3. reposted' \subseteq 0..MaxPress
    BY <1>9 DEF Classify
  <2>4. CASE tail' = tail /\ stop_gen' = stop_gen
    BY <2>1, <2>2, <2>3, <2>4
  <2>5. CASE /\ stop_gen' = stop_gen + 1
             /\ tail' = [tail EXCEPT ![releases] =
                           [at |-> "sleep", gen |-> stop_gen + 1,
                            press |-> presses]]
    <3>1. /\ tail' \in [Releases -> [at : TailStep, gen : Nat,
                                     press : 0..MaxPress]]
          /\ stop_gen' \in Nat
      BY <2>1, <2>5
    <3>2. \A r \in Releases :
            r # releases => tail'[r] = tail[r] /\ tail[r].gen < stop_gen'
      BY <2>1, <2>5
    <3>3. tail'[releases].gen = stop_gen' /\ tail'[releases].press = presses
      BY <2>1, <2>5
    <3>4. FnTypeOK'
      BY <2>1, <2>2, <2>3, <3>1
    <3>5. PressCounted' /\ DownStored' /\ ReleaseCounted' /\ ArmedTimerIsHeld'
      BY <2>1, <2>2
    <3>6. TailsInOrder'
      BY <2>1, <3>2
    <3>7. GensBelow'
      BY <2>1, <2>5, <3>1, <3>2, <3>3
    <3>8. \A r \in Releases :
            tail'[r].gen = stop_gen' => r = releases /\ tail'[r].press = presses
      BY <3>2, <3>3
    <3>9. \A s \in Releases : s > releases => tail'[s].at = "none"
      BY <2>1, <3>6
    <3>10. LiveTailIsLast'
      BY <2>1, <3>8, <3>9
    <3> QED BY <3>4, <3>5, <3>6, <3>7, <3>10
  <2> QED BY <1>9, <2>4, <2>5 DEF Classify
<1>10. CASE ClearPress
  <2>1. FnTypeOK'
    BY <1>10 DEF ClearPress
  <2>2. PressCounted' /\ DownStored' /\ GensBelow'
    BY <1>10 DEF ClearPress
  <2>3. TailsInOrder' /\ ReleaseCounted'
    BY <1>10 DEF ClearPress
  <2>4. ArmedTimerIsHeld'
    BY <1>10 DEF ClearPress
  <2>5. LiveTailIsLast'
    BY <1>10 DEF ClearPress
  <2> QED BY <2>1, <2>2, <2>3, <2>4, <2>5
<1> QED
  BY <1>1, <1>2, <1>3, <1>4, <1>5, <1>6, <1>7, <1>8, <1>9, <1>10 DEF HookRuns

\* The timers.
LEMMA TimerKeeps ==
  ASSUME FnInv, SessionTypeOK', NEW p \in RecordCalls, TimerRuns(p)
  PROVE  FnInv'
<1> USE FnKeyAssumption
<1> USE DEF FnInv, FnTypeOK, PressCounted, DownStored, GensBelow, TailsInOrder,
            ReleaseCounted, ArmedTimerIsHeld, LiveTailIsLast, PressUnderWay,
            TimerStep, statics, keyVars, TimerGoto
<1>1. CASE TimerCheckGen(p)
  BY <1>1 DEF TimerCheckGen
<1>2. CASE TimerCheckDown(p)
  BY <1>2 DEF TimerCheckDown
<1>3. CASE TimerStart(p)
  BY <1>3 DEF TimerStart
<1>4. CASE TimerTrigger(p)
  BY <1>4 DEF TimerTrigger
<1> QED BY <1>1, <1>2, <1>3, <1>4 DEF TimerRuns

\* The tails.
LEMMA TailKeeps ==
  ASSUME FnInv, SessionTypeOK', NEW r \in Releases,
         TailCheck(r) \/ TailRequest(r)
  PROVE  FnInv'
<1> USE FnKeyAssumption
<1> USE DEF FnInv, FnTypeOK, PressCounted, DownStored, GensBelow, TailsInOrder,
            ReleaseCounted, ArmedTimerIsHeld, LiveTailIsLast, PressUnderWay,
            TailStep, statics, keyVars, TailGoto
<1>1. CASE TailCheck(r)
  BY <1>1 DEF TailCheck
<1>2. CASE TailRequest(r)
  BY <1>2 DEF TailRequest
<1> QED BY <1>1, <1>2

LEMMA FnKept ==
  ASSUME FnInv, IInv, [Next]_vars
  PROVE  FnInv' /\ IInv'
<1>1. IInv'
  BY SessionKept DEF FnInv
<1>2. SessionTypeOK'
  BY <1>1 DEF IInv
<1>3. CASE Environment
  BY <1>2, <1>3, HookKeeps, SessionLeavesKey, <1>1 DEF Environment
<1>4. CASE HookRuns
  BY <1>1, <1>2, <1>4, HookKeeps
<1>5. CASE \E p \in RecordCalls : TimerRuns(p)
  BY <1>1, <1>2, <1>5, TimerKeeps
<1>6. CASE \E r \in Releases : TailCheck(r) \/ TailRequest(r)
  BY <1>1, <1>2, <1>6, TailKeeps
<1>7. CASE (\E c \in Calls : CallStep(c) /\ UNCHANGED fnVars) \/ UNCHANGED vars
  BY <1>1, <1>2, <1>7, SessionLeavesKey DEF vars
<1> QED BY <1>1, <1>3, <1>4, <1>5, <1>6, <1>7 DEF Next

LEMMA FnInvariance == Spec => [](FnInv /\ IInv)
  BY InitFn, FnKept, PTL DEF Spec

-----------------------------------------------------------------------------

\* Types of the statics, the edges, the timers and the tails.
THEOREM FnTyping == Spec => []FnTypeOK
  BY FnInvariance, PTL DEF FnInv

\* A delay-start that can still pass its check is that of the press still held.
THEOREM TimersAreHeld == Spec => []ArmedTimerIsHeld
  BY FnInvariance, PTL DEF FnInv

\* The tail that can still pass its check is that of the last answered release.
THEOREM TailsAreLast == Spec => []LiveTailIsLast
  BY FnInvariance, PTL DEF FnInv

\* No timer outlives what it was armed for (TimersAreCurrent).
THEOREM TimersStayCurrent == Spec => []TimersAreCurrent
<1>1. FnInv => TimersAreCurrent
  BY DEF FnInv, TimersAreCurrent
<1> QED
  BY <1>1, FnInvariance, PTL

\* The key, its timers and its tails never start a second session.
THEOREM KeySessionsExclusive == Spec => []OneSession
  BY FnInvariance, PTL DEF IInv

\* So the key implements serial sessions too: however late its timers and tails
\* come, a press starts a session when none is live and is refused otherwise.
THEOREM KeySessionsAreSerial == Spec => SerialSpec
<1>1. Init => Serial!Init
  BY SerialFirst DEF Init
<1>2. FnInv /\ IInv /\ [Next]_vars => [Serial!Next]_phaseBar
  <2>1. ASSUME NEW r \in Releases, TailRequest(r) PROVE UNCHANGED phaseBar
    BY <2>1 DEF TailRequest, phaseBar
  <2> QED
    BY <2>1, FnSteps, SerialStep DEF FnInv
<1> QED
  BY <1>1, <1>2, FnInvariance, PTL DEF Spec, SerialSpec, Serial!Spec, phaseBar

\* While a session is recorded no step of the key takes back a stop either, nor
\* does the next press.
THEOREM KeyKeepsStops == Spec => StopKept
<1>1. FnInv /\ IInv /\ [Next]_vars
        => [stop_flag /\ recording => stop_flag' \/ ~recording']_sessionVars
  <2>1. ASSUME NEW r \in Releases, TailRequest(r) PROVE stop_flag'
    BY <2>1 DEF TailRequest
  <2> QED
    BY <2>1, FnSteps, StopKeptStep DEF FnInv
<1> QED BY <1>1, FnInvariance, PTL DEF Spec, StopKept

\* And when every call has ended well the overlay is gone, whichever timer showed it.
THEOREM KeyOverlayGoesAway == Spec => []HudGoneWhenIdle
<1>1. Init => HudGoneWhenIdle
  BY DEF Init, SessionInit, HudGoneWhenIdle
<1>2. FnInv /\ IInv /\ HudGoneWhenIdle /\ [Next]_vars => HudGoneWhenIdle'
  <2>1. ASSUME HudGoneWhenIdle, NEW r \in Releases, TailRequest(r) PROVE HudGoneWhenIdle'
    BY <2>1 DEF TailRequest, HudGoneWhenIdle
  <2> QED
    BY <2>1, FnSteps, HudStep DEF FnInv
<1> QED BY <1>1, <1>2, FnInvariance, PTL DEF Spec

-----------------------------------------------------------------------------
(* Toggle mode. *)

\* In Toggle mode no release leaves a tail.
NoTail == ~hold => \A r \in Releases : tail[r].at = "none"

LEMMA NoTailInit == Init => NoTail
  BY DEF Init, NoTail

LEMMA NoTailStep == FnTypeOK /\ NoTail /\ [Next]_vars => NoTail'
<1> SUFFICES ASSUME FnTypeOK, NoTail, [Next]_vars PROVE NoTail'
  OBVIOUS
<1>1. ASSUME UNCHANGED <<hold, tail>> PROVE NoTail'
  BY <1>1 DEF NoTail
<1>2. CASE Environment
  BY <1>1, <1>2, Zenon DEF Environment, EdgeDropped, PressEdge, ReleaseEdge, fnVars
<1>3. CASE PressDown \/ Press \/ HookTrigger \/ HookReturn \/ Release \/ ClearPress
  BY <1>1, <1>3, Zenon
     DEF PressDown, Press, HookTrigger, HookReturn, Release, ClearPress, keyVars
<1>4. CASE Classify
  <2>1. CASE hold
    BY <1>4, <2>1 DEF Classify, keyVars, NoTail
  <2>2. CASE ~hold
    <3>1. \A mine \in BOOLEAN :
            classify_fn_edge(Context(FALSE, mine)) # "StopAfterTail"
      BY <2>2 DEF classify_fn_edge, ClassifyRelease, Context
    <3>2. this_press_started \in BOOLEAN
      BY DEF FnTypeOK
    <3> QED BY <1>1, <1>4, <3>1, <3>2, Zenon DEF Classify, keyVars
  <2> QED BY <2>1, <2>2
<1>5. ASSUME NEW p \in RecordCalls, TimerRuns(p) PROVE NoTail'
  BY <1>1, <1>5, Zenon
     DEF TimerRuns, TimerCheckGen, TimerCheckDown, TimerStart, TimerTrigger, keyVars
<1>6. ASSUME NEW r \in Releases, TailCheck(r) \/ TailRequest(r) PROVE NoTail'
  <2>1. tail[r].at # "none" /\ UNCHANGED hold
    BY <1>6 DEF TailCheck, TailRequest, keyVars
  <2> QED BY <2>1 DEF NoTail
<1>7. CASE (\E c \in Calls : CallStep(c) /\ UNCHANGED fnVars) \/ UNCHANGED vars
  BY <1>1, <1>7, Zenon DEF fnVars, vars
<1> QED BY <1>2, <1>3, <1>4, <1>5, <1>6, <1>7, Zenon DEF Next, HookRuns

\* Only a call that is refused raises the stop of a session.
LEMMA RaisesStop ==
  ASSUME SessionTypeOK, NEW c \in Calls, OutsideStep(c) \/ CallStep(c), ~stop_flag, stop_flag'
  PROVE  pc[c] = "cas" /\ pc'[c] = "done"
<1> USE DEF flags
<1>1. CASE OutsideStep(c)
  BY <1>1 DEF OutsideStep, Trigger, TranslateKey, UiToggle, SourceEnds
<1>2. CASE SetIntent(c) \/ Trigger(c) \/ ShowOverlay(c) \/ ClearStop(c) \/ TakeIntent(c)
             \/ Prepare(c) \/ CheckBackend(c)
  BY <1>2 DEF SetIntent, Trigger, ShowOverlay, ClearStop, TakeIntent, Prepare,
              CheckBackend, FailStart
<1>3. CASE Cas(c)
  BY <1>3 DEF Cas, Goto, SessionTypeOK
<1>4. CASE OpenAudio(c) \/ StartRecording(c) \/ FailHide(c) \/ Connect(c)
             \/ Record(c) \/ Drain(c) \/ Insert(c)
  BY <1>4 DEF OpenAudio, StartRecording, FailHide, Connect, Record, Drain,
              Insert, FailStart
<1>5. CASE UnsetRecording(c) \/ ReleaseGuard(c) \/ HideOverlay(c)
  BY <1>5 DEF UnsetRecording, ReleaseGuard, HideOverlay
<1> QED BY <1>1, <1>2, <1>3, <1>4, <1>5 DEF CallStep

\* In Toggle mode letting go of the key, however late, never stops a session:
\* no release leaves a tail, and of the calls only a second toggle asks for it.
THEOREM ToggleKeepsGoing == Spec => ToggleReleaseNeverStops
<1>1. FnInv /\ IInv /\ NoTail /\ [Next]_vars
        => [~hold /\ ~stop_flag /\ stop_flag'
             => \E c \in Calls : pc[c] = "cas" /\ pc'[c] = "done"]_vars
  <2> SUFFICES ASSUME FnInv, IInv, NoTail, [Next]_vars, ~hold, ~stop_flag, stop_flag'
               PROVE  \E c \in Calls : pc[c] = "cas" /\ pc'[c] = "done"
    OBVIOUS
  <2>1. ~\E r \in Releases : TailRequest(r)
    BY DEF NoTail, TailRequest
  <2>2. [SessionNext]_sessionVars
    BY <2>1, FnSteps DEF FnInv
  <2>3. stop_flag' # stop_flag
    OBVIOUS
  <2>4. PICK c \in Calls : OutsideStep(c) \/ CallStep(c)
    BY <2>2, <2>3, Zenon DEF SessionNext, sessionVars
  <2> QED BY <2>4, RaisesStop DEF IInv
<1>2. FnInv /\ NoTail /\ [Next]_vars => NoTail'
  BY NoTailStep DEF FnInv
<1> QED BY <1>1, <1>2, NoTailInit, FnInvariance, PTL DEF Spec, ToggleReleaseNeverStops

-----------------------------------------------------------------------------
(* The hotkeys.                                                              *)

LEMMA WatchKeys == \A t : parse_watch_key(t) \in {"none", "fn", "capslock"}
  BY DEF parse_watch_key

LEMMA ConsumeBoolean == \A c \in Config : fn_tap_can_consume(c) \in BOOLEAN
  BY DEF fn_tap_can_consume

\* What a role wants is a shortcut, or nothing.
LEMMA WantedType ==
  ASSUME NEW c \in Config, NEW r \in Roles, Wanted(c, r) # None
  PROVE  Wanted(c, r) \in Shortcuts
<1>1. c.record \in Texts /\ c.style \in Texts \cup {None} /\ c.translate \in Texts \cup {None}
  BY DEF Config
<1>2. CASE r = "record"
  BY <1>1, <1>2 DEF Wanted, Shortcuts
<1>3. CASE r \in {"style", "translate"}
  BY <1>1, <1>3 DEF Wanted, Optional, Shortcuts
<1> QED
  BY <1>2, <1>3 DEF Roles

LEMMA RegisterType ==
  ASSUME registered \subseteq Shortcuts, NEW sc, sc # None => sc \in Shortcuts, register(sc)
  PROVE  registered' \subseteq Shortcuts
  BY DEF register

LEMMA EdgeTypes ==
  ASSUME NEW ev, NEW d \in BOOLEAN
  PROVE  classify_hook_event(ev, d)
           \in [edge : {"none", "press", "release"}, down : BOOLEAN]
  BY DEF classify_hook_event

LEMMA DispatchTypes ==
  ASSUME HotkeysTypeOK, NEW ev, NEW low \in BOOLEAN, dispatch_key_event(ev, low)
  PROVE  /\ thread' \in [busy : BOOLEAN, edge : {"none", "press", "release"}, down : BOOLEAN]
         /\ fromHook' \in BOOLEAN
<1> DEFINE e == IF ~low /\ ignoring THEN [ev EXCEPT !.injected = TRUE] ELSE ev
           d == classify_hook_event(e, isDown)
<1>1. d \in [edge : {"none", "press", "release"}, down : BOOLEAN]
  BY EdgeTypes DEF HotkeysTypeOK
<1>2. thread' = [busy |-> TRUE, edge |-> d.edge, down |-> d.down]
      /\ fromHook' = IF d.edge = "none" THEN fromHook ELSE low
  BY DEF dispatch_key_event
<1> HIDE DEF d
<1> QED
  BY <1>1, <1>2 DEF HotkeysTypeOK

LEMMA HotkeysInitTypes == HotkeysInit => HotkeysTypeOK
<1> SUFFICES ASSUME HotkeysInit PROVE HotkeysTypeOK
  OBVIOUS
<1>1. config \in Config /\ apply \in [at : ApplySteps, cfg : Config]
  BY HotkeysAssumption DEF HotkeysInit, ApplySteps
<1>2. active \in 0..Len(Packs)
  BY HotkeysAssumption DEF HotkeysInit
<1>3. saves \in 0..MaxSaves /\ polishes \in 0..MaxPolishes /\ keys \in 0..MaxKeys
  BY HotkeysAssumption DEF HotkeysInit
<1>4. hookQ \in Seq(Event) /\ rawQ \in Seq(Event)
  BY DEF HotkeysInit
<1>5. thread \in [busy : BOOLEAN, edge : {"none", "press", "release"}, down : BOOLEAN]
  BY DEF HotkeysInit, NoDispatch
<1> QED
  BY <1>1, <1>2, <1>3, <1>4, <1>5 DEF HotkeysInit, HotkeysTypeOK

LEMMA HotkeysTypesStep == HotkeysTypeOK /\ [HotkeysNext]_hotkeysVars => HotkeysTypeOK'
<1> SUFFICES ASSUME HotkeysTypeOK, [HotkeysNext]_hotkeysVars PROVE HotkeysTypeOK'
  OBVIOUS
<1> USE DEF hookVars, comboVars, bounds, ApplySteps
<1>1. CASE SaveAppConfig
  <2>1. saves' \in 0..MaxSaves
    BY <1>1, HotkeysAssumption DEF HotkeysTypeOK, SaveAppConfig
  <2>2. apply' \in [at : ApplySteps, cfg : Config]
    BY <1>1 DEF SaveAppConfig
  <2> QED
    BY <1>1, <2>1, <2>2 DEF HotkeysTypeOK, SaveAppConfig
<1>2. CASE SaveMemory
  BY <1>2, ConsumeBoolean DEF HotkeysTypeOK, SaveMemory, ApplyGoto
<1>3. CASE ApplyClear
  BY <1>3 DEF HotkeysTypeOK, ApplyClear, ApplyGoto
<1>4. CASE ApplyWatch
  <2>1. watch' \in {"none", "fn", "capslock"} /\ isDown' \in BOOLEAN /\ switched' \in BOOLEAN
    BY <1>4, WatchKeys DEF HotkeysTypeOK, ApplyWatch
  <2>2. apply' \in [at : ApplySteps, cfg : Config]
    BY <1>4 DEF HotkeysTypeOK, ApplyWatch, ApplyGoto
  <2> QED
    BY <1>4, <2>1, <2>2 DEF HotkeysTypeOK, ApplyWatch
<1>5. ASSUME NEW r \in Roles, NEW n \in {"tap", "translate", "idle"}, ApplyRegister(r, n)
      PROVE  HotkeysTypeOK'
  <2>1. registered' \subseteq Shortcuts
    BY <1>5, WantedType, RegisterType DEF HotkeysTypeOK, ApplyRegister
  <2> QED
    BY <1>5, <2>1 DEF HotkeysTypeOK, ApplyRegister, ApplyGoto
<1>6. CASE store_fn_tap_consume
  BY <1>6, ConsumeBoolean DEF HotkeysTypeOK, store_fn_tap_consume, ApplyGoto
<1>7. CASE PolishStarts
  <2>1. registered' \subseteq Shortcuts
    BY <1>7, RegisterType DEF HotkeysTypeOK, PolishStarts, Shortcuts
  <2>2. polishes' \in 0..MaxPolishes
    BY <1>7, HotkeysAssumption DEF HotkeysTypeOK, PolishStarts
  <2>3. polish' \in BOOLEAN /\ cancel' \in BOOLEAN
    BY <1>7 DEF PolishStarts
  <2>4. UNCHANGED <<config, apply, suspend, active, hookVars, saves, keys>>
    BY <1>7 DEF PolishStarts
  <2> QED
    BY <2>1, <2>2, <2>3, <2>4 DEF HotkeysTypeOK
<1>8. CASE PolishEnds
  <2>1. registered' \subseteq Shortcuts
    BY <1>8 DEF HotkeysTypeOK, PolishEnds
  <2>2. polish' \in BOOLEAN /\ UNCHANGED <<config, apply, cancel, suspend, active, hookVars, bounds>>
    BY <1>8 DEF PolishEnds
  <2> QED
    BY <2>1, <2>2 DEF HotkeysTypeOK
<1>9. CASE set_capture_suspend
  BY <1>9 DEF HotkeysTypeOK, set_capture_suspend
<1>10. CASE on_hotkey
  <2>1. active' \in 0..Len(Packs) /\ cancel' \in BOOLEAN
    BY <1>10, HotkeysAssumption DEF HotkeysTypeOK, on_hotkey, cycle_style_pack
  <2> QED
    BY <1>10, <2>1 DEF HotkeysTypeOK, on_hotkey
<1>11. CASE Focus
  BY <1>11 DEF HotkeysTypeOK, Focus
<1>12. CASE Key
  <2>1. hookQ' \in Seq(Event) /\ rawQ' \in Seq(Event) /\ phys' \in BOOLEAN
    <3>1. \A up \in BOOLEAN : [up |-> up, injected |-> FALSE] \in Event
      BY DEF Event
    <3> QED
      BY <1>12, <3>1 DEF HotkeysTypeOK, Key
  <2> QED
    BY <1>12, <2>1, HotkeysAssumption DEF HotkeysTypeOK, Key
<1>13. CASE hook_proc
  <2>1. hookQ' \in Seq(Event)
    BY <1>13 DEF HotkeysTypeOK, hook_proc
  <2>2. /\ thread' \in [busy : BOOLEAN, edge : {"none", "press", "release"}, down : BOOLEAN]
        /\ fromHook' \in BOOLEAN
    BY <1>13, DispatchTypes DEF hook_proc
  <2> QED
    BY <1>13, <2>1, <2>2 DEF HotkeysTypeOK, hook_proc
<1>14. CASE handle_raw_input
  <2>1. rawQ' \in Seq(Event)
    BY <1>14 DEF HotkeysTypeOK, handle_raw_input
  <2>2. /\ thread' \in [busy : BOOLEAN, edge : {"none", "press", "release"}, down : BOOLEAN]
        /\ fromHook' \in BOOLEAN
    BY <1>14, DispatchTypes DEF handle_raw_input
  <2> QED
    BY <1>14, <2>1, <2>2 DEF HotkeysTypeOK, handle_raw_input
<1>15. CASE StoreAndCall
  <2>1. /\ hookQ' \in Seq(Event) /\ rawQ' \in Seq(Event)
        /\ ignoring' \in BOOLEAN
    <3>1. SentAgain(TRUE) \in Seq(Event) /\ SentAgain(FALSE) \in Seq(Event)
      BY DEF Event, SentAgain
    <3>2. hookQ \in Seq(Event) /\ rawQ \in Seq(Event)
      BY DEF HotkeysTypeOK
    <3>3. /\ hookQ' = hookQ \/ hookQ' = hookQ \o SentAgain(TRUE)
          /\ rawQ' = rawQ \/ rawQ' = rawQ \o SentAgain(FALSE)
      BY <1>15 DEF StoreAndCall
    <3>4. \A q, p \in Seq(Event) : q \o p \in Seq(Event)
      OBVIOUS
    <3>5. hookQ' \in Seq(Event) /\ rawQ' \in Seq(Event)
      BY <3>1, <3>2, <3>3, <3>4, Zenon
    <3>6. ignoring' \in BOOLEAN
      BY <1>15 DEF HotkeysTypeOK, StoreAndCall
    <3> QED
      BY <3>5, <3>6
  <2>2. /\ thread' \in [busy : BOOLEAN, edge : {"none", "press", "release"}, down : BOOLEAN]
        /\ isDown' \in BOOLEAN /\ lastEdge' \in {"press", "release"} /\ switched' \in BOOLEAN
    BY <1>15 DEF HotkeysTypeOK, StoreAndCall, NoDispatch
  <2> QED
    BY <1>15, <2>1, <2>2 DEF HotkeysTypeOK, StoreAndCall
<1>16. CASE IgnoreEnds
  <2>1. ignoring' \in BOOLEAN
    BY <1>16 DEF IgnoreEnds
  <2> QED
    BY <1>16, <2>1 DEF HotkeysTypeOK, IgnoreEnds
<1>17. CASE UNCHANGED hotkeysVars
  BY <1>17 DEF HotkeysTypeOK, hotkeysVars
<1> QED
  BY <1>1, <1>2, <1>3, <1>4, <1>5, <1>6, <1>7, <1>8, <1>9, <1>10, <1>11, <1>12, <1>13,
     <1>14, <1>15, <1>16, <1>17 DEF HotkeysNext, apply_hotkey, Roles

-----------------------------------------------------------------------------
(* What is registered. *)

\* The roles that apply_hotkey has registered for the configuration in memory.
Done ==
  CASE apply.at \in {"idle", "save"} -> Roles
    [] apply.at = "translate" -> {"record", "style"}
    [] apply.at \in {"tap", "style"} -> {"record"}
    [] OTHER -> {}

\* Nothing but what these roles want is registered, and ESC during a polish; all
\* of it that is free is, except ESC, which a polish takes away at its end.
RegisteredInv ==
  /\ apply.at # "save" => config = apply.cfg
  /\ apply.at # "clear" =>
       /\ \A sc \in registered :
            /\ sc # None
            /\ (polish /\ sc = Esc) \/ \E r \in Done : sc = Wanted(config, r)
       /\ \A r \in Done :
            Wanted(config, r) \notin Taken \cup {None, Esc} => Wanted(config, r) \in registered

LEMMA RegisteredInvStep ==
  HotkeysTypeOK /\ RegisteredInv /\ [HotkeysNext]_hotkeysVars => RegisteredInv'
<1> SUFFICES ASSUME HotkeysTypeOK, RegisteredInv, [HotkeysNext]_hotkeysVars
             PROVE  RegisteredInv'
  OBVIOUS
<1> USE DEF hookVars, comboVars, bounds
<1>0. apply \in [at : ApplySteps, cfg : Config]
  BY DEF HotkeysTypeOK
<1>1. CASE SaveAppConfig
  BY <1>0, <1>1 DEF SaveAppConfig, RegisteredInv, Done
<1>2. CASE SaveMemory
  <2>1. CASE apply'.at = "clear"
    BY <1>0, <1>2, <2>1 DEF SaveMemory, ApplyGoto, RegisteredInv
  <2>2. CASE apply'.at = "idle"
    <3>1. config' = apply.cfg /\ apply'.cfg = apply.cfg /\ apply.at = "save"
          /\ \A r \in Roles : config[r] = apply.cfg[r]
      BY <1>0, <1>2, <2>2 DEF SaveMemory, ApplyGoto
    <3>2. \A r \in Roles : Wanted(config', r) = Wanted(config, r)
      BY <3>1 DEF Wanted, Roles
    <3>3. Done = Roles /\ Done' = Roles
      BY <2>2, <3>1 DEF Done
    <3> QED
      BY <1>2, <2>2, <3>1, <3>2, <3>3 DEF SaveMemory, RegisteredInv
  <2> QED
    BY <1>0, <1>2, <2>1, <2>2 DEF SaveMemory, ApplyGoto
<1>3. CASE ApplyClear
  BY <1>0, <1>3 DEF ApplyClear, ApplyGoto, RegisteredInv, Done
<1>4. CASE ApplyWatch
  BY <1>0, <1>4 DEF ApplyWatch, ApplyGoto, RegisteredInv, Done
<1>5. CASE store_fn_tap_consume
  BY <1>0, <1>5 DEF store_fn_tap_consume, ApplyGoto, RegisteredInv, Done
<1>6. ASSUME NEW r \in Roles, NEW n, ApplyRegister(r, n), Done' = Done \cup {r},
             n # "clear"
      PROVE  RegisteredInv'
  <2>1. apply.at \notin {"save", "clear"} /\ config' = config /\ polish' = polish
        /\ apply'.cfg = apply.cfg /\ apply'.at = n /\ config = apply.cfg
        /\ register(Wanted(config, r))
    BY <1>0, <1>6 DEF ApplyRegister, ApplyGoto, RegisteredInv, Roles
  <2>2. \A sc \in registered' : sc \in registered \/ (sc = Wanted(config, r) /\ sc # None)
    BY <2>1 DEF register
  <2>3. registered \subseteq registered'
        /\ (Wanted(config, r) \notin Taken \cup {None} => Wanted(config, r) \in registered')
    BY <2>1 DEF register
  <2>4. ASSUME NEW sc \in registered'
        PROVE  sc # None /\ ((polish' /\ sc = Esc) \/ \E q \in Done' : sc = Wanted(config, q))
    BY <1>6, <2>1, <2>2 DEF RegisteredInv
  <2>5. ASSUME NEW q \in Done', Wanted(config, q) \notin Taken \cup {None, Esc}
        PROVE  Wanted(config, q) \in registered'
    BY <1>6, <2>1, <2>3, <2>5 DEF RegisteredInv
  <2> QED
    BY <2>1, <2>4, <2>5 DEF RegisteredInv
<1>7. CASE ApplyRegister("record", "tap")
  BY <1>0, <1>6, <1>7 DEF ApplyRegister, ApplyGoto, Done, Roles
<1>8. CASE ApplyRegister("style", "translate")
  BY <1>0, <1>6, <1>8 DEF ApplyRegister, ApplyGoto, Done, Roles
<1>9. CASE ApplyRegister("translate", "idle")
  BY <1>0, <1>6, <1>9 DEF ApplyRegister, ApplyGoto, Done, Roles
<1>10. CASE PolishStarts
  BY <1>10 DEF PolishStarts, register, RegisteredInv, Done
<1>11. CASE PolishEnds
  BY <1>11 DEF PolishEnds, RegisteredInv, Done
<1>12. CASE set_capture_suspend \/ on_hotkey \/ Focus \/ Key \/ hook_proc \/ handle_raw_input
            \/ StoreAndCall \/ IgnoreEnds \/ UNCHANGED hotkeysVars
  <2>1. UNCHANGED <<config, apply, registered, polish>>
    BY <1>12 DEF set_capture_suspend, on_hotkey, Focus, Key, hook_proc, handle_raw_input,
                 StoreAndCall, IgnoreEnds, hotkeysVars
  <2> QED
    BY <2>1 DEF RegisteredInv, Done
<1> QED
  BY <1>1, <1>2, <1>3, <1>4, <1>5, <1>7, <1>8, <1>9, <1>10, <1>11, <1>12
     DEF HotkeysNext, apply_hotkey

\* "What was registered must be routed": the two readings of the record field.
LEMMA RecordRouted ==
  ASSUME NEW c, Wanted(c, "record") # None
  PROVE  effective_record_shortcut(c) = Wanted(c, "record")
  BY DEF Wanted, effective_record_shortcut

\* on_hotkey does something with whatever a role wants ...
LEMMA WantedRouted ==
  ASSUME NEW c, NEW r \in Roles, Wanted(c, r) # None
  PROVE  Route(c, Wanted(c, r)) # "none"
<1>1. CASE r = "record"
  BY <1>1, RecordRouted DEF Route
<1>2. CASE r = "style" \/ r = "translate"
  BY <1>2 DEF Route, Wanted
<1> QED
  BY <1>1, <1>2 DEF Roles

\* ... and what the role wants it for, when no two want the same.
LEMMA DistinctRouted ==
  ASSUME NEW c, NEW r \in Roles, Wanted(c, r) # None, Distinct(c)
  PROVE  Route(c, Wanted(c, r)) = r
<1>1. Wanted(c, r) # Esc
  BY DEF Distinct, WantedSet
<1>2. \A q \in Roles : r # q => Wanted(c, r) # Wanted(c, q)
  BY DEF Distinct
<1>3. Wanted(c, "style") = Optional(c.style) /\ Wanted(c, "translate") = Optional(c.translate)
  BY DEF Wanted
<1>4. CASE r = "record"
  BY <1>1, <1>2, <1>3, <1>4, RecordRouted DEF Route, Roles
<1>5. CASE r = "style"
  BY <1>1, <1>3, <1>5 DEF Route
<1>6. CASE r = "translate"
  BY <1>1, <1>2, <1>3, <1>6 DEF Route, Roles
<1> QED
  BY <1>4, <1>5, <1>6 DEF Roles

LEMMA RegisteredInvImplies == HotkeysTypeOK /\ RegisteredInv => RegisteredIsRouted
<1> SUFFICES ASSUME HotkeysTypeOK, RegisteredInv, apply.at = "idle"
             PROVE  /\ \A sc \in registered : Route(config, sc) # "none"
                    /\ ~polish => registered \subseteq WantedSet(config)
                    /\ Distinct(config) =>
                         /\ WantedSet(config) \ Taken \subseteq registered
                         /\ \A r \in Roles :
                              Wanted(config, r) # None => Route(config, Wanted(config, r)) = r
  BY DEF RegisteredIsRouted
<1>1. Done = Roles
  BY DEF Done
<1>2. \A sc \in registered :
        sc # None /\ ((polish /\ sc = Esc) \/ \E r \in Roles : sc = Wanted(config, r))
  BY <1>1 DEF RegisteredInv
<1>3. Route(config, Esc) # "none"
  BY DEF Route
<1>4. \A sc \in registered : Route(config, sc) # "none"
  BY <1>2, <1>3, WantedRouted
<1>5. ~polish => registered \subseteq WantedSet(config)
  BY <1>2 DEF WantedSet
<1>6. Distinct(config) => WantedSet(config) \ Taken \subseteq registered
  BY <1>1 DEF RegisteredInv, Distinct, WantedSet
<1> QED
  BY <1>4, <1>5, <1>6, DistinctRouted

\* Between two saves openIME takes no shortcut from the other programs that it
\* does nothing with, ESC above all, and has all it wants (RegisteredIsRouted),
\* whatever the texts, the other programs and the order of polishes and saves.
THEOREM HotkeysAreRouted == HotkeysSpec => []RegisteredIsRouted
<1>1. HotkeysInit => RegisteredInv
  BY HotkeysAssumption DEF HotkeysInit, RegisteredInv
<1> QED
  BY <1>1, HotkeysInitTypes, HotkeysTypesStep, RegisteredInvStep, RegisteredInvImplies, PTL
     DEF HotkeysSpec

-----------------------------------------------------------------------------
(* What on_fn_edge hears. *)

\* While the watched key is the same, KEY_IS_DOWN is what the last edge said, and
\* an edge on its way is the one that is due.
EdgeInv ==
  /\ thread.busy => (thread.edge = "press" => thread.down)
                    /\ (thread.edge = "release" => ~thread.down)
  /\ ~switched =>
       /\ isDown <=> lastEdge = "press"
       /\ thread.busy => /\ thread.edge = "none" => (thread.down <=> isDown)
                         /\ thread.edge = "press" => ~isDown
                         /\ thread.edge = "release" => isDown

LEMMA EdgeDispatched ==
  ASSUME HotkeysTypeOK, EdgeInv, NEW ev, NEW low, dispatch_key_event(ev, low),
         UNCHANGED <<isDown, lastEdge, switched>>
  PROVE  EdgeInv'
<1> DEFINE e == IF ~low /\ ignoring THEN [ev EXCEPT !.injected = TRUE] ELSE ev
           d == classify_hook_event(e, isDown)
<1>1. thread' = [busy |-> TRUE, edge |-> d.edge, down |-> d.down]
  BY DEF dispatch_key_event
<1>2. isDown \in BOOLEAN
  BY DEF HotkeysTypeOK
<1>3. /\ d.edge = "press" => d.down /\ ~isDown
      /\ d.edge = "release" => ~d.down /\ isDown
      /\ d.edge = "none" => (d.down <=> isDown)
  BY <1>2 DEF classify_hook_event
<1> HIDE DEF d
<1> QED
  BY <1>1, <1>3 DEF EdgeInv

LEMMA EdgeInvStep == HotkeysTypeOK /\ EdgeInv /\ [HotkeysNext]_hotkeysVars => EdgeInv'
<1> SUFFICES ASSUME HotkeysTypeOK, EdgeInv, [HotkeysNext]_hotkeysVars PROVE EdgeInv'
  OBVIOUS
<1> USE DEF hookVars, comboVars, bounds
<1>1. CASE ApplyWatch
  BY <1>1 DEF ApplyWatch, EdgeInv
<1>2. CASE hook_proc
  BY <1>2, EdgeDispatched DEF hook_proc
<1>3. CASE handle_raw_input
  BY <1>3, EdgeDispatched DEF handle_raw_input
<1>4. CASE StoreAndCall
  <2>1. thread.edge \in {"none", "press", "release"} /\ thread.down \in BOOLEAN
    BY DEF HotkeysTypeOK
  <2>2. thread.busy /\ thread' = NoDispatch /\ isDown' = thread.down
        /\ IF thread.edge = "none" THEN UNCHANGED <<lastEdge, switched>>
           ELSE lastEdge' = thread.edge /\ switched' = FALSE
    BY <1>4 DEF StoreAndCall
  <2> QED
    BY <2>1, <2>2 DEF EdgeInv, NoDispatch
<1>5. CASE SaveAppConfig \/ SaveMemory \/ ApplyClear \/ store_fn_tap_consume
           \/ (\E r, n : ApplyRegister(r, n)) \/ PolishStarts \/ PolishEnds
           \/ set_capture_suspend \/ on_hotkey \/ Focus \/ Key \/ IgnoreEnds
           \/ UNCHANGED hotkeysVars
  <2>1. UNCHANGED <<isDown, thread, lastEdge, switched>>
    BY <1>5 DEF SaveAppConfig, SaveMemory, ApplyClear, store_fn_tap_consume, ApplyRegister,
                PolishStarts, PolishEnds, set_capture_suspend, on_hotkey, Focus, Key,
                IgnoreEnds, hotkeysVars
  <2> QED
    BY <2>1 DEF EdgeInv
<1> QED
  BY <1>1, <1>2, <1>3, <1>4, <1>5 DEF HotkeysNext, apply_hotkey

LEMMA EdgesInTurn ==
  HotkeysTypeOK /\ EdgeInv /\ [HotkeysNext]_hotkeysVars =>
    [(thread.busy /\ ~thread'.busy /\ thread.edge # "none" /\ ~switched)
       => thread.edge # lastEdge]_hotkeysVars
<1> SUFFICES ASSUME HotkeysTypeOK, EdgeInv, thread.busy, thread.edge # "none", ~switched
             PROVE  thread.edge # lastEdge
  OBVIOUS
<1>1. thread.edge \in {"press", "release"}
  BY DEF HotkeysTypeOK
<1> QED
  BY <1>1 DEF EdgeInv

\* However the two channels bring the events of the watched key, on_fn_edge hears
\* a press and a release in turn (EdgesAlternate).
THEOREM EdgesAreInTurn == HotkeysSpec => EdgesAlternate
<1>1. HotkeysInit => EdgeInv
  BY DEF HotkeysInit, EdgeInv, NoDispatch
<1> QED
  BY <1>1, HotkeysInitTypes, HotkeysTypesStep, EdgeInvStep, EdgesInTurn, PTL
     DEF HotkeysSpec, EdgesAlternate
==============================================================================
