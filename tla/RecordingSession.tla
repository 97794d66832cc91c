--------------------------- MODULE RecordingSession ---------------------------
(***************************************************************************)
(* The recording session of the desktop shell: trigger_toggle (lib.rs),    *)
(* toggle_recording and the session task it spawns (commands.rs), over the *)
(* shared flags of AppState (state.rs).                                    *)
(*                                                                         *)
(* A call is one run of trigger_toggle (a hotkey) or of the                *)
(* toggle_recording command (the settings page).  A call that wins the     *)
(* compare-exchange on recording_guard goes on as the session task; one    *)
(* that loses it asks the running session to stop.  Calls run on different *)
(* threads, so each access to a shared flag is a step of its own.          *)
(*                                                                         *)
(* The abort branches are left out: request_abort has no caller in this    *)
(* version, so abort_flag is never set.                                    *)
(***************************************************************************)
EXTENDS Naturals

CONSTANTS
  RecordCalls,     \* trigger_toggle runs started by the record key
  TranslateCalls,  \* trigger_toggle runs started by the translate key
  UiCalls,         \* toggle_recording commands from the settings page
  Failures         \* the steps that may fail, a subset of FailureSteps

Calls == RecordCalls \cup TranslateCalls \cup UiCalls

FailureSteps == {"prepare", "audio", "connect", "record", "drain"}

ASSUME CallsAssumption ==
  /\ RecordCalls \cap TranslateCalls = {}
  /\ RecordCalls \cap UiCalls = {}
  /\ TranslateCalls \cap UiCalls = {}

ASSUME FailuresAssumption == Failures \subseteq FailureSteps

VARIABLES
  recording_guard,  \* AppState.recording_guard: the start lock
  recording,        \* AppState.recording: what the frontend and the HUD ask
  stop_flag,        \* AppState.stop_flag
  pending_intent,   \* AppState.pending_intent
  hud,              \* TRUE while the overlay window is on screen
  pc,               \* [Calls -> Step]: the next step of each call
  intent,           \* [Calls -> SessionIntent]: the intent a session took
  already           \* [Calls -> BOOLEAN]: what trigger_toggle read of recording

flags   == <<recording_guard, recording, stop_flag, pending_intent>>
locals  == <<intent, already>>
sessionVars == <<recording_guard, recording, stop_flag, pending_intent, hud,
                 pc, intent, already>>

SessionIntent == {"Dictate", "Translate"}

\* The steps before the compare-exchange, those that hold the guard with no
\* session task yet, those of the session task, and those after the release.
\* "failed" is the end of a call whose error hides no overlay after the release.
BeforeGuard  == {"idle", "setIntent", "trigger", "overlay", "cas"}
Starting     == {"clear", "take", "prepare", "backend", "audio", "arm"}
Running      == {"connect", "record", "drain", "insert"}
Ending       == {"unset", "errHide", "errUnset"}
Releasing    == {"release", "errRelease"}
AfterGuard   == {"hide", "failHide", "done", "failed"}
Step == BeforeGuard \cup Starting \cup Running \cup Ending \cup Releasing
          \cup AfterGuard \cup {"panicked"}

\* The calls at a step of which recording_guard is theirs.
HoldsGuard == Starting \cup Running \cup Ending \cup Releasing \cup {"panicked"}
Holders    == {c \in Calls : pc[c] \in HoldsGuard}

SessionTypeOK ==
  /\ recording_guard \in BOOLEAN
  /\ recording \in BOOLEAN
  /\ stop_flag \in BOOLEAN
  /\ pending_intent \in SessionIntent
  /\ hud \in BOOLEAN
  /\ pc \in [Calls -> Step]
  /\ intent \in [Calls -> SessionIntent]
  /\ already \in [Calls -> BOOLEAN]

SessionInit ==
  /\ recording_guard = FALSE
  /\ recording = FALSE
  /\ stop_flag = FALSE
  /\ pending_intent = "Dictate"
  /\ hud = FALSE
  /\ pc = [c \in Calls |-> "idle"]
  /\ intent = [c \in Calls |-> "Dictate"]
  /\ already = [c \in Calls |-> FALSE]

Goto(c, s) == pc' = [pc EXCEPT ![c] = s]

-----------------------------------------------------------------------------
(* The triggers. *)

\* on_translate_hotkey: ignored while the guard is held; the check, the store
\* of the intent and the toggle are three separate steps of the main thread.
TranslateKey(c) ==
  /\ c \in TranslateCalls
  /\ pc[c] = "idle"
  /\ recording_guard = FALSE
  /\ Goto(c, "setIntent")
  /\ UNCHANGED <<flags, hud, locals>>

SetIntent(c) ==
  /\ pc[c] = "setIntent"
  /\ pending_intent' = "Translate"
  /\ Goto(c, "trigger")
  /\ UNCHANGED <<recording_guard, recording, stop_flag, hud, locals>>

\* trigger_toggle reads recording with try_read: FALSE when the lock is busy.
Trigger(c) ==
  /\ \/ c \in RecordCalls /\ pc[c] = "idle"
     \/ pc[c] = "trigger"
  /\ \E r \in {recording, FALSE} : already' = [already EXCEPT ![c] = r]
  /\ Goto(c, "overlay")
  /\ UNCHANGED <<flags, hud, intent>>

\* show_overlay, then the toggle is spawned.
ShowOverlay(c) ==
  /\ pc[c] = "overlay"
  /\ hud' = (hud \/ ~already[c])
  /\ Goto(c, "cas")
  /\ UNCHANGED <<flags, locals>>

\* The settings page invokes the toggle_recording command directly.
UiToggle(c) ==
  /\ c \in UiCalls
  /\ pc[c] = "idle"
  /\ Goto(c, "cas")
  /\ UNCHANGED <<flags, hud, locals>>

-----------------------------------------------------------------------------
(* toggle_recording, up to the spawn of the session task. *)

\* Mutants of Cas: the start lock read from `recording`, as before the guard
\* existed; a second toggle that forgets to ask for the stop.
CasOnRecording(c) ==
  /\ pc[c] = "cas"
  /\ IF recording
     THEN stop_flag' = TRUE /\ Goto(c, "done") /\ UNCHANGED recording_guard
     ELSE recording_guard' = TRUE /\ Goto(c, "clear") /\ UNCHANGED stop_flag
  /\ UNCHANGED <<recording, pending_intent, hud, locals>>

CasForgetsStop(c) ==
  /\ pc[c] = "cas"
  /\ IF recording_guard
     THEN Goto(c, "done") /\ UNCHANGED recording_guard
     ELSE recording_guard' = TRUE /\ Goto(c, "clear")
  /\ UNCHANGED <<recording, stop_flag, pending_intent, hud, locals>>

\* The compare-exchange: the loser asks for a stop and returns.
Cas(c) ==
  /\ pc[c] = "cas"
  /\ \/ /\ recording_guard = FALSE
        /\ recording_guard' = TRUE
        /\ Goto(c, "clear")
        /\ UNCHANGED stop_flag
     \/ /\ recording_guard = TRUE
        /\ stop_flag' = TRUE
        /\ Goto(c, "done")
        /\ UNCHANGED recording_guard
  /\ UNCHANGED <<recording, pending_intent, hud, locals>>

ClearStop(c) ==
  /\ pc[c] = "clear"
  /\ stop_flag' = FALSE
  /\ Goto(c, "take")
  /\ UNCHANGED <<recording_guard, recording, pending_intent, hud, locals>>

\* pending_intent is read and put back to Dictate under one lock.
TakeIntent(c) ==
  /\ pc[c] = "take"
  /\ intent' = [intent EXCEPT ![c] = pending_intent]
  /\ pending_intent' = "Dictate"
  /\ Goto(c, "prepare")
  /\ UNCHANGED <<recording_guard, recording, stop_flag, hud, already>>

\* Mutant of FailStart: an error path that forgets release_recording_guard.
FailStartKeepsGuard(c) ==
  /\ Goto(c, IF c \in UiCalls THEN "failed" ELSE "failHide")
  /\ UNCHANGED <<flags, hud, locals>>

\* release_recording_guard on an error path: toggle_recording returns Err, and
\* the trigger_toggle that spawned it then hides the overlay (FailHide).
FailStart(c) ==
  /\ recording_guard' = FALSE
  /\ Goto(c, IF c \in UiCalls THEN "failed" ELSE "failHide")
  /\ UNCHANGED <<recording, stop_flag, pending_intent, hud, locals>>

\* Active provider, local model and validate().
Prepare(c) ==
  /\ pc[c] = "prepare"
  /\ \/ /\ Goto(c, "backend")
        /\ UNCHANGED <<flags, hud, locals>>
     \/ /\ "prepare" \in Failures
        /\ FailStart(c)

\* The back-end check.  For Translate it calls has_cloud_key, whose
\* blocking_read panics on the async worker this code runs on: the task
\* unwinds with the guard held.
CheckBackend(c) ==
  /\ pc[c] = "backend"
  /\ Goto(c, IF intent[c] = "Translate" THEN "panicked" ELSE "audio")
  /\ UNCHANGED <<flags, hud, locals>>

\* pipeline() and CpalAudioSource::new_with_device.
OpenAudio(c) ==
  /\ pc[c] = "audio"
  /\ \/ /\ Goto(c, "arm")
        /\ UNCHANGED <<flags, hud, locals>>
     \/ /\ "audio" \in Failures
        /\ FailStart(c)

\* recording = true, polish_context, tokio::spawn.
StartRecording(c) ==
  /\ pc[c] = "arm"
  /\ recording' = TRUE
  /\ Goto(c, "connect")
  /\ UNCHANGED <<recording_guard, stop_flag, pending_intent, hud, locals>>

\* Mutant of FailHide: the error is reported and the overlay left alone.
FailHideForgets(c) ==
  /\ pc[c] = "failHide"
  /\ Goto(c, "done")
  /\ UNCHANGED <<flags, hud, locals>>

\* The trigger whose toggle failed to start hides the overlay.
FailHide(c) ==
  /\ pc[c] = "failHide"
  /\ hud' = FALSE
  /\ Goto(c, "done")
  /\ UNCHANGED <<flags, locals>>

-----------------------------------------------------------------------------
(* The session task. *)

\* Mutant of Connect: a clear_stop repeated once the session runs.
ConnectClearsStop(c) ==
  /\ pc[c] = "connect"
  /\ stop_flag' = FALSE
  /\ Goto(c, "record")
  /\ UNCHANGED <<recording_guard, recording, pending_intent, hud, locals>>

\* record_and_collect up to audio.start: create_session, connect.
Connect(c) ==
  /\ pc[c] = "connect"
  /\ \/ Goto(c, "record")
     \/ "connect" \in Failures /\ Goto(c, "errHide")
  /\ UNCHANGED <<flags, hud, locals>>

\* The feeding loop looks at the stop flag before every frame.
Record(c) ==
  /\ pc[c] = "record"
  /\ stop_flag
  /\ Goto(c, "drain")
  /\ UNCHANGED <<flags, hud, locals>>

\* The loop also ends with the audio, and by an error of start or feed.
SourceEnds(c) ==
  /\ pc[c] = "record"
  /\ "record" \in Failures
  /\ \E s \in {"drain", "errHide"} : Goto(c, s)
  /\ UNCHANGED <<flags, hud, locals>>

\* audio.stop, asr.finish and the reader's last finals.
Drain(c) ==
  /\ pc[c] = "drain"
  /\ \/ Goto(c, "insert")
     \/ "drain" \in Failures /\ Goto(c, "errHide")
  /\ UNCHANGED <<flags, hud, locals>>

\* insert_finals_with_polish or persist_finals; their errors are reported and
\* the session ends the same way.
Insert(c) ==
  /\ pc[c] = "insert"
  /\ Goto(c, "unset")
  /\ UNCHANGED <<flags, hud, locals>>

\* recording = false, on either path.
UnsetRecording(c) ==
  /\ pc[c] \in {"unset", "errUnset"}
  /\ recording' = FALSE
  /\ Goto(c, IF pc[c] = "unset" THEN "release" ELSE "errRelease")
  /\ UNCHANGED <<recording_guard, stop_flag, pending_intent, hud, locals>>

\* guard.store(false), on either path.
ReleaseGuard(c) ==
  /\ pc[c] \in {"release", "errRelease"}
  /\ recording_guard' = FALSE
  /\ Goto(c, IF pc[c] = "release" THEN "hide" ELSE "failed")
  /\ UNCHANGED <<recording, stop_flag, pending_intent, hud, locals>>

\* hide_overlay_only: after the release when the session succeeded, before it
\* when it failed.
HideOverlay(c) ==
  /\ pc[c] \in {"hide", "errHide"}
  /\ hud' = FALSE
  /\ Goto(c, IF pc[c] = "hide" THEN "done" ELSE "errUnset")
  /\ UNCHANGED <<flags, locals>>

-----------------------------------------------------------------------------

\* The steps a call takes by itself once it is under way.
CallStep(c) ==
  \/ SetIntent(c) \/ (pc[c] = "trigger" /\ Trigger(c)) \/ ShowOverlay(c)
  \/ Cas(c) \/ ClearStop(c) \/ TakeIntent(c) \/ Prepare(c) \/ CheckBackend(c)
  \/ OpenAudio(c) \/ StartRecording(c) \/ FailHide(c)
  \/ Connect(c) \/ Record(c) \/ Drain(c) \/ Insert(c)
  \/ UnsetRecording(c) \/ ReleaseGuard(c) \/ HideOverlay(c)

\* What the user does, a key or the button, and what the device does.
OutsideStep(c) ==
  \/ (pc[c] = "idle" /\ Trigger(c)) \/ TranslateKey(c) \/ UiToggle(c)
  \/ SourceEnds(c)

SessionNext == \E c \in Calls : OutsideStep(c) \/ CallStep(c)

SessionSpec == SessionInit /\ [][SessionNext]_sessionVars

\* tokio and the operating system run every spawned task and every callback;
\* nothing obliges the user to press a key.
SessionFairness == \A c \in Calls : WF_sessionVars(CallStep(c))

FairSessionSpec == SessionSpec /\ SessionFairness

-----------------------------------------------------------------------------
(* Properties. *)

\* No two calls are between taking the guard and giving it back: one utterance
\* is never heard by two pipelines ("saying it once, typing it twice"), however
\* the compare-exchanges of concurrent triggers interleave.
OneSession == \A c, d \in Holders : c = d

\* The guard is held exactly when some call is inside: no path releases
\* another call's guard, and no path but the panic keeps it.
GuardHasHolder == recording_guard = (Holders # {})

\* The recording flag is up only while the session that raised it is between
\* StartRecording and UnsetRecording, so it never outlives the guard.
RecordingInsideGuard ==
  recording = (\E c \in Calls : pc[c] \in Running \cup Ending)

\* The guard is owned: one call at a time has it, somebody has it whenever it is
\* up, and only its owner records - whichever of the dozen paths each call leaves
\* by, and however the steps of several calls interleave.
GuardOwned == OneSession /\ GuardHasHolder /\ RecordingInsideGuard

\* clear_stop runs before recording starts and never again until the session
\* is over: no step takes back a stop while a session is being recorded.
StopKept == [][stop_flag /\ recording => stop_flag' \/ ~recording']_sessionVars

\* Toggling while a session records ends that session.
ToggleEndsSession ==
  \A d \in Calls :
    (pc[d] = "record" /\ \E c \in Calls : pc[c] = "cas")
      ~> pc[d] \in {"done", "failed"}

\* The overlay is gone once every call is over: no key that shows it and loses
\* the compare-exchange comes after the last hide.  A session that failed may
\* leave it, since it hides first and gives the guard back last, and so may a
\* panic or a failed start from the settings page.
HudGoneWhenIdle == (\A c \in Calls : pc[c] \in {"idle", "done"}) => ~hud

\* A start that fails gives the guard back: it is held by a call that can
\* still make a step.
GuardReleasedOnFailure ==
  recording_guard => \E c \in Holders : pc[c] # "panicked"

-----------------------------------------------------------------------------
(* What the guard promises, and the mapping that shows it. *)

PhaseOf(s) ==
  IF s \in HoldsGuard THEN "live"
  ELSE IF s \in BeforeGuard THEN "waiting" ELSE "over"

Serial == INSTANCE SerialSessions
            WITH phase <- [c \in Calls |-> PhaseOf(pc[c])]

\* Every behaviour of the calls is one of the serial sessions: a call goes
\* live only when no other is, and is refused only when one is.
SerialSpec == Serial!Spec

=============================================================================
