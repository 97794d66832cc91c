-------------------------------- MODULE FnKey --------------------------------
(***************************************************************************)
(* The record key as a single key: on_fn_edge (lib.rs) on the hook thread, *)
(* the delay-start timer and the 300 ms tail it spawns on tokio, composed  *)
(* with the recording session they start and stop.                         *)
(*                                                                         *)
(* The statics of on_fn_edge are atomics read and written one at a time by *)
(* three kinds of threads, so a timer may run between any two of the       *)
(* accesses of an edge.  A timer or a tail may wake up arbitrarily late.   *)
(***************************************************************************)
EXTENDS RecordingSession, FnPolicy

CONSTANTS
  SingleKey,  \* parse_watch_key(hotkey) != None
  Repost,     \* fn_repost_enabled
  MaxPress,   \* bound on the presses that reach on_fn_edge
  MaxDrops    \* bound on the edges on_fn_edge returns from at once

ASSUME FnKeyAssumption ==
  /\ SingleKey \in BOOLEAN /\ Repost \in BOOLEAN
  /\ MaxPress \in Nat /\ MaxDrops \in Nat
  /\ RecordCalls = 1..MaxPress

VARIABLES
  fn_down,             \* FN_DOWN
  hold_gen,            \* HOLD_GEN: cancels a delay-start that is not due
  stop_gen,            \* STOP_GEN: cancels a tail that is not due
  this_press_started,  \* THIS_PRESS_STARTED
  hold,                \* hotkey_mode = Hold; not changed while the keys are used
  key,                 \* TRUE while the key is physically down
  presses,             \* number of presses processed, the name of the last
  releases,            \* number of releases processed
  drops,               \* number of edges dropped
  hook,                \* the hook thread: where it is in on_fn_edge
  timer,               \* [press -> [at, gen]]: the delay-start timers
  tail,                \* [release -> [at, gen, press]]: the 300 ms tails
  reposted             \* the presses whose key was handed back to the system

Releases == 1..(MaxPress + MaxDrops)

statics == <<fn_down, hold_gen, stop_gen, this_press_started>>
keyVars == <<hold, key, presses, releases, drops>>
fnVars  == <<fn_down, hold_gen, stop_gen, this_press_started, hold, key,
             presses, releases, drops, hook, timer, tail, reposted>>
vars    == <<sessionVars, fnVars>>

HookStep == {"idle", "press", "cancel", "trigger", "overlay", "release",
             "classify", "clear"}
TimerStep == {"none", "sleep", "check", "start", "spawned", "fired", "off"}
TailStep  == {"none", "sleep", "request", "sent", "off"}

FnTypeOK ==
  /\ SessionTypeOK
  /\ fn_down \in BOOLEAN /\ this_press_started \in BOOLEAN
  /\ hold \in BOOLEAN /\ key \in BOOLEAN
  /\ hold_gen \in Nat /\ stop_gen \in Nat
  /\ presses \in 0..MaxPress
  /\ releases \in 0..(MaxPress + MaxDrops)
  /\ drops \in 0..MaxDrops
  /\ hook \in [at : HookStep, rec : BOOLEAN]
  /\ timer \in [RecordCalls -> [at : TimerStep, gen : Nat]]
  /\ tail \in [Releases -> [at : TailStep, gen : Nat, press : 0..MaxPress]]
  /\ reposted \subseteq 0..MaxPress

Init ==
  /\ SessionInit
  /\ hold \in BOOLEAN
  /\ fn_down = FALSE /\ this_press_started = FALSE /\ key = FALSE
  /\ hold_gen = 0 /\ stop_gen = 0
  /\ presses = 0 /\ releases = 0 /\ drops = 0
  /\ hook = [at |-> "idle", rec |-> FALSE]
  /\ timer = [p \in RecordCalls |-> [at |-> "none", gen |-> 0]]
  /\ tail = [r \in Releases |-> [at |-> "none", gen |-> 0, press |-> 0]]
  /\ reposted = {}

HookGoto(s) == hook' = [hook EXCEPT !.at = s]

\* The context on_fn_edge hands to classify_fn_edge.
Context(pressed, own) ==
  [pressed |-> pressed, hold |-> hold, already_recording |-> hook.rec,
   this_press_started_recording |-> own, is_single_key |-> SingleKey,
   fn_repost_enabled |-> Repost]

-----------------------------------------------------------------------------
(* The hook thread. *)

\* An edge that on_fn_edge leaves at once: the settings page captures a key,
\* the configuration is locked by a writer, or a press bounces.
EdgeDropped ==
  /\ hook.at = "idle"
  /\ drops < MaxDrops
  /\ drops' = drops + 1
  /\ key' = ~key
  /\ UNCHANGED <<sessionVars, statics, hold, presses, releases, hook, timer, tail,
                 reposted>>

\* The edge arrives and the guard is read.
PressEdge ==
  /\ hook.at = "idle" /\ ~key
  /\ presses < MaxPress
  /\ key' = TRUE
  /\ presses' = presses + 1
  /\ hook' = [at |-> "press", rec |-> recording_guard]
  /\ UNCHANGED <<sessionVars, statics, hold, releases, drops, timer, tail,
                 reposted>>

ReleaseEdge ==
  /\ hook.at = "idle" /\ key
  /\ releases < MaxPress + MaxDrops
  /\ key' = FALSE
  /\ releases' = releases + 1
  /\ hook' = [at |-> "release", rec |-> recording_guard]
  /\ UNCHANGED <<sessionVars, statics, hold, presses, drops, timer, tail,
                 reposted>>

PressDown ==
  /\ hook.at = "press"
  /\ fn_down' = TRUE
  /\ HookGoto("cancel")
  /\ UNCHANGED <<sessionVars, hold_gen, stop_gen, this_press_started, keyVars,
                 timer, tail, reposted>>

\* Mutant of Press: the press forgets to cancel the pending tail.
PressKeepsTail ==
  /\ hook.at = "cancel"
  /\ this_press_started' = FALSE
  /\ hold_gen' = hold_gen + 1
  /\ LET action == classify_fn_edge(Context(TRUE, FALSE))
     IN  /\ timer' = IF action = "ArmHoldTimer"
                     THEN [timer EXCEPT ![presses] =
                             [at |-> "sleep", gen |-> hold_gen']]
                     ELSE timer
         /\ HookGoto(IF action \in {"StartRecord", "ToggleStop"}
                     THEN "trigger" ELSE "idle")
  /\ UNCHANGED <<sessionVars, fn_down, stop_gen, keyVars, tail, reposted>>

\* The press forgets what an older press started, cancels its timer and tail,
\* and acts.
Press ==
  /\ hook.at = "cancel"
  /\ this_press_started' = FALSE
  /\ stop_gen' = stop_gen + 1
  /\ hold_gen' = hold_gen + 1
  /\ LET action == classify_fn_edge(Context(TRUE, FALSE))
     IN  /\ timer' = IF action = "ArmHoldTimer"
                     THEN [timer EXCEPT ![presses] =
                             [at |-> "sleep", gen |-> hold_gen']]
                     ELSE timer
         /\ HookGoto(IF action \in {"StartRecord", "ToggleStop"}
                     THEN "trigger" ELSE "idle")
  /\ UNCHANGED <<sessionVars, fn_down, keyVars, tail, reposted>>

\* on_record_hotkey on the hook thread, which returns once the overlay shows.
HookTrigger ==
  /\ hook.at = "trigger"
  /\ Trigger(presses)
  /\ HookGoto("overlay")
  /\ UNCHANGED <<statics, keyVars, timer, tail, reposted>>

HookReturn ==
  /\ hook.at = "overlay"
  /\ pc[presses] # "overlay"
  /\ HookGoto("idle")
  /\ UNCHANGED <<sessionVars, statics, keyVars, timer, tail, reposted>>

\* The release cancels a timer that is not due.
Release ==
  /\ hook.at = "release"
  /\ fn_down' = FALSE
  /\ hold_gen' = hold_gen + 1
  /\ HookGoto("classify")
  /\ UNCHANGED <<sessionVars, stop_gen, this_press_started, keyVars, timer,
                 tail, reposted>>

\* It then reads whether its press started a session, and acts.
Classify ==
  /\ hook.at = "classify"
  /\ LET action == classify_fn_edge(Context(FALSE, this_press_started))
     IN  \/ /\ action = "IgnoreRelease"
            /\ HookGoto("idle")
            /\ UNCHANGED <<stop_gen, tail, reposted>>
         \/ /\ action = "RepostOnly"
            /\ reposted' = reposted \cup {presses}
            /\ HookGoto("clear")
            /\ UNCHANGED <<stop_gen, tail>>
         \/ /\ action = "StopAfterTail"
            /\ stop_gen' = stop_gen + 1
            /\ tail' = [tail EXCEPT ![releases] =
                          [at |-> "sleep", gen |-> stop_gen',
                           press |-> presses]]
            /\ HookGoto("clear")
            /\ UNCHANGED reposted
  /\ UNCHANGED <<sessionVars, fn_down, hold_gen, this_press_started, keyVars,
                 timer>>

ClearPress ==
  /\ hook.at = "clear"
  /\ this_press_started' = FALSE
  /\ HookGoto("idle")
  /\ UNCHANGED <<sessionVars, fn_down, hold_gen, stop_gen, keyVars, timer,
                 tail, reposted>>

-----------------------------------------------------------------------------
(* The delay-start timer of a press. *)

TimerGoto(p, s) == timer' = [timer EXCEPT ![p].at = s]

TimerCheckGen(p) ==
  /\ timer[p].at = "sleep"
  /\ TimerGoto(p, IF timer[p].gen = hold_gen THEN "check" ELSE "off")
  /\ UNCHANGED <<sessionVars, statics, keyVars, hook, tail, reposted>>

TimerCheckDown(p) ==
  /\ timer[p].at = "check"
  /\ TimerGoto(p, IF fn_down THEN "start" ELSE "off")
  /\ UNCHANGED <<sessionVars, statics, keyVars, hook, tail, reposted>>

TimerStart(p) ==
  /\ timer[p].at = "start"
  /\ this_press_started' = TRUE
  /\ TimerGoto(p, "spawned")
  /\ UNCHANGED <<sessionVars, fn_down, hold_gen, stop_gen, keyVars, hook, tail,
                 reposted>>

\* on_record_hotkey on the blocking pool.
TimerTrigger(p) ==
  /\ timer[p].at = "spawned"
  /\ Trigger(p)
  /\ TimerGoto(p, "fired")
  /\ UNCHANGED <<statics, keyVars, hook, tail, reposted>>

TimerRuns(p) ==
  TimerCheckGen(p) \/ TimerCheckDown(p) \/ TimerStart(p) \/ TimerTrigger(p)

(* The tail of a release. *)

TailGoto(r, s) == tail' = [tail EXCEPT ![r].at = s]

TailCheck(r) ==
  /\ tail[r].at = "sleep"
  /\ TailGoto(r, IF tail[r].gen = stop_gen THEN "request" ELSE "off")
  /\ UNCHANGED <<sessionVars, statics, keyVars, hook, timer, reposted>>

TailRequest(r) ==
  /\ tail[r].at = "request"
  /\ stop_flag' = TRUE
  /\ TailGoto(r, "sent")
  /\ UNCHANGED <<recording_guard, recording, pending_intent, hud, pc, locals,
                 statics, keyVars, hook, timer, reposted>>

-----------------------------------------------------------------------------

HookRuns == PressDown \/ Press \/ HookTrigger \/ HookReturn \/ Release \/ Classify
              \/ ClearPress

Environment ==
  \/ EdgeDropped \/ PressEdge \/ ReleaseEdge
  \/ /\ \E c \in Calls : TranslateKey(c) \/ UiToggle(c) \/ SourceEnds(c)
     /\ UNCHANGED fnVars

Next ==
  \/ Environment
  \/ HookRuns
  \/ \E p \in RecordCalls : TimerRuns(p)
  \/ \E r \in Releases : TailCheck(r) \/ TailRequest(r)
  \/ \E c \in Calls : CallStep(c) /\ UNCHANGED fnVars

Spec == Init /\ [][Next]_vars

\* The hook thread, tokio's timers and the spawned tasks all run.
Fairness ==
  /\ WF_vars(HookRuns)
  /\ \A p \in RecordCalls : WF_vars(TimerRuns(p))
  /\ \A r \in Releases : WF_vars(TailCheck(r) \/ TailRequest(r))
  /\ \A c \in Calls : WF_vars(CallStep(c) /\ UNCHANGED fnVars)

FairSpec == Spec /\ Fairness

-----------------------------------------------------------------------------
(* Properties. *)

\* The press of an edge that on_fn_edge is still storing.
PressUnderWay == hook.at \in {"press", "cancel"}

\* A delay-start that can still pass its check is that of the last press, and
\* on_fn_edge has seen no release since: a shorter press has cancelled its own.
ArmedTimerIsHeld ==
  \A p \in RecordCalls :
    timer[p].at = "sleep" /\ timer[p].gen = hold_gen
      => fn_down /\ (p = presses \/ PressUnderWay)

\* A tail that can still pass its check is that of the last release answered,
\* and no press has been taken since: the stop of one hold is never meant for
\* the session of the next.
LiveTailIsLast ==
  \A r \in Releases :
    tail[r].at = "sleep" /\ tail[r].gen = stop_gen
      => /\ tail[r].press = presses \/ PressUnderWay
         /\ \A s \in Releases : s > r => tail[s].at = "none"

\* No timer outlives what it was armed for: what can still start a session or
\* stop one belongs to the last press or release, whatever edges were dropped.
TimersAreCurrent == ArmedTimerIsHeld /\ LiveTailIsLast

\* In Toggle mode only a second toggle raises the stop: letting go of the key,
\* however late, never does.
ToggleReleaseNeverStops ==
  [][~hold /\ ~stop_flag /\ stop_flag'
       => \E c \in Calls : pc[c] = "cas" /\ pc'[c] = "done"]_vars

\* A release that finds a session recording is answered: it ends, or the key
\* goes down again.  The same press need not have started it.
ReleaseAnswered ==
  (hold /\ SingleKey /\ hook.at = "release" /\ hook.rec
     /\ \E c \in Calls : pc[c] = "record")
  ~> ((\A c \in Calls : pc[c] # "record") \/ key)

\* A press handed back to the system has started no session.
ShortPressNeverRecords ==
  \A p \in reposted \cap RecordCalls : timer[p].at \notin {"start", "spawned", "fired"}

=============================================================================
