------------------------------- MODULE Hotkeys -------------------------------
(***************************************************************************)
(* The keys of openIME: what is registered with the system (apply_hotkey), *)
(* what a registered combination does (on_hotkey), ESC, which the polish   *)
(* registers while it runs, and the single key that a low level hook and   *)
(* raw input watch on Windows (fn_monitor.rs).                             *)
(*                                                                         *)
(* The plugin runs every registration on the main thread, so each is one   *)
(* step; apply_hotkey is a sequence of them, on the main thread at the     *)
(* start and on a tokio worker in save_app_config.  The polish runs on     *)
(* another worker, the hook on a thread of its own.                        *)
(***************************************************************************)
EXTENDS Naturals, Sequences, FiniteSets, SequencesExt

CONSTANTS
  Platform,    \* "windows" or "macos"
  Texts,       \* what may stand in a hotkey field: sequences of parts
  Stored,      \* the configurations the program may find at its start
  Taken,       \* the shortcuts that other programs have registered
  Packs,       \* the style packs without a prefix, in their order
  MaxSaves,    \* bound on the calls of save_app_config
  MaxPolishes, \* bound on the polishes
  MaxKeys,     \* bound on the presses and releases of the watched key, and on
               \* what may wait for raw input when the key is sent again
  None

Roles == {"record", "style", "translate"}

-----------------------------------------------------------------------------
(* The text of a hotkey. *)

ModifierOf == [alt |-> "ALT", option |-> "ALT", shift |-> "SHIFT",
               ctrl |-> "CONTROL", control |-> "CONTROL",
               cmd |-> "SUPER", command |-> "SUPER", meta |-> "SUPER",
               super |-> "SUPER"]

\* The names with two spellings; a letter, a digit and F1 to F12 are their own.
CodeOf == [esc |-> "escape", escape |-> "escape", enter |-> "enter",
           return |-> "enter", minus |-> "-", semicolon |-> ";", quote |-> "'"]
PlainCodes == {"space", "tab", "up", "down", "-", ";", "'", "d", "t", "p", "1", "f1"}

parse_code(p) == IF p \in DOMAIN CodeOf THEN CodeOf[p]
                 ELSE IF p \in PlainCodes THEN p ELSE None

\* parse_shortcut: the modifiers and the last of the other parts.
parse_shortcut(t) ==
  LET keys == SelectSeq(t, LAMBDA p : p \notin DOMAIN ModifierOf)
  IN  IF keys = <<>> \/ parse_code(Last(keys)) = None THEN None
      ELSE [mods |-> {ModifierOf[p] : p \in ToSet(t) \cap DOMAIN ModifierOf},
            code |-> parse_code(Last(keys))]

Esc == [mods |-> {}, code |-> "escape"]
DEFAULT_HOTKEY ==
  parse_shortcut(IF Platform = "macos" THEN <<"alt", "shift", "d">>
                 ELSE <<"ctrl", "shift", "d">>)

\* parse_watch_key: the single key a text names.
parse_watch_key(t) ==
  CASE t \in {<<"fn">>, <<"globe">>} -> "fn"
    [] t \in {<<"capslock">>, <<"caps">>} -> "capslock"
    [] OTHER -> "none"

Optional(t) == IF t = None THEN None ELSE parse_shortcut(t)

\* validate_hotkeys: all parse, no two have the same text (a single key counts
\* by its name), a single key is for recording only.
validate_hotkeys(c) ==
  /\ parse_watch_key(c.record) # "none" \/ parse_shortcut(c.record) # None
  /\ \A r \in {"style", "translate"} :
       c[r] # None => /\ parse_watch_key(c[r]) = "none"
                      /\ parse_shortcut(c[r]) # None
                      /\ c[r] # c.record
  /\ c.style = None \/ c.style # c.translate

\* effective_record_shortcut: what on_hotkey takes for the record key.
effective_record_shortcut(c) ==
  CASE parse_watch_key(c.record) = "fn" /\ Platform = "macos" -> None
    [] parse_watch_key(c.record) # "none" -> DEFAULT_HOTKEY
    [] parse_shortcut(c.record) = None -> DEFAULT_HOTKEY
    [] OTHER -> parse_shortcut(c.record)

\* The shortcut that apply_hotkey registers for a role, None for nothing.
Wanted(c, r) ==
  IF r # "record" THEN Optional(c[r])
  ELSE IF parse_watch_key(c.record) = "fn" /\ Platform = "macos" THEN None
  ELSE IF parse_watch_key(c.record) # "none" \/ parse_shortcut(c.record) = None
       THEN DEFAULT_HOTKEY ELSE parse_shortcut(c.record)

\* on_hotkey: ESC, then style, then translate, then record.
Route(c, sc) ==
  CASE sc = Esc -> "cancel"
    [] sc # Esc /\ sc = Optional(c.style) -> "style"
    [] sc # Esc /\ sc # Optional(c.style) /\ sc = Optional(c.translate) -> "translate"
    [] OTHER -> IF sc = effective_record_shortcut(c) THEN "record" ELSE "none"

\* fn_tap_can_consume: Fn is swallowed in Hold only, CapsLock always.
fn_tap_can_consume(c) ==
  \/ parse_watch_key(c.record) = "fn" /\ c.hold
  \/ parse_watch_key(c.record) = "capslock"

Config == {c \in [record : Texts, style : Texts \cup {None},
                  translate : Texts \cup {None}, hold : BOOLEAN] :
             validate_hotkeys(c)}
Shortcuts == {Esc, DEFAULT_HOTKEY} \cup ({parse_shortcut(t) : t \in Texts} \ {None})

ASSUME HotkeysAssumption ==
  /\ Platform \in {"windows", "macos"}
  /\ Taken \subseteq Shortcuts
  /\ Stored \subseteq Config /\ Config # {}
  /\ Len(Packs) \in Nat
  /\ MaxSaves \in Nat /\ MaxPolishes \in Nat /\ MaxKeys \in Nat

-----------------------------------------------------------------------------
VARIABLES
  config,     \* AppState.config, the fields that concern keys
  apply,      \* apply_hotkey: the next statement and its configuration
  registered, \* what the system sends to on_hotkey
  polish,     \* the polish: idle, or running with ESC registered
  cancel,     \* the polish's cancel flag
  suspend,    \* CAPTURE_SUSPEND: the settings record a new key
  active,     \* active_style_pack_id
  watch,      \* WATCH
  consume,    \* CONSUME
  isDown,     \* KEY_IS_DOWN
  phys,       \* TRUE while a finger is on the watched key
  own,        \* TRUE while a window of openIME has the focus
  hookQ,      \* events on their way to the hook
  rawQ,       \* WM_INPUT messages in the hook thread's queue
  fromHook,   \* LAST_EDGE_FROM_HOOK
  ignoring,   \* now < IGNORE_INJECTED_UNTIL_MS
  thread,     \* dispatch_key_event: what it has decided and not yet stored
  lastEdge,   \* the last edge on_fn_edge was called with
  switched,   \* the watched key was set again since that edge
  saves, polishes, keys   \* what has been used of the bounds

comboVars == <<config, apply, registered, polish, cancel, suspend, active>>
hookVars  == <<watch, consume, isDown, phys, own, hookQ, rawQ, fromHook, ignoring,
               thread, lastEdge, switched>>
bounds    == <<saves, polishes, keys>>
hotkeysVars == <<comboVars, hookVars, bounds>>

ApplySteps == {"idle", "save", "consume", "clear", "watch", "record", "tap",
               "style", "translate"}
Event == [up : BOOLEAN, injected : BOOLEAN]
NoDispatch == [busy |-> FALSE, edge |-> "none", down |-> FALSE]

HotkeysTypeOK ==
  /\ config \in Config
  /\ apply \in [at : ApplySteps, cfg : Config]
  /\ registered \subseteq Shortcuts
  /\ polish \in BOOLEAN /\ cancel \in BOOLEAN /\ suspend \in BOOLEAN
  /\ active \in 0..Len(Packs)
  /\ watch \in {"none", "fn", "capslock"} /\ consume \in BOOLEAN
  /\ isDown \in BOOLEAN /\ phys \in BOOLEAN /\ own \in BOOLEAN
  /\ hookQ \in Seq(Event) /\ rawQ \in Seq(Event)
  /\ fromHook \in BOOLEAN /\ ignoring \in BOOLEAN
  /\ thread \in [busy : BOOLEAN, edge : {"none", "press", "release"}, down : BOOLEAN]
  /\ lastEdge \in {"press", "release"} /\ switched \in BOOLEAN
  /\ saves \in 0..MaxSaves /\ polishes \in 0..MaxPolishes /\ keys \in 0..MaxKeys

\* The setup ends with apply_hotkey of the configuration it has read.
HotkeysInit ==
  /\ config \in Stored
  /\ apply = [at |-> "clear", cfg |-> config]
  /\ registered = {}
  /\ polish = FALSE /\ cancel = FALSE /\ suspend = FALSE
  /\ active = 0
  /\ watch = "none" /\ consume = FALSE /\ isDown = FALSE
  /\ phys = FALSE /\ own = FALSE /\ hookQ = <<>> /\ rawQ = <<>>
  /\ fromHook = TRUE /\ ignoring = FALSE
  /\ thread = NoDispatch
  /\ lastEdge = "release" /\ switched = TRUE
  /\ saves = 0 /\ polishes = 0 /\ keys = 0

-----------------------------------------------------------------------------
(* save_app_config and apply_hotkey. *)

ApplyGoto(s) == apply' = [apply EXCEPT !.at = s]

\* A registration that the system refuses is logged and forgotten.
register(sc) ==
  registered' = IF sc = None \/ sc \in Taken THEN registered ELSE registered \cup {sc}

SaveAppConfig ==
  /\ apply.at = "idle" /\ saves < MaxSaves
  /\ saves' = saves + 1
  /\ \E c \in Config : apply' = [at |-> "save", cfg |-> c]
  /\ UNCHANGED <<config, registered, polish, cancel, suspend, active, hookVars,
                 polishes, keys>>

\* The memory takes the configuration; the tap is told at once.
SaveMemory ==
  /\ apply.at = "save"
  /\ config' = apply.cfg
  /\ consume' = fn_tap_can_consume(apply.cfg)
  /\ ApplyGoto(IF \E r \in Roles : config[r] # apply.cfg[r] THEN "clear" ELSE "idle")
  /\ UNCHANGED <<registered, polish, cancel, suspend, active, watch, isDown, phys,
                 own, hookQ, rawQ, fromHook, ignoring, thread, lastEdge, switched,
                 bounds>>

ApplyClear ==
  /\ apply.at = "clear"
  /\ registered' = {}
  /\ ApplyGoto("watch")
  /\ UNCHANGED <<config, polish, cancel, suspend, active, hookVars, bounds>>

\* set_watch_key, on Windows: of the single key, or of none.
ApplyWatch ==
  /\ apply.at = "watch"
  /\ IF Platform = "windows"
     THEN /\ watch' = parse_watch_key(apply.cfg.record)
          /\ isDown' = FALSE /\ switched' = TRUE
     ELSE UNCHANGED <<watch, isDown, switched>>
  /\ ApplyGoto("record")
  /\ UNCHANGED <<config, registered, polish, cancel, suspend, active, consume,
                 phys, own, hookQ, rawQ, fromHook, ignoring, thread, lastEdge, bounds>>

ApplyRegister(r, next) ==
  /\ apply.at = r
  /\ register(Wanted(apply.cfg, r))
  /\ ApplyGoto(next)
  /\ UNCHANGED <<config, polish, cancel, suspend, active, hookVars, bounds>>

store_fn_tap_consume ==
  /\ apply.at = "tap"
  /\ consume' = fn_tap_can_consume(apply.cfg)
  /\ ApplyGoto("style")
  /\ UNCHANGED <<config, registered, polish, cancel, suspend, active, watch,
                 isDown, phys, own, hookQ, rawQ, fromHook, ignoring, thread, lastEdge,
                 switched, bounds>>

apply_hotkey ==
  \/ ApplyClear \/ ApplyWatch \/ store_fn_tap_consume
  \/ ApplyRegister("record", "tap")
  \/ ApplyRegister("style", "translate")
  \/ ApplyRegister("translate", "idle")

-----------------------------------------------------------------------------
(* ESC, the settings page, and a combination that is pressed. *)

\* The polish of a dictation clears the flag and registers ESC ...
PolishStarts ==
  /\ ~polish /\ polishes < MaxPolishes
  /\ polishes' = polishes + 1
  /\ polish' = TRUE /\ cancel' = FALSE
  /\ register(Esc)
  /\ UNCHANGED <<config, apply, suspend, active, hookVars, saves, keys>>

\* Mutant of PolishEnds: ESC stays registered when it was cancelled.
PolishEndsKeepsEsc ==
  /\ polish
  /\ polish' = FALSE
  /\ registered' = IF cancel THEN registered ELSE registered \ {Esc}
  /\ UNCHANGED <<config, apply, cancel, suspend, active, hookVars, bounds>>

\* ... and takes it back, whatever has become of the polish.
PolishEnds ==
  /\ polish
  /\ polish' = FALSE
  /\ registered' = registered \ {Esc}
  /\ UNCHANGED <<config, apply, cancel, suspend, active, hookVars, bounds>>

set_capture_suspend ==
  /\ suspend' = ~suspend
  /\ UNCHANGED <<config, apply, registered, polish, cancel, active, hookVars,
                 bounds>>

\* cycle_style_pack: none, the first, ..., the last, none.
cycle_style_pack(r) ==
  active' = IF r # "style" THEN active
            ELSE IF active < Len(Packs) THEN active + 1 ELSE 0

\* on_hotkey; it gives up when the configuration is being written.
on_hotkey ==
  /\ \E sc \in registered :
       \E r \in {IF suspend THEN "none" ELSE Route(config, sc)}
                \cup (IF sc = Esc THEN {} ELSE {"none"}) :
         /\ cancel' = (cancel \/ r = "cancel")
         /\ cycle_style_pack(r)
  /\ UNCHANGED <<config, apply, registered, polish, suspend, hookVars, bounds>>

-----------------------------------------------------------------------------
(* The watched key: the hook, which openIME's own windows hide from it, and *)
(* raw input, which sees every press but cannot swallow it.                 *)

Focus ==
  /\ own' = ~own
  /\ UNCHANGED <<comboVars, watch, consume, isDown, phys, hookQ, rawQ, fromHook,
                 ignoring, thread, lastEdge, switched, bounds>>

\* A press, a repeat of a press that lasts, or a release.
Key ==
  /\ Platform = "windows" /\ keys < MaxKeys
  /\ keys' = keys + 1
  /\ \E up \in BOOLEAN :
       /\ up => phys
       /\ phys' = ~up
       /\ hookQ' = IF own THEN hookQ ELSE Append(hookQ, [up |-> up, injected |-> FALSE])
       /\ rawQ' = Append(rawQ, [up |-> up, injected |-> FALSE])
  /\ UNCHANGED <<comboVars, watch, consume, isDown, own, fromHook, ignoring, thread,
                 lastEdge, switched, saves, polishes>>

\* Mutant of classify_hook_event: a repeated key-down is a press again.
classify_repeats(ev, down) ==
  CASE watch = "none" \/ (ev.injected /\ ignoring) -> [edge |-> "none", down |-> down]
    [] watch # "none" /\ ~(ev.injected /\ ignoring) /\ ev.up ->
         [edge |-> IF down THEN "release" ELSE "none", down |-> FALSE]
    [] OTHER -> [edge |-> "press", down |-> TRUE]

\* classify_hook_event: the edge, and whether the key is down afterwards.
classify_hook_event(ev, down) ==
  CASE watch = "none" \/ (ev.injected /\ ignoring) -> [edge |-> "none", down |-> down]
    [] watch # "none" /\ ~(ev.injected /\ ignoring) /\ ev.up ->
         [edge |-> IF down THEN "release" ELSE "none", down |-> FALSE]
    [] OTHER -> [edge |-> IF down THEN "none" ELSE "press", down |-> TRUE]

\* dispatch_key_event reads the state of the key ...
dispatch_key_event(ev, hook) ==
  LET e == IF ~hook /\ ignoring THEN [ev EXCEPT !.injected = TRUE] ELSE ev
      d == classify_hook_event(e, isDown)
  IN  /\ ~thread.busy
      /\ thread' = [busy |-> TRUE, edge |-> d.edge, down |-> d.down]
      /\ fromHook' = IF d.edge = "none" THEN fromHook ELSE hook

hook_proc ==
  /\ hookQ # <<>> /\ dispatch_key_event(Head(hookQ), TRUE)
  /\ hookQ' = Tail(hookQ)
  /\ UNCHANGED <<comboVars, watch, consume, isDown, phys, own, rawQ, ignoring, lastEdge,
                 switched, bounds>>

\* Messages wait until no hook call does.
handle_raw_input ==
  /\ hookQ = <<>> /\ rawQ # <<>> /\ dispatch_key_event(Head(rawQ), FALSE)
  /\ rawQ' = Tail(rawQ)
  /\ UNCHANGED <<comboVars, watch, consume, isDown, phys, own, hookQ, ignoring, lastEdge,
                 switched, bounds>>

\* A press and a release that the program sends; only the hook sees the mark.
SentAgain(mark) == <<[up |-> FALSE, injected |-> mark], [up |-> TRUE, injected |-> mark]>>

\* ... and stores what it is now, after set_watch_key may have cleared it.
\* The callback of a short press may ask for the key to be sent again, which
\* is done only when the hook has swallowed it; raw input sees it again too.
StoreAndCall ==
  /\ thread.busy
  /\ thread' = NoDispatch
  /\ isDown' = thread.down
  /\ IF thread.edge = "none" THEN UNCHANGED <<lastEdge, switched>>
     ELSE lastEdge' = thread.edge /\ switched' = FALSE
  /\ \/ UNCHANGED <<hookQ, rawQ, ignoring>>
     \/ /\ thread.edge = "release" /\ watch = "capslock" /\ fromHook /\ ~suspend
        /\ config.hold /\ Len(rawQ) < MaxKeys
        /\ ignoring' = TRUE
        /\ hookQ' = IF own THEN hookQ ELSE hookQ \o SentAgain(TRUE)
        /\ rawQ' = rawQ \o SentAgain(FALSE)
  /\ UNCHANGED <<comboVars, watch, consume, phys, own, fromHook, bounds>>

\* REPOST_IGNORE_MS are over.
IgnoreEnds ==
  /\ ignoring
  /\ ignoring' = FALSE
  /\ UNCHANGED <<comboVars, watch, consume, isDown, phys, own, hookQ, rawQ, fromHook,
                 thread, lastEdge, switched, bounds>>

-----------------------------------------------------------------------------
HotkeysNext ==
  \/ SaveAppConfig \/ SaveMemory \/ apply_hotkey
  \/ PolishStarts \/ PolishEnds \/ set_capture_suspend \/ on_hotkey
  \/ Focus \/ Key \/ hook_proc \/ handle_raw_input \/ StoreAndCall \/ IgnoreEnds

HotkeysSpec == HotkeysInit /\ [][HotkeysNext]_hotkeysVars

-----------------------------------------------------------------------------
(* Properties. *)

\* The shortcuts a configuration asks for, when no two fields mean the same.
WantedSet(c) == {Wanted(c, r) : r \in Roles} \ {None}
Distinct(c) ==
  /\ Esc \notin WantedSet(c)
  /\ \A r, q \in Roles :
       r # q /\ Wanted(c, r) # None => Wanted(c, r) # Wanted(c, q)

\* "What was registered must be routed" (effective_record_shortcut): between
\* two saves, openIME takes no shortcut from the other programs that on_hotkey
\* does nothing with, and when no polish runs none that the configuration does
\* not name - ESC above all, though a polish may begin or end in the middle of
\* apply_hotkey; and, when the fields are distinct, all that are free are
\* registered, each for its role.  (With the types.)
RegisteredIsRouted ==
  HotkeysTypeOK /\
  (apply.at = "idle" =>
    /\ \A sc \in registered : Route(config, sc) # "none"
    /\ ~polish => registered \subseteq WantedSet(config)
    /\ Distinct(config) =>
         /\ WantedSet(config) \ Taken \subseteq registered
         /\ \A r \in Roles :
              Wanted(config, r) # None => Route(config, Wanted(config, r)) = r)

\* However the two channels bring the events of one key - one of them hidden,
\* the other late, the key sent again - on_fn_edge hears a press and a release
\* in turn, unless the watched key was changed in between.
EdgesAlternate ==
  [][(thread.busy /\ ~thread'.busy /\ thread.edge # "none" /\ ~switched)
       => thread.edge # lastEdge]_hotkeysVars
=============================================================================
