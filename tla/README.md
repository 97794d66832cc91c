# openIME in TLA+

openIME is a voice input method for macOS and Windows: a key starts a recording,
the speech is recognised while it is spoken, and the text is typed or pasted into
the application in focus. It is a Tauri shell (`src-tauri/src`) over a library
(`crates/voice-core/src`) with a React frontend (`src`) and, on Windows, a text
service that is loaded into the target application (`src-tauri/windows-ime`).
This directory models the parts in which order matters: threads of the system's
event hooks, tokio tasks, recognition threads, the main thread and its locks, the
database, the keychain and the disk; and the tables that must agree.

## The system

| part | state | operations | talks to |
|---|---|---|---|
| Recording session (`commands.rs`, `lib.rs`, `state.rs`) | `recording_guard`, `recording`, `stop_flag`, `pending_intent`, the overlay | `trigger_toggle`, `on_translate_hotkey`, `toggle_recording`, the session task, `request_stop` | keys and settings page call it; it runs the pipeline and shows the overlay |
| Record key (`fn_policy.rs`, `lib.rs`) | `FN_DOWN`, `HOLD_GEN`, `STOP_GEN`, `THIS_PRESS_STARTED` | `on_fn_edge`, the delay-start timer, the 300 ms tail | the platform hooks call it; it toggles and stops the session |
| Hotkeys (`lib.rs`, `commands.rs`, `platform/windows/fn_monitor.rs`) | registered shortcuts, watched key, dynamic ESC, `KEY_IS_DOWN`, capture suspension | `validate_hotkeys`, `apply_hotkey`, `on_hotkey`, the hook and raw input | the system; it calls the record key, the session, the polish's cancel flag |
| Pipeline (`pipeline.rs`, `providers/`) | frames in, channel of deltas, finals, what is on screen | `record_and_collect`, its reader task, `feed`, `finish`, the engine behind `RoutingProvider` | session task; insertion |
| Final insertion and polish (`pipeline.rs`, `polish/`) | finals, cancel flag | `insert_finals_with_polish`, `apply_polish`, the routers | session task, ESC key, store, insertion |
| Clipboard (`insert.rs`, `insert_fallback.rs`) | clipboard, `PENDING`, `CLIPBOARD_MU`, `NEXT_RESTORE_ID` | `paste`, `spawn_restore`, `clear_pending`, `remember_pending`, `decide_restore` | reader task and session task; main thread; target application |
| TSF insertion (`windows_ime/`, `windows-ime/`) | current input method, registration, pipe, job and its event in the DLL | `try_tsf_insert`: gate, prepare, connect, submit, restore; the DLL's pipe and UI threads | insertion; the target; the system's input methods |
| Model download (`model_download.rs`, `model_mgr.rs`, `commands.rs`) | `model_downloading`, files, `.part` files | `install_llm_model`, `install_local_model`, the delete commands | frontend events; pipeline cache |
| Local models (`polish/runtime.rs`, `polish/local.rs`, `state.rs`) | up to two models in memory, one lock, the files that failed to load | `complete`, `run_blocking`, `evict`, `probe_loadable`; installing, choosing, deleting | polish and translation; settings page |
| Catalogues and system probe (`llm_catalog.rs`, `asr_catalog.rs`, `system.rs`) | none | budgets, labels, recommendations, lists of files | settings page, downloads, recognisers |
| State and configuration (`state.rs`, `credentials.rs`, `config.rs`) | cached pipeline, configuration in memory, its row, the keychain | `pipeline`, `invalidate_pipeline`, `save_config`, `load_config`, every command that writes | every command |
| Store (`store.rs`) | hotwords, style packs, sessions, utterances, version | migrations, seeding, `sync_assistant_combo_hotwords`, the user's edits | commands, the polish's context |
| Transcription, single instance, overlay window, macOS platform layer, logging, frontend | | | see "Not modelled" |

What is hard, by component (`PROJECT.json`, "hazards", gives each line):

* *Session.* Triggers come from the hook thread, the main thread, tokio and the
  settings page; the flags are read and written one at a time. Correct means: at
  most one session, the guard released on every path and by its holder only, a
  stop never taken back from a session that records, no overlay left over.
* *Record key.* Timers wake late; edges are lost; the statics are separate
  atomics. Correct means: a stale timer never starts, a stale tail never stops,
  a release is answered by the mode's rule.
* *Hotkeys.* `apply_hotkey` is seven calls on a worker while the polish registers
  and removes ESC on another; two channels report the same key, one of them
  blind at times, the other late, and the program sends the key itself. Correct
  means: what is registered is routed, nothing stays registered, and the record
  key hears presses and releases in turn.
* *Pipeline.* Three parties wait for each other; the engine may leave at any
  moment. Correct means: nothing lost, doubled or reordered between speech and
  text, and the recording ends.
* *Final insertion.* Two filters, the rules, and up to four requests to models
  that may fail or never answer stand between speech and text. Correct means:
  no final is lost, what is inserted after a failure is what was said, the cloud
  is asked only in its turn, ESC cuts its own session's polish only, and the
  session ends.
* *Clipboard.* The user, the target and late writes share it with the pastes and
  restores. Correct means: each paste delivers its text, the user's clipboard
  comes back, nothing of the user's is overwritten.
* *TSF.* Two processes with a time limit each, a message queue and one job.
  Correct means: what the host reports is what the document has, and the user's
  input method comes back.
* *Download.* `.part` files outlive crashes, sources differ. Correct means: one
  writer, no bad file, a sound source is reached, the report is true and made.
* *Local models.* A completion that has been given up still runs and holds the
  lock; files vanish under handles. Correct means: two models in memory at most,
  a deleted one is gone, a translation that was let begin has a model.
* *Configuration.* Keychain, row and memory are written one after another by two
  threads; the pipeline is built from four reads. Correct means: no stale
  pipeline is handed out, what was in use is what starts again, a choice stays.
* *Store.* Every statement is a transaction of its own. Correct means: no alias
  calls two packs, the words of the recorded name are there.
* *Catalogues.* Three tables and two rules must agree on every machine.

## Modules

| module | models | configurations |
|---|---|---|
| `SerialSessions` | what the session promises: sessions one after another, a stop only asked of one that is there | as a PROPERTY |
| `RecordingSession` | `trigger_toggle`, `toggle_recording`, session task; one action per access to a shared flag | `RecordingSession`, `RecordingPanic` |
| `FnPolicy` | `classify_fn_edge` (`fn_policy.rs`), a pure function | through `FnKey` |
| `FnKey` | `on_fn_edge`, timers and tails; EXTENDS `RecordingSession`, whose record calls are the presses | `FnKey`, `FnShortPress` |
| `Clipboard` | `paste`, the restore threads, the user, the target | `Clipboard`, `ClipboardRestoreRace` |
| `RecordAndCollect` | one recording: session task, reader, and the engine the configuration leads to | `RecordAndCollect`, `CollectChunk` |
| `ModelDownload` | install commands, sources, disk, crash, deletion | `ModelDownload`, `DownloadResume` |
| `FinalInsert` | the finals of a recording: filters, requests and routers, ESC, insertion, history | `FinalInsert` |
| `Settings` | configuration, keychain, row, the commands that write and read it, the pipeline's cache, restarts | `Settings`, `SettingsLockout`, `DeleteModelLock`, `ListModelsLock` |
| `Dictionary` | migrations, seeding, the assistant's words, the user's edits and imports, restarts | `Dictionary`, `DictionaryUserWords` |
| `Hotkeys` | the text of a hotkey, `apply_hotkey`, `on_hotkey`, dynamic ESC, the hook and raw input | `Hotkeys` |
| `TsfInsert` | the host's session, the DLL's two threads, the user | `TsfInsert`, `TsfReplay` |
| `ModelSuite` | catalogues, budgets, labels, recommendations, the files of the speech models: operators only | through `LocalModel` |
| `LocalModel` | the runtime's slots and lock, the handles of the pipeline, the probe, the settings page; EXTENDS `ModelSuite` | `LocalModel` |
| `MC*` | instances for TLC | |
| `KeyProofs` | theorems of `RecordingSession`, `FnKey` and `Hotkeys` | |
| `InsertionProofs` | theorems of `FinalInsert` and `TsfInsert` | |
| other `*Proofs` | theorems of the module named | |

State and actions keep the source's names where there is one. A call's `pc` (or
`at`) names the statement it is about to run; two statements share an action only
when nothing between them touches shared state. `PROJECT.json`, "map", has the
lines.

*RecordingSession.* `Calls` are runs of the two entry points. `Trigger` reads
`recording` by `try_read`, which may fail and then counts as FALSE. `Cas` is the
compare-exchange. `Failures` makes preparation, audio, connect, record or drain
fail. `has_cloud_key` on a Translate session panics (see below) and leaves the
call at "panicked", still holding the guard. The abort branches are left out:
`request_abort` has no caller.

*FnKey.* `hook` is the place in `on_fn_edge`; `timer[p]` and `tail[r]` the tasks a
press and a release spawned, with the generation each captured. `hold` is the
mode, chosen at the start and not changed. The hook thread is one thread, so
edges are processed one after another.

*RecordAndCollect.* `RoutingConnect` chooses the engine: the service over a
WebSocket, the online thread and the offline thread of sherpa, and the two that
post a file ("rest", "chat"). The first two send the growing sentence as a Partial
and end sentences where they like; the others answer once, when the input ends.
Each may leave early. Silence is a frame that says nothing. Recognition that
revises a partial is left out, as is the content of messages.

*FinalInsert.* A text is a sequence of words; separators, quotes, labels,
homophones, numerals, and script and punctuation conversion are left out.
`stage` is the request being made: "polish" (`apply_routed_polish`), "light"
(`light_pre_polish`), "sentinel" and "plain" (the two calls of the cloud's
`polish_and_translate`), "translate" (`TranslateRouter`) and "role". `order` is
the set of backends the request may go to and `HopRank` their order; `tried` are
those that failed. `Answer` has the three shapes a model's answer may take: a
rewriting, the text twice, the text with more behind it. `ShortText` is 8 characters
in the code and one word in the run. `from` is a history of where a text comes from:
"said", "engine", or "cut" by ESC.

*Clipboard.* `FailureSteps`: a get that times out, a clipboard that cannot be read
and looks empty, a set that fails, a set that is done late, a set that fails and is
reported as made, a chord that is refused, one whose last key (Ctrl, let go) is
refused after the target has had the others, and a thread that is refused. `copied`
is a history variable: the user copied since the paste's set. `scenario` is chosen
at the start and says which pastes and copies are made, what may fail, and which of
three regularities hold (see "Runs").

*ModelDownload.* A `.part` is a length and whether its content is the file's; a
chunk fits only at the length its source was asked from. `Cuts`, `Stale` and
`NoRange` say what each source may do. `Crash` kills every running call. `DiskFails`
is every error of the disk and of the HTTP client; `faulty` are the calls that met
one, which `FailoverInstalls` leaves out.

*Settings.* A configuration is `pref` (the fields the pipeline does not read),
`model`, `key` and `url`. `op[w]` is the command of the main thread or of a saving
window, at the statement its `at` names: keychain, row, memory, flag, invalidation.
`cfgLock` and `listing` are the configuration's lock held for writing and for
reading over several steps; tokio's lock is first in, first out, so that a read
waits behind a write that waits. `building` is `pipeline()` between its four reads
(`Parts`; two in the run `Settings`, enough for a write between them). `ver` counts
the changes of what a pipeline is built from. A saving window's copy is what it read
before: the fields on the screen are its own, and the translation model may be an
older one (`Copied`), which then counts as the choice. A start that cannot read the
keychain (`readable`) runs without the key and counts as `torn`.

*Dictionary.* A word is a pair of a name and an alias. Every statement of
`sync_assistant_combo_hotwords`, of an import and of a migration is an action; a
`Crash` may come between any two. An inherited database of v3 to v5 may have a pack
of the user's, with any aliases from v4 on (`Inherited`), so that a built-in pack is
seeded beside one that has its alias; `builtin` are the packs whose row says so,
which `upsert_style_pack` may clear. `mine`, `written` and `dropped` are histories
of who added a word and who took it out.

*Hotkeys.* A hotkey's text is a sequence of parts. `apply` is the place in
`apply_hotkey`. `hookQ` and `rawQ` are the events on their way over the two
channels: a window of openIME in the foreground hides its keys from the hook, and
raw messages wait while hook calls do. A key that the program sends goes over both,
marked on the hook's only (`SentAgain`). `thread` is `dispatch_key_event` between
its read of `KEY_IS_DOWN` and its write.

*TsfInsert.* `host` is the insertion, `served` the pipe thread, `job`, `result` and
`jobDone` what it shares with the UI thread, `posted` the messages in the UI
thread's queue, `ui` the text it has taken. A session may give up before it has
touched the input method (`PrepareFails`); the snapshot and the activation are two
steps. What the host has written before it closes is still read. Either side may
stop waiting at any moment. `document` is what was committed.

*LocalModel.* `thread[c]` is the blocking thread of a completion, which goes on when
the dictation (`waiting`) has given up; `main` is a deletion between its files. A
load fails for a file that is missing, for one the binding does not know (`Broken`),
or for want of memory; the probe counts a backend that cannot be initialised as the
file's fault, a completion does not (`BackendFails`). Sizes are in MiB, rounded up.

### Composition

`FnKey` runs the very actions of `RecordingSession`, and `LocalModel` the operators
of `ModelSuite`. Elsewhere one module's step stands for another module:
`RecordAndCollect` is the session's "record" step, `FinalInsert` its "insert" step,
`Clipboard` the insertion of both, `TsfInsert` the insertion on Windows before it
falls back, `Settings`' deletion the frame of `LocalModel`'s. What the outer module
assumes of the inner one is an inner property: that a recording ends
(`StopEnds`), that an insertion ends (`InsertionEnds`), that nothing is read after a
recording is over (`QuietAfterOk`).

## Runs

`tlc -workers 2 -config <run>.cfg MC<module>`; `PROJECT.json` names the module of
each run. Every run sets `CHECK_DEADLOCK FALSE`, because calls, presses, pastes,
frames, saves and crashes are bounded and all of them end.

| run | bounds | states | shows |
|---|---|---|---|
| `RecordingSession` | two record keys, a translate key, the button; all failures | 211 254 | one owner of the guard, who alone records; the overlay put back; no stop taken back; a second toggle ends the session; refines `SerialSessions` |
| `FnKey` | two presses, either mode, one lost edge, failing recordings | 829 833 | armed timers and live tails are the current ones; a Toggle release never stops; in Hold mode a release is answered |
| `Clipboard` | two pastes with every failure and any copy, the same with threads that start, three that come one after another | 351 581 | an open registration is watched; no restore over a later copy and only of what was the user's; delivery; the clipboard comes back; a text left for a manual paste stays |
| `RecordAndCollect` | two characters, three frames, five engines, either streaming mode, all failures | 155 552 | nothing lost or doubled; the screen; nothing typed after the end; the end |
| `ModelDownload` | two calls, two files of two chunks, three sources, a crash, a deletion, a disk that fails | 237 467 | one writer, no bad file, failover, true and complete reports |
| `FinalInsert` | two sessions, ten recordings, every setting and set of backends | 455 714 | no final is lost; after a failure the words spoken (with streaming, equal finals that dedupe leaves one after another share a row); the cloud in its turn; ESC is its session's; the end |
| `Settings` | two values of each field, a saving window beside the main thread, two commands, a fault, a crash, rows of older versions, a pipeline built from two reads | 2 479 518 | no stale pipeline; what was in use starts again; a choice by hand stays |
| `Dictionary` | two names and the empty one, two aliases of which one is not Chinese, a built-in pack and one of the user, two saves, two edits, a crash, databases of every version | 4 291 085 | an alias calls one pack; the words follow the name |
| `Hotkeys` | Windows; every configuration made of a single key, ESC and another spelling of the default; a save, a polish, two keystrokes | 1 089 472 | what is registered is routed and wanted; edges alternate |
| `TsfInsert` | two texts, two input methods, a change by the user, a crash, every registration | 113 796 | Committed is true; the input method comes back |
| `LocalModel` | a weak and a middle machine, two completions, a load that fails, a model the binding does not know, two changes; 56 machines judged | 2 352 553 | two models in memory; a deleted one is gone; a translation has a model; recommendations fit and speech models connect |
| `DeleteModelLock` | (violation) one command | | `delete_llm_model` and `pipeline()` wait for each other |

Why these bounds are enough. A session race needs a session, a rival that loses the
guard and a third trigger that sets a flag in between; the fourth call is of the
third kind. A stale timer or tail needs one later press. The chain of originals
needs two pastes before the restore and one after it. Two characters make sentences
that share a prefix or not, three frames make two sentences one of which has a
shared prefix. Two chunks make a partial `.part`, and three sources a resumption
that mixes contents and one that starts again. A cancel flag can be stale only in a
second session; one recording each repeats a final, doubles it, separates equal ones
by a filler, doubles finals so that dedupe leaves equal ones, calls each kind of
role, or names the assistant only. A stale pipeline needs one write during one
build, and a second command to drop it or not; a lost setting needs two overlapping
writers or a write and a crash. An interrupted synchronisation shows in the next
one: a name, the one that replaces it and the first again, or none. A late key event
needs one press and its release on both channels; one save changes what they mean;
the program sends the key again while fewer than two raw messages wait. A late
commit of the first text can meet the second. Two completions fill both slots and a
third file is loaded by the second call of either.

Assumptions of a run that the code does not enforce are named where they leave a
behaviour out:

* `Clipboard`'s scenarios: `serial`, the pastes of one session come one after
  another (the reader task awaits each); `apart`, no restore falls due inside a
  paste (a paste takes some ten milliseconds, the restore waits 750 ms);
  `prompt`, the target has read the clipboard before the next paste begins. The
  properties that need them say so: `Calm` is all three, with failures of the
  chord only. `ClipboardRestoreRace` drops `apart`. In every scenario the target
  reads the clipboard before the 750 ms are over.
* `SingleKey`, `Repost` in `FnKey`: the key is Fn and short presses are handed
  back, the macOS default.
* `Settings`: `SavedIsWhatRuns` and `ChoiceKept` speak of starts in which no two
  writers overlapped, no write failed and the keychain could be read (`torn`); what
  happens otherwise is below.
* `TsfInsert`: `CommittedIsTrue` speaks of behaviours in which nobody stopped
  waiting for a commit that was under way (`late`), `NotLeftInOpenIme` of those in
  which the system neither refused the restoration nor ended the host (`stuck`).
* `Hotkeys`: the last clause of `RegisteredIsRouted` asks that the three fields
  mean different shortcuts (`Distinct`), which `validate_hotkeys` does not ensure.
* `LocalModel`: an Apple machine of 9 GB is left out of the machines, see below.

### Fairness

* `FairSessionSpec`, and `FairSpec` of `FnKey`: weak fairness of every call that
  has begun, of a spawned timer and of a tail: tokio and the hook thread run what
  is ready, and a timer expires. No trigger is fair.
* `RecordAndCollect`: weak fairness of the session task, the reader and of an
  engine with input. That the service answers is an assumption: `bailian.rs` has
  no timeout on connect or drain. No fairness makes a sentence end.
* `Clipboard`: weak fairness of a paste that has begun, of the restore threads
  and of the target.
* `ModelDownload`: weak fairness of a task that was spawned; the HTTP client has
  timeouts, so a source answers or fails.
* `FinalInsert` (`FairFinalSpec`): weak fairness of the loop and of `Timeout`: the
  HTTP client has a total timeout and a local completion is awaited inside
  `tokio::time::timeout`. No backend has to answer. The loop's steps include the
  insertion and the save, which are taken to return.
* `Settings` (`FairSpec`): weak fairness of what has begun, strong fairness of
  what waits for a lock: tokio's locks are first in, first out, so a lock that is
  given back again and again is taken in the end. The deadlock of
  `DeleteModelLock` is there under both.
* `Dictionary`, `Hotkeys`, `TsfInsert` and `LocalModel` are checked for safety only.

## Disagreements

One run of kind violation ends in a trace of a disagreement between the code and
what a comment says, and `PROJECT.json`, "findings", quotes the line:

* `DeleteModelLock`: `delete_llm_model` holds the configuration for writing while
  it waits for the pipeline's lock (`commands.rs:941`, `975`); `pipeline()` holds
  the pipeline's lock while it reads the configuration (`state.rs:145`). A
  recording that begins during a deletion stops both for ever, and with them every
  command, though the comment says that the pipeline is rebuilt after it.

The configurations below end in a violation too; each checks the property named
here, in the module of its component:

* `RecordingPanic` (`GuardReleasedOnFailure`): `toggle_recording` calls
  `has_cloud_key`, a `blocking_read`, on an async worker for a Translate session;
  the panic leaves the guard up (`commands.rs:1370`, `state.rs:314`).
* `FnShortPress` (`ShortPressNeverRecords`): a release between the timer's checks
  and its store is handed back as a short press, and the session starts
  (`lib.rs:1059`; `docs/p2-design.md:247`).
* `ClipboardRestoreRace` (`ReadsOwn`): `CLIPBOARD_MU` covers the decision of a
  restore and not its write, which may fall between the set and the chord of the
  next paste (`insert_fallback.rs:224`; the comment at line 34).
* `CollectChunk` (`FinalsOnScreen`): after a chunk that failed, the length typed is
  kept into the next sentence, whose beginning is not typed (`pipeline.rs:265`).
* `DownloadResume` (`ResumeInstalls`): a complete `.part` makes each source answer
  416 for ever (`model_download.rs:508`; `README.md:56`).
* `SettingsLockout` (`LoadedIsSavable`): an old endpoint that is cleared at the
  start leaves its key, and `check_cloud_llm` then refuses every save
  (`credentials.rs:93`).
* `ListModelsLock` (`ListEnds`): the lists of models read the configuration a
  second time behind the save that waits for the first read to end
  (`commands.rs:697`, `731`, `135`).
* `DictionaryUserWords` (`UserWordsStay`): a word the user added by hand and that
  is a word of the old name goes when the name changes (`store.rs:747`).
* `TsfReplay` (`CommittedOnce`): a message left of a job that timed out finds the
  next job, and the next message finds it again (`ipc_server.cpp:279`).
  `UserSwitchKept` fails as well: an input method the user chose during a session
  is replaced by the one before it (`profile.rs:36`).

The models have these behaviours too, and no passing property is stated so as to
forbid them; they are recorded here without a run:

* *Session and keys.* A translate key that loses the compare-exchange leaves its
  intent behind (`commands.rs:1306`), and the next record key translates. The
  guard is given back before the overlay is hidden (`commands.rs:1583`): the next
  session may lose its overlay. On the error path a key between the hide and the
  release shows an overlay that only the next session hides
  (`commands.rs:1590`); `HudGoneWhenIdle` therefore excepts calls that ended as
  "failed". A stop between the compare-exchange and `clear_stop` is lost, a tail's
  or a second toggle's (`commands.rs:1313`): `StopKept` and `ToggleEndsSession`
  speak of a session that records.
* *Hotkeys.* `validate_hotkeys` compares texts: "Ctrl+D" and "Control+D" pass as
  different, and neither the fallback nor ESC is compared, though the comment says
  that any two differ (`commands.rs:147`). A user's ESC hotkey goes with the end
  of the first polish (`lib.rs`, `unregister`). `set_watch_key` clears
  `KEY_IS_DOWN` in a press, whose release is then lost, and `dispatch_key_event`
  may write the old value after it. The two channels are not free of doubles by
  nature (`fn_monitor.rs:21`): the check of `KEY_IS_DOWN` keeps the edges apart.
* *Pipeline.* A feed that fails returns and leaves the reader task typing
  (`pipeline.rs:308`), and an engine thread alive. Connecting and draining have no
  time limit. A reply with empty text counts as success in the engines that post
  a file.
* *Clipboard.* A restore overwrites what the user copies between its decision and
  its write (`insert_fallback.rs:224`); a paste that reads the clipboard before a
  restore and registers after its clear takes a dictated text for the original
  (`insert_fallback.rs:189`); with no text on the clipboard the second of two
  pastes registers the first one's text (`insert.rs:156`). On macOS an error of
  the inner set is reported as success (`insert_fallback.rs:289`). On Windows a
  Ctrl that cannot be let go reports a chord the target has carried out as failed
  (`insert_fallback.rs:392`): the text is both pasted and left for a manual paste.
* *Installation.* After a language model is installed, `invalidate_pipeline_blocking`
  blocks on an async worker and panics before `download-complete` is sent
  (`commands.rs:907`), so that the pipeline stays without the model;
  `AsrInstallReported` therefore speaks of recognition models, and
  `TranslateHasEngine` excepts a model installed since (`unheard`).
  `install_local_model` without a mode blocks in the same way
  (`commands.rs:1048`).
* *Polish.* `sanitize.rs:29` says that an answer made of the text and a rewriting
  gives the rewriting when it begins with the text again; the code asks that it does
  not (line 32), so that "text and more" gives "more" and loses what was said. When
  every polish fails, the text spoken is cleaned like an answer: a text that says
  the same words twice is halved. A polish that ESC cuts off is not cleaned. A save
  that fails ends `insert_finals_with_polish` (`pipeline.rs:380`): the finals after
  it are neither inserted nor saved. `polish_context` honours the old
  `polish_enabled` (`state.rs:350`), which the router of the pipeline does not.
  `correction.rs:133` keeps the last filler of a final of nothing else;
  `strip_mid_single_fillers` then removes it, and the final is dropped.
  `sanitize.rs:53` says that consecutive identical finals are reduced to one; a
  final that is corrected first and halved after that can end up equal to the one
  before it (finals "a", "a a a a", "a a", "a"), and of two equal ones streaming
  saves one row. `NothingLost` therefore asks with streaming that the rows hold the
  finals in their order (`Holds`), not that they are the finals.
* *Configuration.* `set_ui_lang`, `get_config` and `save_app_config` write back a
  copy: a save in between is undone (`torn`). A key that cannot be stored is logged
  and the row is written without it. A keychain that cannot be read at the start is
  taken for one without a key (`credentials.rs:74`), and the next save deletes the
  key. A window that saves an old copy undoes what was chosen elsewhere meanwhile.
* *Store.* The columns of v4 and v5 are added outside a transaction: a quit between
  two statements leaves a database that no longer opens ("failed"). A
  synchronisation that a quit or a word of the user's interrupts leaves words
  missing until the next change of the name. `save_app_config` is not exclusive: two
  synchronisations that overlap may leave the words of both names.
* *TSF.* `submit` never returns what the target answered when it rejects; a late
  completion may answer the next job; the focus is read three times.
* *Local models.* A load that fails once, for want of memory too, is remembered as
  one the binding cannot do until the program ends, while a cached pipeline tries
  the same file again and again. On Windows the file of a resident model is not
  deleted and nobody hears of it. The main thread waits in `evict` behind a
  completion nobody waits for. `apply_recommended_defaults` never applies the
  recommended speech model. An Apple machine of 9.0 to 9.3 GB is recommended more
  than its budget, and one of 32 GB with one GB of disk left a speech model whose
  label says that there is no room; `RecommendationFits` names all machines for
  which the recommendation and the labels disagree. An unknown speech model counts
  as installed with the detector of silences alone, and `normalize_asr_model_id`
  makes the FireRed branch unreachable.

## Proofs

`tlapm <module>Proofs.tla`. The theorems hold for every number of calls, presses,
pastes, files, sources, frames, commands and models.

* `KeyProofs`, the session. `IInv` is the type invariant with `OneSession`,
  `GuardHasHolder` and `RecordingInsideGuard`, which is inductive: `OneSession` is
  not by itself, because only the guard says that nobody is inside when a call
  wins `Cas`, and `GuardHasHolder` is what the guard says. Each action is first
  reduced to one of a few crossings (stay, enter, leave, raise, lower), and the
  invariant is preserved by each crossing. `GuardHasOneOwner` is the three
  together. `StopIsKept` is an action property of the same invariant: the only
  writer of FALSE is the session before it records. `OverlayGoesAway` adds that a
  call which ends without hiding was refused, and that then the holder of the guard
  has not ended. `SessionsAreSerial` maps
  initial states to initial states and each step to a step or a stutter of
  `SerialSessions`.
* `KeyProofs`, the Fn key. `FnInv` adds that presses and generations are counted
  together, that generations of spawned timers and tails lie below the counters,
  and that tails are in the order of their releases; without these an armed timer
  could hold a generation the next press reaches. No action of the key moves a
  call except through a session action or the stop of a tail (`FnSteps`), so that
  what is proved of the session carries over: it is exclusive and refines
  `SerialSessions` (`KeySessionsAreSerial`), no stop is taken back
  (`KeyKeepsStops`), the overlay goes away (`KeyOverlayGoesAway`).
  `ToggleKeepsGoing`: in Toggle mode no release leaves a tail, so none can stop a
  session.
* `KeyProofs`, the hotkeys. `HotkeysAreRouted`: at each statement of
  `apply_hotkey` what is registered is what the roles registered so far want
  (`Done`, `RegisteredInv`), with ESC while a polish runs; ESC alone may be wanted
  and missing, because a polish takes it away at its end. That each of them is
  routed to its role needs that `on_hotkey` and `apply_hotkey` read the record
  field alike. `EdgesAreInTurn`: while the watched key is the same, `KEY_IS_DOWN` is
  what the last edge said, and an edge that has been classified and not yet stored
  is the one that is due (`EdgeInv`). Both hold for every set of configurations,
  of taken shortcuts and any number of keystrokes.
* `ClipboardProofs`. `IInv` is the types, that a restore thread implies its paste
  has an id, and `PendingHasThread`, for every set of scenarios: that threads can
  be started is an assumption of the property itself, because the code ignores the
  error of one that cannot. `PastesAreDelivered` takes pastes one at a time
  (`Serial`): ids are given out once, and until its text is read no thread that
  wakes finds the registration its own, even when the texts are equal - but not both
  equal and of a chord that was carried out and reported as failed (`SentIsKnown`):
  the thread of the earlier one may then take the text that was left for its own.
  `CopiesAreSeen` holds with every failure, for restores at any moment, if pastes
  come one after another and their texts differ (`TextsDiffer`; of equal texts a
  thread may take the later one for its own): a paste that is still to be
  registered or has the registration is the only one to write its text
  (`WrittenOnce`), so what the user has copied over does not come back.
  `LeftTextsStay` and `RestoresAreSound` need different texts too. The second is
  the first with what calm pastes write back, for which the user has and copies
  only text (`TextOnly`), as in the calm scenario of the run: what a thread is to
  restore over is its own paste's text or the user's copy (`Restoring`), and while
  a delivered text is on the clipboard its registration holds an original
  (`Covered`), so no paste takes a dictated text for the user's.
* `RecordAndCollectProofs`. A recording that ended well has joined its reader,
  and only a reader that reads types. `RecordingIsHeardInOrder`: finals, finals on
  their way and the open sentence, one after another, are what the engine has taken
  of what was fed (`Conserved`); how much that is depends on where the engine
  lives (`EngineInv`), and a reader that is through has read it all or the engine
  broke off (`ReaderInv`). `StreamingShowsWhatIsSpoken`: each delta goes on with the
  sentence before it (`Chain`), so what is on screen is a beginning of what is
  typed next; the invariant stops at an insertion that failed, as the property
  does. Concatenations are reasoned about through tables of partial results, which
  `SetInduction` fills: induction over a set of naturals needs no operator as a
  parameter.
* `ModelDownloadProofs`. `IInv` is the types, that the flag is up while a call
  works, `OneInstall`, that what is about to be renamed has been checked unless a
  deletion removed it, and `InstalledIsGood`. Between the check and the rename
  the file must keep its content; that needs the single writer, and the single
  writer needs the flag. `ReportsAreTrue`: the files before the current one
  are there. `FailoverAlwaysInstalls`: a call never passes the sound source, where
  it starts from an empty `.part` and what it counts is in the file.
* `InsertionProofs`, the finals. `CloudComesLast`: `RouteInv` says who is being asked
  while the session waits, that the request is one this backend takes, and that the
  sentinel and plain requests are made only when the cloud is the first hop.
  `EscCutsItsOwn`: `EscInv` says that ESC is registered while a dictation's
  loop runs, and that a flag raised then was raised in that session; `Begin` clears
  it. Both hold for every set of packs, recordings, settings and answers.
  `FinalTypes`: the types, and that a backend is asked exactly while the session
  waits.
  `WhatWasSaidIsKept` is `TextKept`, for every recording and whatever backends
  answer. Its invariant has one part for each question: what the texts on their way
  are (`TextTypes`), which finals have been treated and in which order they were
  shown (`OrderInv`), what a failure leaves (`FallbackIsSpoken`) and what streaming
  has saved (`StreamInv`). It rests on lemmas about the operators: what a pass over
  a list keeps (`KeepCovers`, `DedupeCovers`), what halving keeps (`RepeatsOfHalf`,
  `RepeatsOfDouble`) and what cleaning an answer keeps (`Sanitized`). The recursive
  functions are unfolded one step at a time in a table (`Fill`). The first attempt
  failed: that rows and finals are equal with streaming is false, see "Polish"
  above.
* `InsertionProofs`, TSF. `InputMethodComesBack`: unless the host was ended or the
  system refused (`stuck`), the system's input method is the user's before the
  session touches it, and after that the session has it saved (`ProfileSaved`).
  `CommittedMeansInserted`: until somebody stops waiting for a commit (`late`), one
  text is on its way and at one place only - request, queue, job, edit, reply
  (`OneExchange`) - and a text is in the document when `insert_ex` said so or the
  news of it stands at one of those places (`Told`). For any number of texts, input
  methods, switches and crashes.
* `DictionaryProofs`. `NoAliasCallsTwoPacks`: every write of a pack comes after
  `Clash`, in the same transaction. `HotwordsFollowTheName`: the recorded name
  counts as torn from the first removal until the new name is recorded, and what
  the name in question is due is in the table or still to be inserted (`DueInv`);
  the words that were written are of the recorded name and of aliases the packs
  still have, so that the removal finds all of them (`WrittenInv`).
* `SettingsProofs`. `Fresh` counts changes by a version: no command has promised
  one above the current version, what a command has read is not above it either,
  and the pipeline that is cached, being built or handed out is as young as the
  youngest promise. The build keeps its lock from its reads to the store, so an
  invalidation comes either before the reads or after the store. `WhatIsSavedRuns`:
  while nothing has gone wrong one command runs at a time, and each of its steps
  brings the keychain and the row closer to the memory. `ChoicesStay`: a command
  keeps the choices, is one, or counts as later than they were; a restart needs
  the first theorem's invariant. Both use that "no row" is not a configuration
  (`NoneIsNoConfig`).
* `LocalModelProofs`. Whoever loads or decodes holds the lock of the models; the
  model decoded with is in memory; a load begins with room for one more; and a
  deleted model is neither on the disk nor in memory while no thread is about to
  use it. `MemoryIsBounded` and `DeletedStaysGone` follow; neither is inductive by
  itself, because the size and the deletion are looked at under the lock only.
  `KeyFindsAnEngine`: a cached pipeline is the one the present configuration and
  disk give, for some earlier set of models the binding cannot do (`Fresh`), and
  the key looks at fewer conditions than the pipeline does. `RecommendationFits`
  computes the catalogue for every machine: the recommendation fits exactly when
  the machine is `LargeEnough`. `RecommendedSuiteRuns` assumes that of the machines
  and adds that an installed speech model connects.

Only model-checked: every liveness property (`ToggleEndsSession`, `ReleaseAnswered`,
`ClipboardComesBack`, `StopEnds`, `AsrInstallReported`, `InsertionEnds`), because
fairness and ENABLED are beyond the prover. Every other property of a passing run is
stated by a theorem, four of them under assumptions that the theorem names and the
run's instance meets: for `FallbackTextStays` that texts differ, for `PasteDelivers`
that or no failed release of Ctrl (`SentIsKnown`), for `RestoreIsSound` that and
serial pastes, with `TextOnly` where they are calm, and for `SuiteRuns` that the
machines are `LargeEnough`. What a recursive function computes is proved where a
theorem needs it by induction over a set of naturals, not with the library's
induction theorems, and only as far as it is needed: that dedupe keeps every final,
not which finals it gives.

## Not modelled

`PROJECT.json`, "components", has every part and the reason.

* Audio and wire formats, prompts and requests, logging: the content of frames,
  strings and messages.
* Single instance, the macOS event tap, focus and permissions, the place and the
  size of the overlay: a call or two of the system each. Two processes that start
  together may both remove the socket and bind it (`lib.rs:702`), which is visible
  without a model.
* Transcription of a file: segmentation, stitching and subtitles are calculations
  on lists of segments, and the task's only shared state is a flag, which a
  cancellation between the compare-exchange and its reset loses
  (`commands.rs:1748`); `srt_from_segments` drops the first cue of later segments.
* The frontend: views over the commands and events above.

Within the modelled parts: two synchronisations of the assistant's words at once
(nothing excludes them, see above; the model has one window that saves); a name that
has no pinyin, which falls to the same filter as a Latin alias; a database of v4
that already has built-in packs; the fields of a stale copy other than the
translation model; a mutex that a panic has poisoned, in the runtime of the local
models above all, where every later completion would fail and `evict` do nothing;
resampling, voice activity detection and the content of
recognition; changes of the hotkey mode during a press; the event tap's re-arming
after a gap; HTTP details of a download other than its length, Range and breaks;
searching and paging the history. An open file that is deleted keeps its writer, as
on macOS, except in `LocalModel`, where a model in memory may keep its file.

## Plan

1. Proofs with abstract specifications: an insertion of finals and a TSF session
   as one atomic exchange each, and the mappings to them.
2. Transcription as a component, with `srt_from_segments` against a reference
   definition.
3. The macOS platform of `Hotkeys` as an instance of its own, and `FnKey` under its
   edges; liveness of `Settings` without deletions and lists, and of `TsfInsert`.
