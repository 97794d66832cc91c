------------------------------ MODULE Settings ------------------------------
(***************************************************************************)
(* The configuration of openIME: the copy in memory (AppState.config), the *)
(* JSON in the settings table, the key in the keychain, and the pipeline   *)
(* that is built from it and cached (state.rs, credentials.rs, the         *)
(* configuration commands of commands.rs).                                 *)
(*                                                                         *)
(* Synchronous commands run one after another on the main thread; the      *)
(* asynchronous save_app_config runs beside them on tokio, and so does the *)
(* recording that asks for the pipeline.  A configuration is cut down to   *)
(* what the properties tell apart: `pref' stands for the fields the        *)
(* pipeline does not read (ui_lang, active_style_pack_id, local_asr_model, *)
(* which every recording reads for itself), `model' for the local models,  *)
(* `key' and `url' for the cloud model's key and endpoint.                 *)
(*                                                                         *)
(* tokio's RwLock is first in, first out: a read waits behind a write that *)
(* waits.                                                                  *)
(***************************************************************************)
EXTENDS Naturals

CONSTANTS
  Prefs,        \* values of the fields the pipeline does not read
  Models,       \* ids of one catalogue of models
  Recommended,  \* what recommend_defaults returns on this machine
  OldUrls,      \* the endpoints an older version may have left in the row
  Copied,       \* bound: the translation models an old copy of a window may hold
  Parts,        \* the reads of the configuration a pipeline is built from; four in
                \* the code: the router, the cloud model, the local one, the pair
                \* of translators
  Savers,       \* the asynchronous calls of save_app_config
  MaxOps,       \* bound on the commands
  MaxFaults,    \* bound on the writes that fail
  MaxCrashes,   \* bound on the times the program is ended
  None          \* no model, no record

Kinds == {"polish", "translate"}   \* the fields the recommender may rewrite
Main == "main"
Writers == {Main} \cup Savers

ASSUME SettingsAssumption ==
  /\ Main \notin Savers /\ None \notin Models
  /\ Recommended \in Models /\ Copied \subseteq Models \cup {None}
  /\ OldUrls \subseteq {"", "good", "bad"}
  /\ Prefs # {} /\ Parts \in Nat \ {0}
  /\ MaxOps \in Nat /\ MaxFaults \in Nat /\ MaxCrashes \in Nat

VARIABLES
  mem,      \* AppState.config
  cfgLock,  \* the writer that holds the configuration's lock over its steps
  listing,  \* TRUE while the main thread, listing models, holds it for reading
  json,     \* the row app_config of the settings table
  chain,    \* TRUE when the keychain holds the key
  userSet,  \* the kinds whose *_model_user_set row is "1"
  files,    \* the models whose file is on the disk
  ver,      \* counts the changes of what a pipeline is built from
  pipe,     \* the cached pipeline: the oldest version a part was read at
  building, \* the pipeline that pipeline() builds, holding the pipeline's lock
  handed,   \* what the pipeline handed out last was when it was handed out
  op,       \* [Writers -> the command in progress]
  up,       \* FALSE between the end of the program and its next start
  ops, faults, crashes,  \* what has been used of the bounds
  promised, \* the highest version whose save has returned Ok
  torn,     \* since the start two writers overlapped, a write failed, or the
            \* keychain could not be read
  choice    \* [Kinds -> the model the user chose last, None if none]

cfgVars   == <<mem, cfgLock, listing>>
diskVars  == <<json, chain, userSet, files>>
pipeVars  == <<pipe, building, handed>>
bounds    == <<ops, faults, crashes>>
ghostVars == <<promised, torn, choice>>
vars == <<cfgVars, diskVars, ver, pipeVars, op, up, bounds, ghostVars>>

Urls == {"", "good", "bad"}  \* "bad": validate_endpoint refuses it today
\* A polish model is always chosen; the translation model may be "not used".
Choosable(k) == Models \cup (IF k = "translate" THEN {None} ELSE {})
Config == [pref : Prefs,
           model : {f \in [Kinds -> Models \cup {None}] :
                      \A k \in Kinds : f[k] \in Choosable(k)},
           key : BOOLEAN, url : Urls]
\* None also stands for "no row" and "nothing cached": it is not a configuration.
ASSUME NoneIsNoConfig == None \notin Config
Default == [pref |-> CHOOSE p \in Prefs : TRUE,
            model |-> [k \in Kinds |-> Recommended],
            key |-> FALSE, url |-> ""]

NotBuilding == [left |-> Parts, oldest |-> 0, lock |-> FALSE]
Idle == [cmd |-> "none", at |-> "idle", cfg |-> Default, kind |-> "polish",
         ver |-> 0]
Cmds == {"none", "lang", "get", "save", "pick", "pack", "asr", "deleteAsr", "delete"}
Stages == {"idle", "lock", "chain", "json", "mem", "queued", "flag", "inval"}

Op == [cmd : Cmds, at : Stages, cfg : Config, kind : Kinds, ver : Nat]
Building == [left : 0..Parts, oldest : Nat, lock : BOOLEAN]

SettingsTypeOK ==
  /\ mem \in Config /\ cfgLock \in Writers \cup {None} /\ listing \in BOOLEAN
  /\ json \in Config \cup {None} /\ chain \in BOOLEAN
  /\ userSet \subseteq Kinds /\ files \subseteq Models
  /\ ver \in Nat
  /\ pipe \in Nat \cup {None}
  /\ building \in Building
  /\ handed \in {"none", "fresh", "stale"}
  /\ op \in [Writers -> Op]
  /\ up \in BOOLEAN
  /\ ops \in 0..MaxOps /\ faults \in 0..MaxFaults /\ crashes \in 0..MaxCrashes
  /\ promised \in Nat /\ torn \in BOOLEAN
  /\ choice \in [Kinds -> Models \cup {None}]

-----------------------------------------------------------------------------
(* What the configuration promises. *)

\* check_cloud_llm: "off" with neither field, "on" with both, else an error.
check_cloud_llm(c) ==
  IF c.url = "" /\ ~c.key THEN "off"
  ELSE IF c.url = "good" /\ c.key THEN "on" ELSE "error"

\* sanitize_endpoints, at the start: an endpoint that no longer passes is
\* cleared, its key is not.
sanitize_endpoints(c) == IF c.url = "bad" THEN [c EXCEPT !.url = ""] ELSE c

\* The row that save_config writes: never with the key.
Stored(c) == [c EXCEPT !.key = FALSE]

\* What load_config makes of a row and of the keychain, once the migration
\* of a key in plain text is behind it.
load_config(row, k) ==
  IF row = None THEN Default
  ELSE sanitize_endpoints([row EXCEPT !.key = row.key \/ k])

\* recommended_defaults_apply: the recommended models, but for the kinds the
\* user has chosen by hand.
recommended_defaults_apply(c, byHand) ==
  [c EXCEPT !.model = [k \in Kinds |-> IF k \in byHand THEN c.model[k]
                                       ELSE Recommended]]

\* delete_fallback_id: another installed model; a polish model without one
\* stays chosen, a translation model becomes "not chosen".
delete_fallback_id(k, m, left) ==
  IF left \ {m} # {} THEN left \ {m} ELSE IF k = "polish" THEN {m} ELSE {None}

-----------------------------------------------------------------------------
Init ==
  /\ json \in {None} \cup
       {[Default EXCEPT !.key = (u # ""), !.url = u] : u \in OldUrls}
  /\ chain = FALSE /\ userSet = {}
  /\ files = Models
  /\ up = FALSE /\ mem = Default /\ cfgLock = None /\ listing = FALSE
  /\ ver = 0 /\ pipe = None /\ building = NotBuilding /\ handed = "none"
  /\ op = [w \in Writers |-> Idle]
  /\ ops = 0 /\ faults = 0 /\ crashes = 0
  /\ promised = 0 /\ torn = FALSE /\ choice = [k \in Kinds |-> None]

\* A write that fails counts against the bound; it also spoils `torn'.
Fault == faults < MaxFaults /\ faults' = faults + 1

\* A read of the configuration goes through, even beside another one.
Readable == cfgLock = None /\ \A w \in Writers : op[w].at # "queued"

Busy == {w \in Writers : op[w].at # "idle"}
Goto(w, s) == op' = [op EXCEPT ![w].at = s]
Done(w) == op' = [op EXCEPT ![w] = Idle]

\* The start: load_config moves a key in plain text into the keychain and
\* writes the row again; either may fail and is tried again next time.  A
\* keychain that cannot be read looks like one without the key, which the next
\* save then clears.
Start ==
  /\ ~up
  /\ up' = TRUE
  /\ LET legacy == json # None /\ json.key
     IN  \E moved, rewritten, readable \in BOOLEAN :
           /\ legacy \/ (~moved /\ ~rewritten)
           /\ rewritten => moved
           /\ IF (legacy /\ ~rewritten) \/ ~readable THEN Fault
              ELSE UNCHANGED faults
           /\ chain' = (chain \/ moved)
           /\ readable \/ (json # None /\ chain' /\ (legacy => moved))
           /\ json' = IF rewritten THEN Stored(json) ELSE json
           /\ mem' = load_config(IF moved THEN Stored(json) ELSE json, chain' /\ readable)
           /\ torn' = ~readable
  /\ UNCHANGED <<cfgLock, listing, userSet, files, ver, pipeVars, op, ops,
                 crashes, promised, choice>>

\* The program ends at any moment: what is not on the disk is gone.
Crash ==
  /\ up /\ crashes < MaxCrashes
  /\ crashes' = crashes + 1
  /\ up' = FALSE
  /\ mem' = Default /\ cfgLock' = None /\ listing' = FALSE
  /\ ver' = 0 /\ pipe' = None /\ building' = NotBuilding /\ handed' = "none"
  /\ op' = [w \in Writers |-> Idle]
  /\ promised' = 0 /\ torn' = FALSE
  /\ choice' = IF torn \/ Busy # {} THEN [k \in Kinds |-> None] ELSE choice
  /\ UNCHANGED <<diskVars, ops, faults>>

-----------------------------------------------------------------------------
(* The commands.  A command is a first step of its own and then the steps  *)
(* of save_config and of what follows it.                                  *)

Begin(w, cmd, at, c, k) ==
  /\ up /\ op[w].at = "idle"
  /\ w = Main => ~listing
  /\ ops < MaxOps
  /\ ops' = ops + 1
  /\ op' = [op EXCEPT ![w] = [cmd |-> cmd, at |-> at, cfg |-> c, kind |-> k,
                              ver |-> ver]]
  /\ torn' = (torn \/ Busy # {})

\* set_ui_lang: a copy of the configuration, changed and written back later.
SetUiLang ==
  /\ Readable
  /\ \E p \in Prefs : Begin(Main, "lang", "chain", [mem EXCEPT !.pref = p], "polish")
  /\ UNCHANGED <<cfgVars, diskVars, ver, pipeVars, up, faults, crashes, promised,
                 choice>>

\* Mutant of GetConfig: the recommender does not look at the user's choices.
GetConfigForAll ==
  /\ Readable
  /\ recommended_defaults_apply(mem, {}) # mem
  /\ Begin(Main, "get", "chain", recommended_defaults_apply(mem, {}), "polish")
  /\ UNCHANGED <<cfgVars, diskVars, ver, pipeVars, up, faults, crashes, promised,
                 choice>>

\* get_config, when the recommender has something to rewrite.
GetConfig ==
  /\ Readable
  /\ recommended_defaults_apply(mem, userSet) # mem
  /\ Begin(Main, "get", "chain", recommended_defaults_apply(mem, userSet), "polish")
  /\ UNCHANGED <<cfgVars, diskVars, ver, pipeVars, up, faults, crashes, promised,
                 choice>>

\* save_app_config: the window sends the whole configuration, its own copy with
\* whatever the user has changed in it; the copy may be older than the last
\* change of the translation model.  What does not pass check_cloud_llm and the
\* other validations is refused.
SaveAppConfig(w) ==
  /\ Readable
  /\ \E p \in Prefs, m \in Models, t \in {mem.model["translate"]} \cup Copied,
        on \in BOOLEAN :
       LET c == [pref |-> p, model |-> [polish |-> m, translate |-> t],
                 key |-> on, url |-> IF on THEN "good" ELSE ""]
       IN  /\ check_cloud_llm(c) # "error"
           /\ Begin(w, "save", "chain", c, "polish")
  /\ UNCHANGED <<cfgVars, diskVars, ver, pipeVars, up, faults, crashes, promised,
                 choice>>

\* set_active_polish_model and set_active_translate_model: the memory changes
\* first, under a lock that is held until the row is written.
SetActiveModel(k) ==
  /\ cfgLock = None
  /\ \E m \in Choosable(k) :
       /\ mem' = [mem EXCEPT !.model[k] = m]
       /\ Begin(Main, "pick", "chain", mem', k)
  /\ cfgLock' = Main
  /\ ver' = ver + 1
  /\ UNCHANGED <<listing, diskVars, pipeVars, up, faults, crashes, promised, choice>>
set_active_polish_model == SetActiveModel("polish")
set_active_translate_model == SetActiveModel("translate")

\* set_active_style_pack: as above, of a field the pipeline does not read.
SetActiveStylePack ==
  /\ cfgLock = None
  /\ \E p \in Prefs :
       /\ mem' = [mem EXCEPT !.pref = p]
       /\ Begin(Main, "pack", "chain", mem', "polish")
  /\ cfgLock' = Main
  /\ UNCHANGED <<listing, diskVars, ver, pipeVars, up, faults, crashes, promised, choice>>

\* cycle_style_pack, on its shortcut, once on_hotkey has read the configuration:
\* the same for the next pack; a save that fails is only logged.
cycle_style_pack == Readable /\ SetActiveStylePack

\* set_active_asr_model, which drops the pipeline afterwards.
set_active_asr_model ==
  /\ cfgLock = None
  /\ \E p \in Prefs :
       /\ mem' = [mem EXCEPT !.pref = p]
       /\ Begin(Main, "asr", "chain", mem', "polish")
  /\ cfgLock' = Main
  /\ UNCHANGED <<listing, diskVars, ver, pipeVars, up, faults, crashes, promised, choice>>

\* delete_local_asr_model removes the directory and sees that it was the
\* chosen one ...
DeleteAsrModel ==
  /\ Readable
  /\ Begin(Main, "deleteAsr", "lock", mem, "polish")
  /\ UNCHANGED <<cfgVars, diskVars, ver, pipeVars, up, faults, crashes, promised,
                 choice>>

\* ... then takes the lock again for the model it falls back to.
DeleteAsrFallback ==
  /\ op[Main].cmd = "deleteAsr" /\ op[Main].at = "lock" /\ cfgLock = None
  /\ cfgLock' = Main
  /\ \E p \in Prefs : mem' = [mem EXCEPT !.pref = p]
  /\ op' = [op EXCEPT ![Main] = [@ EXCEPT !.at = "chain", !.cfg = mem']]
  /\ UNCHANGED <<listing, diskVars, ver, pipeVars, up, bounds, ghostVars>>

\* delete_llm_model removes the file ...
DeleteModel ==
  /\ \E m \in files :
       /\ files' = files \ {m}
       /\ Begin(Main, "delete", "lock", [mem EXCEPT !.model["polish"] = m], "polish")
  /\ ver' = ver + 1
  /\ UNCHANGED <<cfgVars, json, chain, userSet, pipeVars, up, faults, crashes,
                 promised, choice>>

\* ... then takes the configuration's lock, falls back to another model if it
\* was the chosen one, and keeps the lock to its end.
DeleteFallback ==
  /\ op[Main].cmd = "delete" /\ op[Main].at = "lock" /\ cfgLock = None
  /\ cfgLock' = Main
  /\ LET m == op[Main].cfg.model["polish"]
         k == IF mem.model["polish"] = m THEN "polish"
              ELSE IF mem.model["translate"] = m THEN "translate" ELSE "none"
     IN  IF k = "none" THEN Goto(Main, "inval") /\ UNCHANGED <<mem, ver>>
         ELSE \E fb \in delete_fallback_id(k, m, files) :
                /\ mem' = [mem EXCEPT !.model[k] = fb]
                /\ ver' = ver + 1
                /\ op' = [op EXCEPT ![Main] = [cmd |-> "delete", at |-> "chain", cfg |-> mem',
                                               kind |-> k, ver |-> ver']]
  /\ UNCHANGED <<listing, diskVars, pipeVars, up, bounds, ghostVars>>

-----------------------------------------------------------------------------
(* save_config and what the commands do after it. *)

\* Mutant of StoreKey: an empty key leaves the keychain alone.
StoreKeyNoDelete(w) ==
  /\ op[w].at = "chain"
  /\ chain' = (chain \/ op[w].cfg.key)
  /\ Goto(w, "json")
  /\ UNCHANGED <<cfgVars, json, userSet, files, ver, pipeVars, up, bounds,
                 ghostVars>>

\* The key goes to the keychain, or out of it when it was cleared; a failure
\* is logged and the save goes on.
StoreKey(w) ==
  /\ op[w].at = "chain"
  /\ \/ /\ chain' = op[w].cfg.key
        /\ UNCHANGED <<faults, torn>>
     \/ /\ chain # op[w].cfg.key
        /\ Fault /\ torn' = TRUE
        /\ UNCHANGED chain
  /\ Goto(w, "json")
  /\ UNCHANGED <<cfgVars, json, userSet, files, ver, pipeVars, up, ops, crashes,
                 promised, choice>>

\* Where a command goes once the row is written.
AfterJson(w) ==
  CASE op[w].cmd \in {"lang", "get", "save"} -> "mem"
    [] op[w].cmd = "pick" -> "flag"
    [] op[w].cmd \in {"delete", "asr"} -> "inval"
    [] OTHER -> "idle"

\* set_active_*, set_active_style_pack and delete_local_asr_model give the
\* lock back here.
Unlock(w) ==
  cfgLock' = IF op[w].cmd \in {"pick", "pack", "asr", "deleteAsr"} THEN None ELSE cfgLock

WriteJson(w) ==
  /\ op[w].at = "json"
  /\ json' = Stored(op[w].cfg)
  /\ Unlock(w)
  /\ Goto(w, AfterJson(w))
  /\ UNCHANGED <<mem, listing, chain, userSet, files, ver, pipeVars, up, bounds, ghostVars>>

\* The row cannot be written: the command returns the error, but for those
\* that ignore it.
WriteJsonFails(w) ==
  /\ op[w].at = "json"
  /\ Fault /\ torn' = TRUE
  /\ Unlock(w)
  /\ IF op[w].cmd \in {"get", "delete", "deleteAsr"} THEN Goto(w, AfterJson(w))
     ELSE Done(w)
  /\ UNCHANGED <<mem, listing, diskVars, ver, pipeVars, up, ops, crashes, promised, choice>>

\* A write that finds the configuration being read queues up.
QueueWrite(w) ==
  /\ op[w].at = "mem" /\ listing
  /\ Goto(w, "queued")
  /\ UNCHANGED <<cfgVars, diskVars, ver, pipeVars, up, bounds, ghostVars>>

\* The memory takes the new configuration, after the row.
WriteMemory(w) ==
  /\ op[w].at \in {"mem", "queued"} /\ cfgLock = None /\ ~listing
  /\ mem' = op[w].cfg
  /\ ver' = ver + 1
  /\ IF op[w].cmd = "lang" THEN Done(w)
     ELSE op' = [op EXCEPT ![w] = [@ EXCEPT !.at = "inval", !.ver = ver']]
  /\ UNCHANGED <<cfgLock, listing, diskVars, pipeVars, up, bounds, ghostVars>>

\* polish_model_user_set: the recommender must leave this field alone.
SetUserFlag ==
  /\ op[Main].at = "flag"
  /\ \/ /\ userSet' = userSet \cup {op[Main].kind}
        /\ UNCHANGED <<faults, torn>>
     \/ Fault /\ torn' = TRUE /\ UNCHANGED userSet
  /\ Goto(Main, "inval")
  /\ UNCHANGED <<cfgVars, json, chain, files, ver, pipeVars, up, ops, crashes,
                 promised, choice>>

\* The choices the user may count on once the command of w has returned.
Choices(w) ==
  [k \in Kinds |->
     IF op[w].cmd = "pick" /\ op[w].kind = k THEN op[w].cfg.model[k]
     ELSE IF op[w].cmd \in {"save", "delete"} /\ choice[k] # None
          THEN IF op[w].ver > promised THEN mem.model[k] ELSE choice[k]
     ELSE choice[k]]

\* Mutant of Invalidate: the cached pipeline is dropped without its lock.
InvalidateNoLock(w) ==
  /\ op[w].at = "inval"
  /\ pipe' = None
  /\ cfgLock' = IF op[w].cmd = "delete" THEN None ELSE cfgLock
  /\ promised' = IF op[w].ver > promised THEN op[w].ver ELSE promised
  /\ choice' = Choices(w)
  /\ Done(w)
  /\ UNCHANGED <<mem, listing, diskVars, ver, building, handed, up, bounds, torn>>

\* invalidate_pipeline: waits for a pipeline that is being built, drops it,
\* and the command returns.  delete_llm_model waits with the configuration
\* locked.
Invalidate(w) ==
  /\ op[w].at = "inval" /\ ~building.lock
  /\ pipe' = None
  /\ cfgLock' = IF op[w].cmd = "delete" THEN None ELSE cfgLock
  /\ promised' = IF op[w].ver > promised THEN op[w].ver ELSE promised
  /\ choice' = Choices(w)
  /\ Done(w)
  /\ UNCHANGED <<mem, listing, diskVars, ver, building, handed, up, bounds, torn>>

-----------------------------------------------------------------------------
(* The lists of the settings page.  They read the configuration while they *)
(* read it: list_local_polish_models and list_local_translate_models keep  *)
(* it for llm_entry, get_model_suite_info keeps it for has_cloud_key.      *)

ListModels ==
  /\ up /\ op[Main].at = "idle" /\ ~listing
  /\ Readable
  /\ listing' = TRUE
  /\ UNCHANGED <<mem, cfgLock, diskVars, ver, pipeVars, op, up, bounds, ghostVars>>

\* llm_entry, has_cloud_key: the second read, and the end.
ListEntries ==
  /\ listing /\ Readable
  /\ listing' = FALSE
  /\ UNCHANGED <<mem, cfgLock, diskVars, ver, pipeVars, op, up, bounds, ghostVars>>

-----------------------------------------------------------------------------
(* pipeline(): at most one caller, the recording that holds the guard. *)

HandOut(p) == handed' = IF p >= promised THEN "fresh" ELSE "stale"

PipelineCached ==
  /\ up /\ ~building.lock /\ pipe # None
  /\ HandOut(pipe)
  /\ UNCHANGED <<cfgVars, diskVars, ver, pipe, building, op, up, bounds, ghostVars>>

PipelineBuild ==
  /\ up /\ ~building.lock /\ pipe = None
  /\ building' = [NotBuilding EXCEPT !.lock = TRUE]
  /\ UNCHANGED <<cfgVars, diskVars, ver, pipe, handed, op, up, bounds, ghostVars>>

\* build_polish_router, cloud_llm, local_polish and local_translate_pair each
\* read the configuration and the files for themselves.
ReadPart ==
  /\ building.lock /\ building.left # 0
  /\ Readable
  /\ building' = [building EXCEPT !.left = @ - 1,
                    !.oldest = IF building.left = Parts THEN ver ELSE @]
  /\ UNCHANGED <<cfgVars, diskVars, ver, pipe, handed, op, up, bounds, ghostVars>>

PipelineBuilt ==
  /\ building.lock /\ building.left = 0
  /\ pipe' = building.oldest
  /\ HandOut(pipe')
  /\ building' = NotBuilding
  /\ UNCHANGED <<cfgVars, diskVars, ver, op, up, bounds, ghostVars>>

-----------------------------------------------------------------------------
WriterStep(w) ==
  \/ SaveAppConfig(w) /\ w \in Savers
  \/ StoreKey(w) \/ WriteJson(w) \/ WriteJsonFails(w) \/ QueueWrite(w)
  \/ WriteMemory(w) \/ Invalidate(w)

MainStep ==
  \/ SetUiLang \/ GetConfig \/ set_active_polish_model \/ set_active_translate_model
  \/ SetActiveStylePack \/ cycle_style_pack \/ set_active_asr_model
  \/ DeleteAsrModel \/ DeleteAsrFallback
  \/ DeleteModel \/ DeleteFallback \/ SetUserFlag \/ ListModels \/ ListEntries

RecorderStep == PipelineCached \/ PipelineBuild \/ ReadPart \/ PipelineBuilt

Next ==
  \/ Start \/ Crash
  \/ MainStep \/ RecorderStep
  \/ \E w \in Writers : WriterStep(w)

Spec == Init /\ [][Next]_vars

\* The main thread and the workers go on with what they have begun; a lock
\* that is given back again and again is taken in the end (tokio's locks are
\* first in, first out).
FairSpec ==
  /\ Spec
  /\ WF_vars(Start) /\ WF_vars(PipelineBuilt) /\ SF_vars(ReadPart)
  /\ SF_vars(DeleteFallback) /\ SF_vars(DeleteAsrFallback) /\ WF_vars(SetUserFlag)
  /\ SF_vars(ListEntries)
  /\ \A w \in Writers : /\ WF_vars(StoreKey(w)) /\ WF_vars(WriteJson(w))
                        /\ SF_vars(WriteMemory(w)) /\ SF_vars(Invalidate(w))

-----------------------------------------------------------------------------
(* Properties. *)

\* Once a command that changes the models has returned Ok, no pipeline that
\* pipeline() hands out has a part read before the change - although its four
\* parts are read one by one while other commands write.  (With the types.)
FreshPipeline == SettingsTypeOK /\ handed # "stale"

\* When no two writers overlapped, no write failed and the keychain could be
\* read, the program that is started again runs with the configuration that was
\* in use, the key cleared if it was cleared and there if it was set.
SavedIsWhatRuns ==
  (up /\ ~torn /\ Busy = {}) => load_config(json, chain) = mem

\* A model the user has chosen by hand stays chosen, across restarts too, until
\* a command or a window (with an old copy, maybe) puts another one in its place:
\* the recommender that get_config runs never takes it back.
ChoiceKept ==
  (up /\ ~torn /\ Busy = {}) =>
    \A k \in Kinds : choice[k] # None => mem.model[k] = choice[k]

\* "without the deletion ... check_cloud_llm would refuse every later save"
\* (credentials.rs:93-94): the configuration the program starts with can be
\* saved.  The code breaks it.
LoadedIsSavable == up /\ Busy = {} => check_cloud_llm(mem) # "error"

\* A list of models that has begun ends, whatever save comes in between.  The
\* code breaks it: the list reads the configuration a second time behind the
\* save that waits for the first to end.
ListEnds == listing ~> ~listing

\* "After a deletion the pipeline is rebuilt" (commands.rs:974): a command that
\* has begun ends.  The code breaks it in lists, and in a deletion, which waits
\* for the pipeline's lock with the configuration locked, and pipeline() the
\* other way round.
CommandsEnd ==
  /\ \A w \in Writers : op[w].at # "idle" ~> op[w].at = "idle"
  /\ ListEnds
=============================================================================
