------------------------------ MODULE LocalModel ------------------------------
(***************************************************************************)
(* The local models at work (polish/runtime.rs, polish/local.rs and what   *)
(* state.rs and commands.rs do with them): the runtime that keeps up to    *)
(* two GGUF files in memory, the completions that a dictation asks for, the*)
(* probe at the start, and the settings page, which installs, deletes and  *)
(* chooses models on the main thread.                                      *)
(*                                                                         *)
(* A completion runs in a blocking thread of its own, under one lock; the  *)
(* dictation that waits for it may give up, the thread goes on.  A         *)
(* dictation asks for one completion at a time.                            *)
(***************************************************************************)
EXTENDS ModelSuite

CONSTANTS
  Machines,   \* the machines that are judged and recommended to
  Here,       \* those of them the program runs on
  Broken,     \* the files this build of the binding cannot load
  MaxCalls,   \* bound on the completions under way at a time
  MaxFaults,  \* bound on the loads that fail for want of memory
  MaxEdits,   \* bound on the installations, deletions and choices
  None        \* nobody holds the lock; no handles

ASSUME LocalModelAssumption ==
  /\ Machines \subseteq Machine
  /\ Here \subseteq Machines /\ Here # {}
  /\ Broken \subseteq Ids
  /\ MaxCalls \in Nat /\ MaxFaults \in Nat /\ MaxEdits \in Nat
  /\ None \notin 1..MaxCalls

MAX_SLOTS == 2

VARIABLES
  config,      \* the models of the configuration
  disk,        \* the files under models/llm
  slots,       \* the files whose weights are in memory
  lock,        \* who holds the lock of the slots
  unsupported, \* arch_unsupported
  handles,     \* the pipeline's models, None when there is no pipeline
  thread,      \* [1..MaxCalls -> the blocking thread of a completion]
  waiting,     \* the dictation waits for a completion
  probe,       \* the models the probe has not come to, and the one it loads
  main,        \* the deletion on the main thread: what is left to do
  faults, edits, \* what has been used of the bounds
  gone,        \* files a finished deletion has removed
  unheard      \* a model was installed after the pipeline was built

runVars == <<slots, lock, unsupported, thread>>
vars == <<config, disk, handles, waiting, probe, main, faults, edits,
          gone, unheard, runVars>>

Calls == 1..MaxCalls
NoThread == [at |-> "none", model |-> Nothing]
NoDelete == [at |-> "idle", id |-> Nothing, files |-> <<>>]
Config == [polish : PolishIds, translate : TranslateIds \cup {Nothing},
           use_llm_fallback : BOOLEAN]
Handles == [polish : Ids \cup {Nothing}, dedicated : Ids \cup {Nothing},
            fallback : Ids \cup {Nothing}]

LocalModelTypeOK ==
  /\ config \in Config
  /\ disk \subseteq Ids /\ slots \subseteq Ids /\ unsupported \subseteq Ids
  /\ gone \subseteq Ids
  /\ lock \in Calls \cup {None}
  /\ handles \in Handles \cup {None}
  /\ thread \in [Calls -> [at : {"none", "wait", "load", "decode"},
                           model : Ids \cup {Nothing}]]
  /\ waiting \in BOOLEAN
  /\ probe \in [left : Seq(PolishIds \cup TranslateIds), loads : Ids \cup {Nothing}]
  /\ main \in [at : {"idle", "remove", "evict"}, id : Ids \cup {Nothing},
               files : Seq(Ids)]
  /\ faults \in 0..MaxFaults /\ edits \in 0..MaxEdits /\ unheard \in BOOLEAN

\* The start: the recommended models, as far as they were downloaded.
Init ==
  /\ \E r \in {recommend_defaults(m) : m \in Here} :
         /\ config = [polish |-> r.polish, translate |-> r.translate,
                      use_llm_fallback |-> r.use_llm_fallback]
         /\ disk \in SUBSET (FilesOf(r.polish) \cup ({r.translate} \ {Nothing}))
         /\ probe = [left |-> IF r.translate = Nothing THEN <<r.polish>>
                              ELSE <<r.polish, r.translate>>,
                     loads |-> Nothing]
  /\ slots = {} /\ lock = None /\ unsupported = {}
  /\ handles = None
  /\ thread = [c \in Calls |-> NoThread] /\ waiting = FALSE
  /\ main = NoDelete
  /\ faults = 0 /\ edits = 0
  /\ gone = {} /\ unheard = FALSE

-----------------------------------------------------------------------------
(* The probe of the start loads a model and throws it away, without a lock. *)

ProbeNext ==
  /\ probe.loads = Nothing /\ probe.left # <<>>
  /\ LET f == resolve_llm_id(Head(probe.left), disk, unsupported)
     IN  probe' = [left |-> Tail(probe.left),
                   loads |-> IF f \in disk THEN f ELSE Nothing]
  /\ UNCHANGED <<config, disk, handles, waiting, main, faults, edits, gone,
                 unheard, runVars>>

\* A load succeeds when the file is there and the binding knows it, unless there
\* is no memory for it or, in the probe, the backend cannot be initialised.
Loads(f) == f \in disk \ Broken
Refused(f) == Loads(f) /\ faults < MaxFaults /\ faults' = faults + 1

probe_loadable ==
  /\ probe.loads # Nothing
  /\ probe' = [probe EXCEPT !.loads = Nothing]
  /\ \/ Loads(probe.loads) /\ UNCHANGED <<unsupported, faults>>
     \/ /\ ~Loads(probe.loads) /\ UNCHANGED faults
        /\ unsupported' = unsupported \cup {probe.loads}
     \/ /\ Refused(probe.loads)
        /\ unsupported' = unsupported \cup {probe.loads}
  /\ UNCHANGED <<config, disk, handles, waiting, main, edits, gone,
                 unheard, slots, lock, thread>>

-----------------------------------------------------------------------------
(* The pipeline and its completions. *)

\* A handle for a model: the file it resolves to, if that is there.
HandleOf(id) ==
  LET f == resolve_llm_id(id, disk, unsupported)
  IN  IF id # Nothing /\ f \in disk THEN f ELSE Nothing

\* local_polish and local_translate_pair (Settings has their reads apart).
Build ==
  /\ handles = None
  /\ handles' = [polish |-> HandleOf(config.polish),
                 dedicated |-> HandleOf(config.translate),
                 fallback |-> IF config.use_llm_fallback THEN HandleOf(config.polish)
                              ELSE Nothing]
  /\ unheard' = FALSE
  /\ UNCHANGED <<config, disk, waiting, probe, main, faults, edits, gone,
                 runVars>>

\* polish and translate_text: an error when the file has gone, else complete.
Complete ==
  /\ handles # None /\ ~waiting
  /\ \E c \in Calls, f \in {handles.polish, handles.dedicated, handles.fallback} :
       /\ thread[c] = NoThread /\ \A b \in Calls : b < c => thread[b] # NoThread
       /\ f \in disk
       /\ thread' = [thread EXCEPT ![c] = [at |-> "wait", model |-> f]]
  /\ waiting' = TRUE
  /\ UNCHANGED <<config, disk, handles, probe, main, faults, edits, gone,
                 unheard, slots, lock, unsupported>>

\* The dictation has its answer, or has waited for polish_timeout_ms.
CallEnds ==
  /\ waiting
  /\ waiting' = FALSE
  /\ UNCHANGED <<config, disk, handles, probe, main, faults, edits, gone,
                 unheard, runVars>>

\* run_blocking takes the lock; when the slots are full it throws out one of
\* them, whichever the map gives first.
Goto(c, s) == thread' = [thread EXCEPT ![c].at = s]
ThreadEnds(c) == thread' = [thread EXCEPT ![c] = NoThread] /\ lock' = None

\* Mutant of RunBlocking: the slots are full only beyond MAX_SLOTS.
RunBlockingOffByOne(c) ==
  /\ thread[c].at = "wait" /\ lock = None
  /\ lock' = c
  /\ IF thread[c].model \in slots THEN Goto(c, "decode") /\ UNCHANGED slots
     ELSE /\ Goto(c, "load")
          /\ IF Cardinality(slots) > MAX_SLOTS
             THEN \E victim \in slots : slots' = slots \ {victim}
             ELSE UNCHANGED slots
  /\ UNCHANGED <<config, disk, handles, waiting, probe, main, faults,
                 edits, gone, unheard, unsupported>>

RunBlocking(c) ==
  /\ thread[c].at = "wait" /\ lock = None
  /\ lock' = c
  /\ IF thread[c].model \in slots THEN Goto(c, "decode") /\ UNCHANGED slots
     ELSE /\ Goto(c, "load")
          /\ IF Cardinality(slots) >= MAX_SLOTS
             THEN \E victim \in slots : slots' = slots \ {victim}
             ELSE UNCHANGED slots
  /\ UNCHANGED <<config, disk, handles, waiting, probe, main, faults,
                 edits, gone, unheard, unsupported>>

\* The backend, which is initialised before the lock is taken, may refuse: an
\* error for this completion and nothing that is remembered.
BackendFails(c) ==
  /\ thread[c].at = "wait"
  /\ thread' = [thread EXCEPT ![c] = NoThread]
  /\ UNCHANGED <<config, disk, handles, waiting, probe, main, faults, edits, gone,
                 unheard, slots, lock, unsupported>>

LoadModel(c) ==
  /\ thread[c].at = "load"
  /\ Loads(thread[c].model)
  /\ slots' = slots \cup {thread[c].model}
  /\ Goto(c, "decode")
  /\ UNCHANGED <<config, disk, handles, waiting, probe, main, faults,
                 edits, gone, unheard, lock, unsupported>>

\* The file is remembered as one the binding cannot load, whatever the reason.
LoadFails(c) ==
  /\ thread[c].at = "load"
  /\ (~Loads(thread[c].model) /\ UNCHANGED faults) \/ Refused(thread[c].model)
  /\ unsupported' = unsupported \cup {thread[c].model}
  /\ ThreadEnds(c)
  /\ UNCHANGED <<config, disk, handles, waiting, probe, main, edits,
                 gone, unheard, slots>>

\* The text, or an error of the context, the template, the decoder, or no text.
Decode(c) ==
  /\ thread[c].at = "decode"
  /\ ThreadEnds(c)
  /\ UNCHANGED <<config, disk, handles, waiting, probe, main, faults,
                 edits, gone, unheard, slots, unsupported>>

-----------------------------------------------------------------------------
(* The settings page, on the main thread. *)

Edit == main = NoDelete /\ edits < MaxEdits /\ edits' = edits + 1

\* install_llm_model: the files that are missing.  Its invalidation of the
\* pipeline panics in the asynchronous task: the pipeline stays.
install_llm_model ==
  /\ Edit
  /\ \E id \in PolishIds \cup TranslateIds :
       /\ ~(FilesOf(id) \subseteq disk)
       /\ id \in {config.polish, config.translate}
       /\ disk' = disk \cup FilesOf(id)
       /\ gone' = gone \ FilesOf(id)
  /\ unheard' = (handles # None)
  /\ UNCHANGED <<config, handles, waiting, probe, main, faults, runVars>>

\* Mutant of set_active_model: the pipeline stays.
set_active_only ==
  /\ Edit
  /\ \/ \E m \in PolishIds : config' = [config EXCEPT !.polish = m]
     \/ \E m \in TranslateIds \cup {Nothing} : config' = [config EXCEPT !.translate = m]
  /\ UNCHANGED <<disk, handles, waiting, probe, main, faults, gone, unheard,
                 runVars>>

\* set_active_polish_model and set_active_translate_model, to the end.
set_active_model ==
  /\ Edit
  /\ \/ \E m \in PolishIds : config' = [config EXCEPT !.polish = m]
     \/ \E m \in TranslateIds \cup {Nothing} : config' = [config EXCEPT !.translate = m]
  /\ handles' = None
  /\ UNCHANGED <<disk, waiting, probe, main, faults, gone, unheard,
                 runVars>>

DeleteModel ==
  /\ Edit
  /\ \E id \in {config.polish, config.translate} \ {Nothing} :
       /\ is_llm_model_installed(id, disk)
       /\ main' = [at |-> "remove", id |-> id, files |-> llm_files(id)]
  /\ UNCHANGED <<config, disk, handles, waiting, probe, faults, gone,
                 unheard, runVars>>

\* delete_llm_model, a file at a time: removed, if nobody has it open (on
\* Windows a model that is in memory does) ...
RemoveFile ==
  /\ main.at = "remove" /\ main.files # <<>>
  /\ LET f == Head(main.files)
     IN  \/ disk' = disk \ {f}
         \/ f \in slots /\ UNCHANGED disk
  /\ main' = [main EXCEPT !.at = "evict"]
  /\ UNCHANGED <<config, handles, waiting, probe, faults, edits, gone, unheard,
                 runVars>>

Evicted == main' = [main EXCEPT !.at = "remove", !.files = Tail(@)]

\* Mutant of Evict: it does not wait for the lock.
EvictTry ==
  /\ main.at = "evict"
  /\ slots' = IF lock = None THEN slots \ {Head(main.files)} ELSE slots
  /\ gone' = gone \cup ({Head(main.files)} \ disk)
  /\ Evicted
  /\ UNCHANGED <<config, disk, handles, waiting, probe, faults, edits,
                 unheard, lock, unsupported, thread>>

\* ... and its weights thrown out, once the lock is free: a completion that
\* nobody waits for any more holds up the main thread here.
Evict ==
  /\ main.at = "evict" /\ lock = None
  /\ slots' = slots \ {Head(main.files)}
  /\ gone' = gone \cup ({Head(main.files)} \ disk)
  /\ Evicted
  /\ UNCHANGED <<config, disk, handles, waiting, probe, faults, edits,
                 unheard, lock, unsupported, thread>>

\* The configuration falls back to an installed model (Settings has the locks)
\* and the pipeline goes.
DeleteEnds ==
  /\ main.at = "remove" /\ main.files = <<>>
  /\ LET others(catalog) == delete_fallback_id(catalog, main.id, disk)
     IN  IF config.polish = main.id
         THEN \E m \in IF others(PolishIds) = {} THEN {main.id} ELSE others(PolishIds) :
                config' = [config EXCEPT !.polish = m]
         ELSE \E m \in IF others(TranslateIds) = {} THEN {Nothing}
                       ELSE others(TranslateIds) :
                config' = [config EXCEPT !.translate = m]
  /\ main' = NoDelete
  /\ handles' = None
  /\ UNCHANGED <<disk, waiting, probe, faults, edits, gone, unheard,
                 runVars>>

-----------------------------------------------------------------------------
Thread(c) == BackendFails(c) \/ RunBlocking(c) \/ LoadModel(c) \/ LoadFails(c) \/ Decode(c)

Page == install_llm_model \/ set_active_model \/ DeleteModel \/ RemoveFile \/ Evict
        \/ DeleteEnds

Next == \/ ProbeNext \/ probe_loadable
        \/ Build \/ Complete \/ CallEnds
        \/ \E c \in Calls : Thread(c)
        \/ Page

Spec == Init /\ [][Next]_vars

-----------------------------------------------------------------------------
(* Properties. *)

\* However many completions have been given up and still wait for the lock,
\* no more than MAX_SLOTS models are in memory, the one that is being loaded
\* for a completion among them.
ResidentBounded ==
  Cardinality(slots) + Cardinality({c \in Calls : thread[c].at = "load"}) <= MAX_SLOTS

\* A model that was deleted is not in memory, nor is it used: no completion
\* that was waiting for the lock brings it back.
DeletedIsGone ==
  main = NoDelete =>
    /\ gone \cap slots = {}
    /\ \A c \in Calls : thread[c].at = "decode" => thread[c].model \notin gone

\* has_local_translate: the check that lets a translation begin.
has_local_translate ==
  \/ HandleOf(config.translate) # Nothing
  \/ config.use_llm_fallback /\ HandleOf(config.polish) # Nothing

\* When the translation key finds a local model, the pipeline has one too, and
\* its file is there - though the check looks at the configuration and the disk
\* of now, and the pipeline was built from those of some earlier time.  Only a
\* model that was installed since is not in it.  (With the types.)
TranslateHasEngine ==
  LocalModelTypeOK /\
  ((main = NoDelete /\ handles # None /\ ~unheard /\ has_local_translate) =>
    {handles.dedicated, handles.fallback} \cap disk # {})

\* The recommended models fit: the memory left to them has room for all three,
\* no label advises against one of them, and the settings page does not show
\* more in use than there is.
RecommendedFits(m) ==
  LET r == recommend_defaults(m)
  IN  /\ compute_combo_tag(m, r.asr, r.polish, r.translate) # "not_recommended"
      /\ r.translate # Nothing =>
           compute_combo_tag(m, r.asr, r.translate, r.polish) # "not_recommended"
      /\ compute_model_tag(asr_approx_size(r.asr), m) # "not_recommended"
      /\ suite_used_bytes(r) <= combo_budget(m)

\* A speech model whose installation is complete connects, also after any other
\* model was deleted.
InstalledConnects(id) ==
  LET asr == normalize_asr_model_id(id)
  IN  \A other \in AsrIds \ {asr} :
        LET left == delete_local_asr_model(other, asr_model_files(asr)
                                                  \cup asr_model_files(other))
        IN  is_asr_model_installed(asr, left) /\ connects(asr, left)

\* Before the first dictation and the first change the suite runs as it was
\* recommended: the recommended models fit the machine, and every speech
\* model, one that an old configuration names among them, connects once it is
\* installed.
SuiteRuns ==
  (handles = None /\ edits = 0) =>
    /\ \A m \in Machines : RecommendedFits(m)
    /\ \A id \in AsrIds \cup OldAsrIds : InstalledConnects(id)

=============================================================================
