--------------------------- MODULE LocalModelProofs ---------------------------
(***************************************************************************)
(* Proofs about LocalModel: what is in memory stays within MAX_SLOTS, a    *)
(* model that was deleted neither comes back nor is used, and a            *)
(* translation that may begin finds its model in the pipeline, for any     *)
(* number of completions under way, failures and changes, and for any      *)
(* machine; and which machines the recommended suite fits.                 *)
(***************************************************************************)
EXTENDS LocalModel, FiniteSetTheorems, TLAPS

(* The invariant. *)

\* The threads are records, one for each completion.
Threads ==
  thread = [c \in Calls |-> [at |-> thread[c].at, model |-> thread[c].model]]

\* Whoever loads or decodes holds the lock.
Locked == \A c \in Calls : thread[c].at \in {"load", "decode"} => lock = c

\* What is decoded with is in memory.
Loaded == \A c \in Calls : thread[c].at = "decode" => thread[c].model \in slots

\* What was deleted is neither on the disk nor in memory.
Removed == gone \cap disk = {} /\ gone \cap slots = {}

\* There is room for what is being loaded.
Room ==
  /\ IsFiniteSet(slots) /\ Cardinality(slots) <= MAX_SLOTS
  /\ \A c \in Calls : thread[c].at = "load" => Cardinality(slots) < MAX_SLOTS

Inv == Threads /\ Locked /\ Loaded /\ Removed /\ Room

-----------------------------------------------------------------------------
(* What a step makes of a thread. *)

LEMMA GotoThread ==
  ASSUME Threads, NEW c \in Calls, NEW s, Goto(c, s)
  PROVE  /\ Threads'
         /\ \A b \in Calls : /\ thread'[b].model = thread[b].model
                             /\ thread'[b].at = IF b = c THEN s ELSE thread[b].at
BY DEF Threads, Goto

LEMMA EndThread ==
  ASSUME Threads, NEW c \in Calls, ThreadEnds(c)
  PROVE  /\ Threads' /\ lock' = None
         /\ \A b \in Calls : IF b = c THEN thread'[b].at = "none"
                             ELSE thread'[b] = thread[b]
BY DEF Threads, ThreadEnds, NoThread

\* A thread that neither loads nor decodes may end or begin to wait.
LEMMA NewThread ==
  ASSUME Threads, NEW c \in Calls, NEW f,
         thread' = [thread EXCEPT ![c] = [at |-> "wait", model |-> f]]
  PROVE  /\ Threads'
         /\ \A b \in Calls : IF b = c THEN thread'[b].at = "wait"
                             ELSE thread'[b] = thread[b]
BY DEF Threads

-----------------------------------------------------------------------------
(* Induction. *)

LEMMA InvInit == Init => Inv
<1> SUFFICES ASSUME Init PROVE Inv
  OBVIOUS
<1>1. thread = [c \in Calls |-> NoThread] /\ slots = {} /\ gone = {}
  BY Zenon DEF Init
<1>2. NoThread.at = "none" /\ NoThread = [at |-> NoThread.at, model |-> NoThread.model]
  BY DEF NoThread
<1>3. IsFiniteSet(slots) /\ Cardinality(slots) = 0
  BY <1>1, FS_EmptySet
<1> QED BY <1>1, <1>2, <1>3 DEF Inv, Threads, Locked, Loaded, Removed, Room, MAX_SLOTS

\* Steps of the probe, the dictation and the page that leave threads, slots and
\* the lock alone, and what was deleted off the disk.
LEMMA InvKept ==
  ASSUME Inv, UNCHANGED <<thread, slots, lock>>, gone' \cap disk' = {}, gone' \subseteq gone
  PROVE  Inv'
BY DEF Inv, Threads, Locked, Loaded, Removed, Room

LEMMA CompleteInv == ASSUME Inv, Complete PROVE Inv'
<1>1. PICK c \in Calls, f \in {handles.polish, handles.dedicated, handles.fallback} :
        thread' = [thread EXCEPT ![c] = [at |-> "wait", model |-> f]]
  BY Zenon DEF Complete
<1>2. UNCHANGED <<slots, lock, gone, disk>>
  BY Zenon DEF Complete
<1>3. /\ Threads'
      /\ \A b \in Calls : IF b = c THEN thread'[b].at = "wait"
                          ELSE thread'[b] = thread[b]
  BY <1>1, NewThread DEF Inv
<1> QED BY <1>2, <1>3 DEF Inv, Locked, Loaded, Removed, Room

\* The lock was free, so nobody loads or decodes; a victim makes room.
LEMMA RunInv == ASSUME Inv, NEW c \in Calls, RunBlocking(c) PROVE Inv'
<1>1. lock = None /\ lock' = c /\ UNCHANGED <<disk, gone>>
  BY Zenon DEF RunBlocking
<1>2. \A b \in Calls : thread[b].at \notin {"load", "decode"}
  BY <1>1, LocalModelAssumption DEF Inv, Locked, Calls
<1>3. CASE thread[c].model \in slots
  <2>1. Goto(c, "decode") /\ UNCHANGED slots
    BY <1>3, Zenon DEF RunBlocking
  <2>2. /\ Threads'
        /\ \A b \in Calls : /\ thread'[b].model = thread[b].model
                            /\ thread'[b].at = IF b = c THEN "decode" ELSE thread[b].at
    BY <2>1, GotoThread DEF Inv
  <2> QED BY <1>1, <1>2, <1>3, <2>1, <2>2 DEF Inv, Locked, Loaded, Removed, Room
<1>4. CASE thread[c].model \notin slots
  <2>1. Goto(c, "load")
    BY <1>4, Zenon DEF RunBlocking
  <2>2. /\ Threads'
        /\ \A b \in Calls : /\ thread'[b].model = thread[b].model
                            /\ thread'[b].at = IF b = c THEN "load" ELSE thread[b].at
    BY <2>1, GotoThread DEF Inv
  <2>3. IsFiniteSet(slots) /\ Cardinality(slots) \in Nat /\ Cardinality(slots) <= MAX_SLOTS
    BY FS_CardinalityType DEF Inv, Room
  <2>4. /\ slots' \subseteq slots /\ IsFiniteSet(slots')
        /\ Cardinality(slots') < MAX_SLOTS /\ Cardinality(slots') <= MAX_SLOTS
    <3>1. CASE Cardinality(slots) >= MAX_SLOTS
      <4>1. PICK victim \in slots : slots' = slots \ {victim}
        BY <1>4, <3>1, Zenon DEF RunBlocking
      <4>2. IsFiniteSet(slots') /\ Cardinality(slots') = Cardinality(slots) - 1
        BY <2>3, <4>1, FS_RemoveElement
      <4> QED BY <2>3, <3>1, <4>1, <4>2 DEF MAX_SLOTS
    <3>2. CASE ~(Cardinality(slots) >= MAX_SLOTS)
      <4>1. UNCHANGED slots
        BY <1>4, <3>2, Zenon DEF RunBlocking
      <4> QED BY <2>3, <3>2, <4>1 DEF MAX_SLOTS
    <3> QED BY <3>1, <3>2
  <2> QED BY <1>1, <1>2, <2>2, <2>4 DEF Inv, Locked, Loaded, Removed, Room
<1> QED BY <1>3, <1>4

\* What is loaded is on the disk, so it was not deleted; only the loader had
\* the lock, and there was room.
LEMMA LoadInv == ASSUME Inv, NEW c \in Calls, LoadModel(c) PROVE Inv'
<1>1. /\ thread[c].at = "load" /\ thread[c].model \in disk
      /\ slots' = slots \cup {thread[c].model} /\ Goto(c, "decode")
      /\ UNCHANGED <<disk, gone, lock>>
  BY Zenon DEF LoadModel, Loads
<1>2. /\ Threads'
      /\ \A b \in Calls : /\ thread'[b].model = thread[b].model
                          /\ thread'[b].at = IF b = c THEN "decode" ELSE thread[b].at
  BY <1>1, GotoThread DEF Inv
<1>3. \A b \in Calls : b # c => thread[b].at \notin {"load", "decode"}
  BY <1>1 DEF Inv, Locked
<1>4. IsFiniteSet(slots') /\ Cardinality(slots') <= MAX_SLOTS
  <2>1. /\ IsFiniteSet(slots) /\ Cardinality(slots) \in Nat
        /\ Cardinality(slots) < MAX_SLOTS
    BY <1>1, FS_CardinalityType DEF Inv, Room
  <2>2. /\ IsFiniteSet(slots')
        /\ Cardinality(slots') = Cardinality(slots)
           \/ Cardinality(slots') = Cardinality(slots) + 1
    BY <1>1, <2>1, FS_AddElement
  <2> QED BY <2>1, <2>2 DEF MAX_SLOTS
<1> QED BY <1>1, <1>2, <1>3, <1>4 DEF Inv, Locked, Loaded, Removed, Room

LEMMA EndInv ==
  ASSUME Inv, NEW c \in Calls, ThreadEnds(c), thread[c].at \in {"load", "decode"},
         UNCHANGED <<disk, gone, slots>>
  PROVE  Inv'
<1>1. /\ Threads' /\ lock' = None
      /\ \A b \in Calls : IF b = c THEN thread'[b].at = "none"
                          ELSE thread'[b] = thread[b]
  BY EndThread DEF Inv
<1>2. \A b \in Calls : b # c => thread[b].at \notin {"load", "decode"}
  BY DEF Inv, Locked
<1> QED BY <1>1, <1>2 DEF Inv, Locked, Loaded, Removed, Room

\* Who gives up before the lock neither loads nor decodes.
LEMMA BackendInv == ASSUME Inv, NEW c \in Calls, BackendFails(c) PROVE Inv'
<1>1. /\ thread[c].at = "wait" /\ thread' = [thread EXCEPT ![c] = NoThread]
      /\ UNCHANGED <<disk, gone, slots, lock>>
  BY Zenon DEF BackendFails
<1>2. /\ Threads'
      /\ \A b \in Calls : IF b = c THEN thread'[b].at = "none"
                          ELSE thread'[b] = thread[b]
  BY <1>1 DEF Inv, Threads, NoThread
<1> QED BY <1>1, <1>2 DEF Inv, Locked, Loaded, Removed, Room

\* The lock is free, so nobody decodes with what is thrown out.
LEMMA EvictInv == ASSUME Inv, Evict PROVE Inv'
<1> DEFINE h == Head(main.files)
<1>1. /\ lock = None /\ slots' = slots \ {h} /\ gone' = gone \cup ({h} \ disk)
      /\ UNCHANGED <<disk, lock, thread>>
  BY Zenon DEF Evict
<1> HIDE DEF h
<1>2. \A b \in Calls : thread[b].at \notin {"load", "decode"}
  BY <1>1, LocalModelAssumption DEF Inv, Locked, Calls
<1>3. IsFiniteSet(slots') /\ Cardinality(slots') <= MAX_SLOTS
  <2>1. /\ IsFiniteSet(slots) /\ Cardinality(slots) \in Nat
        /\ Cardinality(slots) <= MAX_SLOTS
    BY FS_CardinalityType DEF Inv, Room
  <2>2. /\ IsFiniteSet(slots')
        /\ Cardinality(slots') = Cardinality(slots)
           \/ Cardinality(slots') = Cardinality(slots) - 1
    BY <1>1, <2>1, FS_RemoveElement
  <2> QED BY <2>1, <2>2 DEF MAX_SLOTS
<1> QED BY <1>1, <1>2, <1>3 DEF Inv, Threads, Locked, Loaded, Removed, Room

LEMMA InvStep == Inv /\ [Next]_vars => Inv'
<1> SUFFICES ASSUME Inv, [Next]_vars PROVE Inv'
  OBVIOUS
<1> USE InvKept
<1>0. gone \cap disk = {}
  BY DEF Inv, Removed
<1>1. CASE ProbeNext
  BY <1>0, <1>1, Zenon DEF ProbeNext, runVars
<1>2. CASE probe_loadable
  BY <1>0, <1>2, Zenon DEF probe_loadable
<1>3. CASE Build
  BY <1>0, <1>3, Zenon DEF Build, runVars
<1>4. CASE Complete
  BY <1>4, CompleteInv
<1>5. CASE CallEnds
  BY <1>0, <1>5, Zenon DEF CallEnds, runVars
<1>6. ASSUME NEW c \in Calls, RunBlocking(c) PROVE Inv'
  BY <1>6, RunInv
<1>7. ASSUME NEW c \in Calls, LoadModel(c) PROVE Inv'
  BY <1>7, LoadInv
<1>8. ASSUME NEW c \in Calls, LoadFails(c) PROVE Inv'
  BY <1>8, EndInv, Zenon DEF LoadFails
<1>9. ASSUME NEW c \in Calls, Decode(c) PROVE Inv'
  BY <1>9, EndInv, Zenon DEF Decode
<1>17. ASSUME NEW c \in Calls, BackendFails(c) PROVE Inv'
  BY <1>17, BackendInv
<1>10. CASE install_llm_model
  <2>1. PICK id : disk' = disk \cup FilesOf(id) /\ gone' = gone \ FilesOf(id)
    BY <1>10, Zenon DEF install_llm_model
  <2>2. gone' \cap disk' = {} /\ gone' \subseteq gone
    BY <1>0, <2>1
  <2>3. UNCHANGED <<thread, slots, lock>>
    BY <1>10, Zenon DEF install_llm_model, runVars
  <2> QED BY <2>2, <2>3, Zenon
<1>11. CASE set_active_model
  BY <1>0, <1>11, Zenon DEF set_active_model, runVars
<1>12. CASE DeleteModel
  BY <1>0, <1>12, Zenon DEF DeleteModel, runVars
<1>13. CASE RemoveFile
  <2>1. disk' \subseteq disk
    <3>1. disk' = disk \ {Head(main.files)} \/ disk' = disk
      BY <1>13, Zenon DEF RemoveFile
    <3> QED BY <3>1
  <2>2. UNCHANGED <<gone, thread, slots, lock>>
    BY <1>13, Zenon DEF RemoveFile, runVars
  <2>3. gone' \cap disk' = {} /\ gone' \subseteq gone
    BY <1>0, <2>1, <2>2
  <2> QED BY <2>2, <2>3, Zenon
<1>14. CASE Evict
  BY <1>14, EvictInv
<1>15. CASE DeleteEnds
  BY <1>0, <1>15, Zenon DEF DeleteEnds, runVars
<1>16. CASE UNCHANGED vars
  BY <1>0, <1>16, Zenon DEF vars, runVars
<1> QED BY <1>1, <1>2, <1>3, <1>4, <1>5, <1>6, <1>7, <1>8, <1>9, <1>10, <1>11, <1>12,
           <1>13, <1>14, <1>15, <1>16, <1>17, Zenon DEF Next, Thread, Page

LEMMA Invariance == Spec => []Inv
<1> QED BY InvInit, InvStep, PTL DEF Spec

-----------------------------------------------------------------------------
(* What follows. *)

\* No more than MAX_SLOTS models are in memory or on their way into it, however
\* many completions have been given up and still wait for the lock.
THEOREM MemoryIsBounded == Spec => []ResidentBounded
<1>1. Inv => ResidentBounded
  <2> SUFFICES ASSUME Inv PROVE ResidentBounded
    OBVIOUS
  <2> DEFINE loading == {c \in Calls : thread[c].at = "load"}
  <2>1. /\ IsFiniteSet(slots) /\ Cardinality(slots) \in Nat
        /\ Cardinality(slots) <= MAX_SLOTS
    BY FS_CardinalityType DEF Inv, Room
  <2>2. CASE loading = {}
    <3>1. Cardinality(loading) = 0
      BY <2>2, FS_EmptySet
    <3> QED BY <2>1, <3>1 DEF ResidentBounded, MAX_SLOTS
  <2>3. ASSUME NEW c \in loading PROVE ResidentBounded
    <3>1. loading = {c}
      BY <2>3 DEF Inv, Locked
    <3>2. Cardinality(loading) = 1
      BY <3>1, FS_Singleton
    <3>3. Cardinality(slots) < MAX_SLOTS
      BY <2>3 DEF Inv, Room
    <3> QED BY <2>1, <3>2, <3>3 DEF ResidentBounded, MAX_SLOTS
  <2> QED BY <2>2, <2>3
<1> QED BY <1>1, Invariance, PTL

\* A model that was deleted is neither in memory nor used, whichever completions
\* waited while it was deleted.
THEOREM DeletedStaysGone == Spec => []DeletedIsGone
<1>1. Inv => DeletedIsGone
  BY DEF Inv, Loaded, Removed, DeletedIsGone
<1> QED BY <1>1, Invariance, PTL

-----------------------------------------------------------------------------
(* The ids of the catalogues. *)

LEMMA Catalogue ==
  /\ PolishIds = {"qwen08", "qwen2", "qwen4"}
  /\ TranslateIds = {"milmmt", "hymt"}
  /\ Ids = PolishIds \cup TranslateIds \cup {"qwen3_06", "qwen3_17", "qwen3_4"}
  /\ Nothing \notin Ids
<1>1. /\ PolishIds = {"qwen08", "qwen2", "qwen4"}
      /\ TranslateIds = {"milmmt", "hymt"}
      /\ Ids = PolishIds \cup TranslateIds \cup {"qwen3_06", "qwen3_17", "qwen3_4"}
  BY DEF PolishIds, TranslateIds, Ids, polish_catalog, translate_catalog, fallback_catalog
<1> QED BY <1>1 DEF Nothing

-----------------------------------------------------------------------------
(* Types.  Whoever is in a completion has a model, and the deletion has a file *)
(* whose weights are to be thrown out.                                         *)

Busy ==
  /\ \A c \in Calls : thread[c].at # "none" => thread[c].model \in Ids
  /\ main.at = "evict" => main.files # <<>>

Types == LocalModelTypeOK /\ Busy

LEMMA LlmFiles ==
  ASSUME NEW id \in PolishIds \cup TranslateIds
  PROVE  llm_files(id) \in Seq(Ids) /\ FilesOf(id) \subseteq Ids
<1>1. id \in Ids
  BY DEF Ids
<1>2. llm_model_by_id(id).fallback \in Ids \cup {Nothing}
  <2>1. CASE id \in PolishIds
    <3>1. llm_model_by_id(id) = polish_catalog[id]
      BY <2>1, Catalogue DEF llm_model_by_id
    <3>2. polish_catalog[id].fallback \in {"qwen3_06", "qwen3_17", "qwen3_4"}
      BY <2>1, Catalogue DEF polish_catalog, Entry
    <3> QED BY <3>1, <3>2, Catalogue
  <2>2. CASE id \in TranslateIds
    <3>1. llm_model_by_id(id) = translate_catalog[id]
      BY <2>2, Catalogue DEF llm_model_by_id
    <3>2. translate_catalog[id].fallback = Nothing
      BY <2>2, Catalogue DEF translate_catalog, Entry
    <3> QED BY <3>1, <3>2
  <2> QED BY <2>1, <2>2
<1> DEFINE f == llm_model_by_id(id).fallback
<1> HIDE DEF f
<1>3. llm_files(id) = <<id>> \o (IF f = Nothing THEN <<>> ELSE <<f>>)
  BY Zenon DEF llm_files, f
<1>4. llm_files(id) \in Seq(Ids)
  <2>1. <<id>> \in Seq(Ids) /\ <<>> \in Seq(Ids)
    BY <1>1
  <2>2. CASE f = Nothing
    BY <1>3, <2>1, <2>2
  <2>3. CASE f \in Ids
    <3>1. <<f>> \in Seq(Ids)
      BY <2>3
    <3> QED BY <1>3, <2>1, <3>1
  <2> QED BY <1>2, <2>2, <2>3 DEF f
<1> QED BY <1>4 DEF FilesOf

LEMMA RecommendedIds ==
  ASSUME NEW m
  PROVE  LET r == recommend_defaults(m)
         IN  /\ r.polish \in PolishIds /\ r.translate \in TranslateIds \cup {Nothing}
             /\ r.use_llm_fallback \in BOOLEAN
BY Catalogue DEF recommend_defaults

LEMMA TypesInit == Init => Types
<1> SUFFICES ASSUME Init PROVE Types
  OBVIOUS
<1>1. PICK r \in {recommend_defaults(m) : m \in Here} :
        /\ config = [polish |-> r.polish, translate |-> r.translate,
                     use_llm_fallback |-> r.use_llm_fallback]
        /\ disk \in SUBSET (FilesOf(r.polish) \cup ({r.translate} \ {Nothing}))
        /\ probe = [left |-> IF r.translate = Nothing THEN <<r.polish>>
                             ELSE <<r.polish, r.translate>>,
                    loads |-> Nothing]
  BY Zenon DEF Init
<1>2. /\ slots = {} /\ lock = None /\ unsupported = {} /\ handles = None
      /\ thread = [c \in Calls |-> NoThread] /\ waiting = FALSE /\ main = NoDelete
      /\ faults = 0 /\ edits = 0 /\ gone = {} /\ unheard = FALSE
  BY Zenon DEF Init
<1>3. /\ r.polish \in PolishIds /\ r.translate \in TranslateIds \cup {Nothing}
      /\ r.use_llm_fallback \in BOOLEAN
  BY RecommendedIds, Zenon
<1>4. config \in Config
  BY <1>1, <1>3 DEF Config
<1>5. FilesOf(r.polish) \subseteq Ids
  BY <1>3, LlmFiles, Zenon
<1>6. disk \subseteq Ids
  BY <1>1, <1>3, <1>5 DEF Ids
<1>7. probe \in [left : Seq(PolishIds \cup TranslateIds), loads : Ids \cup {Nothing}]
  <2>1. r.polish \in PolishIds \cup TranslateIds
    BY <1>3
  <2>2. <<r.polish>> \in Seq(PolishIds \cup TranslateIds)
    BY <2>1
  <2>3. ASSUME r.translate # Nothing
        PROVE  <<r.polish, r.translate>> \in Seq(PolishIds \cup TranslateIds)
    BY <1>3, <2>1, <2>3
  <2>4. probe.left \in Seq(PolishIds \cup TranslateIds)
    BY <1>1, <2>2, <2>3
  <2> QED BY <1>1, <2>4
<1>8. main \in [at : {"idle", "remove", "evict"}, id : Ids \cup {Nothing},
                files : Seq(Ids)]
      /\ main.at # "evict"
  BY <1>2 DEF NoDelete
<1>9. thread \in [Calls -> [at : {"none", "wait", "load", "decode"},
                            model : Ids \cup {Nothing}]]
      /\ \A c \in Calls : thread[c].at = "none"
  BY <1>2 DEF NoThread
<1>10. faults \in 0..MaxFaults /\ edits \in 0..MaxEdits
  BY <1>2, LocalModelAssumption
<1> QED BY <1>2, <1>4, <1>6, <1>7, <1>8, <1>9, <1>10 DEF Types, Busy, LocalModelTypeOK

LEMMA HandleTyped ==
  ASSUME disk \subseteq Ids, NEW id
  PROVE  HandleOf(id) \in Ids \cup {Nothing}
BY Zenon DEF HandleOf

LEMMA ProbeTypes == ASSUME Types, ProbeNext \/ probe_loadable PROVE Types'
<1>1. CASE ProbeNext
  <2>1. PICK f : /\ probe.left # <<>>
                 /\ probe' = [left |-> Tail(probe.left),
                              loads |-> IF f \in disk THEN f ELSE Nothing]
    BY <1>1, Zenon DEF ProbeNext
  <2>2. /\ probe \in [left : Seq(PolishIds \cup TranslateIds), loads : Ids \cup {Nothing}]
        /\ disk \subseteq Ids
    BY DEF Types, LocalModelTypeOK
  <2>3. Tail(probe.left) \in Seq(PolishIds \cup TranslateIds)
    BY <2>1, <2>2
  <2>4. probe' \in [left : Seq(PolishIds \cup TranslateIds), loads : Ids \cup {Nothing}]
    BY <2>1, <2>2, <2>3
  <2>5. UNCHANGED <<config, disk, slots, lock, unsupported, handles, thread, waiting, main,
                    faults, edits, gone, unheard>>
    BY <1>1, Zenon DEF ProbeNext, runVars
  <2> QED BY <2>4, <2>5 DEF Types, Busy, LocalModelTypeOK
<1>2. CASE probe_loadable
  <2>1. probe \in [left : Seq(PolishIds \cup TranslateIds), loads : Ids \cup {Nothing}]
        /\ unsupported \subseteq Ids /\ faults \in 0..MaxFaults
    BY DEF Types, LocalModelTypeOK
  <2>2. probe' = [probe EXCEPT !.loads = Nothing] /\ probe.loads # Nothing
    BY <1>2, Zenon DEF probe_loadable
  <2>3. probe' \in [left : Seq(PolishIds \cup TranslateIds), loads : Ids \cup {Nothing}]
        /\ probe.loads \in Ids
    BY <2>1, <2>2
  <2>4. \/ UNCHANGED <<unsupported, faults>>
        \/ unsupported' = unsupported \cup {probe.loads} /\ UNCHANGED faults
        \/ /\ unsupported' = unsupported \cup {probe.loads}
           /\ faults < MaxFaults /\ faults' = faults + 1
    BY <1>2, Zenon DEF probe_loadable, Refused
  <2>5. unsupported' \subseteq Ids
    BY <2>1, <2>3, <2>4
  <2>6. faults' \in 0..MaxFaults
    BY <2>1, <2>4, LocalModelAssumption
  <2>7. UNCHANGED <<config, disk, slots, lock, handles, thread, waiting, main, edits, gone,
                    unheard>>
    BY <1>2, Zenon DEF probe_loadable
  <2> QED BY <2>3, <2>5, <2>6, <2>7 DEF Types, Busy, LocalModelTypeOK
<1> QED BY <1>1, <1>2

LEMMA PipelineTypes == ASSUME Types, Build \/ Complete \/ CallEnds PROVE Types'
<1>0. disk \subseteq Ids
  BY DEF Types, LocalModelTypeOK
<1>1. CASE Build
  <2>1. handles' = [polish |-> HandleOf(config.polish),
                    dedicated |-> HandleOf(config.translate),
                    fallback |-> IF config.use_llm_fallback THEN HandleOf(config.polish)
                                 ELSE Nothing]
    BY <1>1, Zenon DEF Build
  <2>2. handles' \in Handles
    BY <1>0, <2>1, HandleTyped DEF Handles
  <2>3. unheard' = FALSE
        /\ UNCHANGED <<config, disk, slots, lock, unsupported, thread, waiting, probe, main,
                       faults, edits, gone>>
    BY <1>1, Zenon DEF Build, runVars
  <2> QED BY <2>2, <2>3 DEF Types, Busy, LocalModelTypeOK
<1>2. CASE Complete
  <2>1. PICK c \in Calls, f \in {handles.polish, handles.dedicated, handles.fallback} :
          f \in disk /\ thread' = [thread EXCEPT ![c] = [at |-> "wait", model |-> f]]
    BY <1>2, Zenon DEF Complete
  <2>2. thread \in [Calls -> [at : {"none", "wait", "load", "decode"},
                              model : Ids \cup {Nothing}]]
        /\ \A b \in Calls : thread[b].at # "none" => thread[b].model \in Ids
    BY DEF Types, Busy, LocalModelTypeOK
  <2>3. thread' \in [Calls -> [at : {"none", "wait", "load", "decode"},
                               model : Ids \cup {Nothing}]]
    BY <1>0, <2>1, <2>2
  <2>4. \A b \in Calls : thread'[b].at # "none" => thread'[b].model \in Ids
    BY <1>0, <2>1, <2>2
  <2>5. waiting' = TRUE
        /\ UNCHANGED <<config, disk, slots, lock, unsupported, handles, probe, main,
                       faults, edits, gone, unheard>>
    BY <1>2, Zenon DEF Complete
  <2> QED BY <2>3, <2>4, <2>5 DEF Types, Busy, LocalModelTypeOK
<1>3. CASE CallEnds
  <2>1. waiting' = FALSE
        /\ UNCHANGED <<config, disk, slots, lock, unsupported, handles, probe, main,
                       faults, edits, gone, unheard, thread>>
    BY <1>3, Zenon DEF CallEnds, runVars
  <2> QED BY <2>1 DEF Types, Busy, LocalModelTypeOK
<1> QED BY <1>1, <1>2, <1>3

\* A thread goes on, or ends.
LEMMA ThreadMoves ==
  ASSUME Types, NEW c \in Calls,
         \/ \E s \in {"load", "decode"} : Goto(c, s) /\ thread[c].at # "none"
         \/ ThreadEnds(c)
  PROVE  /\ thread' \in [Calls -> [at : {"none", "wait", "load", "decode"},
                                  model : Ids \cup {Nothing}]]
         /\ \A b \in Calls : thread'[b].at # "none" => thread'[b].model \in Ids
<1>1. thread \in [Calls -> [at : {"none", "wait", "load", "decode"},
                            model : Ids \cup {Nothing}]]
      /\ \A b \in Calls : thread[b].at # "none" => thread[b].model \in Ids
  BY DEF Types, Busy, LocalModelTypeOK
<1>2. ASSUME NEW s \in {"load", "decode"}, Goto(c, s), thread[c].at # "none"
      PROVE  /\ thread' \in [Calls -> [at : {"none", "wait", "load", "decode"},
                                      model : Ids \cup {Nothing}]]
             /\ \A b \in Calls : thread'[b].at # "none" => thread'[b].model \in Ids
  BY <1>1, <1>2 DEF Goto
<1>3. CASE ThreadEnds(c)
  BY <1>1, <1>3 DEF ThreadEnds, NoThread
<1> QED BY <1>2, <1>3

LEMMA ThreadTypes == ASSUME Types, NEW c \in Calls, Thread(c) PROVE Types'
<1>0. slots \subseteq Ids /\ disk \subseteq Ids /\ unsupported \subseteq Ids
      /\ faults \in 0..MaxFaults
  BY DEF Types, LocalModelTypeOK
<1>1. CASE RunBlocking(c)
  <2>1. thread[c].at # "none" /\ (Goto(c, "decode") \/ Goto(c, "load")) /\ lock' = c
    BY <1>1, Zenon DEF RunBlocking
  <2>2. slots' \subseteq slots
    BY <1>1 DEF RunBlocking
  <2>3. UNCHANGED <<config, disk, unsupported, handles, waiting, probe, main, faults, edits,
                    gone, unheard>>
    BY <1>1, Zenon DEF RunBlocking
  <2> QED BY <1>0, <2>1, <2>2, <2>3, ThreadMoves DEF Types, Busy, LocalModelTypeOK
<1>2. CASE LoadModel(c)
  <2>1. /\ thread[c].at # "none" /\ Goto(c, "decode")
        /\ slots' = slots \cup {thread[c].model} /\ thread[c].model \in disk
    BY <1>2, Zenon DEF LoadModel, Loads
  <2>2. slots' \subseteq Ids
    BY <1>0, <2>1
  <2>3. UNCHANGED <<config, disk, unsupported, handles, waiting, probe, main, faults, edits,
                    gone, unheard, lock>>
    BY <1>2, Zenon DEF LoadModel
  <2> QED BY <2>1, <2>2, <2>3, ThreadMoves DEF Types, Busy, LocalModelTypeOK
<1>3. CASE LoadFails(c)
  <2>1. /\ thread[c].at # "none" /\ ThreadEnds(c)
        /\ unsupported' = unsupported \cup {thread[c].model}
    BY <1>3, Zenon DEF LoadFails
  <2>2. thread[c].model \in Ids
    BY <2>1 DEF Types, Busy
  <2>3. unsupported' \subseteq Ids
    BY <1>0, <2>1, <2>2
  <2>4. faults' = faults \/ (faults < MaxFaults /\ faults' = faults + 1)
    BY <1>3, Zenon DEF LoadFails, Refused
  <2>5. faults' \in 0..MaxFaults
    BY <1>0, <2>4, LocalModelAssumption
  <2>6. UNCHANGED <<config, disk, slots, handles, waiting, probe, main, edits, gone, unheard>>
    BY <1>3, Zenon DEF LoadFails
  <2>7. lock' = None
    BY <2>1 DEF ThreadEnds
  <2> QED BY <2>1, <2>3, <2>5, <2>6, <2>7, ThreadMoves DEF Types, Busy, LocalModelTypeOK
<1>4. CASE Decode(c)
  <2>1. ThreadEnds(c) /\ UNCHANGED <<config, disk, slots, unsupported, handles, waiting, probe,
                                     main, faults, edits, gone, unheard>>
    BY <1>4, Zenon DEF Decode
  <2>2. lock' = None
    BY <2>1 DEF ThreadEnds
  <2> QED BY <2>1, <2>2, ThreadMoves DEF Types, Busy, LocalModelTypeOK
<1>5. CASE BackendFails(c)
  <2>1. thread' = [thread EXCEPT ![c] = NoThread]
        /\ UNCHANGED <<config, disk, slots, lock, unsupported, handles, waiting, probe,
                       main, faults, edits, gone, unheard>>
    BY <1>5, Zenon DEF BackendFails
  <2>2. /\ thread' \in [Calls -> [at : {"none", "wait", "load", "decode"},
                                  model : Ids \cup {Nothing}]]
        /\ \A b \in Calls : thread'[b].at # "none" => thread'[b].model \in Ids
    BY <2>1 DEF NoThread, Types, Busy, LocalModelTypeOK
  <2> QED BY <2>1, <2>2 DEF Types, Busy, LocalModelTypeOK
<1> QED BY <1>1, <1>2, <1>3, <1>4, <1>5, Zenon DEF Thread

LEMMA EditTypes ==
  ASSUME Types, Edit
  PROVE  edits' \in 0..MaxEdits /\ main = NoDelete
BY LocalModelAssumption DEF Types, LocalModelTypeOK, Edit

\* What a choice and the fallback of a deletion leave in the configuration.
LEMMA ConfigTyped ==
  ASSUME config \in Config,
         \/ \E m \in PolishIds : config' = [config EXCEPT !.polish = m]
         \/ \E m \in TranslateIds \cup {Nothing} :
              config' = [config EXCEPT !.translate = m]
  PROVE  config' \in Config
BY DEF Config

LEMMA ChoiceTypes == ASSUME Types, set_active_model \/ install_llm_model PROVE Types'
<1>0. config \in Config /\ disk \subseteq Ids /\ gone \subseteq Ids
  BY DEF Types, LocalModelTypeOK
<1>1. CASE set_active_model
  <2>1. config' \in Config
    BY <1>0, <1>1, ConfigTyped, Zenon DEF set_active_model
  <2>2. edits' \in 0..MaxEdits
    BY <1>1, EditTypes, Zenon DEF set_active_model
  <2>3. handles' = None
        /\ UNCHANGED <<disk, slots, lock, unsupported, thread, waiting, probe, main, faults,
                       gone, unheard>>
    BY <1>1, Zenon DEF set_active_model, runVars
  <2> QED BY <2>1, <2>2, <2>3 DEF Types, Busy, LocalModelTypeOK
<1>2. CASE install_llm_model
  <2>1. PICK id \in PolishIds \cup TranslateIds :
          disk' = disk \cup FilesOf(id) /\ gone' = gone \ FilesOf(id)
    BY <1>2, Zenon DEF install_llm_model
  <2>2. disk' \subseteq Ids /\ gone' \subseteq Ids
    BY <1>0, <2>1, LlmFiles
  <2>3. edits' \in 0..MaxEdits
    BY <1>2, EditTypes, Zenon DEF install_llm_model
  <2>4. unheard' \in BOOLEAN
    BY <1>2 DEF install_llm_model
  <2>5. UNCHANGED <<config, slots, lock, unsupported, handles, thread, waiting, probe, main,
                    faults>>
    BY <1>2, Zenon DEF install_llm_model, runVars
  <2> QED BY <2>2, <2>3, <2>4, <2>5 DEF Types, Busy, LocalModelTypeOK
<1> QED BY <1>1, <1>2

LEMMA DeleteTypes ==
  ASSUME Types, DeleteModel \/ RemoveFile \/ Evict \/ DeleteEnds
  PROVE  Types'
<1> DEFINE Mains == [at : {"idle", "remove", "evict"}, id : Ids \cup {Nothing},
                     files : Seq(Ids)]
<1>0. /\ config \in Config
      /\ disk \subseteq Ids /\ gone \subseteq Ids /\ slots \subseteq Ids
      /\ main \in Mains /\ (main.at = "evict" => main.files # <<>>)
  BY DEF Types, Busy, LocalModelTypeOK
<1>1. CASE DeleteModel
  <2>1. PICK id \in {config.polish, config.translate} \ {Nothing} :
          main' = [at |-> "remove", id |-> id, files |-> llm_files(id)]
    BY <1>1, Zenon DEF DeleteModel
  <2>2. id \in PolishIds \cup TranslateIds
    BY <1>0, <2>1 DEF Config
  <2>3. id \in Ids /\ llm_files(id) \in Seq(Ids)
    BY <2>2, LlmFiles, Zenon DEF Ids
  <2>4. main' \in Mains /\ main'.at # "evict"
    BY <2>1, <2>3
  <2>5. edits' \in 0..MaxEdits
    BY <1>1, EditTypes, Zenon DEF DeleteModel
  <2>6. UNCHANGED <<config, disk, slots, lock, unsupported, handles, thread, waiting, probe,
                    faults, gone, unheard>>
    BY <1>1, Zenon DEF DeleteModel, runVars
  <2> QED BY <2>4, <2>5, <2>6 DEF Types, Busy, LocalModelTypeOK
<1>2. CASE RemoveFile
  <2>1. main.files # <<>> /\ main' = [main EXCEPT !.at = "evict"]
        /\ (disk' = disk \ {Head(main.files)} \/ disk' = disk)
    BY <1>2, Zenon DEF RemoveFile
  <2>2. main' \in Mains /\ main'.files # <<>>
    BY <1>0, <2>1
  <2>3. disk' \subseteq Ids
    BY <1>0, <2>1
  <2>4. UNCHANGED <<config, slots, lock, unsupported, handles, thread, waiting, probe, faults,
                    edits, gone, unheard>>
    BY <1>2, Zenon DEF RemoveFile, runVars
  <2> QED BY <2>2, <2>3, <2>4 DEF Types, Busy, LocalModelTypeOK
<1>3. CASE Evict
  <2>1. /\ main.at = "evict" /\ slots' = slots \ {Head(main.files)}
        /\ gone' = gone \cup ({Head(main.files)} \ disk)
        /\ main' = [main EXCEPT !.at = "remove", !.files = Tail(@)]
    BY <1>3, Zenon DEF Evict, Evicted
  <2>2. Head(main.files) \in Ids /\ Tail(main.files) \in Seq(Ids)
    BY <1>0, <2>1
  <2>3. main' \in Mains /\ main'.at = "remove"
    BY <1>0, <2>1, <2>2
  <2>4. slots' \subseteq Ids /\ gone' \subseteq Ids
    BY <1>0, <2>1, <2>2
  <2>5. UNCHANGED <<config, disk, lock, unsupported, handles, thread, waiting, probe, faults,
                    edits, unheard>>
    BY <1>3, Zenon DEF Evict
  <2> QED BY <2>3, <2>4, <2>5 DEF Types, Busy, LocalModelTypeOK
<1>4. CASE DeleteEnds
  <2>1. main' = NoDelete /\ handles' = None
        /\ UNCHANGED <<disk, slots, lock, unsupported, thread, waiting, probe, faults, edits,
                       gone, unheard>>
    BY <1>4, Zenon DEF DeleteEnds, runVars
  <2>2. main' \in Mains /\ main'.at # "evict"
    BY <2>1 DEF NoDelete
  <2> DEFINE others(catalog) == delete_fallback_id(catalog, main.id, disk)
  <2>3. \A catalog : others(catalog) \subseteq catalog
    BY DEF delete_fallback_id
  <2>4. config' \in Config
    <3>1. CASE config.polish = main.id
      <4>1. PICK m \in IF others(PolishIds) = {} THEN {main.id} ELSE others(PolishIds) :
              config' = [config EXCEPT !.polish = m]
        BY <1>4, <3>1, Zenon DEF DeleteEnds
      <4>2. m \in PolishIds
        BY <1>0, <2>3, <3>1, <4>1 DEF Config
      <4> QED BY <1>0, <4>1, <4>2, ConfigTyped, Zenon
    <3>2. CASE config.polish # main.id
      <4>1. PICK m \in IF others(TranslateIds) = {} THEN {Nothing}
                       ELSE others(TranslateIds) :
              config' = [config EXCEPT !.translate = m]
        BY <1>4, <3>2, Zenon DEF DeleteEnds
      <4>2. m \in TranslateIds \cup {Nothing}
        BY <2>3, <4>1
      <4> QED BY <1>0, <4>1, <4>2, ConfigTyped, Zenon
    <3> QED BY <3>1, <3>2
  <2> QED BY <2>1, <2>2, <2>4 DEF Types, Busy, LocalModelTypeOK
<1> QED BY <1>1, <1>2, <1>3, <1>4

LEMMA TypesStep == Types /\ [Next]_vars => Types'
<1>1. ASSUME Types, UNCHANGED vars PROVE Types'
  BY <1>1 DEF vars, runVars, Types, Busy, LocalModelTypeOK
<1> QED BY <1>1, ProbeTypes, PipelineTypes, ThreadTypes, ChoiceTypes, DeleteTypes, Zenon
        DEF Next, Page

LEMMA Typed == Spec => []Types
<1> QED BY TypesInit, TypesStep, PTL DEF Spec

-----------------------------------------------------------------------------
(* The pipeline's models.                                                     *)

\* A handle and the pipeline, made with the models that had failed by then.
HandleIn(id, d, failed) ==
  LET f == resolve_llm_id(id, d, failed)
  IN  IF id # Nothing /\ f \in d THEN f ELSE Nothing

PipelineOf(c, d, failed) ==
  [polish |-> HandleIn(c.polish, d, failed), dedicated |-> HandleIn(c.translate, d, failed),
   fallback |-> IF c.use_llm_fallback THEN HandleIn(c.polish, d, failed) ELSE Nothing]

\* The pipeline is the one of the configuration and the disk of now, as they were
\* seen when fewer models had failed to load - unless a model is being deleted or
\* one was installed without its hearing of it.
Fresh ==
  (main = NoDelete /\ handles # None /\ ~unheard) =>
    \E failed \in SUBSET unsupported : handles = PipelineOf(config, disk, failed)

\* A model that is found now was found when fewer had failed to load, itself or
\* its fallback.
LEMMA FoundEarlier ==
  ASSUME NEW id, NEW d, Nothing \notin d, NEW u, NEW failed \in SUBSET u,
         HandleIn(id, d, u) # Nothing
  PROVE  HandleIn(id, d, failed) \in d
<1> DEFINE fb == llm_model_by_id(id).fallback
<1> HIDE DEF fb
<1>1. \A v : resolve_llm_id(id, d, v) = IF id \notin d \ v /\ fb \in d \ v THEN fb ELSE id
  BY DEF resolve_llm_id, fb
<1> QED BY <1>1 DEF HandleIn

LEMMA FreshKept ==
  ASSUME Fresh, UNCHANGED <<config, disk, handles, main, unheard>>,
         unsupported \subseteq unsupported'
  PROVE  Fresh'
BY DEF Fresh

LEMMA FreshStep == Types /\ Fresh /\ [Next]_vars => Fresh'
<1> SUFFICES ASSUME Types, Fresh, [Next]_vars PROVE Fresh'
  OBVIOUS
<1> USE FreshKept
<1>1. CASE ProbeNext
  BY <1>1 DEF ProbeNext, runVars
<1>2. CASE probe_loadable
  <2>1. unsupported \subseteq unsupported'
    BY <1>2 DEF probe_loadable
  <2> QED BY <1>2, <2>1, Zenon DEF probe_loadable
<1>3. CASE Build
  <2>1. handles' = PipelineOf(config, disk, unsupported)
    BY <1>3, Zenon DEF Build, PipelineOf, HandleIn, HandleOf
  <2>2. UNCHANGED <<config, disk, unsupported>>
    BY <1>3, Zenon DEF Build, runVars
  <2> QED BY <2>1, <2>2 DEF Fresh
<1>4. CASE Complete
  BY <1>4, Zenon DEF Complete
<1>5. CASE CallEnds
  BY <1>5 DEF CallEnds, runVars
<1>6. ASSUME NEW c \in Calls, Thread(c) PROVE Fresh'
  <2>1. unsupported \subseteq unsupported'
    BY <1>6 DEF Thread, BackendFails, RunBlocking, LoadModel, LoadFails, Decode
  <2>2. UNCHANGED <<config, disk, handles, main, unheard>>
    BY <1>6, Zenon DEF Thread, BackendFails, RunBlocking, LoadModel, LoadFails, Decode
  <2> QED BY <2>1, <2>2
<1>7. CASE install_llm_model
  <2>1. UNCHANGED handles /\ unheard' = (handles # None)
    BY <1>7, Zenon DEF install_llm_model
  <2> QED BY <2>1 DEF Fresh
<1>8. CASE set_active_model
  <2>1. handles' = None
    BY <1>8, Zenon DEF set_active_model
  <2> QED BY <2>1 DEF Fresh
<1>9. CASE DeleteModel \/ RemoveFile \/ Evict
  <2>1. main'.at \in {"remove", "evict"}
    <3>1. main \in [at : {"idle", "remove", "evict"}, id : Ids \cup {Nothing},
                    files : Seq(Ids)]
      BY DEF Types, LocalModelTypeOK
    <3>2. ASSUME NEW id, main' = [at |-> "remove", id |-> id, files |-> llm_files(id)]
          PROVE  main'.at \in {"remove", "evict"}
      BY <3>2
    <3>3. CASE main' = [main EXCEPT !.at = "evict"]
      BY <3>1, <3>3
    <3>4. CASE main' = [main EXCEPT !.at = "remove", !.files = Tail(@)]
      BY <3>1, <3>4
    <3> QED BY <1>9, <3>2, <3>3, <3>4, Zenon DEF DeleteModel, RemoveFile, Evict, Evicted
  <2> QED BY <2>1 DEF Fresh, NoDelete
<1>10. CASE DeleteEnds
  <2>1. handles' = None
    BY <1>10, Zenon DEF DeleteEnds
  <2> QED BY <2>1 DEF Fresh
<1>11. CASE UNCHANGED vars
  BY <1>11 DEF vars, runVars
<1> QED BY <1>1, <1>2, <1>3, <1>4, <1>5, <1>6, <1>7, <1>8, <1>9, <1>10, <1>11, Zenon
        DEF Next, Page

\* When the translation key finds a local model, the pipeline that was built
\* earlier has one whose file is there.
THEOREM KeyFindsAnEngine == Spec => []TranslateHasEngine
<1>1. Init => Fresh
  BY Zenon DEF Init, Fresh
<1>2. Spec => []Fresh
  BY <1>1, FreshStep, Typed, PTL DEF Spec
<1>3. Types /\ Fresh => TranslateHasEngine
  <2> SUFFICES ASSUME Types, Fresh, main = NoDelete, handles # None, ~unheard,
                      has_local_translate
               PROVE  {handles.dedicated, handles.fallback} \cap disk # {}
    BY Zenon DEF TranslateHasEngine, Types
  <2>1. PICK failed \in SUBSET unsupported : handles = PipelineOf(config, disk, failed)
    BY DEF Fresh
  <2>2. Nothing \notin disk
    BY Catalogue DEF Types, LocalModelTypeOK
  <2>3. CASE HandleOf(config.translate) # Nothing
    <3>1. HandleIn(config.translate, disk, unsupported) # Nothing
      BY <2>3, Zenon DEF HandleOf, HandleIn
    <3>2. HandleIn(config.translate, disk, failed) \in disk
      BY <2>2, <3>1, FoundEarlier
    <3> QED BY <2>1, <3>2 DEF PipelineOf
  <2>4. CASE config.use_llm_fallback /\ HandleOf(config.polish) # Nothing
    <3>1. HandleIn(config.polish, disk, unsupported) # Nothing
      BY <2>4, Zenon DEF HandleOf, HandleIn
    <3>2. HandleIn(config.polish, disk, failed) \in disk
      BY <2>2, <3>1, FoundEarlier
    <3> QED BY <2>1, <2>4, <3>2 DEF PipelineOf
  <2> QED BY <2>3, <2>4, Zenon DEF has_local_translate
<1> QED BY <1>2, <1>3, Typed, PTL

-----------------------------------------------------------------------------
(* The recommended suite.                                                      *)

\* The memory the recommended models take.
LEMMA Sizes ==
  /\ llm_rss_bytes(Nothing) = 0
  /\ llm_rss_bytes("qwen08") = 615 /\ llm_rss_bytes("qwen2") = 1536
  /\ llm_rss_bytes("qwen4") = 2868 /\ llm_rss_bytes("milmmt") = 1127
<1>1. /\ llm_model_by_id("qwen08") = Entry("qwen3_06", 615)
      /\ llm_model_by_id("qwen2") = Entry("qwen3_17", 1536)
      /\ llm_model_by_id("qwen4") = Entry("qwen3_4", 2868)
  BY Catalogue DEF llm_model_by_id, polish_catalog
<1>2. llm_model_by_id("milmmt") = Entry(Nothing, 1127)
  BY Catalogue DEF llm_model_by_id, translate_catalog
<1>3. /\ llm_model_by_id("qwen08").rss = 615 /\ llm_model_by_id("qwen2").rss = 1536
      /\ llm_model_by_id("qwen4").rss = 2868 /\ llm_model_by_id("milmmt").rss = 1127
  BY <1>1, <1>2 DEF Entry
<1> QED BY <1>3 DEF llm_rss_bytes, Nothing

\* No recommended model is too slow for any machine.
LEMMA Speed ==
  ASSUME NEW m, NEW id \in {"qwen08", "qwen2", "qwen4", "milmmt"}
  PROVE  est_tps(chip_row(m), id) \in Nat /\ est_tps(chip_row(m), id) >= 15
<1> DEFINE r == chip_row(m)
<1>1. r \in {1, 2, 3}
  BY DEF chip_row
<1> HIDE DEF r
<1>3. /\ est_tps(r, "qwen08") = <<66, 85, 150>>[r]
      /\ est_tps(r, "qwen2") = <<39, 50, 89>>[r]
      /\ est_tps(r, "qwen4") = <<23, 29, 52>>[r]
      /\ est_tps(r, "milmmt") = <<29, 37, 89>>[r]
  BY Zenon DEF est_tps
<1>4. /\ <<66, 85, 150>>[r] \in Nat /\ <<66, 85, 150>>[r] >= 15
      /\ <<39, 50, 89>>[r] \in Nat /\ <<39, 50, 89>>[r] >= 15
      /\ <<23, 29, 52>>[r] \in Nat /\ <<23, 29, 52>>[r] >= 15
      /\ <<29, 37, 89>>[r] \in Nat /\ <<29, 37, 89>>[r] >= 15
  BY <1>1
<1>5. est_tps(r, id) \in Nat /\ est_tps(r, id) >= 15
  BY <1>3, <1>4
<1> QED BY <1>5 DEF r

\* What is left to the models, by the size of the machine.
LEMMA Budget ==
  ASSUME NEW m, NEW M \in Nat, M = m.mem, NEW B, B = combo_budget(m)
  PROVE  /\ B \in Nat
         /\ M < 9216 => B = IF M > 2560 THEN 2560 ELSE M
         /\ 9216 <= M /\ M < 17408 => B = M - 6144
         /\ 17408 <= M /\ M < 33792 => B = M - 8192
         /\ 33792 <= M => B = M - 10240
<1> DEFINE gb == M \div 1024
           rest == os_reserve(M)
<1> HIDE DEF gb, rest
<1>1. gb \in Nat
  BY DEF gb
<1>2. /\ gb <= 8 <=> M < 9216
      /\ gb \in 9..16 <=> 9216 <= M /\ M < 17408
      /\ gb \in 17..32 <=> 17408 <= M /\ M < 33792
      /\ gb > 32 <=> 33792 <= M
  BY <1>1 DEF gb
<1>3. rest = CASE gb <= 8 -> IF M > 2560 THEN M - 2560 ELSE 0
               [] gb \in 9..16  -> 6 * 1024
               [] gb \in 17..32 -> 8 * 1024
               [] OTHER -> 10 * 1024
  BY Zenon DEF rest, gb, os_reserve, Gb
<1>4. B = IF M > rest THEN M - rest ELSE 0
  BY Zenon DEF combo_budget, rest
<1>5. CASE gb <= 8
  <2>1. rest = IF M > 2560 THEN M - 2560 ELSE 0
    BY <1>1, <1>3, <1>5
  <2> QED BY <1>1, <1>2, <1>4, <1>5, <2>1
<1>6. CASE gb \in 9..16
  <2>1. rest = 6144
    BY <1>1, <1>3, <1>6
  <2> QED BY <1>1, <1>2, <1>4, <1>6, <2>1
<1>7. CASE gb \in 17..32
  <2>1. rest = 8192
    BY <1>1, <1>3, <1>7
  <2> QED BY <1>1, <1>2, <1>4, <1>7, <2>1
<1>8. CASE gb > 32
  <2>1. rest = 10240
    BY <1>1, <1>3, <1>8
  <2> QED BY <1>1, <1>2, <1>4, <1>8, <2>1
<1> QED BY <1>1, <1>5, <1>6, <1>7, <1>8

\* A model is advised against when the three do not fit, if it is fast enough.
LEMMA ComboTag ==
  ASSUME NEW m, NEW M \in Nat, M = m.mem, NEW B \in Nat, B = combo_budget(m),
         NEW asr, NEW this, NEW other,
         NEW c \in Nat,
         c = asr_rss_bytes(asr) + llm_rss_bytes(this) + llm_rss_bytes(other),
         NEW t \in Nat, t = est_tps(chip_row(m), this), t >= 15
  PROVE  compute_combo_tag(m, asr, this, other) = "not_recommended"
           <=> M >= 1024 /\ c > B
<1>1. Gb(M) \in Nat /\ (Gb(M) = 0 <=> ~(M >= 1024))
  BY DEF Gb
<1>2. compute_combo_tag(m, asr, this, other) =
       CASE Gb(M) = 0 -> "unknown"
        [] Gb(M) > 0 /\ (c > B \/ t < 15) -> "not_recommended"
        [] Gb(M) > 0 /\ c <= B /\ t >= 15 ->
             IF t < 25 \/ c > (B * 85) \div 100 THEN "usable" ELSE "suitable"
  BY Zenon DEF compute_combo_tag
<1>3. CASE Gb(M) = 0
  BY <1>1, <1>2, <1>3
<1>4. CASE Gb(M) # 0 /\ c > B
  BY <1>1, <1>2, <1>4
<1>5. CASE Gb(M) # 0 /\ ~(c > B)
  BY <1>1, <1>2, <1>5
<1> QED BY <1>3, <1>4, <1>5

\* A small speech model is labelled well on any machine; the large one of the
\* strong suite is not when less than two GiB of the disk are left.
LEMMA ModelTag ==
  ASSUME NEW m, NEW M \in Nat, M = m.mem, NEW D \in Nat, D = m.disk
  PROVE  /\ compute_model_tag(229, m) # "not_recommended"
         /\ M >= 8192 => (compute_model_tag(948, m) = "not_recommended"
                            <=> 1024 <= D /\ D < 2048)
<1> DEFINE gb == Gb(M)
           full(size) == Gb(D) > 0 /\ Gb(D) * 1024 < 2 * size
<1>1. gb \in Nat /\ Gb(D) \in Nat /\ (M >= 8192 => gb >= 8)
      /\ (Gb(D) = 1 <=> 1024 <= D /\ D < 2048)
  BY DEF Gb
<1>2. ~full(229) /\ (full(948) <=> Gb(D) = 1)
  BY <1>1
<1> HIDE DEF gb, full
<1>3. \A size : compute_model_tag(size, m) =
        CASE gb = 0 -> "unknown"
          [] gb > 0 /\ full(size) -> "not_recommended"
          [] gb > 0 /\ ~full(size) /\ size < 300 -> "suitable"
          [] gb > 0 /\ ~full(size) /\ size \in 300..1100 ->
               IF gb >= 16 THEN "suitable" ELSE IF gb >= 8 THEN "usable"
               ELSE "not_recommended"
          [] OTHER -> IF gb >= 32 THEN "suitable" ELSE IF gb >= 16 THEN "usable"
                      ELSE "not_recommended"
  BY DEF compute_model_tag, gb, full
<1>4. compute_model_tag(229, m) # "not_recommended"
  <2>1. compute_model_tag(229, m) =
          CASE gb = 0 -> "unknown"
            [] gb > 0 /\ full(229) -> "not_recommended"
            [] gb > 0 /\ ~full(229) /\ 229 < 300 -> "suitable"
            [] gb > 0 /\ ~full(229) /\ 229 \in 300..1100 ->
                 IF gb >= 16 THEN "suitable" ELSE IF gb >= 8 THEN "usable"
                 ELSE "not_recommended"
            [] OTHER -> IF gb >= 32 THEN "suitable" ELSE IF gb >= 16 THEN "usable"
                        ELSE "not_recommended"
    BY <1>3
  <2> QED BY <1>1, <1>2, <2>1
<1>5. ASSUME M >= 8192
      PROVE  compute_model_tag(948, m) = "not_recommended" <=> 1024 <= D /\ D < 2048
  <2>1. compute_model_tag(948, m) =
          CASE gb = 0 -> "unknown"
            [] gb > 0 /\ full(948) -> "not_recommended"
            [] gb > 0 /\ ~full(948) /\ 948 < 300 -> "suitable"
            [] gb > 0 /\ ~full(948) /\ 948 \in 300..1100 ->
                 IF gb >= 16 THEN "suitable" ELSE IF gb >= 8 THEN "usable"
                 ELSE "not_recommended"
            [] OTHER -> IF gb >= 32 THEN "suitable" ELSE IF gb >= 16 THEN "usable"
                        ELSE "not_recommended"
    BY <1>3
  <2> QED BY <1>1, <1>2, <1>5, <2>1
<1> QED BY <1>4, <1>5

LEMMA Recommended ==
  ASSUME NEW m, NEW M \in Nat, M = m.mem, m.apple \in BOOLEAN
  PROVE  recommend_defaults(m) =
           IF M < 9216 \/ (~m.apple /\ M < 16384)
           THEN [asr |-> "sensevoice", polish |-> "qwen08", translate |-> Nothing,
                 use_llm_fallback |-> TRUE]
           ELSE IF m.apple /\ 32768 <= M
           THEN [asr |-> "funasr_int8", polish |-> "qwen4", translate |-> "milmmt",
                 use_llm_fallback |-> FALSE]
           ELSE [asr |-> "sensevoice", polish |-> "qwen2", translate |-> "milmmt",
                 use_llm_fallback |-> FALSE]
<1>1. /\ Gb(M) <= 8 <=> M < 9216
      /\ Gb(M) < 16 <=> M < 16384
      /\ Gb(M) > 31 <=> 32768 <= M
  BY DEF Gb
<1> QED BY <1>1 DEF recommend_defaults

\* The machines the recommendation fits: below 1332 MiB even the smallest suite
\* is too large; a Mac of nine GiB is given the middle suite, with the reserve of
\* a machine of sixteen; and the speech model of a strong Mac is advised against
\* when one GiB of the disk is left, though not when there is less, which counts
\* as unknown.
LargeEnough(m) ==
  /\ 1332 <= m.mem
  /\ m.apple => m.mem < 9216 \/ 9523 < m.mem
  /\ m.apple /\ 32768 <= m.mem => m.disk < 1024 \/ 2047 < m.disk

\* The recommendation fits a machine, with no label against it, exactly when the
\* machine is large enough.
THEOREM RecommendationFits ==
  ASSUME NEW m \in Machine
  PROVE  RecommendedFits(m) <=> LargeEnough(m)
<1> DEFINE M == m.mem
           D == m.disk
           B == combo_budget(m)
           r == recommend_defaults(m)
           tag(this, other) == compute_combo_tag(m, r.asr, this, other)
           BAD == "not_recommended"
<1>1. M \in Nat /\ D \in Nat /\ m.apple \in BOOLEAN
  BY DEF Machine
<1>2. /\ B \in Nat
      /\ M < 9216 => B = IF M > 2560 THEN 2560 ELSE M
      /\ 9216 <= M /\ M < 17408 => B = M - 6144
      /\ 17408 <= M /\ M < 33792 => B = M - 8192
      /\ 33792 <= M => B = M - 10240
  BY <1>1, Budget
<1>3. /\ asr_rss_bytes("sensevoice") = 717 /\ asr_rss_bytes("funasr_int8") = 1229
      /\ asr_approx_size("sensevoice") = 229 /\ asr_approx_size("funasr_int8") = 948
  BY DEF asr_rss_bytes, asr_approx_size
<1>4. RecommendedFits(m) <=>
        /\ tag(r.polish, r.translate) # BAD
        /\ r.translate # Nothing => tag(r.translate, r.polish) # BAD
        /\ compute_model_tag(asr_approx_size(r.asr), m) # BAD
        /\ suite_used_bytes(r) <= B
  BY Zenon DEF RecommendedFits
<1>5. LargeEnough(m) <=>
        /\ 1332 <= M
        /\ m.apple => M < 9216 \/ 9523 < M
        /\ m.apple /\ 32768 <= M => D < 1024 \/ 2047 < D
  BY DEF LargeEnough
<1>6. compute_model_tag(229, m) # BAD
      /\ (M >= 8192 => (compute_model_tag(948, m) = BAD <=> 1024 <= D /\ D < 2048))
  BY <1>1, ModelTag
<1>7. \A asr, this, other : \A c \in Nat :
        (this \in {"qwen08", "qwen2", "qwen4", "milmmt"}
         /\ c = asr_rss_bytes(asr) + llm_rss_bytes(this) + llm_rss_bytes(other))
        => (compute_combo_tag(m, asr, this, other) = BAD <=> M >= 1024 /\ c > B)
  BY <1>1, <1>2, ComboTag, Speed
<1> DEFINE weak == [asr |-> "sensevoice", polish |-> "qwen08", translate |-> Nothing,
                    use_llm_fallback |-> TRUE]
           strong == [asr |-> "funasr_int8", polish |-> "qwen4", translate |-> "milmmt",
                      use_llm_fallback |-> FALSE]
           middle == [asr |-> "sensevoice", polish |-> "qwen2", translate |-> "milmmt",
                      use_llm_fallback |-> FALSE]
<1>8. r = IF M < 9216 \/ (~m.apple /\ M < 16384) THEN weak
          ELSE IF m.apple /\ 32768 <= M THEN strong ELSE middle
  BY <1>1, Recommended
<1> HIDE DEF M, D, B, r
<1>9. CASE M < 9216 \/ (~m.apple /\ M < 16384)
  <2>1. r = weak
    BY <1>8, <1>9
  <2>2. r.asr = "sensevoice" /\ r.polish = "qwen08" /\ r.translate = Nothing
        /\ r.use_llm_fallback = TRUE
    BY <2>1
  <2>3. 717 + llm_rss_bytes("qwen08") + llm_rss_bytes(Nothing) = 1332
    BY Sizes
  <2>4. tag("qwen08", Nothing) = BAD <=> M >= 1024 /\ 1332 > B
    BY <1>3, <1>7, <2>2, <2>3
  <2>5. suite_used_bytes(r) = 1332
    BY <1>3, <2>2, Sizes DEF suite_used_bytes
  <2> QED BY <1>1, <1>2, <1>3, <1>4, <1>5, <1>6, <1>9, <2>2, <2>4, <2>5 DEF M, D
<1>10. CASE ~(M < 9216 \/ (~m.apple /\ M < 16384)) /\ m.apple /\ 32768 <= M
  <2>1. r = strong
    BY <1>8, <1>10
  <2>2. r.asr = "funasr_int8" /\ r.polish = "qwen4" /\ r.translate = "milmmt"
        /\ r.use_llm_fallback = FALSE
    BY <2>1
  <2>3. /\ 1229 + llm_rss_bytes("qwen4") + llm_rss_bytes("milmmt") = 5224
        /\ 1229 + llm_rss_bytes("milmmt") + llm_rss_bytes("qwen4") = 5224
    BY Sizes
  <2>4. tag("qwen4", "milmmt") = BAD <=> M >= 1024 /\ 5224 > B
    BY <1>3, <1>7, <2>2, <2>3
  <2>5. tag("milmmt", "qwen4") = BAD <=> M >= 1024 /\ 5224 > B
    BY <1>3, <1>7, <2>2, <2>3
  <2>6. suite_used_bytes(r) = 5224
    BY <1>3, <2>2, Sizes DEF suite_used_bytes
  <2> QED BY <1>1, <1>2, <1>3, <1>4, <1>5, <1>6, <1>10, <2>2, <2>4, <2>5, <2>6 DEF M, D
<1>11. CASE ~(M < 9216 \/ (~m.apple /\ M < 16384)) /\ ~(m.apple /\ 32768 <= M)
  <2>1. r = middle
    BY <1>8, <1>11
  <2>2. r.asr = "sensevoice" /\ r.polish = "qwen2" /\ r.translate = "milmmt"
        /\ r.use_llm_fallback = FALSE
    BY <2>1
  <2>3. /\ 717 + llm_rss_bytes("qwen2") + llm_rss_bytes("milmmt") = 3380
        /\ 717 + llm_rss_bytes("milmmt") + llm_rss_bytes("qwen2") = 3380
    BY Sizes
  <2>4. tag("qwen2", "milmmt") = BAD <=> M >= 1024 /\ 3380 > B
    BY <1>3, <1>7, <2>2, <2>3
  <2>5. tag("milmmt", "qwen2") = BAD <=> M >= 1024 /\ 3380 > B
    BY <1>3, <1>7, <2>2, <2>3
  <2>6. suite_used_bytes(r) = 3380
    BY <1>3, <2>2, Sizes DEF suite_used_bytes
  <2> QED BY <1>1, <1>2, <1>3, <1>4, <1>5, <1>6, <1>11, <2>2, <2>4, <2>5, <2>6 DEF M, D
<1> QED BY <1>9, <1>10, <1>11

\* No file of one speech model is in the directory of another.
LEMMA Directories ==
  ASSUME NEW asr \in AsrIds, NEW f \in asr_model_files(asr)
  PROVE  f[1] \in {asr, "vad"}
<1>1. \A dir, sub, names : \A g \in In(dir, sub, names) : g[1] = dir
  BY DEF In
<1>2. CASE asr = "sensevoice"
  <2>1. f \in In(asr, "", {"model.int8.onnx", "tokens.txt"})
           \cup In("vad", "", {"silero_vad.onnx"})
    BY <1>2 DEF asr_model_files
  <2> QED BY <1>1, <2>1, Zenon
<1>3. CASE asr \in {"funasr_int8", "funasr_fp16"}
  <2>1. f \in In(asr, "", {"embedding.int8.onnx", "encoder_adaptor.int8.onnx",
                            llm_file(asr)})
              \cup In(asr, "Qwen3-0.6B", {"tokenizer.json", "vocab.json", "merges.txt"})
              \cup In("vad", "", {"silero_vad.onnx"})
    BY <1>3 DEF asr_model_files
  <2> QED BY <1>1, <2>1, Zenon
<1> QED BY <1>2, <1>3 DEF AsrIds

LEMMA Connects ==
  ASSUME NEW asr \in AsrIds, NEW disk0, asr_model_files(asr) \subseteq disk0
  PROVE  connects(asr, disk0)
<1>1. CASE asr = "sensevoice"
  <2>1. In(asr, "", {"model.int8.onnx", "tokens.txt"}) \subseteq asr_model_files(asr)
    BY <1>1 DEF asr_model_files
  <2> QED BY <1>1, <2>1 DEF connects
<1>2. CASE asr \in {"funasr_int8", "funasr_fp16"}
  <2>1. /\ In(asr, "", {"embedding.int8.onnx", "encoder_adaptor.int8.onnx",
                         llm_file(asr)}) \subseteq asr_model_files(asr)
        /\ In(asr, "Qwen3-0.6B", {"tokenizer.json", "vocab.json", "merges.txt"})
             \subseteq asr_model_files(asr)
    BY <1>2 DEF asr_model_files
  <2>2. <<asr, "Qwen3-0.6B", "vocab.json">> \in disk0
    BY <2>1 DEF In
  <2>3. \E f \in disk0 : f[1] = asr /\ f[2] = "Qwen3-0.6B"
    BY <2>2
  <2> QED BY <1>2, <2>1, <2>3 DEF connects
<1> QED BY <1>1, <1>2 DEF AsrIds

LEMMA EveryModelConnects ==
  ASSUME NEW id \in AsrIds \cup OldAsrIds
  PROVE  InstalledConnects(id)
<1> DEFINE asr == normalize_asr_model_id(id)
<1>1. asr \in AsrIds
  BY DEF normalize_asr_model_id, AsrIds
<1> HIDE DEF asr
<1> SUFFICES ASSUME NEW other \in AsrIds \ {asr}
             PROVE  LET left == delete_local_asr_model(other, asr_model_files(asr)
                                   \cup asr_model_files(other))
                    IN  is_asr_model_installed(asr, left) /\ connects(asr, left)
  BY Zenon DEF InstalledConnects, asr
<1> DEFINE left == delete_local_asr_model(other, asr_model_files(asr)
                                                 \cup asr_model_files(other))
<1>2. other # "vad" /\ other # asr
  BY DEF AsrIds
<1>3. asr_model_files(asr) \subseteq left
  BY <1>1, <1>2, Directories DEF delete_local_asr_model
<1> QED BY <1>1, <1>3, Connects DEF is_asr_model_installed

\* On machines that are large enough the recommended suite fits, and every speech
\* model that is installed connects.
THEOREM RecommendedSuiteRuns ==
  ASSUME \A m \in Machines : LargeEnough(m)
  PROVE  Spec => []SuiteRuns
<1>1. SuiteRuns
  BY RecommendationFits, EveryModelConnects, LocalModelAssumption, Zenon DEF SuiteRuns
<1> QED BY <1>1, PTL

=============================================================================
