----------------------------- MODULE Dictionary -----------------------------
(***************************************************************************)
(* The SQLite store (store.rs) from its opening to its use: the migrations,*)
(* the built-in role packs, and the hotwords that are kept in step with    *)
(* the assistant's name.                                                   *)
(*                                                                         *)
(* A role is called by "<assistant's name><alias>".  Every such word is    *)
(* written to the hotwords, so that L0 can correct what was misheard.      *)
(* sync_assistant_combo_hotwords does this statement by statement, at the  *)
(* start on the main thread and in save_app_config on a tokio worker, while*)
(* the user edits hotwords and packs on the main thread.  There is no      *)
(* transaction anywhere: every statement is committed by itself.           *)
(***************************************************************************)
EXTENDS Naturals, Sequences, FiniteSets, SequencesExt

CONSTANTS
  Names,        \* the assistant's names
  Empty,        \* the empty name, by which no role is called
  Aliases,      \* the aliases of roles, in Chinese characters
  English,      \* those of them without pinyin
  BuiltinPacks, \* [id -> set of aliases]: BUILTIN_PREFIX_PACKS
  UserPack,     \* the id of a pack the user may add
  MaxEdits,     \* bound on the user's edits
  MaxSaves,     \* bound on the calls of save_app_config
  MaxCrashes,   \* bound on the times the program is ended
  None          \* no name, no pack

PackIds == DOMAIN BuiltinPacks \cup {UserPack}

ASSUME DictionaryAssumption ==
  /\ Empty \notin Names /\ None \notin Names /\ Empty # None
  /\ \A as \in SUBSET Aliases : None # as
  /\ English \subseteq Aliases
  /\ UserPack \notin DOMAIN BuiltinPacks
  /\ \A p \in DOMAIN BuiltinPacks : BuiltinPacks[p] \subseteq Aliases
  /\ \A p, q \in DOMAIN BuiltinPacks :
       p # q => BuiltinPacks[p] \cap BuiltinPacks[q] = {}
  /\ MaxEdits \in Nat /\ MaxSaves \in Nat /\ MaxCrashes \in Nat

\* The statements of MIGRATIONS: v1 to v3 say IF NOT EXISTS and may be run
\* again, the ALTER TABLEs of v4 and v5 may not.
MIGRATIONS == <<[statements |-> 4, again |-> TRUE],
                [statements |-> 1, again |-> TRUE],
                [statements |-> 1, again |-> TRUE],
                [statements |-> 5, again |-> FALSE],
                [statements |-> 3, again |-> FALSE]>>
Target == Len(MIGRATIONS)

VARIABLES
  version,   \* PRAGMA user_version
  partial,   \* the statements of the next migration that are in the file
  packs,     \* [PackIds -> the aliases (match_prefix), None without a row]
  builtin,   \* the packs whose row says is_builtin
  words,     \* the table of hotwords
  synced,    \* the row assistant_hotwords_synced_name
  legacy,    \* TRUE when the row builtin_prefix_alias_hotwords_seeded exists
  name,      \* assistant_name in the configuration's row
  phase,     \* of the start: how far it has come
  step,      \* the next statement of the migration
  sync,      \* sync_assistant_combo_hotwords
  import,    \* add_hotwords_batch of an imported list, on the main thread
  edits, saves, crashes,   \* what has been used of the bounds
  mine,      \* the words the user has added and not deleted
  written,   \* the words the synchronisation has added, still there
  dropped,   \* the words the user has deleted
  torn,      \* the name whose words a synchronisation began to remove and
             \* has not replaced, None if none
  edited,    \* packs have changed since the last synchronisation read them
  strayed    \* an alias was taken from a pack, or an insertion interrupted

dbVars    == <<version, partial, packs, builtin, words, synced, legacy, name>>
startVars == <<phase, step>>
bounds    == <<edits, saves, crashes>>
ghostVars == <<mine, written, dropped, torn, edited, strayed>>
vars == <<dbVars, startVars, sync, import, bounds, ghostVars>>

Combo(n, a) == <<n, a>>         \* "<name><alias>"
Bare(a)     == <<None, a>>      \* the alias alone, of an older design
Word        == (Names \cup {None}) \X Aliases
AnyName     == Names \cup {Empty}

SyncSteps == {"idle", "read", "remove", "packs", "existing", "insert", "flag"}
NoSync == [at |-> "idle", name |-> None, todo |-> {}, startup |-> FALSE]
NoImport == {}

DictionaryTypeOK ==
  /\ version \in 0..Target
  /\ partial \in Nat
  /\ packs \in [PackIds -> (SUBSET Aliases) \cup {None}]
  /\ builtin \subseteq PackIds
  /\ words \subseteq Word /\ mine \subseteq Word /\ dropped \subseteq Word
  /\ written \subseteq words
  /\ synced \in AnyName \cup {None} /\ name \in AnyName
  /\ torn \in AnyName \cup {None}
  /\ legacy \in BOOLEAN /\ edited \in BOOLEAN /\ strayed \in BOOLEAN
  /\ phase \in {"closed", "migrate", "seed", "open", "failed"}
  /\ step \in Nat
  /\ sync \in [at : SyncSteps, name : AnyName \cup {None}, todo : SUBSET Word,
               startup : BOOLEAN]
  /\ import \subseteq Word
  /\ edits \in 0..MaxEdits /\ saves \in 0..MaxSaves /\ crashes \in 0..MaxCrashes

-----------------------------------------------------------------------------
(* The packs and their words. *)

Rows == {p \in PackIds : packs[p] # None}

\* Mutant of Clash: a pack without an id of its own is not compared.
ClashNever(ps, p, as) == FALSE

\* upsert_style_pack refuses an alias that another pack already has.
Clash(ps, p, as) == \E q \in PackIds \ {p} : ps[q] # None /\ ps[q] \cap as # {}

\* assistant_combo_words: the name, unless it is empty, with every alias of
\* every pack.
assistant_combo_words(n) ==
  {Combo(m, a) : m \in {n} \ {Empty}, a \in UNION {packs[p] : p \in Rows}}

\* is_all_hanzi: only these are written, for the correction is by pinyin.
is_all_hanzi(w) == w[2] \notin English

-----------------------------------------------------------------------------
\* A database of version v: its packs, of which v3 has no aliases yet, are the
\* user's.
Inherited(v) ==
  IF v < 3 THEN {None} ELSE IF v = 3 THEN {None, {}} ELSE (SUBSET Aliases) \cup {None}

Init ==
  /\ version \in 0..Target /\ partial = 0
  /\ \E as \in Inherited(version) :
       packs = [p \in PackIds |-> IF p = UserPack THEN as ELSE None]
  /\ builtin = {}
  /\ legacy \in (IF version > 1 THEN BOOLEAN ELSE {FALSE})
  /\ words = (IF legacy THEN {Bare(a) : a \in Aliases \ English} ELSE {})
  /\ synced = None
  /\ name \in AnyName
  /\ phase = "closed" /\ step = 1
  /\ sync = NoSync /\ import = NoImport
  /\ edits = 0 /\ saves = 0 /\ crashes = 0
  /\ mine = {} /\ written = {} /\ dropped = {}
  /\ torn = None /\ edited = FALSE /\ strayed = FALSE

Open ==
  /\ phase = "closed"
  /\ phase' = "migrate" /\ step' = 1
  /\ UNCHANGED <<dbVars, sync, import, bounds, ghostVars>>

\* One statement of the migration to version + 1.
Migrate ==
  /\ phase = "migrate" /\ version < Target
  /\ step <= MIGRATIONS[version + 1].statements
  /\ IF partial >= step /\ ~MIGRATIONS[version + 1].again
     THEN phase' = "failed" /\ UNCHANGED <<partial, step>>   \* duplicate column
     ELSE /\ partial' = IF partial > step THEN partial ELSE step
          /\ step' = step + 1
          /\ UNCHANGED phase
  /\ UNCHANGED <<version, packs, builtin, words, synced, legacy, name, sync, import,
                 bounds, ghostVars>>

WriteVersion ==
  /\ phase = "migrate" /\ version < Target
  /\ step = MIGRATIONS[version + 1].statements + 1
  /\ version' = version + 1
  /\ partial' = 0 /\ step' = 1
  /\ UNCHANGED <<packs, builtin, words, synced, legacy, name, phase, sync, import, bounds,
                 ghostVars>>

Migrated ==
  /\ phase = "migrate" /\ version = Target
  /\ phase' = "seed"
  /\ UNCHANGED <<dbVars, step, sync, import, bounds, ghostVars>>

\* seed_builtin_prefix_packs_if_missing inserts one pack after the other; a
\* clash with a pack of the user ends it, and the caller ignores the error.
Seed ==
  /\ phase = "seed"
  /\ \E p \in DOMAIN BuiltinPacks :
       /\ packs[p] = None /\ ~Clash(packs, p, BuiltinPacks[p])
       /\ packs' = [packs EXCEPT ![p] = BuiltinPacks[p]]
       /\ builtin' = builtin \cup {p}
       /\ edited' = TRUE
  /\ UNCHANGED <<version, partial, words, synced, legacy, name, startVars, sync,
                 import, bounds, mine, written, dropped, torn, strayed>>

Seeded ==
  /\ phase = "seed"
  /\ \/ \A p \in DOMAIN BuiltinPacks : packs[p] # None
     \/ \E p \in DOMAIN BuiltinPacks :
          packs[p] = None /\ Clash(packs, p, BuiltinPacks[p])
  /\ phase' = "open"
  /\ sync' = [NoSync EXCEPT !.at = "read", !.name = name, !.startup = TRUE]
  /\ UNCHANGED <<dbVars, step, import, bounds, ghostVars>>

\* The program ends; what is in the file stays.
Crash ==
  /\ phase \in {"migrate", "seed", "open"} /\ crashes < MaxCrashes
  /\ crashes' = crashes + 1
  /\ phase' = "closed" /\ step' = 1
  /\ strayed' = (strayed \/ sync.at \in {"insert", "flag"})
  /\ sync' = NoSync /\ import' = NoImport
  /\ UNCHANGED <<dbVars, edits, saves, mine, written, dropped, torn, edited>>

-----------------------------------------------------------------------------
(* sync_assistant_combo_hotwords. *)

SyncGoto(s, ws) == sync' = [sync EXCEPT !.at = s, !.todo = ws]

\* save_app_config calls it with the name of the new configuration.
SaveAppConfig ==
  /\ phase = "open" /\ sync.at = "idle" /\ saves < MaxSaves
  /\ saves' = saves + 1
  /\ \E n \in AnyName : sync' = [NoSync EXCEPT !.at = "read", !.name = n]
  /\ UNCHANGED <<dbVars, startVars, import, edits, crashes, ghostVars>>

\* The call returns; save_app_config then writes the configuration, whatever
\* the synchronisation returned.
SyncReturns == sync' = NoSync /\ name' = sync.name

\* The name is the one of the last synchronisation: nothing to do.
SyncUnchanged ==
  /\ sync.at = "read" /\ synced = sync.name
  /\ SyncReturns
  /\ UNCHANGED <<version, partial, packs, builtin, words, synced, legacy, startVars,
                 import, bounds, ghostVars>>

\* Mutant of SyncRead: the name is recorded before its words are written.
SyncReadRecords ==
  /\ sync.at = "read" /\ synced # sync.name
  /\ SyncGoto("remove", (IF synced # None THEN assistant_combo_words(synced) ELSE {})
                        \cup (IF legacy THEN {Bare(a) : a \in Aliases \ English} ELSE {}))
  /\ torn' = synced /\ synced' = sync.name
  /\ UNCHANGED <<version, partial, packs, builtin, words, legacy, name, startVars,
                 import, bounds, mine, written, dropped, edited, strayed>>

\* remove_combo_hotwords: the words of the old name, by the packs of today;
\* and the bare aliases of the older design.
SyncRead ==
  /\ sync.at = "read" /\ synced # sync.name
  /\ SyncGoto("remove", (IF synced # None THEN assistant_combo_words(synced) ELSE {})
                        \cup (IF legacy THEN {Bare(a) : a \in Aliases \ English} ELSE {}))
  /\ torn' = synced
  /\ UNCHANGED <<dbVars, startVars, import, bounds, mine, written, dropped, edited,
                 strayed>>

\* delete_hotword_by_word, for each of them.
SyncRemove ==
  /\ sync.at = "remove"
  /\ IF sync.todo = {} THEN SyncGoto("packs", {}) /\ UNCHANGED <<words, written>>
     ELSE \E w \in sync.todo :
            /\ words' = words \ {w} /\ written' = written \ {w}
            /\ SyncGoto("remove", sync.todo \ {w})
  /\ UNCHANGED <<version, partial, packs, builtin, synced, legacy, name, startVars, import,
                 bounds, mine, dropped, torn, edited, strayed>>

\* list_style_packs for the new words.
SyncPacks ==
  /\ sync.at = "packs"
  /\ SyncGoto("existing", {w \in assistant_combo_words(sync.name) : is_all_hanzi(w)})
  /\ edited' = FALSE
  /\ UNCHANGED <<dbVars, startVars, import, bounds, mine, written, dropped, torn,
                 strayed>>

\* add_hotwords_batch reads the table once ...
SyncExisting ==
  /\ sync.at = "existing"
  /\ SyncGoto("insert", sync.todo \ words)
  /\ UNCHANGED <<dbVars, startVars, import, bounds, ghostVars>>

\* ... and inserts what was missing then, word by word.
SyncInsert ==
  /\ sync.at = "insert" /\ sync.todo \cap words = {}
  /\ IF sync.todo = {} THEN SyncGoto("flag", {}) /\ UNCHANGED <<words, written, dropped>>
     ELSE \E w \in sync.todo :
            /\ words' = words \cup {w} /\ written' = written \cup {w}
            /\ dropped' = dropped \ {w}
            /\ SyncGoto("insert", sync.todo \ {w})
  /\ UNCHANGED <<version, partial, packs, builtin, synced, legacy, name, startVars, import,
                 bounds, mine, torn, edited, strayed>>

\* A word that the user has added in between breaks the UNIQUE constraint: the
\* synchronisation ends with an error that the callers ignore.
SyncInsertFails ==
  /\ sync.at = "insert" /\ sync.todo \cap words # {}
  /\ SyncReturns
  /\ strayed' = TRUE
  /\ UNCHANGED <<version, partial, packs, builtin, words, synced, legacy, startVars,
                 import, bounds, mine, written, dropped, torn, edited>>

\* The name is recorded last, so that an interrupted synchronisation is done
\* again.
SyncFlag ==
  /\ sync.at = "flag"
  /\ synced' = sync.name
  /\ torn' = None
  /\ SyncReturns
  /\ UNCHANGED <<version, partial, packs, builtin, words, legacy, startVars, import, bounds,
                 mine, written, dropped, edited, strayed>>

-----------------------------------------------------------------------------
(* The user's edits, on the main thread. *)

Edit ==
  /\ phase = "open" /\ ~sync.startup /\ import = NoImport
  /\ edits < MaxEdits
  /\ edits' = edits + 1

\* add_hotword: a word that is there already is refused by the table.
AddHotword ==
  /\ Edit
  /\ \E w \in Word \ words :
       /\ words' = words \cup {w} /\ mine' = mine \cup {w}
       /\ dropped' = dropped \ {w}
  /\ UNCHANGED <<version, partial, packs, builtin, synced, legacy, name, startVars, sync,
                 import, saves, crashes, written, torn, edited, strayed>>

DeleteHotword ==
  /\ Edit
  /\ \E w \in words :
       /\ words' = words \ {w} /\ mine' = mine \ {w}
       /\ written' = written \ {w} /\ dropped' = dropped \cup {w}
  /\ UNCHANGED <<version, partial, packs, builtin, synced, legacy, name, startVars, sync,
                 import, saves, crashes, torn, edited, strayed>>

\* import_hotwords_csv: the words that are missing, read at the beginning.
ImportHotwords ==
  /\ Edit
  /\ \E ws \in SUBSET Word :
       /\ Cardinality(ws \ words) = 2
       /\ import' = ws \ words
  /\ UNCHANGED <<dbVars, startVars, sync, saves, crashes, ghostVars>>

\* One insertion; a word that has come into the table since ends the import.
ImportNext ==
  /\ import # NoImport
  /\ \E w \in import :
       IF w \in words THEN import' = NoImport /\ UNCHANGED <<words, mine, dropped>>
       ELSE /\ words' = words \cup {w} /\ mine' = mine \cup {w}
            /\ dropped' = dropped \ {w}
            /\ import' = import \ {w}
  /\ UNCHANGED <<version, partial, packs, builtin, synced, legacy, name, startVars, sync,
                 bounds, written, torn, edited, strayed>>

\* upsert_style_pack: a new pack, or new aliases of an old one; whether it is a
\* built-in one is what the caller says.
UpsertStylePack ==
  /\ Edit
  /\ \E p \in PackIds, as \in SUBSET Aliases :
       /\ packs[p] # None \/ p = UserPack
       /\ ~Clash(packs, p, as)
       /\ packs' = [packs EXCEPT ![p] = as]
       /\ builtin' \in {builtin \cup {p}, builtin \ {p}}
       /\ packs[p] # as \/ builtin' # builtin
       /\ strayed' = (strayed \/ (packs[p] # None /\ ~(packs[p] \subseteq as)))
  /\ edited' = TRUE
  /\ UNCHANGED <<version, partial, words, synced, legacy, name, startVars, sync,
                 import, saves, crashes, mine, written, dropped, torn>>

\* delete_style_pack leaves the built-in ones alone.
DeleteStylePack ==
  /\ Edit
  /\ \E p \in Rows \ builtin :
       /\ packs' = [packs EXCEPT ![p] = None]
       /\ strayed' = (strayed \/ packs[p] # {})
  /\ edited' = TRUE
  /\ UNCHANGED <<version, partial, builtin, words, synced, legacy, name, startVars,
                 sync, import, saves, crashes, mine, written, dropped, torn>>

Start == Open \/ Migrate \/ WriteVersion \/ Migrated \/ Seed \/ Seeded
Sync == \/ SyncUnchanged \/ SyncRead \/ SyncRemove \/ SyncPacks \/ SyncExisting
        \/ SyncInsert \/ SyncInsertFails \/ SyncFlag
User == \/ AddHotword \/ DeleteHotword \/ ImportHotwords \/ ImportNext
        \/ UpsertStylePack \/ DeleteStylePack

Next == Start \/ Sync \/ User \/ SaveAppConfig \/ Crash

Spec == Init /\ [][Next]_vars

-----------------------------------------------------------------------------
(* Properties. *)

\* FR-5.8: no alias ever calls two packs, whatever the order in which packs
\* are seeded, added, edited and deleted over several starts.  (With the types.)
AliasesDistinct ==
  /\ DictionaryTypeOK
  /\ \A p, q \in PackIds :
       p # q /\ packs[p] # None /\ packs[q] # None => packs[p] \cap packs[q] = {}

\* A name that is recorded has its words: every word of its aliases is in
\* the table, but for those the user has taken out, unless a later
\* synchronisation was interrupted while it replaced them.  And, unless an
\* alias was taken from a pack or an insertion interrupted, no word written
\* for another name is left.  The user adds and imports words meanwhile.
CombosFollowName ==
  (phase = "open" /\ sync.at = "idle" /\ synced \notin {None, torn}) =>
    /\ edited \/ {w \in assistant_combo_words(synced) : is_all_hanzi(w)} \ dropped
                 \subseteq words
    /\ strayed \/ \A w \in written : w[1] = synced

\* "Only the words this mechanism has written; what the user has added by hand
\* is left alone" (store.rs:747-748).  The code breaks it.
UserWordsStay == mine \subseteq words
=============================================================================
