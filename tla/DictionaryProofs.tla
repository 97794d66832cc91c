-------------------------- MODULE DictionaryProofs --------------------------
(***************************************************************************)
(* Of the store: no two packs have an alias in common, and the hotwords    *)
(* follow the assistant's name, whatever the names, the aliases, the       *)
(* built-in packs and the order of starts, edits, imports, saves and       *)
(* crashes.                                                                *)
(***************************************************************************)
EXTENDS Dictionary, TLAPS

-----------------------------------------------------------------------------
(* Types. *)

\* A synchronisation under way has a name, and runs only in an open program.
SyncNamed ==
  /\ sync.at # "idle" => sync.name \in AnyName
  /\ phase # "open" => sync.at = "idle"

LEMMA TargetType == Target = 5
  BY DEF Target, MIGRATIONS

\* The aliases of all the packs of a table.
AliasesIn(ps) == UNION {ps[p] : p \in {q \in PackIds : ps[q] # None}}

LEMMA ComboIn ==
  ASSUME NEW n, NEW w
  PROVE  w \in assistant_combo_words(n)
           <=> n # Empty /\ \E a \in AliasesIn(packs) : w = <<n, a>>
  BY DEF assistant_combo_words, AliasesIn, Rows, Combo

LEMMA PackAliasesType == DictionaryTypeOK => AliasesIn(packs) \subseteq Aliases
  BY DEF DictionaryTypeOK, AliasesIn

LEMMA ComboType ==
  ASSUME DictionaryTypeOK, NEW n \in AnyName
  PROVE  assistant_combo_words(n) \subseteq Word
  BY ComboIn, PackAliasesType DEF Word, AnyName

LEMMA BareType == {Bare(a) : a \in Aliases \ English} \subseteq Word
  BY DEF Bare, Word

LEMMA DictionaryInitTypes == Init => DictionaryTypeOK /\ SyncNamed
<1> SUFFICES ASSUME Init PROVE DictionaryTypeOK /\ SyncNamed
  OBVIOUS
<1>1. version \in 0..Target /\ partial \in Nat /\ step \in Nat
  BY TargetType DEF Init
<1>2. packs \in [PackIds -> (SUBSET Aliases) \cup {None}]
  <2>1. PICK as \in Inherited(version) :
          packs = [p \in PackIds |-> IF p = UserPack THEN as ELSE None]
    BY DEF Init
  <2>2. as \in (SUBSET Aliases) \cup {None}
    BY <2>1 DEF Inherited
  <2> QED
    BY <2>1, <2>2
<1>3. legacy \in BOOLEAN /\ words \subseteq Word
  BY BareType DEF Init
<1>4. sync \in [at : SyncSteps, name : AnyName \cup {None}, todo : SUBSET Word, startup : BOOLEAN]
  BY DEF Init, NoSync, SyncSteps
<1>5. edits \in 0..MaxEdits /\ saves \in 0..MaxSaves /\ crashes \in 0..MaxCrashes
  BY DictionaryAssumption DEF Init
<1>6. SyncNamed
  BY DEF Init, SyncNamed, NoSync
<1> QED
  BY <1>1, <1>2, <1>3, <1>4, <1>5, <1>6 DEF Init, DictionaryTypeOK, NoImport

SyncType == [at : SyncSteps, name : AnyName \cup {None}, todo : SUBSET Word, startup : BOOLEAN]

LEMMA SyncGotoType ==
  ASSUME DictionaryTypeOK, NEW s \in SyncSteps, NEW ws \in SUBSET Word, SyncGoto(s, ws)
  PROVE  /\ sync' \in SyncType
         /\ sync'.at = s /\ sync'.name = sync.name /\ sync'.todo = ws
  BY DEF SyncGoto, DictionaryTypeOK, SyncType

LEMMA NoSyncType == NoSync \in SyncType
  BY DEF NoSync, SyncType, SyncSteps

LEMMA SyncGotoStep ==
  ASSUME DictionaryTypeOK, NEW s, NEW ws, SyncGoto(s, ws)
  PROVE  sync'.at = s /\ sync'.name = sync.name /\ sync'.todo = ws
  BY DEF SyncGoto, DictionaryTypeOK

LEMMA DictionaryTypesStep ==
  DictionaryTypeOK /\ SyncNamed /\ [Next]_vars => DictionaryTypeOK' /\ SyncNamed'
<1> SUFFICES ASSUME DictionaryTypeOK, SyncNamed, [Next]_vars
             PROVE  DictionaryTypeOK' /\ SyncNamed'
  OBVIOUS
<1> USE DEF dbVars, startVars, bounds, ghostVars
<1>0. sync \in SyncType /\ sync.todo \subseteq Word
  BY DEF DictionaryTypeOK, SyncType
<1>1. CASE Open
  BY <1>1 DEF DictionaryTypeOK, SyncNamed, Open
<1>2. CASE Migrate
  <2>1. partial' \in Nat /\ step' \in Nat /\ phase' \in {"migrate", "failed"}
    BY <1>2 DEF DictionaryTypeOK, Migrate
  <2>2. UNCHANGED <<version, packs, builtin, words, synced, legacy, name, sync, import, bounds, ghostVars>>
        /\ phase = "migrate"
    BY <1>2 DEF Migrate
  <2> QED
    BY <2>1, <2>2 DEF DictionaryTypeOK, SyncNamed
<1>3. CASE WriteVersion
  <2>1. version' \in 0..Target
    BY <1>3, TargetType DEF DictionaryTypeOK, WriteVersion
  <2> QED
    BY <1>3, <2>1 DEF DictionaryTypeOK, SyncNamed, WriteVersion
<1>4. CASE Migrated
  BY <1>4 DEF DictionaryTypeOK, SyncNamed, Migrated
<1>5. CASE Seed
  <2>1. packs' \in [PackIds -> (SUBSET Aliases) \cup {None}] /\ builtin' \subseteq PackIds
    BY <1>5, DictionaryAssumption DEF DictionaryTypeOK, Seed, PackIds
  <2> QED
    BY <1>5, <2>1 DEF DictionaryTypeOK, SyncNamed, Seed
<1>6. CASE Seeded
  <2>1. sync' \in SyncType /\ sync'.name = name
    BY <1>6 DEF DictionaryTypeOK, Seeded, NoSync, SyncType, SyncSteps
  <2> QED
    BY <1>6, <2>1 DEF DictionaryTypeOK, SyncNamed, Seeded, SyncType
<1>7. CASE Crash
  <2>1. crashes' \in 0..MaxCrashes
    BY <1>7, DictionaryAssumption DEF DictionaryTypeOK, Crash
  <2>2. sync' \in SyncType /\ sync'.at = "idle" /\ strayed' \in BOOLEAN /\ import' = {}
    BY <1>7, NoSyncType DEF DictionaryTypeOK, Crash, NoSync, NoImport
  <2> QED
    BY <1>7, <2>1, <2>2 DEF DictionaryTypeOK, SyncNamed, Crash, SyncType
<1>8. CASE SaveAppConfig
  <2>1. saves' \in 0..MaxSaves
    BY <1>8, DictionaryAssumption DEF DictionaryTypeOK, SaveAppConfig
  <2>2. sync' \in SyncType /\ sync'.name \in AnyName /\ phase' = "open"
    BY <1>8 DEF SaveAppConfig, NoSync, SyncType, SyncSteps
  <2> QED
    BY <1>8, <2>1, <2>2 DEF DictionaryTypeOK, SyncNamed, SaveAppConfig, SyncType
<1>9. ASSUME SyncReturns, sync.at # "idle",
             UNCHANGED <<version, partial, packs, builtin, words, legacy, startVars, import, bounds,
                         mine, written, dropped, edited>>,
             synced' \in {synced, sync.name}, torn' \in {torn, None}, strayed' \in {strayed, TRUE}
      PROVE  DictionaryTypeOK' /\ SyncNamed'
  <2>1. sync' \in SyncType /\ sync'.at = "idle" /\ name' \in AnyName /\ synced' \in AnyName \cup {None}
    BY <1>9, NoSyncType DEF SyncReturns, SyncNamed, NoSync, DictionaryTypeOK
  <2>2. torn' \in AnyName \cup {None} /\ strayed' \in BOOLEAN
    BY <1>9 DEF DictionaryTypeOK
  <2> QED
    BY <1>9, <2>1, <2>2 DEF DictionaryTypeOK, SyncNamed, SyncType
<1>10. CASE SyncUnchanged
  BY <1>9, <1>10 DEF SyncUnchanged
<1>11. CASE SyncInsertFails
  BY <1>9, <1>11 DEF SyncInsertFails
<1>12. CASE SyncFlag
  BY <1>9, <1>12 DEF SyncFlag
<1>13. ASSUME NEW s \in SyncSteps, NEW ws \in SUBSET Word, SyncGoto(s, ws),
              sync.at # "idle",
              UNCHANGED <<version, partial, packs, builtin, synced, legacy, name, startVars, import,
                          bounds, mine, strayed>>,
              words' \subseteq Word, written' \subseteq words', dropped' \subseteq dropped,
              torn' \in {torn, synced}, edited' \in {edited, FALSE}
       PROVE  DictionaryTypeOK' /\ SyncNamed'
  <2>1. sync' \in SyncType /\ sync'.at = s /\ sync'.name = sync.name
    BY <1>13, SyncGotoType
  <2>2. torn' \in AnyName \cup {None} /\ edited' \in BOOLEAN
    BY <1>13 DEF DictionaryTypeOK
  <2>3. dropped' \subseteq Word
    BY <1>13 DEF DictionaryTypeOK
  <2> QED
    BY <1>13, <2>1, <2>2, <2>3 DEF DictionaryTypeOK, SyncNamed, SyncType
<1>14. CASE SyncRead
  <2> DEFINE ws == (IF synced # None THEN assistant_combo_words(synced) ELSE {})
                   \cup (IF legacy THEN {Bare(a) : a \in Aliases \ English} ELSE {})
  <2>1. SyncGoto("remove", ws) /\ sync.at = "read" /\ torn' = synced
        /\ UNCHANGED <<dbVars, startVars, import, bounds, mine, written, dropped, edited, strayed>>
    BY <1>14 DEF SyncRead
  <2>2. ws \in SUBSET Word
    BY ComboType, BareType DEF DictionaryTypeOK
  <2> HIDE DEF ws
  <2>3. "remove" \in SyncSteps /\ words \subseteq Word /\ written \subseteq words
    BY DEF SyncSteps, DictionaryTypeOK
  <2> QED
    BY <1>13, <2>1, <2>2, <2>3
<1>15. CASE SyncRemove
  <2>1. PICK s \in SyncSteps, ws \in SUBSET Word : SyncGoto(s, ws)
    BY <1>0, <1>15 DEF SyncRemove, SyncSteps
  <2>2. words' \subseteq Word /\ written' \subseteq words'
    BY <1>15 DEF SyncRemove, DictionaryTypeOK
  <2> QED
    BY <1>13, <1>15, <2>1, <2>2 DEF SyncRemove
<1>16. CASE SyncPacks
  <2> DEFINE ws == {w \in assistant_combo_words(sync.name) : is_all_hanzi(w)}
  <2>1. SyncGoto("existing", ws) /\ sync.at = "packs" /\ edited' = FALSE
        /\ UNCHANGED <<dbVars, startVars, import, bounds, mine, written, dropped, torn, strayed>>
    BY <1>16 DEF SyncPacks
  <2>2. ws \in SUBSET Word
    BY <2>1, ComboType DEF SyncNamed
  <2> HIDE DEF ws
  <2>3. "existing" \in SyncSteps /\ words \subseteq Word /\ written \subseteq words
    BY DEF SyncSteps, DictionaryTypeOK
  <2> QED
    BY <1>13, <2>1, <2>2, <2>3
<1>17. CASE SyncExisting
  <2>1. "insert" \in SyncSteps /\ words \subseteq Word /\ written \subseteq words
        /\ sync.todo \ words \in SUBSET Word
    BY <1>0 DEF SyncSteps, DictionaryTypeOK
  <2> QED
    BY <1>13, <1>17, <2>1 DEF SyncExisting
<1>18. CASE SyncInsert
  <2>1. PICK s \in SyncSteps, ws \in SUBSET Word : SyncGoto(s, ws)
    BY <1>0, <1>18 DEF SyncInsert, SyncSteps
  <2>2. words' \subseteq Word /\ written' \subseteq words' /\ dropped' \subseteq dropped
    BY <1>0, <1>18 DEF SyncInsert, DictionaryTypeOK
  <2> QED
    BY <1>13, <1>18, <2>1, <2>2 DEF SyncInsert
<1>19. ASSUME Edit PROVE edits' \in 0..MaxEdits
  BY <1>19, DictionaryAssumption DEF Edit, DictionaryTypeOK
<1>20. CASE AddHotword
  <2>1. words' \subseteq Word /\ mine' \subseteq Word /\ dropped' \subseteq Word /\ written' \subseteq words'
    BY <1>20 DEF AddHotword, DictionaryTypeOK
  <2> QED
    BY <1>19, <1>20, <2>1 DEF AddHotword, DictionaryTypeOK, SyncNamed
<1>21. CASE DeleteHotword
  <2>1. words' \subseteq Word /\ mine' \subseteq Word /\ dropped' \subseteq Word /\ written' \subseteq words'
    BY <1>21 DEF DeleteHotword, DictionaryTypeOK
  <2> QED
    BY <1>19, <1>21, <2>1 DEF DeleteHotword, DictionaryTypeOK, SyncNamed
<1>22. CASE ImportHotwords
  <2>1. import' \subseteq Word
    BY <1>22 DEF ImportHotwords
  <2> QED
    BY <1>19, <1>22, <2>1 DEF ImportHotwords, DictionaryTypeOK, SyncNamed
<1>23. CASE ImportNext
  <2>1. /\ words' \subseteq Word /\ mine' \subseteq Word /\ dropped' \subseteq Word
        /\ written' \subseteq words' /\ import' \subseteq Word
    BY <1>23 DEF ImportNext, NoImport, DictionaryTypeOK
  <2> QED
    BY <1>23, <2>1 DEF ImportNext, DictionaryTypeOK, SyncNamed
<1>24. CASE UpsertStylePack
  <2>1. packs' \in [PackIds -> (SUBSET Aliases) \cup {None}] /\ strayed' \in BOOLEAN
        /\ builtin' \subseteq PackIds
    BY <1>24 DEF UpsertStylePack, DictionaryTypeOK
  <2> QED
    BY <1>19, <1>24, <2>1 DEF UpsertStylePack, DictionaryTypeOK, SyncNamed
<1>25. CASE DeleteStylePack
  <2>1. packs' \in [PackIds -> (SUBSET Aliases) \cup {None}] /\ strayed' \in BOOLEAN
    BY <1>25 DEF DeleteStylePack, DictionaryTypeOK, Rows
  <2> QED
    BY <1>19, <1>25, <2>1 DEF DeleteStylePack, DictionaryTypeOK, SyncNamed
<1>26. CASE UNCHANGED vars
  BY <1>26 DEF DictionaryTypeOK, SyncNamed, vars
<1> QED
  BY <1>1, <1>2, <1>3, <1>4, <1>5, <1>6, <1>7, <1>8, <1>10, <1>11, <1>12, <1>14, <1>15, <1>16,
     <1>17, <1>18, <1>20, <1>21, <1>22, <1>23, <1>24, <1>25, <1>26 DEF Next, Start, Sync, User

-----------------------------------------------------------------------------
(* The aliases. *)

PacksApart ==
  \A p, q \in PackIds :
    p # q /\ packs[p] # None /\ packs[q] # None => packs[p] \cap packs[q] = {}

\* Clash is all that has to be asked before a pack gets new aliases.
LEMMA ApartIfNoClash ==
  ASSUME DictionaryTypeOK, PacksApart, NEW p \in PackIds, NEW as, ~Clash(packs, p, as),
         packs' = [packs EXCEPT ![p] = as]
  PROVE  PacksApart'
<1> SUFFICES ASSUME NEW q \in PackIds, NEW r \in PackIds,
                    q # r, packs'[q] # None, packs'[r] # None
             PROVE  packs'[q] \cap packs'[r] = {}
  BY DEF PacksApart
<1>1. \A x \in PackIds : packs'[x] = IF x = p THEN as ELSE packs[x]
  BY DEF DictionaryTypeOK
<1>2. \A x \in PackIds : x # p /\ packs[x] # None => packs[x] \cap as = {}
  BY DEF Clash
<1>3. CASE q = p
  BY <1>1, <1>2, <1>3
<1>4. CASE r = p
  BY <1>1, <1>2, <1>4
<1>5. CASE q # p /\ r # p
  BY <1>1, <1>5 DEF PacksApart
<1> QED
  BY <1>3, <1>4, <1>5

\* The actions that change the packs; all others leave them alone.
LEMMA PacksChange ==
  ASSUME [Next]_vars, packs' # packs
  PROVE  Seed \/ UpsertStylePack \/ DeleteStylePack
  BY DEF Next, Start, Sync, User, Open, Migrate, WriteVersion, Migrated, Seeded, Crash,
         SaveAppConfig, SyncUnchanged, SyncRead, SyncRemove, SyncPacks, SyncExisting,
         SyncInsert, SyncInsertFails, SyncFlag, AddHotword, DeleteHotword, ImportHotwords,
         ImportNext, dbVars, vars

LEMMA PacksApartStep == DictionaryTypeOK /\ PacksApart /\ [Next]_vars => PacksApart'
<1> SUFFICES ASSUME DictionaryTypeOK, PacksApart, [Next]_vars PROVE PacksApart'
  OBVIOUS
<1>1. CASE packs' = packs
  BY <1>1 DEF PacksApart
<1>2. CASE Seed
  <2>1. PICK p \in DOMAIN BuiltinPacks :
          ~Clash(packs, p, BuiltinPacks[p]) /\ packs' = [packs EXCEPT ![p] = BuiltinPacks[p]]
    BY <1>2 DEF Seed
  <2> QED
    BY <2>1, ApartIfNoClash DEF PackIds
<1>3. CASE UpsertStylePack
  <2>1. PICK p \in PackIds, as \in SUBSET Aliases :
          ~Clash(packs, p, as) /\ packs' = [packs EXCEPT ![p] = as]
    BY <1>3 DEF UpsertStylePack
  <2> QED
    BY <2>1, ApartIfNoClash
<1>4. CASE DeleteStylePack
  <2>1. \E d \in PackIds : packs' = [packs EXCEPT ![d] = None]
    BY <1>4 DEF DeleteStylePack, Rows
  <2>2. \A p \in PackIds : packs'[p] # None => packs'[p] = packs[p] /\ packs[p] # None
    BY <2>1 DEF DictionaryTypeOK
  <2> QED
    BY <2>2 DEF PacksApart
<1> QED
  BY <1>1, <1>2, <1>3, <1>4, PacksChange

\* FR-5.8 for every set of aliases and of built-in packs: no alias ever calls two
\* packs (AliasesDistinct), in whatever order packs are seeded, added, edited and
\* deleted, with the types.
THEOREM NoAliasCallsTwoPacks == Spec => []AliasesDistinct
<1>1. Init => PacksApart
  <2> SUFFICES ASSUME Init PROVE PacksApart
    OBVIOUS
  <2>1. \A p \in PackIds : packs[p] # None => p = UserPack
    BY DEF Init
  <2> QED
    BY <2>1 DEF PacksApart
<1>2. DictionaryTypeOK /\ PacksApart => AliasesDistinct
  BY DEF PacksApart, AliasesDistinct
<1> QED
  BY <1>1, <1>2, DictionaryInitTypes, DictionaryTypesStep, PacksApartStep, PTL DEF Spec

-----------------------------------------------------------------------------
(* The hotwords follow the name.                                             *)

\* The words that the packs ask for under the name n.
Due(ps, n) == {<<m, a>> : m \in {n} \ {Empty}, a \in AliasesIn(ps) \ English}

LEMMA DueWords ==
  ASSUME NEW n
  PROVE  {w \in assistant_combo_words(n) : is_all_hanzi(w)} = Due(packs, n)
<1>1. \A a : is_all_hanzi(<<n, a>>) <=> a \notin English
  BY DEF is_all_hanzi
<1> QED
  BY <1>1, ComboIn DEF Due

\* From the first word that is removed until the new name is recorded, the
\* recorded one is torn; and what is due is in the table or still to be inserted,
\* but for the words the user has taken out since.
DueInv ==
  /\ sync.at \in {"remove", "packs", "existing", "insert", "flag"} => torn = synced
  /\ synced \notin {None, torn} => edited \/ Due(packs, synced) \ dropped \subseteq words
  /\ sync.at = "existing" => edited \/ Due(packs, sync.name) = sync.todo
  /\ sync.at = "insert" =>
       edited \/ Due(packs, sync.name) \ dropped \subseteq words \cup sync.todo
  /\ sync.at = "flag" => edited \/ Due(packs, sync.name) \ dropped \subseteq words

\* Unless something strayed, the words that were written are of the recorded name
\* - in the insertion of the new one, that began with none of them - and each of an
\* alias that a pack still has: so removing the words of the packs removes them all.
WrittenInv ==
  /\ \A w \in written : w[1] \in Names
  /\ sync.at \in {"existing", "insert"} => \A w \in sync.todo : w[1] = sync.name
  /\ strayed \/
       /\ \A w \in written : w[2] \in AliasesIn(packs)
       /\ sync.at \notin {"insert", "flag"} => \A w \in written : w[1] = synced
       /\ sync.at = "remove" => written \subseteq sync.todo
       /\ sync.at \in {"packs", "existing"} => written = {}
       /\ sync.at \in {"insert", "flag"} => \A w \in written : w[1] = sync.name
       /\ sync.at \in {"existing", "insert"} => \A w \in sync.todo : w[2] \in AliasesIn(packs)

\* The steps of the start, of the user and of a call that begins or ends, by what
\* they leave alone.
LEMMA Quiet ==
  ASSUME [Next]_vars, ~SyncRead, ~SyncRemove, ~SyncPacks, ~SyncExisting, ~SyncInsert, ~SyncFlag
  PROVE  \/ /\ UNCHANGED <<packs, sync, synced, torn, edited>>
            /\ written' \subseteq written /\ strayed' = strayed
            /\ \A w : w \in words => w \in words' \/ w \in dropped'
            /\ \A w : w \in dropped => w \in dropped' \/ w \in words'
         \/ Seed \/ UpsertStylePack \/ DeleteStylePack
         \/ /\ sync'.at \in {"idle", "read"}
            /\ UNCHANGED <<packs, words, synced, torn, edited, dropped, written>>
            /\ strayed' \/ ((strayed' <=> strayed) /\ sync.at \notin {"insert", "flag"})
               \/ Seeded
<1> USE DEF dbVars, startVars, bounds, ghostVars
<1>1. CASE Open \/ Migrate \/ WriteVersion \/ Migrated \/ ImportHotwords \/ UNCHANGED vars
  BY <1>1 DEF Open, Migrate, WriteVersion, Migrated, ImportHotwords, vars
<1>2. CASE AddHotword
  BY <1>2 DEF AddHotword
<1>3. CASE DeleteHotword
  BY <1>3 DEF DeleteHotword
<1>4. CASE ImportNext
  BY <1>4 DEF ImportNext
<1>5. CASE Crash
  <2>1. sync'.at = "idle" /\ UNCHANGED <<packs, words, synced, torn, edited, dropped, written>>
        /\ strayed' = (strayed \/ sync.at \in {"insert", "flag"})
    BY <1>5 DEF Crash, NoSync
  <2>2. CASE sync.at \in {"insert", "flag"}
    BY <2>1, <2>2
  <2>3. CASE sync.at \notin {"insert", "flag"}
    <3>1. strayed' <=> strayed
      BY <2>1, <2>3
    <3> QED
      BY <2>1, <2>3, <3>1
  <2> QED
    BY <2>2, <2>3
<1>6. CASE SaveAppConfig
  BY <1>6 DEF SaveAppConfig, NoSync
<1>7. CASE SyncUnchanged
  BY <1>7 DEF SyncUnchanged, SyncReturns, NoSync
<1>8. CASE SyncInsertFails
  BY <1>8 DEF SyncInsertFails, SyncReturns, NoSync
<1>9. CASE Seeded
  BY <1>9 DEF Seeded, NoSync
<1> QED
  BY <1>1, <1>2, <1>3, <1>4, <1>5, <1>6, <1>7, <1>8, <1>9 DEF Next, Start, Sync, User

LEMMA DueInvStep ==
  DictionaryTypeOK /\ SyncNamed /\ DueInv /\ [Next]_vars => DueInv'
<1> SUFFICES ASSUME DictionaryTypeOK, SyncNamed, DueInv, [Next]_vars PROVE DueInv'
  OBVIOUS
<1> USE DEF dbVars, startVars, bounds, ghostVars
<1>1. CASE SyncRead
  <2>1. sync'.at = "remove" /\ torn' = synced /\ synced' = synced
    BY <1>1, SyncGotoStep DEF SyncRead
  <2> QED
    BY <2>1 DEF DueInv
<1>2. CASE SyncRemove
  <2>1. sync'.at \in {"remove", "packs"} /\ UNCHANGED <<torn, synced>> /\ sync.at = "remove"
    BY <1>2, SyncGotoStep DEF SyncRemove
  <2> QED
    BY <2>1 DEF DueInv
<1>3. CASE SyncPacks
  <2>1. sync'.at = "existing" /\ sync'.name = sync.name /\ sync'.todo = Due(packs, sync.name)
        /\ UNCHANGED <<torn, synced, packs>> /\ sync.at = "packs"
    BY <1>3, SyncGotoStep, DueWords DEF SyncPacks
  <2> QED
    BY <2>1 DEF DueInv
<1>4. CASE SyncExisting
  <2>1. sync'.at = "insert" /\ sync'.name = sync.name /\ sync'.todo = sync.todo \ words
        /\ UNCHANGED <<torn, synced, packs, edited, dropped, words>> /\ sync.at = "existing"
    BY <1>4, SyncGotoStep DEF SyncExisting
  <2> QED
    BY <2>1 DEF DueInv
<1>5. CASE SyncInsert
  <2>1. UNCHANGED <<torn, synced, packs, edited>> /\ sync.at = "insert" /\ sync'.name = sync.name
    BY <1>5, SyncGotoStep DEF SyncInsert
  <2>2. CASE sync.todo = {}
    <3>1. sync'.at = "flag" /\ UNCHANGED <<words, dropped>>
      BY <1>5, <2>2, SyncGotoStep DEF SyncInsert
    <3> QED
      BY <2>1, <2>2, <3>1 DEF DueInv
  <2>3. CASE sync.todo # {}
    <3>1. PICK w \in sync.todo :
            /\ words' = words \cup {w} /\ dropped' = dropped \ {w}
            /\ sync'.at = "insert" /\ sync'.todo = sync.todo \ {w}
      BY <1>5, <2>3, SyncGotoStep DEF SyncInsert
    <3> QED
      BY <2>1, <3>1 DEF DueInv
  <2> QED
    BY <2>2, <2>3
<1>6. CASE SyncFlag
  <2>1. sync.at = "flag" /\ sync'.at = "idle" /\ synced' = sync.name
        /\ UNCHANGED <<packs, words, edited, dropped>>
    BY <1>6 DEF SyncFlag, SyncReturns, NoSync
  <2> QED
    BY <2>1 DEF DueInv
<1>7. CASE Seed \/ UpsertStylePack \/ DeleteStylePack
  <2>1. edited' = TRUE /\ UNCHANGED <<sync, synced, torn>>
    BY <1>7 DEF Seed, UpsertStylePack, DeleteStylePack
  <2> QED
    BY <2>1 DEF DueInv
<1>8. CASE /\ UNCHANGED <<packs, sync, synced, torn, edited>>
           /\ \A w : w \in words => w \in words' \/ w \in dropped'
           /\ \A w : w \in dropped => w \in dropped' \/ w \in words'
  <2>1. ASSUME NEW S, NEW T, S \ dropped \subseteq words \cup T
        PROVE  S \ dropped' \subseteq words' \cup T
    BY <1>8, <2>1
  <2>2. ASSUME NEW S, S \ dropped \subseteq words PROVE S \ dropped' \subseteq words'
    BY <1>8, <2>2
  <2> QED
    BY <1>8, <2>1, <2>2 DEF DueInv
<1>9. CASE /\ sync'.at \in {"idle", "read"}
           /\ UNCHANGED <<packs, words, synced, torn, edited, dropped>>
  BY <1>9 DEF DueInv
<1> QED
  BY <1>1, <1>2, <1>3, <1>4, <1>5, <1>6, <1>7, <1>8, <1>9, Quiet

LEMMA AliasesKept ==
  ASSUME NEW ps, NEW qs,
         \A p \in PackIds : ps[p] # None => qs[p] # None /\ ps[p] \subseteq qs[p]
  PROVE  AliasesIn(ps) \subseteq AliasesIn(qs)
  BY DEF AliasesIn

\* Unless it strays, a pack keeps its aliases.
LEMMA AliasesGrow ==
  ASSUME DictionaryTypeOK, Seed \/ UpsertStylePack \/ DeleteStylePack
  PROVE  strayed' \/ AliasesIn(packs) \subseteq AliasesIn(packs')
<1> SUFFICES ASSUME ~strayed' PROVE AliasesIn(packs) \subseteq AliasesIn(packs')
  OBVIOUS
<1>0. packs \in [PackIds -> (SUBSET Aliases) \cup {None}]
  BY DEF DictionaryTypeOK
<1>1. CASE Seed
  <2>1. \A p \in PackIds : packs[p] # None => packs'[p] = packs[p]
    BY <1>0, <1>1 DEF Seed
  <2> QED
    BY <2>1, AliasesKept
<1>2. CASE UpsertStylePack
  <2>1. PICK p \in PackIds, as \in SUBSET Aliases :
          /\ packs' = [packs EXCEPT ![p] = as]
          /\ strayed' = (strayed \/ (packs[p] # None /\ ~(packs[p] \subseteq as)))
    BY <1>2 DEF UpsertStylePack
  <2>2. packs[p] = None \/ packs[p] \subseteq as
    BY <2>1
  <2>3. as # None
    BY DictionaryAssumption
  <2>4. \A q \in PackIds : packs[q] # None => packs'[q] # None /\ packs[q] \subseteq packs'[q]
    BY <1>0, <2>1, <2>2, <2>3
  <2> QED
    BY <2>4, AliasesKept
<1>3. CASE DeleteStylePack
  <2>1. PICK d \in PackIds : packs[d] = {} /\ packs' = [packs EXCEPT ![d] = None]
    BY <1>3 DEF DeleteStylePack, Rows
  <2> QED
    BY <1>0, <2>1 DEF AliasesIn
<1> QED
  BY <1>1, <1>2, <1>3

LEMMA WrittenInvStep ==
  DictionaryTypeOK /\ SyncNamed /\ WrittenInv /\ [Next]_vars => WrittenInv'
<1> SUFFICES ASSUME DictionaryTypeOK, SyncNamed, WrittenInv, [Next]_vars PROVE WrittenInv'
  OBVIOUS
<1> USE DEF dbVars, startVars, bounds, ghostVars
<1>1. CASE SyncRead
  <2>1. /\ sync.at = "read" /\ sync'.at = "remove"
        /\ synced # None => assistant_combo_words(synced) \subseteq sync'.todo
        /\ UNCHANGED <<written, synced, packs, strayed>>
    BY <1>1, SyncGotoStep DEF SyncRead
  <2>2. ASSUME ~strayed, NEW w \in written PROVE w \in sync'.todo
    <3>1. /\ w \in Word /\ w[1] = synced /\ w[2] \in AliasesIn(packs)
          /\ synced \notin {None, Empty}
      BY <2>1, <2>2, DictionaryAssumption DEF WrittenInv, DictionaryTypeOK
    <3>2. w = <<synced, w[2]>>
      BY <3>1 DEF Word
    <3>3. w \in assistant_combo_words(synced)
      BY <3>1, <3>2, ComboIn
    <3> QED
      BY <2>1, <3>1, <3>3
  <2> QED
    BY <2>1, <2>2 DEF WrittenInv
<1>2. CASE SyncRemove
  <2>1. sync.at = "remove" /\ UNCHANGED <<synced, packs, strayed>>
    BY <1>2 DEF SyncRemove
  <2>2. CASE sync.todo = {}
    <3>1. sync'.at = "packs" /\ written' = written
      BY <1>2, <2>2, SyncGotoStep DEF SyncRemove
    <3> QED
      BY <2>1, <2>2, <3>1 DEF WrittenInv
  <2>3. CASE sync.todo # {}
    <3>1. PICK w \in sync.todo : written' = written \ {w} /\ sync'.at = "remove"
                                 /\ sync'.todo = sync.todo \ {w}
      BY <1>2, <2>3, SyncGotoStep DEF SyncRemove
    <3> QED
      BY <2>1, <3>1 DEF WrittenInv
  <2> QED
    BY <2>2, <2>3
<1>3. CASE SyncPacks
  <2>1. sync'.at = "existing" /\ sync'.name = sync.name /\ sync'.todo = Due(packs, sync.name)
        /\ UNCHANGED <<written, synced, packs, strayed>> /\ sync.at = "packs"
    BY <1>3, SyncGotoStep, DueWords DEF SyncPacks
  <2>2. \A w \in Due(packs, sync.name) : w[1] = sync.name /\ w[2] \in AliasesIn(packs)
    BY DEF Due
  <2> QED
    BY <2>1, <2>2 DEF WrittenInv
<1>4. CASE SyncExisting
  <2>1. sync'.at = "insert" /\ sync'.name = sync.name /\ sync'.todo = sync.todo \ words
        /\ UNCHANGED <<written, synced, packs, strayed>> /\ sync.at = "existing"
    BY <1>4, SyncGotoStep DEF SyncExisting
  <2> QED
    BY <2>1 DEF WrittenInv
<1>5. CASE SyncInsert
  <2>1. UNCHANGED <<synced, packs, strayed>> /\ sync.at = "insert" /\ sync'.name = sync.name
        /\ sync.name \in AnyName
    BY <1>5, SyncGotoStep DEF SyncInsert, SyncNamed
  <2>2. CASE sync.todo = {}
    <3>1. sync'.at = "flag" /\ written' = written
      BY <1>5, <2>2, SyncGotoStep DEF SyncInsert
    <3> QED
      BY <2>1, <2>2, <3>1 DEF WrittenInv
  <2>3. CASE sync.todo # {}
    <3>1. PICK w \in sync.todo :
            /\ written' = written \cup {w}
            /\ sync'.at = "insert" /\ sync'.todo = sync.todo \ {w}
      BY <1>5, <2>3, SyncGotoStep DEF SyncInsert
    <3>2. w[1] \in Names
      BY <2>1, <3>1, DictionaryAssumption DEF WrittenInv, DictionaryTypeOK, Word, AnyName
    <3> QED
      BY <2>1, <3>1, <3>2 DEF WrittenInv
  <2> QED
    BY <2>2, <2>3
<1>6. CASE SyncFlag
  <2>1. sync.at = "flag" /\ sync'.at = "idle" /\ synced' = sync.name
        /\ UNCHANGED <<packs, written, strayed>>
    BY <1>6 DEF SyncFlag, SyncReturns, NoSync
  <2> QED
    BY <2>1 DEF WrittenInv
<1>7. CASE Seed \/ UpsertStylePack \/ DeleteStylePack
  <2>0. strayed \in BOOLEAN
    BY DEF DictionaryTypeOK
  <2>1. UNCHANGED <<sync, synced, written>> /\ (strayed => strayed')
    <3>1. CASE Seed
      BY <3>1 DEF Seed
    <3>2. CASE UpsertStylePack
      BY <2>0, <3>2 DEF UpsertStylePack
    <3>3. CASE DeleteStylePack
      BY <2>0, <3>3 DEF DeleteStylePack
    <3> QED
      BY <1>7, <3>1, <3>2, <3>3
  <2>2. strayed' \/ AliasesIn(packs) \subseteq AliasesIn(packs')
    BY <1>7, AliasesGrow
  <2> QED
    BY <2>1, <2>2 DEF WrittenInv
<1>8. CASE UNCHANGED <<packs, sync, synced, strayed>> /\ written' \subseteq written
  BY <1>8 DEF WrittenInv
<1>9. CASE /\ sync'.at \in {"idle", "read"} /\ UNCHANGED <<packs, synced, written>>
           /\ strayed' \/ ((strayed' <=> strayed) /\ sync.at \notin {"insert", "flag"})
  BY <1>9 DEF WrittenInv
<1>10. CASE Seeded
  <2>1. sync'.at = "read" /\ UNCHANGED <<packs, synced, written, strayed>> /\ sync.at = "idle"
    BY <1>10 DEF Seeded, NoSync, SyncNamed
  <2> QED
    BY <2>1 DEF WrittenInv
<1> QED
  BY <1>1, <1>2, <1>3, <1>4, <1>5, <1>6, <1>7, <1>8, <1>9, <1>10, Quiet

\* A name that is recorded has its words, and no word of another name is left
\* (CombosFollowName), for every set of names and aliases, while the user edits
\* and imports and the program is ended between any two statements.
THEOREM HotwordsFollowTheName == Spec => []CombosFollowName
<1>1. Init => DueInv /\ WrittenInv
  BY DEF Init, DueInv, WrittenInv, NoSync
<1>2. DueInv /\ WrittenInv => CombosFollowName
  <2> SUFFICES ASSUME DueInv, WrittenInv, sync.at = "idle", synced \notin {None, torn}
               PROVE  /\ edited \/ {w \in assistant_combo_words(synced) : is_all_hanzi(w)}
                                     \ dropped \subseteq words
                      /\ strayed \/ \A w \in written : w[1] = synced
    BY DEF CombosFollowName
  <2>1. edited \/ Due(packs, synced) \ dropped \subseteq words
    BY DEF DueInv
  <2>2. strayed \/ \A w \in written : w[1] = synced
    BY DEF WrittenInv
  <2> QED
    BY <2>1, <2>2, DueWords
<1> QED
  BY <1>1, <1>2, DictionaryInitTypes, DictionaryTypesStep, DueInvStep, WrittenInvStep, PTL
     DEF Spec
=============================================================================
