----------------------------- MODULE SettingsProofs -----------------------------
(***************************************************************************)
(* For any configurations, any number of saving windows and any bounds:    *)
(* what pipeline() hands out has no part that was read before a change     *)
(* whose command has returned; what was in use is what starts again; and   *)
(* what the user has chosen by hand stays chosen.                          *)
(***************************************************************************)
EXTENDS Settings, TLAPS

(* Types. *)

LEMMA DefaultTyped == Default \in Config
<1> DEFINE f == [k \in Kinds |-> Recommended]
<1>1. f \in [Kinds -> Models \cup {None}] /\ \A k \in Kinds : f[k] \in Choosable(k)
  BY SettingsAssumption DEF Choosable
<1>2. (CHOOSE p \in Prefs : TRUE) \in Prefs
  BY SettingsAssumption
<1> QED BY <1>1, <1>2 DEF Default, Config, Urls

LEMMA IdleTyped == Idle \in Op
BY DefaultTyped DEF Idle, Op, Cmds, Stages, Kinds

LEMMA PartsTyped == Parts \in Nat /\ Parts # 0
BY SettingsAssumption, Zenon

LEMMA NotBuildingTyped ==
  /\ NotBuilding \in Building
  /\ [NotBuilding EXCEPT !.lock = TRUE] \in Building
<1>1. Parts \in 0..Parts /\ 0 \in Nat
  BY PartsTyped
<1> QED BY <1>1, Zenon DEF NotBuilding, Building

\* What is done to a configuration leaves it one.
LEMMA ConfigClosed ==
  ASSUME NEW c \in Config
  PROVE  /\ \A p \in Prefs : [c EXCEPT !.pref = p] \in Config
         /\ \A k \in Kinds, m \in Models : [c EXCEPT !.model[k] = m] \in Config
         /\ \A k \in Kinds : \A m \in Choosable(k) : [c EXCEPT !.model[k] = m] \in Config
         /\ \A b \in BOOLEAN : [c EXCEPT !.key = b] \in Config
         /\ \A u \in Urls : [c EXCEPT !.url = u] \in Config
<1>1. ASSUME NEW k \in Kinds, NEW m \in Choosable(k)
      PROVE  [c EXCEPT !.model[k] = m] \in Config
  <2> DEFINE f == [c.model EXCEPT ![k] = m]
  <2>1. f \in [Kinds -> Models \cup {None}] /\ \A j \in Kinds : f[j] \in Choosable(j)
    BY <1>1 DEF Config, Choosable
  <2>2. [c EXCEPT !.model[k] = m] = [c EXCEPT !.model = f]
    BY DEF Config
  <2> HIDE DEF f
  <2> QED BY <2>1, <2>2 DEF Config
<1>2. \A k \in Kinds : Models \subseteq Choosable(k)
  BY DEF Choosable
<1> QED BY <1>1, <1>2 DEF Config

LEMMA RecommendedTyped ==
  ASSUME NEW c \in Config, NEW ks
  PROVE  recommended_defaults_apply(c, ks) \in Config
<1> DEFINE f == [k \in Kinds |-> IF k \in ks THEN c.model[k] ELSE Recommended]
<1>1. f \in [Kinds -> Models \cup {None}] /\ \A j \in Kinds : f[j] \in Choosable(j)
  BY SettingsAssumption DEF Config, Choosable
<1> HIDE DEF f
<1> QED BY <1>1 DEF recommended_defaults_apply, Config, f

LEMMA LoadedTyped ==
  ASSUME NEW row \in Config \cup {None}, NEW k \in BOOLEAN
  PROVE  load_config(row, k) \in Config
<1>1. CASE row = None
  BY <1>1, DefaultTyped DEF load_config
<1>2. CASE row # None
  <2> DEFINE c == [row EXCEPT !.key = row.key \/ k]
  <2>1. c \in Config
    BY <1>2, ConfigClosed DEF Config
  <2> HIDE DEF c
  <2>2. sanitize_endpoints(c) \in Config
    BY <2>1, ConfigClosed DEF sanitize_endpoints, Urls
  <2> QED BY <1>2, <2>2 DEF load_config, c
<1> QED BY <1>1, <1>2

LEMMA StoredTyped == \A c \in Config : Stored(c) \in Config
BY ConfigClosed DEF Stored

-----------------------------------------------------------------------------
LEMMA TypeInit == Init => SettingsTypeOK
<1> SUFFICES ASSUME Init PROVE SettingsTypeOK
  OBVIOUS
<1>1. json \in Config \cup {None}
  <2>1. \A u \in OldUrls :
          [Default EXCEPT !.key = (u # ""), !.url = u] \in Config
    BY SettingsAssumption, DefaultTyped DEF Config, Urls
  <2> QED BY <2>1 DEF Init
<1>2. op \in [Writers -> Op]
  BY IdleTyped DEF Init
<1>3. building \in Building
  BY NotBuildingTyped DEF Init
<1>4. 0 \in 0..MaxOps /\ 0 \in 0..MaxFaults /\ 0 \in 0..MaxCrashes /\ 0 \in Nat
  <2>1. MaxOps \in Nat /\ MaxFaults \in Nat /\ MaxCrashes \in Nat
    BY SettingsAssumption
  <2> QED BY <2>1
<1>5. choice \in [Kinds -> Models \cup {None}]
  BY DEF Init
<1> QED
  BY <1>1, <1>2, <1>3, <1>4, <1>5, DefaultTyped, Zenon
     DEF Init, SettingsTypeOK, Op, Building

\* Goto and Done, and Begin with a configuration.
LEMMA OpTyped ==
  ASSUME op \in [Writers -> Op], NEW w \in Writers
  PROVE  /\ \A s \in Stages : Goto(w, s) => op' \in [Writers -> Op]
         /\ Done(w) => op' \in [Writers -> Op]
         /\ \A cmd \in Cmds, at \in Stages, c \in Config, k \in Kinds :
              ver \in Nat /\ Begin(w, cmd, at, c, k) => op' \in [Writers -> Op]
BY IdleTyped DEF Goto, Done, Begin, Op

\* A command that has begun, and what it counts.
LEMMA BeginTyped ==
  ASSUME SettingsTypeOK, NEW w \in Writers, NEW cmd \in Cmds, NEW at \in Stages,
         NEW c \in Config, NEW k \in Kinds, Begin(w, cmd, at, c, k)
  PROVE  op' \in [Writers -> Op] /\ ops' \in 0..MaxOps /\ torn' \in BOOLEAN
<1>1. op' \in [Writers -> Op]
  BY OpTyped DEF SettingsTypeOK, Op
<1>2. ops' \in 0..MaxOps
  <2>1. ops \in 0..MaxOps /\ MaxOps \in Nat
    BY SettingsAssumption, Zenon DEF SettingsTypeOK
  <2>2. ops < MaxOps /\ ops' = ops + 1
    BY Zenon DEF Begin
  <2> QED BY <2>1, <2>2
<1>3. torn' \in BOOLEAN
  BY Zenon DEF Begin
<1> QED BY <1>1, <1>2, <1>3

\* A failure that is counted.
LEMMA FaultTyped ==
  ASSUME SettingsTypeOK, Fault
  PROVE  faults' \in 0..MaxFaults
<1>1. faults \in 0..MaxFaults /\ MaxFaults \in Nat
  BY SettingsAssumption, Zenon DEF SettingsTypeOK
<1>2. faults < MaxFaults /\ faults' = faults + 1
  BY Zenon DEF Fault
<1> QED BY <1>1, <1>2

\* Every step leaves every variable in its type.
LEMMA TypeStep == SettingsTypeOK /\ [Next]_vars => SettingsTypeOK'
<1> SUFFICES ASSUME SettingsTypeOK, [Next]_vars PROVE SettingsTypeOK'
  OBVIOUS
<1> USE DEF SettingsTypeOK
<1>1. CASE Start
  <2>1. json' \in Config \cup {None} /\ mem' \in Config /\ chain' \in BOOLEAN
    <3>1. PICK moved \in BOOLEAN, rewritten \in BOOLEAN, readable \in BOOLEAN :
            /\ chain' = (chain \/ moved)
            /\ json' = IF rewritten THEN Stored(json) ELSE json
            /\ rewritten => moved
            /\ moved => json # None
            /\ mem' = load_config(IF moved THEN Stored(json) ELSE json,
                                  chain' /\ readable)
      BY <1>1, Zenon DEF Start
    <3>2. chain' \in BOOLEAN /\ (chain' /\ readable) \in BOOLEAN
      BY <3>1, Zenon
    <3>3. (IF moved THEN Stored(json) ELSE json) \in Config \cup {None}
      BY <3>1, StoredTyped, Zenon
    <3>4. mem' \in Config
      BY <3>1, <3>2, <3>3, LoadedTyped, Zenon
    <3> QED BY <3>1, <3>2, <3>4, StoredTyped, Zenon
  <2>2. faults' \in 0..MaxFaults /\ torn' \in BOOLEAN
    BY <1>1, FaultTyped, Zenon DEF Start
  <2> QED BY <1>1, <2>1, <2>2, Zenon DEF Start, pipeVars, ghostVars
<1>2. CASE Crash
  <2>1. crashes' \in 0..MaxCrashes
    <3>1. crashes \in 0..MaxCrashes /\ MaxCrashes \in Nat
      BY SettingsAssumption, Zenon
    <3>2. crashes < MaxCrashes /\ crashes' = crashes + 1
      BY <1>2, Zenon DEF Crash
    <3> QED BY <3>1, <3>2
  <2>2. op' \in [Writers -> Op] /\ choice' \in [Kinds -> Models \cup {None}]
    BY <1>2, IdleTyped DEF Crash
  <2>3. 0 \in Nat
    OBVIOUS
  <2> QED
    BY <1>2, <2>1, <2>2, <2>3, DefaultTyped, NotBuildingTyped, Zenon DEF Crash, diskVars
<1>3. CASE SetUiLang
  <2>1. PICK p \in Prefs : Begin(Main, "lang", "chain", [mem EXCEPT !.pref = p], "polish")
    BY <1>3, Zenon DEF SetUiLang
  <2>2. op' \in [Writers -> Op] /\ ops' \in 0..MaxOps /\ torn' \in BOOLEAN
    BY <2>1, ConfigClosed, BeginTyped DEF Writers, Cmds, Stages, Kinds
  <2> QED BY <1>3, <2>2, Zenon DEF SetUiLang, cfgVars, diskVars, pipeVars
<1>4. CASE GetConfig
  <2>1. op' \in [Writers -> Op] /\ ops' \in 0..MaxOps /\ torn' \in BOOLEAN
    BY <1>4, RecommendedTyped, BeginTyped DEF GetConfig, Writers, Cmds, Stages, Kinds
  <2> QED BY <1>4, <2>1, Zenon DEF GetConfig, cfgVars, diskVars, pipeVars
<1>5. ASSUME NEW w \in Savers, SaveAppConfig(w) PROVE SettingsTypeOK'
  <2>1. PICK c \in Config : Begin(w, "save", "chain", c, "polish")
    <3>1. PICK p \in Prefs, m \in Models, t \in {mem.model["translate"]} \cup Copied,
               on \in BOOLEAN :
            Begin(w, "save", "chain",
                  [pref |-> p, model |-> [polish |-> m, translate |-> t],
                   key |-> on, url |-> IF on THEN "good" ELSE ""], "polish")
      BY <1>5, Zenon DEF SaveAppConfig
    <3>2. PICK f : f = [polish |-> m, translate |-> t]
      OBVIOUS
    <3>3. f \in [Kinds -> Models \cup {None}] /\ \A k \in Kinds : f[k] \in Choosable(k)
      <4>1. m \in Models /\ t \in Models \cup {None}
        <5>1. Copied \subseteq Models \cup {None}
          BY SettingsAssumption, Zenon
        <5>2. mem.model["translate"] \in Models \cup {None}
          BY DEF Config, Kinds
        <5> QED BY <5>1, <5>2
      <4> QED BY <3>2, <4>1 DEF Kinds, Choosable
    <3>4. [pref |-> p, model |-> f, key |-> on, url |-> IF on THEN "good" ELSE ""]
            \in Config
      BY <3>3 DEF Config, Urls
    <3>5. Begin(w, "save", "chain",
                [pref |-> p, model |-> f, key |-> on, url |-> IF on THEN "good" ELSE ""],
                "polish")
      BY <3>1, <3>2
    <3> QED BY <3>4, <3>5, Zenon
  <2>2. op' \in [Writers -> Op] /\ ops' \in 0..MaxOps /\ torn' \in BOOLEAN
    BY <2>1, BeginTyped DEF Writers, Cmds, Stages, Kinds
  <2> QED BY <1>5, <2>2, Zenon DEF SaveAppConfig, cfgVars, diskVars, pipeVars
<1>6. ASSUME NEW k \in Kinds, SetActiveModel(k) PROVE SettingsTypeOK'
  <2>1. PICK m \in Choosable(k) :
          mem' = [mem EXCEPT !.model[k] = m] /\ Begin(Main, "pick", "chain", mem', k)
    BY <1>6, Zenon DEF SetActiveModel
  <2>2. mem' \in Config
    BY <2>1, ConfigClosed
  <2>3. op' \in [Writers -> Op] /\ ops' \in 0..MaxOps /\ torn' \in BOOLEAN
    BY <2>1, <2>2, BeginTyped DEF Writers, Cmds, Stages
  <2>4. ver' \in Nat
    BY <1>6 DEF SetActiveModel
  <2> QED
    BY <1>6, <2>2, <2>3, <2>4, Zenon DEF SetActiveModel, Writers, diskVars, pipeVars
<1>7. CASE SetActiveStylePack \/ set_active_asr_model
  <2>1. PICK p \in Prefs, cmd \in {"pack", "asr"} :
          mem' = [mem EXCEPT !.pref = p] /\ Begin(Main, cmd, "chain", mem', "polish")
    BY <1>7, Zenon DEF SetActiveStylePack, set_active_asr_model
  <2>2. mem' \in Config
    BY <2>1, ConfigClosed
  <2>3. "chain" \in Stages /\ "polish" \in Kinds /\ Main \in Writers /\ cmd \in Cmds
    BY DEF Writers, Cmds, Stages, Kinds
  <2>4. op' \in [Writers -> Op] /\ ops' \in 0..MaxOps /\ torn' \in BOOLEAN
    BY <2>1, <2>2, <2>3, BeginTyped
  <2> QED
    BY <1>7, <2>2, <2>4, Zenon
       DEF SetActiveStylePack, set_active_asr_model, Writers, diskVars, pipeVars
<1>8. CASE DeleteAsrModel
  <2>1. op' \in [Writers -> Op] /\ ops' \in 0..MaxOps /\ torn' \in BOOLEAN
    BY <1>8, BeginTyped DEF DeleteAsrModel, Writers, Cmds, Stages, Kinds
  <2> QED BY <1>8, <2>1, Zenon DEF DeleteAsrModel, cfgVars, diskVars, pipeVars
<1>9. CASE DeleteAsrFallback
  <2>1. mem' \in Config
    BY <1>9, ConfigClosed DEF DeleteAsrFallback
  <2>2. op' \in [Writers -> Op]
    BY <1>9, <2>1 DEF DeleteAsrFallback, Op, Writers, Stages
  <2> QED
    BY <1>9, <2>1, <2>2, Zenon
       DEF DeleteAsrFallback, Writers, diskVars, pipeVars, bounds, ghostVars
<1>10. CASE DeleteModel
  <2>1. PICK m \in files :
          Begin(Main, "delete", "lock", [mem EXCEPT !.model["polish"] = m], "polish")
    BY <1>10, Zenon DEF DeleteModel
  <2>2. [mem EXCEPT !.model["polish"] = m] \in Config
    BY <2>1, ConfigClosed DEF Kinds
  <2>3. op' \in [Writers -> Op] /\ ops' \in 0..MaxOps /\ torn' \in BOOLEAN
    BY <2>1, <2>2, BeginTyped DEF Writers, Cmds, Stages, Kinds
  <2>4. files' \subseteq Models /\ ver' \in Nat
    BY <1>10 DEF DeleteModel
  <2> QED BY <1>10, <2>3, <2>4, Zenon DEF DeleteModel, cfgVars, pipeVars
<1>11. CASE DeleteFallback
  <2> DEFINE m == op[Main].cfg.model["polish"]
             k == IF mem.model["polish"] = m THEN "polish"
                  ELSE IF mem.model["translate"] = m THEN "translate" ELSE "none"
  <2>1. mem' \in Config /\ ver' \in Nat /\ op' \in [Writers -> Op]
    <3>1. CASE k = "none"
      <4>1. UNCHANGED <<mem, ver>> /\ Goto(Main, "inval")
        BY <1>11, <3>1, Zenon DEF DeleteFallback
      <4> QED BY <4>1, OpTyped DEF Writers, Stages
    <3>2. CASE k # "none"
      <4>1. k \in Kinds
        BY <3>2 DEF Kinds
      <4>2. m \in Models
        BY DEF Op, Config, Writers, Kinds, Choosable
      <4>3. PICK fb \in delete_fallback_id(k, m, files) :
              /\ mem' = [mem EXCEPT !.model[k] = fb]
              /\ ver' = ver + 1
              /\ op' = [op EXCEPT ![Main] = [cmd |-> "delete", at |-> "chain", cfg |-> mem',
                                             kind |-> k, ver |-> ver']]
        BY <1>11, <3>2, Zenon DEF DeleteFallback
      <4> HIDE DEF k, m
      <4>4. fb \in Choosable(k)
        <5>1. k = "polish" \/ k = "translate"
          BY <4>1 DEF Kinds
        <5> QED BY <4>2, <4>3, <5>1 DEF delete_fallback_id, Choosable
      <4>5. mem' \in Config
        BY <4>1, <4>3, <4>4, ConfigClosed
      <4>6. ver' \in Nat
        BY <4>3
      <4> QED BY <4>1, <4>3, <4>5, <4>6 DEF Op, Writers, Stages, Cmds
    <3> QED BY <3>1, <3>2
  <2> QED
    BY <1>11, <2>1, Zenon DEF DeleteFallback, Writers, diskVars, pipeVars, bounds, ghostVars
<1>12. ASSUME NEW w \in Writers, StoreKey(w) PROVE SettingsTypeOK'
  <2>1. op' \in [Writers -> Op]
    BY <1>12, OpTyped DEF StoreKey, Stages
  <2>2. chain' \in BOOLEAN
    BY <1>12 DEF StoreKey, Op, Config
  <2>3. faults' \in 0..MaxFaults /\ torn' \in BOOLEAN
    BY <1>12, FaultTyped, Zenon DEF StoreKey
  <2> QED BY <1>12, <2>1, <2>2, <2>3, Zenon DEF StoreKey, cfgVars, pipeVars
<1>13. ASSUME NEW w \in Writers, WriteJson(w) PROVE SettingsTypeOK'
  <2>1. op' \in [Writers -> Op]
    BY <1>13, OpTyped DEF WriteJson, AfterJson, Stages
  <2>2. json' \in Config
    BY <1>13, StoredTyped DEF WriteJson, Op
  <2>3. cfgLock' \in Writers \cup {None}
    BY <1>13, Zenon DEF WriteJson, Unlock
  <2> QED
    BY <1>13, <2>1, <2>2, <2>3, Zenon DEF WriteJson, pipeVars, bounds, ghostVars
<1>14. ASSUME NEW w \in Writers, WriteJsonFails(w) PROVE SettingsTypeOK'
  <2>1. op' \in [Writers -> Op]
    BY <1>14, OpTyped DEF WriteJsonFails, AfterJson, Stages
  <2>2. faults' \in 0..MaxFaults /\ torn' \in BOOLEAN
    BY <1>14, FaultTyped, Zenon DEF WriteJsonFails
  <2>3. cfgLock' \in Writers \cup {None}
    BY <1>14, Zenon DEF WriteJsonFails, Unlock
  <2> QED
    BY <1>14, <2>1, <2>2, <2>3, Zenon DEF WriteJsonFails, pipeVars, diskVars
<1>15. ASSUME NEW w \in Writers, QueueWrite(w) PROVE SettingsTypeOK'
  <2>1. op' \in [Writers -> Op]
    BY <1>15, OpTyped DEF QueueWrite, Stages
  <2> QED
    BY <1>15, <2>1, Zenon DEF QueueWrite, cfgVars, diskVars, pipeVars, bounds, ghostVars
<1>16. ASSUME NEW w \in Writers, WriteMemory(w) PROVE SettingsTypeOK'
  <2>1. mem' \in Config /\ ver' \in Nat
    BY <1>16 DEF WriteMemory, Op
  <2>2. op' \in [Writers -> Op]
    <3>1. CASE op[w].cmd = "lang"
      BY <1>16, <3>1, OpTyped DEF WriteMemory
    <3>2. CASE op[w].cmd # "lang"
      <4> DEFINE o == [op[w] EXCEPT !.at = "inval", !.ver = ver']
      <4>1. op' = [op EXCEPT ![w] = o]
        BY <1>16, <3>2 DEF WriteMemory
      <4>2. o \in Op
        BY <2>1 DEF Op, Stages
      <4> HIDE DEF o
      <4> QED BY <4>1, <4>2
    <3> QED BY <3>1, <3>2
  <2> QED
    BY <1>16, <2>1, <2>2, Zenon DEF WriteMemory, diskVars, pipeVars, bounds, ghostVars
<1>17. CASE SetUserFlag
  <2>1. op' \in [Writers -> Op]
    BY <1>17, OpTyped DEF SetUserFlag, Stages, Writers
  <2>2. userSet' \subseteq Kinds
    BY <1>17 DEF SetUserFlag, Op, Writers
  <2>3. faults' \in 0..MaxFaults /\ torn' \in BOOLEAN
    BY <1>17, FaultTyped, Zenon DEF SetUserFlag
  <2> QED BY <1>17, <2>1, <2>2, <2>3, Zenon DEF SetUserFlag, cfgVars, pipeVars
<1>18. ASSUME NEW w \in Writers, Invalidate(w) PROVE SettingsTypeOK'
  <2>1. op' \in [Writers -> Op]
    BY <1>18, OpTyped DEF Invalidate
  <2>2. promised' \in Nat
    BY <1>18 DEF Invalidate, Op
  <2>3. choice' \in [Kinds -> Models \cup {None}]
    BY <1>18 DEF Invalidate, Choices, Op, Config
  <2> QED BY <1>18, <2>1, <2>2, <2>3, Zenon DEF Invalidate, diskVars, bounds
<1>19. CASE ListModels \/ ListEntries
  BY <1>19, Zenon DEF ListModels, ListEntries, diskVars, pipeVars, bounds, ghostVars
<1>20. CASE PipelineCached
  BY <1>20, Zenon DEF PipelineCached, HandOut, cfgVars, diskVars, bounds, ghostVars
<1>21. CASE PipelineBuild
  BY <1>21, NotBuildingTyped, Zenon
     DEF PipelineBuild, cfgVars, diskVars, bounds, ghostVars
<1>22. CASE ReadPart
  <2> DEFINE o == IF building.left = Parts THEN ver ELSE building.oldest
  <2>1. building' = [building EXCEPT !.left = building.left - 1, !.oldest = o]
    BY <1>22, Zenon DEF ReadPart
  <2>2. building.left - 1 \in 0..Parts /\ o \in Nat
    BY <1>22, PartsTyped DEF ReadPart, Building
  <2> HIDE DEF o
  <2>3. building' \in Building
    BY <2>1, <2>2 DEF Building
  <2> QED BY <1>22, <2>3, Zenon DEF ReadPart, cfgVars, diskVars, bounds, ghostVars
<1>23. CASE PipelineBuilt
  <2>1. pipe' \in Nat
    BY <1>23 DEF PipelineBuilt, Building
  <2> QED
    BY <1>23, <2>1, NotBuildingTyped, Zenon
       DEF PipelineBuilt, HandOut, cfgVars, diskVars, bounds, ghostVars
<1>24. CASE UNCHANGED vars
  BY <1>24, Zenon DEF vars, cfgVars, diskVars, pipeVars, bounds, ghostVars
<1> QED
  BY <1>1, <1>2, <1>3, <1>4, <1>5, <1>6, <1>7, <1>8, <1>9, <1>10, <1>11, <1>12,
     <1>13, <1>14, <1>15, <1>16, <1>17, <1>18, <1>19, <1>20, <1>21, <1>22, <1>23,
     <1>24
     DEF Next, MainStep, cycle_style_pack, RecorderStep, WriterStep, set_active_polish_model,
         set_active_translate_model, Kinds

\* Every variable keeps its type, for any configurations and any bounds.
THEOREM SettingsTyping == Spec => []SettingsTypeOK
<1> QED BY TypeInit, TypeStep, PTL DEF Spec

-----------------------------------------------------------------------------
(* Freshness. *)

\* Promises are versions there have been; a version a command or a pipeline
\* counts on is one of them; and what is cached, or will be once its first part
\* was read, is as young as the youngest promise.
Fresh ==
  /\ promised <= ver
  /\ \A w \in Writers : op[w].ver <= ver
  /\ pipe # None => promised <= pipe
  /\ (building.lock /\ building.left # Parts) => promised <= building.oldest
  /\ handed # "stale"

LEMMA FreshInit == Init => Fresh
<1> SUFFICES ASSUME Init PROVE Fresh
  OBVIOUS
<1>a. promised = 0 /\ ver = 0 /\ op = [w \in Writers |-> Idle]
  BY Zenon DEF Init
<1>b. Idle.ver = 0
  BY DEF Idle
<1>1. promised <= ver /\ \A w \in Writers : op[w].ver <= ver
  BY <1>a, <1>b
<1>2. ~building.lock /\ pipe = None /\ handed # "stale"
  BY DEF Init, NotBuilding
<1> QED BY <1>1, <1>2, Zenon DEF Fresh

\* Where nothing is promised, dropped, built or handed out, only versions move.
LEMMA FreshKept ==
  ASSUME SettingsTypeOK, SettingsTypeOK', Fresh,
         UNCHANGED <<promised, pipe, building, handed>>, ver' \in {ver, ver + 1},
         \A w \in Writers : op'[w].ver \in {0, op[w].ver, ver, ver'}
  PROVE  Fresh'
<1>1. ver \in Nat /\ ver' \in Nat /\ ver <= ver' /\ promised \in Nat
  BY DEF SettingsTypeOK
<1>2. \A w \in Writers : op[w].ver \in Nat /\ op[w].ver <= ver
  BY DEF SettingsTypeOK, Op, Fresh
<1>3. promised' <= ver'
  BY <1>1 DEF Fresh
<1>4. \A w \in Writers : op'[w].ver <= ver'
  BY <1>1, <1>2
<1> QED BY <1>3, <1>4, Zenon DEF Fresh

LEMMA FreshStep == SettingsTypeOK /\ SettingsTypeOK' /\ Fresh /\ [Next]_vars => Fresh'
<1> SUFFICES ASSUME SettingsTypeOK, SettingsTypeOK', Fresh, [Next]_vars PROVE Fresh'
  OBVIOUS
<1>1. CASE Crash
  <2>1. promised' <= ver' /\ \A w \in Writers : op'[w].ver <= ver'
    BY <1>1 DEF Crash, Idle
  <2>2. ~building'.lock /\ pipe' = None /\ handed' # "stale"
    BY <1>1 DEF Crash, NotBuilding
  <2> QED BY <2>1, <2>2, Zenon DEF Fresh
<1>2. CASE Start \/ ListModels \/ ListEntries \/ UNCHANGED vars
  <2>1. UNCHANGED <<promised, pipe, building, handed, ver, op>>
    BY <1>2, Zenon
       DEF Start, ListModels, ListEntries, vars, pipeVars, ghostVars
  <2> QED BY <2>1, FreshKept
<1>3. ASSUME NEW w \in Writers, NEW cmd, NEW at, NEW c, NEW k, Begin(w, cmd, at, c, k)
      PROVE  \A v \in Writers : op'[v].ver \in {op[v].ver, ver}
  BY <1>3 DEF Begin, SettingsTypeOK
<1>4. ASSUME NEW w \in Writers,
             \/ \E s \in Stages : Goto(w, s)
             \/ Done(w)
      PROVE  \A v \in Writers : op'[v].ver \in {op[v].ver, 0}
  BY <1>4 DEF Goto, Done, Idle, SettingsTypeOK, Op
<1> USE DEF pipeVars, ghostVars
<1>5. ASSUME \/ SetUiLang \/ GetConfig \/ SetActiveStylePack \/ set_active_asr_model
             \/ DeleteAsrModel \/ \E w \in Savers : SaveAppConfig(w)
      PROVE  Fresh'
  <2>1. UNCHANGED <<promised, pipe, building, handed, ver>>
    BY <1>5, Zenon
       DEF SetUiLang, GetConfig, SetActiveStylePack, set_active_asr_model,
           DeleteAsrModel, SaveAppConfig
  <2>2. \E w \in Writers : \E cmd, at, c, k : Begin(w, cmd, at, c, k)
    BY <1>5, Zenon
       DEF SetUiLang, GetConfig, SetActiveStylePack, set_active_asr_model,
           DeleteAsrModel, SaveAppConfig, Writers
  <2>3. \A v \in Writers : op'[v].ver \in {op[v].ver, ver}
    BY <2>2, <1>3, Zenon
  <2> QED BY <2>1, <2>3, FreshKept
<1>6. ASSUME DeleteModel \/ \E k \in Kinds : SetActiveModel(k)
      PROVE  Fresh'
  <2>1. UNCHANGED <<promised, pipe, building, handed>> /\ ver' = ver + 1
    BY <1>6, Zenon DEF DeleteModel, SetActiveModel
  <2>2. \E cmd, at, c, k : Begin(Main, cmd, at, c, k)
    BY <1>6, Zenon DEF DeleteModel, SetActiveModel
  <2>3. \A v \in Writers : op'[v].ver \in {op[v].ver, ver}
    BY <2>2, <1>3, Zenon DEF Writers
  <2> QED BY <2>1, <2>3, FreshKept
<1>7. CASE DeleteAsrFallback
  <2>1. UNCHANGED <<promised, pipe, building, handed, ver>>
    BY <1>7, Zenon DEF DeleteAsrFallback
  <2>2. \A v \in Writers : op'[v].ver = op[v].ver
    BY <1>7 DEF DeleteAsrFallback, SettingsTypeOK, Op
  <2> QED BY <2>1, <2>2, FreshKept
<1>8. CASE DeleteFallback
  <2>1. UNCHANGED <<promised, pipe, building, handed>>
    BY <1>8, Zenon DEF DeleteFallback
  <2>2. \/ ver' = ver /\ Goto(Main, "inval")
        \/ /\ ver' = ver + 1
           /\ \E k : op' = [op EXCEPT ![Main] = [cmd |-> "delete", at |-> "chain",
                                                 cfg |-> mem', kind |-> k,
                                                 ver |-> ver']]
    BY <1>8, Zenon DEF DeleteFallback
  <2>3. CASE ver' = ver /\ Goto(Main, "inval")
    <3>1. \A v \in Writers : op'[v].ver \in {op[v].ver, 0}
      BY <1>4, <2>3 DEF Writers, Stages
    <3> QED BY <2>1, <2>3, <3>1, FreshKept
  <2>4. CASE ver' # ver \/ ~Goto(Main, "inval")
    <3>1. \A v \in Writers : op'[v].ver \in {op[v].ver, ver'}
      BY <2>2, <2>4 DEF SettingsTypeOK
    <3> QED BY <2>1, <2>2, <2>4, <3>1, FreshKept
  <2> QED BY <2>3, <2>4
<1>9. ASSUME NEW w \in Writers,
             StoreKey(w) \/ WriteJson(w) \/ WriteJsonFails(w) \/ QueueWrite(w)
      PROVE  Fresh'
  <2>1. UNCHANGED <<promised, pipe, building, handed, ver>>
    BY <1>9, Zenon DEF StoreKey, WriteJson, WriteJsonFails, QueueWrite
  <2>2. (\E s \in Stages : Goto(w, s)) \/ Done(w)
    BY <1>9 DEF StoreKey, WriteJson, WriteJsonFails, QueueWrite, AfterJson, Stages
  <2>3. \A v \in Writers : op'[v].ver \in {op[v].ver, 0}
    BY <1>4, <2>2, Zenon
  <2> QED BY <2>1, <2>3, FreshKept
<1>10. ASSUME NEW w \in Writers, WriteMemory(w) PROVE Fresh'
  <2>1. UNCHANGED <<promised, pipe, building, handed>> /\ ver' = ver + 1
    BY <1>10, Zenon DEF WriteMemory
  <2>2. \A v \in Writers : op'[v].ver \in {op[v].ver, 0, ver'}
    <3>1. CASE Done(w)
      BY <1>4, <3>1
    <3>2. CASE op' = [op EXCEPT ![w] = [@ EXCEPT !.at = "inval", !.ver = ver']]
      BY <3>2 DEF SettingsTypeOK, Op
    <3> QED BY <1>10, <3>1, <3>2, Zenon DEF WriteMemory
  <2> QED BY <2>1, <2>2, FreshKept
<1>11. CASE SetUserFlag
  <2>1. UNCHANGED <<promised, pipe, building, handed, ver>> /\ Goto(Main, "inval")
    BY <1>11, Zenon DEF SetUserFlag
  <2>2. \A v \in Writers : op'[v].ver \in {op[v].ver, 0}
    BY <1>4, <2>1 DEF Writers, Stages
  <2> QED BY <2>1, <2>2, FreshKept
<1>12. ASSUME NEW w \in Writers, Invalidate(w) PROVE Fresh'
  <2>1. \A v \in Writers : op'[v].ver \in {op[v].ver, 0}
    BY <1>4, <1>12, Zenon DEF Invalidate
  <2>2. promised' <= ver' /\ \A v \in Writers : op'[v].ver <= ver'
    BY <1>12, <2>1 DEF Invalidate, Fresh, SettingsTypeOK, Op
  <2>3. pipe' = None /\ ~building'.lock /\ handed' = handed
    BY <1>12, Zenon DEF Invalidate
  <2> QED BY <2>2, <2>3, Zenon DEF Fresh
<1>13. CASE PipelineCached
  <2>1. UNCHANGED <<promised, pipe, building, ver, op>> /\ pipe # None /\ HandOut(pipe)
    BY <1>13, Zenon DEF PipelineCached
  <2>2. pipe >= promised
    BY <2>1 DEF Fresh, SettingsTypeOK
  <2> QED BY <2>1, <2>2, Zenon DEF Fresh, HandOut
<1>14. CASE PipelineBuild
  <2>1. UNCHANGED <<promised, pipe, handed, ver, op>> /\ building'.left = Parts
    BY <1>14 DEF PipelineBuild, NotBuilding
  <2> QED BY <2>1, Zenon DEF Fresh
<1>15. CASE ReadPart
  <2>1. UNCHANGED <<promised, pipe, handed, ver, op>>
    BY <1>15, Zenon DEF ReadPart
  <2>2. promised <= building'.oldest
    BY <1>15 DEF ReadPart, Fresh, SettingsTypeOK, Building
  <2> QED BY <2>1, <2>2, Zenon DEF Fresh
<1>16. CASE PipelineBuilt
  <2>1. UNCHANGED <<promised, ver, op>> /\ ~building'.lock
        /\ pipe' = building.oldest /\ HandOut(pipe')
    BY <1>16 DEF PipelineBuilt, NotBuilding
  <2>2. promised <= building.oldest
    BY <1>16, PartsTyped DEF PipelineBuilt, Fresh
  <2>3. pipe' >= promised
    BY <2>1, <2>2 DEF SettingsTypeOK, Building
  <2> QED BY <2>1, <2>2, <2>3, Zenon DEF Fresh, HandOut
<1> QED
  BY <1>1, <1>2, <1>5, <1>6, <1>7, <1>8, <1>9, <1>10, <1>11, <1>12, <1>13, <1>14,
     <1>15, <1>16
     DEF Next, MainStep, cycle_style_pack, RecorderStep, WriterStep, set_active_polish_model,
         set_active_translate_model, Kinds

\* No pipeline that is handed out has a part read before a change whose command
\* has returned, however reads and writes are mixed.
THEOREM PipelineIsFresh == Spec => []FreshPipeline
<1>1. Init => SettingsTypeOK /\ Fresh
  BY TypeInit, FreshInit
<1>2. SettingsTypeOK /\ Fresh /\ [Next]_vars => (SettingsTypeOK /\ Fresh)'
  BY TypeStep, FreshStep
<1>3. SettingsTypeOK /\ Fresh => FreshPipeline
  BY DEF Fresh, FreshPipeline
<1> QED BY <1>1, <1>2, <1>3, PTL DEF Spec

-----------------------------------------------------------------------------
(* What is saved. *)

Saved == load_config(json, chain) = mem

\* Where a command stands to the keychain, the row and the memory.
Place(o) ==
  /\ o.at \in {"lock", "flag", "inval"} => Saved
  /\ o.at \in {"chain", "json"} => o.cmd \in {"lang", "get", "save"} \/ mem = o.cfg
  /\ o.at \in {"json", "mem", "queued"} => chain = o.cfg.key
  /\ o.at \in {"mem", "queued"} => json = Stored(o.cfg)

Quiet == \A w \in Writers : op[w].at = "idle"

\* While nothing has gone wrong one command runs at a time, and each of its
\* steps brings the keychain and the row a bit closer to the memory.
SavedInv ==
  /\ ~up => Quiet
  /\ mem.url # "bad" /\ \A w \in Writers : op[w].cfg.url # "bad"
  /\ ~torn => \A v, w \in Writers : op[v].at # "idle" /\ op[w].at # "idle" => v = w
  /\ up /\ ~torn => (\A w \in Writers : Place(op[w])) /\ (Quiet => Saved)

\* What is stored is what is loaded.
LEMMA StoredLoads ==
  ASSUME NEW c \in Config, c.url # "bad"
  PROVE  load_config(Stored(c), c.key) = c
<1>1. Stored(c) \in Config /\ Stored(c) # None
  BY StoredTyped, NoneIsNoConfig
<1> DEFINE d == [Stored(c) EXCEPT !.key = Stored(c).key \/ c.key]
<1>2. d = c
  BY DEF Stored, Config
<1>3. load_config(Stored(c), c.key) = sanitize_endpoints(d)
  BY <1>1 DEF load_config
<1> HIDE DEF d
<1> QED BY <1>2, <1>3 DEF sanitize_endpoints

LEMMA LoadedUrl ==
  ASSUME NEW row \in Config \cup {None}, NEW k \in BOOLEAN
  PROVE  load_config(row, k).url # "bad"
<1>1. CASE row = None
  BY <1>1 DEF load_config, Default
<1>2. CASE row # None
  <2> DEFINE c == [row EXCEPT !.key = row.key \/ k]
  <2>1. c \in Config
    BY <1>2, ConfigClosed DEF Config
  <2> HIDE DEF c
  <2>2. sanitize_endpoints(c).url # "bad"
    BY <2>1 DEF sanitize_endpoints, Config
  <2> QED BY <1>2, <2>2 DEF load_config, c
<1> QED BY <1>1, <1>2

\* The row without its key, once the keychain has it, loads as before.
LEMMA MovedLoads ==
  ASSUME NEW row \in Config, row.key
  PROVE  load_config(Stored(row), TRUE) = load_config(row, TRUE)
<1>1. Stored(row) # None /\ row # None
  BY StoredTyped, NoneIsNoConfig
<1>2. [Stored(row) EXCEPT !.key = Stored(row).key \/ TRUE]
        = [row EXCEPT !.key = row.key \/ TRUE]
  BY DEF Stored, Config
<1> QED BY <1>1, <1>2 DEF load_config

\* A command that begins is the only one, or spoils `torn'.
LEMMA BeginPlaces ==
  ASSUME SettingsTypeOK, SavedInv, NEW w \in Writers, NEW cmd, NEW at, NEW c, NEW k,
         Begin(w, cmd, at, c, k), UNCHANGED <<json, chain, up>>,
         c.url # "bad", mem'.url # "bad",
         \/ at = "chain" /\ (cmd \in {"lang", "get", "save"} \/ mem' = c)
         \/ at = "lock" /\ mem' = mem
  PROVE  SavedInv'
<1> DEFINE o == [cmd |-> cmd, at |-> at, cfg |-> c, kind |-> k, ver |-> ver]
<1>1. op' = [op EXCEPT ![w] = o] /\ up /\ up'
  BY DEF Begin
<1>2. o.at = at /\ o.cmd = cmd /\ o.cfg = c
  OBVIOUS
<1> HIDE DEF o
<1>3. op'[w] = o /\ \A v \in Writers \ {w} : op'[v] = op[v]
  BY <1>1 DEF SettingsTypeOK
<1>4. ~torn' => ~torn /\ Quiet
  BY DEF Begin, Busy, Quiet
<1>5. ~torn' => \A v \in Writers \ {w} : op'[v].at = "idle"
  BY <1>3, <1>4 DEF Quiet
<1>6. ~torn' => \A v \in Writers : Place(op[v])'
  <2>1. ~torn' => Saved
    BY <1>1, <1>4 DEF SavedInv
  <2>2. ~torn' => Place(op[w])'
    BY <1>2, <1>3, <2>1 DEF Place, Saved
  <2> QED BY <1>5, <2>2 DEF Place
<1>7. ~Quiet'
  BY <1>2, <1>3 DEF Quiet
<1>8. \A v \in Writers : op'[v].cfg.url # "bad"
  BY <1>2, <1>3 DEF SavedInv
<1> QED BY <1>1, <1>5, <1>6, <1>7, <1>8 DEF SavedInv

\* So is one that goes on.
LEMMA StepPlaces ==
  ASSUME SettingsTypeOK, SavedInv, NEW w \in Writers, op[w].at # "idle",
         UNCHANGED up, NEW o, op' = [op EXCEPT ![w] = o],
         o.cfg.url # "bad", mem'.url # "bad",
         ~torn' => ~torn /\ Place(o)' /\ (o.at = "idle" => Saved')
  PROVE  SavedInv'
<1>1. up /\ up'
  BY DEF SavedInv, Quiet
<1>2. op'[w] = o /\ \A v \in Writers \ {w} : op'[v] = op[v]
  BY DEF SettingsTypeOK
<1>3. ~torn' => \A v \in Writers \ {w} : op'[v].at = "idle"
  BY <1>2 DEF SavedInv
<1>4. ~torn' => (\A v \in Writers : Place(op[v])') /\ (Quiet' => Saved')
  BY <1>2, <1>3 DEF Place, Quiet
<1>5. \A v \in Writers : op'[v].cfg.url # "bad"
  BY <1>2 DEF SavedInv
<1> QED BY <1>1, <1>3, <1>4, <1>5 DEF SavedInv

LEMMA SavedInit == Init => SavedInv
<1> SUFFICES ASSUME Init PROVE SavedInv
  OBVIOUS
<1>1. mem.url # "bad" /\ \A w \in Writers : op[w].cfg.url # "bad" /\ op[w].at = "idle"
  BY DEF Init, Idle, Default
<1> QED BY <1>1 DEF Init, SavedInv, Quiet

\* The step of a writer that has begun.
LEMMA WriterPlaces ==
  ASSUME SettingsTypeOK, SavedInv, NEW w \in Writers,
         \/ StoreKey(w) \/ WriteJson(w) \/ WriteJsonFails(w) \/ QueueWrite(w)
         \/ WriteMemory(w) \/ Invalidate(w)
  PROVE  SavedInv'
<1> USE DEF cfgVars, diskVars, pipeVars, bounds, ghostVars
<1>0. mem.url # "bad"
  BY DEF SavedInv
<1>1. op[w] \in Op /\ op[w].cfg \in Config /\ op[w].cfg.url # "bad"
  BY DEF SettingsTypeOK, SavedInv, Op
<1>2. ~torn => Place(op[w]) \/ ~up
  BY DEF SavedInv
<1>3. op[w].at # "idle" => up
  BY DEF SavedInv, Quiet
<1>4. Idle.cfg.url # "bad" /\ Idle.at = "idle"
  BY DEF Idle, Default
<1>5. ASSUME NEW s, op' = [op EXCEPT ![w].at = s]
      PROVE  \E o : /\ op' = [op EXCEPT ![w] = o]
                    /\ o.at = s /\ o.cmd = op[w].cmd /\ o.cfg = op[w].cfg
  <2>1. PICK o : o = [op[w] EXCEPT !.at = s]
    OBVIOUS
  <2>2. o.at = s /\ o.cmd = op[w].cmd /\ o.cfg = op[w].cfg
    BY <1>1, <2>1 DEF Op
  <2> QED BY <1>5, <2>1, <2>2
<1>6. CASE StoreKey(w)
  <2>1. op' = [op EXCEPT ![w].at = "json"] /\ op[w].at = "chain"
        /\ UNCHANGED <<mem, json, up>> /\ (~torn' => ~torn /\ chain' = op[w].cfg.key)
    BY <1>6 DEF StoreKey, Goto
  <2>2. PICK o : /\ op' = [op EXCEPT ![w] = o]
                 /\ o.at = "json" /\ o.cmd = op[w].cmd /\ o.cfg = op[w].cfg
    BY <1>5, <2>1
  <2>3. ~torn' => Place(o)'
    BY <1>2, <1>3, <2>1, <2>2 DEF Place
  <2> QED BY <1>1, <2>1, <2>2, <2>3, <1>0, StepPlaces
<1>7. CASE WriteJson(w)
  <2>1. op' = [op EXCEPT ![w].at = AfterJson(w)] /\ op[w].at = "json"
        /\ UNCHANGED <<mem, chain, up, torn>> /\ json' = Stored(op[w].cfg)
    BY <1>7 DEF WriteJson, Goto
  <2>2. PICK o : /\ op' = [op EXCEPT ![w] = o]
                 /\ o.at = AfterJson(w) /\ o.cmd = op[w].cmd /\ o.cfg = op[w].cfg
    BY <1>5, <2>1
  <2>3. ~torn => chain = op[w].cfg.key
                 /\ (op[w].cmd \in {"lang", "get", "save"} \/ mem = op[w].cfg)
    BY <1>2, <1>3, <2>1 DEF Place
  <2>4. ~torn /\ op[w].cmd \notin {"lang", "get", "save"} => Saved'
    BY <1>1, <2>1, <2>3, StoredLoads DEF Saved
  <2>5. ~torn' => Place(o)' /\ (o.at = "idle" => Saved')
    BY <2>1, <2>2, <2>3, <2>4 DEF Place, AfterJson
  <2> QED BY <1>1, <2>1, <2>2, <2>5, <1>0, StepPlaces
<1>8. CASE WriteJsonFails(w)
  <2>1. torn' /\ UNCHANGED <<mem, json, chain, up>> /\ op[w].at = "json"
    BY <1>8 DEF WriteJsonFails
  <2>2. \E o : op' = [op EXCEPT ![w] = o] /\ o.cfg.url # "bad"
    BY <1>1, <1>4, <1>5, <1>8 DEF WriteJsonFails, Goto, Done
  <2> QED BY <2>1, <2>2, <1>0, StepPlaces
<1>9. CASE QueueWrite(w)
  <2>1. op' = [op EXCEPT ![w].at = "queued"] /\ op[w].at = "mem"
        /\ UNCHANGED <<mem, json, chain, up, torn>>
    BY <1>9 DEF QueueWrite, Goto
  <2>2. PICK o : /\ op' = [op EXCEPT ![w] = o]
                 /\ o.at = "queued" /\ o.cmd = op[w].cmd /\ o.cfg = op[w].cfg
    BY <1>5, <2>1
  <2>3. ~torn' => Place(o)'
    BY <1>2, <1>3, <2>1, <2>2 DEF Place
  <2> QED BY <1>1, <2>1, <2>2, <2>3, <1>0, StepPlaces
<1>10. CASE WriteMemory(w)
  <2>1. mem' = op[w].cfg /\ UNCHANGED <<json, chain, up, torn>>
        /\ op[w].at \in {"mem", "queued"}
    BY <1>10 DEF WriteMemory
  <2>2. \E o : /\ op' = [op EXCEPT ![w] = o] /\ o.cfg.url # "bad"
               /\ o.at \in {"idle", "inval"}
    <3> DEFINE o == [op[w] EXCEPT !.at = "inval", !.ver = ver']
    <3>1. o.cfg.url # "bad" /\ o.at = "inval"
      BY <1>1 DEF Op
    <3>2. op' = [op EXCEPT ![w] = o] \/ op' = [op EXCEPT ![w] = Idle]
      BY <1>10 DEF WriteMemory, Done
    <3> HIDE DEF o
    <3> QED BY <1>4, <3>1, <3>2
  <2>3. ~torn => Saved'
    BY <1>1, <1>2, <1>3, <2>1, StoredLoads DEF Place, Saved
  <2>4. \A o : ~torn' /\ o.at \in {"idle", "inval"} => Place(o)'
    BY <2>1, <2>3 DEF Place
  <2> QED BY <1>1, <2>1, <2>2, <2>3, <2>4, StepPlaces
<1>11. CASE Invalidate(w)
  <2>1. op' = [op EXCEPT ![w] = Idle] /\ op[w].at = "inval"
        /\ UNCHANGED <<mem, json, chain, up, torn>>
    BY <1>11 DEF Invalidate, Done
  <2>2. ~torn => Saved
    BY <1>2, <1>3, <2>1 DEF Place
  <2>3. ~torn' => Place(Idle)' /\ Saved'
    BY <1>4, <2>1, <2>2 DEF Place, Saved
  <2> QED BY <1>4, <2>1, <2>3, <1>0, StepPlaces
<1> QED BY <1>6, <1>7, <1>8, <1>9, <1>10, <1>11

LEMMA SavedStep == SettingsTypeOK /\ SavedInv /\ [Next]_vars => SavedInv'
<1> SUFFICES ASSUME SettingsTypeOK, SavedInv, [Next]_vars PROVE SavedInv'
  OBVIOUS
<1> USE DEF cfgVars, diskVars, pipeVars, bounds, ghostVars
<1>0. mem \in Config /\ mem.url # "bad"
  BY DEF SettingsTypeOK, SavedInv
<1>1. CASE Start
  <2>1. PICK moved \in BOOLEAN, rewritten \in BOOLEAN, readable \in BOOLEAN :
          /\ chain' = (chain \/ moved)
          /\ json' = IF rewritten THEN Stored(json) ELSE json
          /\ rewritten => moved
          /\ moved => json # None /\ json.key
          /\ mem' = load_config(IF moved THEN Stored(json) ELSE json,
                                chain' /\ readable)
          /\ torn' = ~readable
    BY <1>1, Zenon DEF Start
  <2>2. chain' \in BOOLEAN /\ (chain' /\ readable) \in BOOLEAN
        /\ json \in Config \cup {None}
    BY <2>1 DEF SettingsTypeOK
  <2>3. mem'.url # "bad"
    <3>1. (IF moved THEN Stored(json) ELSE json) \in Config \cup {None}
      BY <2>1, <2>2, StoredTyped
    <3> QED BY <2>1, <2>2, <3>1, LoadedUrl
  <2>4. ~torn' => Saved'
    <3>1. CASE moved
      <4>1. chain' = TRUE /\ json \in Config /\ json.key
        BY <2>1, <2>2, <3>1
      <4> QED BY <2>1, <3>1, <4>1, MovedLoads DEF Saved
    <3>2. CASE ~moved
      BY <2>1, <2>2, <3>2 DEF Saved
    <3> QED BY <3>1, <3>2
  <2>5. UNCHANGED op /\ Quiet /\ up'
    BY <1>1, Zenon DEF Start, SavedInv
  <2>6. \A w \in Writers : Place(op[w])'
    BY <2>5 DEF Quiet, Place
  <2> QED BY <2>3, <2>4, <2>5, <2>6 DEF SavedInv, Quiet
<1>2. CASE Crash
  <2>1. mem' = Default /\ ~up' /\ \A w \in Writers : op'[w] = Idle
    BY <1>2 DEF Crash
  <2>2. Idle.at = "idle" /\ Idle.cfg.url # "bad" /\ Default.url # "bad"
    BY DEF Idle, Default
  <2> QED BY <2>1, <2>2 DEF SavedInv, Quiet
<1>3. CASE SetUiLang
  <2>1. PICK p \in Prefs : Begin(Main, "lang", "chain", [mem EXCEPT !.pref = p], "polish")
    BY <1>3, Zenon DEF SetUiLang
  <2>2. [mem EXCEPT !.pref = p].url # "bad" /\ UNCHANGED <<mem, json, chain, up>>
    BY <1>0, <1>3 DEF SetUiLang, Config
  <2> QED BY <1>0, <2>1, <2>2, BeginPlaces DEF Writers
<1>4. CASE GetConfig
  <2>1. PICK c : c = recommended_defaults_apply(mem, userSet)
    OBVIOUS
  <2>2. c.url # "bad"
    BY <1>0, <2>1 DEF recommended_defaults_apply, Config
  <2>3. UNCHANGED <<mem, json, chain, up>> /\ Begin(Main, "get", "chain", c, "polish")
    BY <1>4, <2>1, Zenon DEF GetConfig
  <2> QED BY <1>0, <2>2, <2>3, BeginPlaces DEF Writers
<1>5. ASSUME NEW w \in Savers, SaveAppConfig(w) PROVE SavedInv'
  <2>1. PICK c : Begin(w, "save", "chain", c, "polish") /\ c.url # "bad"
    <3>1. PICK p \in Prefs, m \in Models, t \in {mem.model["translate"]} \cup Copied,
               on \in BOOLEAN :
            Begin(w, "save", "chain",
                  [pref |-> p, model |-> [polish |-> m, translate |-> t],
                   key |-> on, url |-> IF on THEN "good" ELSE ""], "polish")
      BY <1>5, Zenon DEF SaveAppConfig
    <3>2. PICK c : c = [pref |-> p, model |-> [polish |-> m, translate |-> t],
                        key |-> on, url |-> IF on THEN "good" ELSE ""]
      OBVIOUS
    <3>3. c.url # "bad"
      BY <3>2
    <3> QED BY <3>1, <3>2, <3>3, Zenon
  <2>2. UNCHANGED <<mem, json, chain, up>>
    BY <1>5, Zenon DEF SaveAppConfig
  <2> QED BY <1>0, <2>1, <2>2, BeginPlaces DEF Writers
<1>6. ASSUME NEW k \in Kinds, SetActiveModel(k) PROVE SavedInv'
  <2>1. PICK m : mem' = [mem EXCEPT !.model[k] = m] /\ Begin(Main, "pick", "chain", mem', k)
    BY <1>6, Zenon DEF SetActiveModel
  <2>2. mem'.url # "bad" /\ UNCHANGED <<json, chain, up>>
    BY <1>0, <1>6, <2>1 DEF SetActiveModel, Config
  <2> QED BY <2>1, <2>2, BeginPlaces DEF Writers
<1>7. CASE SetActiveStylePack \/ set_active_asr_model
  <2>1. PICK p, cmd : mem' = [mem EXCEPT !.pref = p] /\ Begin(Main, cmd, "chain", mem', "polish")
    BY <1>7, Zenon DEF SetActiveStylePack, set_active_asr_model
  <2>2. mem'.url # "bad" /\ UNCHANGED <<json, chain, up>>
    BY <1>0, <1>7, <2>1 DEF SetActiveStylePack, set_active_asr_model, Config
  <2> QED BY <2>1, <2>2, BeginPlaces DEF Writers
<1>8. CASE DeleteAsrModel
  <2>1. Begin(Main, "deleteAsr", "lock", mem, "polish") /\ UNCHANGED <<mem, json, chain, up>>
    BY <1>8, Zenon DEF DeleteAsrModel
  <2> QED BY <1>0, <2>1, BeginPlaces DEF Writers
<1>9. CASE DeleteModel
  <2>1. PICK m : Begin(Main, "delete", "lock", [mem EXCEPT !.model["polish"] = m], "polish")
    BY <1>9, Zenon DEF DeleteModel
  <2>2. [mem EXCEPT !.model["polish"] = m].url # "bad" /\ UNCHANGED <<mem, json, chain, up>>
    BY <1>0, <1>9 DEF DeleteModel, Config
  <2> QED BY <1>0, <2>1, <2>2, BeginPlaces DEF Writers
<1>10. CASE DeleteAsrFallback
  <2>1. PICK o : o = [op[Main] EXCEPT !.at = "chain", !.cfg = mem']
    OBVIOUS
  <2>2. o.at = "chain" /\ o.cfg = mem' /\ op' = [op EXCEPT ![Main] = o]
        /\ op[Main].at = "lock" /\ UNCHANGED <<up, torn>>
    BY <1>10, <2>1 DEF DeleteAsrFallback, SettingsTypeOK, Op, Writers
  <2>3. mem'.url # "bad"
    BY <1>0, <1>10 DEF DeleteAsrFallback, Config
  <2>4. Place(o)'
    BY <2>2 DEF Place
  <2> QED BY <2>2, <2>3, <2>4, StepPlaces DEF Writers
<1>11. CASE DeleteFallback
  <2>1. op[Main].at = "lock" /\ UNCHANGED <<json, chain, up, torn>>
    BY <1>11, Zenon DEF DeleteFallback
  <2>2. \/ mem' = mem /\ Goto(Main, "inval")
        \/ \E k, fb : /\ mem' = [mem EXCEPT !.model[k] = fb]
                      /\ op' = [op EXCEPT ![Main] = [cmd |-> "delete", at |-> "chain", cfg |-> mem',
                                                     kind |-> k, ver |-> ver']]
    BY <1>11, Zenon DEF DeleteFallback
  <2>3. CASE mem' = mem /\ Goto(Main, "inval")
    <3>1. PICK o : o = [op[Main] EXCEPT !.at = "inval"]
      OBVIOUS
    <3>2. o.at = "inval" /\ o.cfg.url # "bad" /\ op' = [op EXCEPT ![Main] = o]
      BY <2>3, <3>1 DEF Goto, SettingsTypeOK, SavedInv, Op, Writers
    <3>3. ~torn => Saved
      BY <2>1 DEF SavedInv, Quiet, Place, Writers
    <3>4. ~torn' => Place(o)'
      BY <2>1, <2>3, <3>2, <3>3 DEF Place, Saved
    <3> QED BY <1>0, <2>1, <2>3, <3>2, <3>4, StepPlaces DEF Writers
  <2>4. ASSUME NEW k, NEW fb, mem' = [mem EXCEPT !.model[k] = fb],
               op' = [op EXCEPT ![Main] = [cmd |-> "delete", at |-> "chain", cfg |-> mem',
                                           kind |-> k, ver |-> ver']]
        PROVE  SavedInv'
    <3>1. PICK o : o.at = "chain" /\ o.cfg = mem' /\ op' = [op EXCEPT ![Main] = o]
      <4>1. PICK o : o = [cmd |-> "delete", at |-> "chain", cfg |-> mem', kind |-> k,
                          ver |-> ver']
        OBVIOUS
      <4> QED BY <2>4, <4>1
    <3>2. mem'.url # "bad"
      BY <1>0, <2>4 DEF Config
    <3>3. Place(o)'
      BY <3>1 DEF Place
    <3> QED BY <2>1, <3>1, <3>2, <3>3, StepPlaces DEF Writers
  <2> QED BY <2>2, <2>3, <2>4
<1>12. CASE SetUserFlag
  <2>0. PICK o : o = [op[Main] EXCEPT !.at = "inval"]
    OBVIOUS
  <2>1. op[Main].at = "flag" /\ UNCHANGED <<mem, json, chain, up>> /\ (~torn' => ~torn)
    BY <1>12 DEF SetUserFlag
  <2>2. o.at = "inval" /\ o.cfg.url # "bad" /\ op' = [op EXCEPT ![Main] = o]
    BY <1>12, <2>0 DEF SetUserFlag, Goto, SettingsTypeOK, SavedInv, Op, Writers
  <2>3. ~torn => Saved
    BY <2>1 DEF SavedInv, Quiet, Place, Writers
  <2>4. ~torn' => Place(o)'
    BY <2>1, <2>2, <2>3 DEF Place, Saved
  <2> QED BY <1>0, <2>1, <2>2, <2>4, StepPlaces DEF Writers
<1>13. ASSUME NEW w \in Writers,
              \/ StoreKey(w) \/ WriteJson(w) \/ WriteJsonFails(w) \/ QueueWrite(w)
              \/ WriteMemory(w) \/ Invalidate(w)
       PROVE  SavedInv'
  BY <1>13, WriterPlaces
<1>14. CASE ListModels \/ ListEntries \/ RecorderStep \/ UNCHANGED vars
  <2>1. UNCHANGED <<mem, json, chain, op, up, torn>>
    BY <1>14, Zenon DEF ListModels, ListEntries, RecorderStep, PipelineCached,
       PipelineBuild, ReadPart, PipelineBuilt, vars
  <2> QED BY <2>1 DEF SavedInv, Quiet, Place, Saved
<1> QED
  BY <1>1, <1>2, <1>3, <1>4, <1>5, <1>6, <1>7, <1>8, <1>9, <1>10, <1>11, <1>12,
     <1>13, <1>14
     DEF Next, MainStep, cycle_style_pack, WriterStep, set_active_polish_model,
         set_active_translate_model, Kinds

\* While no writers overlap and no write fails, the program that is started
\* again runs with the configuration that was in use, whatever commands there
\* were and wherever the program was ended between them.
THEOREM WhatIsSavedRuns == Spec => []SavedIsWhatRuns
<1>1. Init => SettingsTypeOK /\ SavedInv
  BY TypeInit, SavedInit
<1>2. SettingsTypeOK /\ SavedInv /\ [Next]_vars => (SettingsTypeOK /\ SavedInv)'
  BY TypeStep, SavedStep
<1>3. SavedInv => SavedIsWhatRuns
  BY DEF SavedInv, SavedIsWhatRuns, Saved, Quiet, Busy
<1> QED BY <1>1, <1>2, <1>3, PTL DEF Spec

-----------------------------------------------------------------------------
(* The choices made by hand. *)

Kept(c) == \A k \in Kinds : choice[k] # None => c.model[k] = choice[k]

\* The steps that each command has.
AtOf(o) ==
  /\ o.at # "idle" => o.cmd # "none"
  /\ o.at \in {"mem", "queued"} => o.cmd \in {"lang", "get", "save"}
  /\ o.at = "flag" => o.cmd = "pick"
  /\ o.at = "lock" => o.cmd \in {"delete", "deleteAsr"}
  /\ o.at = "inval" => o.cmd \in {"get", "save", "pick", "asr", "delete"}

\* Where a command stands to the choices: it keeps them, it is one, or it
\* counts as one made later than they were.
Stand(o) ==
  /\ AtOf(o)
  /\ o.cmd \in {"lang", "get"} /\ o.at # "idle" =>
       Kept(o.cfg) /\ (o.at = "inval" => Kept(mem))
  /\ o.cmd \in {"pack", "asr", "deleteAsr"} /\ o.at # "idle" => Kept(mem)
  /\ o.cmd = "pick" /\ o.at # "idle" =>
       /\ mem.model[o.kind] = o.cfg.model[o.kind]
       /\ \A k \in Kinds \ {o.kind} : choice[k] # None => mem.model[k] = choice[k]
       /\ o.at = "inval" => o.kind \in userSet
  /\ o.cmd = "save" /\ o.at = "inval" => promised < o.ver
  /\ o.cmd = "delete" /\ o.at # "idle" =>
       CASE o.at = "lock" -> Kept(mem)
         [] o.at = "inval" -> promised < o.ver \/ Kept(mem)
         [] OTHER -> promised < o.ver

ChoiceInv ==
  /\ ~up => ~torn /\ Kept(load_config(json, chain))
  /\ ~torn => \A k \in Kinds : choice[k] # None => k \in userSet
  /\ up /\ ~torn => (\A w \in Writers : Stand(op[w])) /\ (Quiet => Kept(mem))

\* A command that begins when all is quiet.
LEMMA BeginStands ==
  ASSUME SettingsTypeOK, SavedInv, ChoiceInv, NEW w \in Writers,
         NEW cmd, NEW at, NEW c, NEW k, Begin(w, cmd, at, c, k), at # "idle",
         UNCHANGED <<userSet, choice, promised, up>>,
         \A o : /\ o.cmd = cmd /\ o.at = at /\ o.cfg = c /\ o.kind = k
               /\ Kept(mem) /\ ~torn /\ Quiet => Stand(o)'
  PROVE  ChoiceInv'
<1>1. PICK o : o = [cmd |-> cmd, at |-> at, cfg |-> c, kind |-> k, ver |-> ver]
  OBVIOUS
<1>2. op' = [op EXCEPT ![w] = o] /\ up /\ up' /\ (~torn' => ~torn /\ Quiet)
  BY <1>1 DEF Begin, Busy, Quiet
<1>3. o.cmd = cmd /\ o.at = at /\ o.cfg = c /\ o.kind = k
  BY <1>1
<1>4. op'[w] = o /\ \A v \in Writers \ {w} : op'[v] = op[v]
  BY <1>2 DEF SettingsTypeOK
<1>5. ~torn' => Stand(o)'
  BY <1>2, <1>3 DEF ChoiceInv
<1>6. ~torn' => \A v \in Writers \ {w} : op'[v].at = "idle"
  BY <1>2, <1>4 DEF Quiet
<1>7. ~torn' => \A v \in Writers : Stand(op[v])'
  BY <1>4, <1>5, <1>6 DEF Stand, AtOf
<1>8. ~Quiet'
  BY <1>3, <1>4 DEF Quiet
<1> QED BY <1>2, <1>7, <1>8 DEF ChoiceInv

\* A command that goes on.
LEMMA StepStands ==
  ASSUME SettingsTypeOK, SavedInv, ChoiceInv, NEW w \in Writers, op[w].at # "idle",
         UNCHANGED up, NEW o, op' = [op EXCEPT ![w] = o],
         ~torn' => /\ ~torn /\ Stand(o)' /\ (o.at = "idle" => Kept(mem)')
                   /\ \A k \in Kinds : choice'[k] # None => k \in userSet'
  PROVE  ChoiceInv'
<1>1. up /\ up'
  BY DEF SavedInv, Quiet
<1>2. op'[w] = o /\ \A v \in Writers \ {w} : op'[v] = op[v]
  BY DEF SettingsTypeOK
<1>3. ~torn' => \A v \in Writers \ {w} : op'[v].at = "idle"
  BY <1>2 DEF SavedInv
<1>4. ~torn' => \A v \in Writers : Stand(op[v])'
  BY <1>2, <1>3 DEF Stand, AtOf
<1>5. ~torn' /\ Quiet' => Kept(mem)'
  BY <1>2 DEF Quiet
<1> QED BY <1>1, <1>4, <1>5 DEF ChoiceInv

LEMMA ChoiceInit == Init => ChoiceInv
<1> SUFFICES ASSUME Init PROVE ChoiceInv
  OBVIOUS
<1>1. ~up /\ ~torn /\ \A k \in Kinds : choice[k] = None
  BY DEF Init
<1> QED BY <1>1 DEF ChoiceInv, Kept

\* The models of what is loaded do not depend on the keychain.
LEMMA LoadedModels ==
  ASSUME NEW row \in Config \cup {None}, NEW j \in BOOLEAN, NEW k \in BOOLEAN
  PROVE  /\ load_config(row, j).model = load_config(row, k).model
         /\ row # None => load_config(Stored(row), j).model = load_config(row, k).model
<1>1. ASSUME NEW r \in Config, NEW b \in BOOLEAN
      PROVE  load_config(r, b).model = r.model
  <2>1. PICK c : c = [r EXCEPT !.key = r.key \/ b]
    OBVIOUS
  <2>2. c \in Config /\ c.model = r.model
    BY <2>1, ConfigClosed DEF Config
  <2>3. sanitize_endpoints(c).model = r.model
    BY <2>2 DEF sanitize_endpoints, Config
  <2> QED BY <2>1, <2>3, NoneIsNoConfig DEF load_config
<1>2. \A r \in Config : Stored(r) \in Config /\ Stored(r).model = r.model
  BY StoredTyped DEF Stored, Config
<1> QED BY <1>1, <1>2 DEF load_config

\* The steps of save_config and of what follows it.
LEMMA WriterStands ==
  ASSUME SettingsTypeOK, SavedInv, Fresh, ChoiceInv, NEW w \in Writers,
         \/ StoreKey(w) \/ WriteJson(w) \/ WriteJsonFails(w) \/ QueueWrite(w)
         \/ WriteMemory(w) \/ Invalidate(w)
  PROVE  ChoiceInv'
<1> USE DEF cfgVars, diskVars, pipeVars, bounds, ghostVars
<1>1. op[w] \in Op
  BY DEF SettingsTypeOK
<1>2. op[w].at # "idle" => up
  BY DEF SavedInv, Quiet
<1>3. ~torn /\ op[w].at # "idle" =>
        Stand(op[w]) /\ \A k \in Kinds : choice[k] # None => k \in userSet
  BY <1>2 DEF ChoiceInv
<1>4. ASSUME NEW s, op' = [op EXCEPT ![w].at = s]
      PROVE  \E o : /\ op' = [op EXCEPT ![w] = o]
                    /\ o.at = s /\ o.cmd = op[w].cmd /\ o.cfg = op[w].cfg
                    /\ o.kind = op[w].kind /\ o.ver = op[w].ver
  <2>1. PICK o : o = [op[w] EXCEPT !.at = s]
    OBVIOUS
  <2>2. /\ o.at = s /\ o.cmd = op[w].cmd /\ o.cfg = op[w].cfg
        /\ o.kind = op[w].kind /\ o.ver = op[w].ver
    BY <1>1, <2>1 DEF Op
  <2> QED BY <1>4, <2>1, <2>2
<1>5. CASE StoreKey(w) \/ WriteJson(w) \/ QueueWrite(w)
  <2>1. UNCHANGED <<mem, userSet, choice, promised, up>> /\ (~torn' => ~torn)
    BY <1>5 DEF StoreKey, WriteJson, QueueWrite
  <2>2. \E s : /\ op' = [op EXCEPT ![w].at = s]
               /\ \/ op[w].at = "chain" /\ s = "json"
                  \/ op[w].at = "json" /\ s = AfterJson(w)
                  \/ op[w].at = "mem" /\ s = "queued"
    BY <1>5, Zenon DEF StoreKey, WriteJson, QueueWrite, Goto
  <2>3. PICK s, o : /\ op' = [op EXCEPT ![w] = o]
                    /\ o.at = s /\ o.cmd = op[w].cmd /\ o.cfg = op[w].cfg
                    /\ o.kind = op[w].kind /\ o.ver = op[w].ver
                    /\ \/ op[w].at = "chain" /\ s = "json"
                       \/ op[w].at = "json" /\ s = AfterJson(w)
                       \/ op[w].at = "mem" /\ s = "queued"
    BY <1>4, <2>2
  <2>4. op[w].cmd \in Cmds
    BY <1>1 DEF Op
  <2>5. ASSUME ~torn PROVE Stand(o)' /\ (s = "idle" => Kept(mem)')
    <3>1. Stand(op[w])
      BY <1>3, <2>3, <2>5
    <3>2. UNCHANGED <<mem, userSet, choice, promised>>
      BY <2>1
    <3> QED BY <2>3, <2>4, <3>1, <3>2 DEF Stand, AtOf, Kept, AfterJson, Cmds
  <2> QED BY <1>3, <2>1, <2>3, <2>5, StepStands
<1>6. CASE WriteJsonFails(w)
  <2>1. torn' /\ UNCHANGED up /\ op[w].at # "idle"
    BY <1>6 DEF WriteJsonFails
  <2>2. \E o : op' = [op EXCEPT ![w] = o]
    BY <1>4, <1>6 DEF WriteJsonFails, Goto, Done
  <2> QED BY <2>1, <2>2, StepStands
<1>7. CASE WriteMemory(w)
  <2>1. mem' = op[w].cfg /\ UNCHANGED <<userSet, choice, promised, up, torn>>
        /\ op[w].at \in {"mem", "queued"}
    BY <1>7 DEF WriteMemory
  <2>2. CASE op[w].cmd = "lang"
    <3>1. op' = [op EXCEPT ![w] = Idle] /\ Idle.at = "idle"
      BY <1>7, <2>2 DEF WriteMemory, Done, Idle
    <3>2. ~torn => Kept(mem)'
      BY <1>3, <2>1, <2>2 DEF Stand, Kept
    <3>3. Stand(Idle)'
      BY <3>1 DEF Stand, AtOf
    <3> QED BY <1>3, <2>1, <3>1, <3>2, <3>3, StepStands
  <2>3. CASE op[w].cmd # "lang"
    <3>1. PICK o : o = [op[w] EXCEPT !.at = "inval", !.ver = ver']
      OBVIOUS
    <3>2. /\ op' = [op EXCEPT ![w] = o] /\ o.at = "inval" /\ o.cmd = op[w].cmd
          /\ o.cfg = op[w].cfg /\ o.ver = ver' /\ ver' = ver + 1
      BY <1>1, <1>7, <2>3, <3>1 DEF WriteMemory, Op
    <3>3. promised < o.ver
      BY <3>2 DEF Fresh, SettingsTypeOK
    <3>4. ASSUME ~torn PROVE Stand(o)'
      <4>1. Stand(op[w])
        BY <1>3, <2>1, <3>4
      <4>2. op[w].cmd \in {"get", "save"}
        BY <2>1, <2>3, <4>1 DEF Stand, AtOf
      <4> QED BY <2>1, <3>2, <3>3, <4>1, <4>2 DEF Stand, AtOf, Kept
    <3> QED BY <1>3, <2>1, <3>2, <3>4, StepStands
  <2> QED BY <2>2, <2>3
<1>8. CASE Invalidate(w)
  <2>1. op' = [op EXCEPT ![w] = Idle] /\ op[w].at = "inval" /\ Idle.at = "idle"
        /\ UNCHANGED <<mem, userSet, up, torn>> /\ choice' = Choices(w)
    BY <1>8 DEF Invalidate, Done, Idle
  <2>2. ASSUME ~torn, NEW k \in Kinds, choice'[k] # None
        PROVE  mem.model[k] = choice'[k] /\ k \in userSet
    <3>1. Stand(op[w]) /\ (choice[k] # None => k \in userSet)
      BY <1>3, <2>1, <2>2
    <3>2. op[w].cmd \in {"get", "save", "pick", "asr", "delete"}
      BY <2>1, <3>1 DEF Stand, AtOf
    <3>3. choice'[k] = IF op[w].cmd = "pick" /\ op[w].kind = k THEN op[w].cfg.model[k]
                       ELSE IF op[w].cmd \in {"save", "delete"} /\ choice[k] # None
                            THEN IF op[w].ver > promised THEN mem.model[k] ELSE choice[k]
                       ELSE choice[k]
      BY <2>1 DEF Choices
    <3>4. op[w].ver \in Nat /\ promised \in Nat
      BY <1>1 DEF Op, SettingsTypeOK
    <3>5. CASE op[w].cmd = "pick"
      BY <2>1, <2>2, <3>1, <3>3, <3>5 DEF Stand
    <3>6. CASE op[w].cmd \in {"save", "delete"}
      <4>1. promised < op[w].ver \/ Kept(mem)
        BY <2>1, <3>1, <3>6 DEF Stand
      <4> QED BY <2>2, <3>1, <3>3, <3>4, <3>6, <4>1 DEF Kept
    <3>7. CASE op[w].cmd \in {"get", "asr"}
      BY <2>1, <2>2, <3>1, <3>3, <3>7 DEF Stand, Kept
    <3> QED BY <3>2, <3>5, <3>6, <3>7
  <2>3. ~torn => Kept(mem)'
    BY <2>1, <2>2 DEF Kept
  <2>4. Stand(Idle)'
    BY <2>1 DEF Stand, AtOf
  <2> QED BY <2>1, <2>2, <2>3, <2>4, StepStands
<1> QED BY <1>5, <1>6, <1>7, <1>8

LEMMA ChoiceStep ==
  SettingsTypeOK /\ SavedInv /\ Fresh /\ ChoiceInv /\ [Next]_vars => ChoiceInv'
<1> SUFFICES ASSUME SettingsTypeOK, SavedInv, Fresh, ChoiceInv, [Next]_vars
             PROVE  ChoiceInv'
  OBVIOUS
<1> USE DEF cfgVars, diskVars, pipeVars, bounds, ghostVars
<1>0. mem \in Config /\ json \in Config \cup {None} /\ chain \in BOOLEAN
      /\ promised \in Nat /\ ver \in Nat /\ promised <= ver
      /\ choice \in [Kinds -> Models \cup {None}]
  BY DEF SettingsTypeOK, Fresh
<1>1. CASE Start
  <2>1. PICK moved \in BOOLEAN, readable \in BOOLEAN :
          /\ chain' = (chain \/ moved)
          /\ moved => json # None
          /\ mem' = load_config(IF moved THEN Stored(json) ELSE json,
                                chain' /\ readable)
    BY <1>1, Zenon DEF Start
  <2>2. UNCHANGED <<op, choice, userSet>> /\ Quiet /\ ~up /\ ~torn /\ up'
    BY <1>1, Zenon DEF Start, SavedInv, ChoiceInv
  <2>3. mem'.model = load_config(json, chain).model
    <3>1. (chain' /\ readable) \in BOOLEAN
      BY <1>0, <2>1
    <3> QED BY <1>0, <2>1, <3>1, LoadedModels
  <2>4. Kept(mem)'
    BY <2>2, <2>3 DEF ChoiceInv, Kept
  <2>5. \A w \in Writers : Stand(op[w])'
    BY <2>2 DEF Quiet, Stand, AtOf
  <2> QED BY <2>2, <2>4, <2>5 DEF ChoiceInv
<1>2. CASE Crash
  <2>1. UNCHANGED <<json, chain, userSet>> /\ ~up' /\ ~torn' /\ up
        /\ choice' = IF torn \/ Busy # {} THEN [k \in Kinds |-> None] ELSE choice
    BY <1>2 DEF Crash
  <2>2. CASE torn \/ Busy # {}
    <3>1. \A k \in Kinds : choice'[k] = None
      BY <2>1, <2>2
    <3> QED BY <2>1, <3>1 DEF ChoiceInv, Kept
  <2>3. CASE ~torn /\ Busy = {}
    <3>1. Quiet
      BY <2>3 DEF Busy, Quiet
    <3>2. load_config(json, chain) = mem /\ Kept(mem)
      BY <2>1, <2>3, <3>1 DEF SavedInv, Saved, ChoiceInv
    <3> QED BY <2>1, <2>3, <3>2 DEF ChoiceInv, Kept
  <2> QED BY <2>2, <2>3
<1>3. CASE SetUiLang
  <2>1. PICK p \in Prefs : Begin(Main, "lang", "chain", [mem EXCEPT !.pref = p], "polish")
    BY <1>3, Zenon DEF SetUiLang
  <2>2. PICK c : c = [mem EXCEPT !.pref = p]
    OBVIOUS
  <2>3. c.model = mem.model
    BY <1>0, <2>2 DEF Config
  <2>4. UNCHANGED <<mem, userSet, choice, promised, up>>
        /\ Begin(Main, "lang", "chain", c, "polish")
    BY <1>3, <2>1, <2>2, Zenon DEF SetUiLang
  <2>5. ASSUME NEW o, o.cmd = "lang", o.at = "chain", o.cfg = c, Kept(mem)
        PROVE  Stand(o)'
    BY <2>3, <2>4, <2>5 DEF Stand, AtOf, Kept
  <2> QED BY <2>4, <2>5, BeginStands DEF Writers
<1>4. CASE GetConfig
  <2>1. PICK c : c = recommended_defaults_apply(mem, userSet)
    OBVIOUS
  <2>2. \A k \in userSet \cap Kinds : c.model[k] = mem.model[k]
    BY <1>0, <2>1 DEF recommended_defaults_apply, Config
  <2>3. UNCHANGED <<mem, userSet, choice, promised, up>>
        /\ Begin(Main, "get", "chain", c, "polish")
    BY <1>4, <2>1, Zenon DEF GetConfig
  <2>4. ASSUME NEW o, o.cmd = "get", o.at = "chain", o.cfg = c, Kept(mem), ~torn
        PROVE  Stand(o)'
    BY <2>2, <2>3, <2>4 DEF Stand, AtOf, Kept, ChoiceInv
  <2> QED BY <2>3, <2>4, BeginStands DEF Writers
<1>5. ASSUME NEW w \in Savers, SaveAppConfig(w) PROVE ChoiceInv'
  <2>1. PICK p \in Prefs, m \in Models, t \in {mem.model["translate"]} \cup Copied,
             on \in BOOLEAN :
          Begin(w, "save", "chain",
                [pref |-> p, model |-> [polish |-> m, translate |-> t],
                 key |-> on, url |-> IF on THEN "good" ELSE ""], "polish")
    BY <1>5, Zenon DEF SaveAppConfig
  <2>2. PICK c : c = [pref |-> p, model |-> [polish |-> m, translate |-> t],
                      key |-> on, url |-> IF on THEN "good" ELSE ""]
    OBVIOUS
  <2>3. UNCHANGED <<userSet, choice, promised, up>> /\ Begin(w, "save", "chain", c, "polish")
    BY <1>5, <2>1, <2>2, Zenon DEF SaveAppConfig
  <2>4. ASSUME NEW o, o.cmd = "save", o.at = "chain" PROVE Stand(o)'
    BY <2>4 DEF Stand, AtOf
  <2> QED BY <2>3, <2>4, BeginStands DEF Writers
<1>6. ASSUME NEW k \in Kinds, SetActiveModel(k) PROVE ChoiceInv'
  <2>1. PICK m : mem' = [mem EXCEPT !.model[k] = m] /\ Begin(Main, "pick", "chain", mem', k)
    BY <1>6, Zenon DEF SetActiveModel
  <2>2. PICK c : c = mem'
    OBVIOUS
  <2>3. UNCHANGED <<userSet, choice, promised, up>>
    BY <1>6, Zenon DEF SetActiveModel
  <2>4. \A j \in Kinds \ {k} : mem'.model[j] = mem.model[j]
    BY <1>0, <2>1 DEF Config
  <2>5. ASSUME NEW o, o.cmd = "pick", o.at = "chain", o.cfg = c, o.kind = k, Kept(mem)
        PROVE  Stand(o)'
    BY <2>2, <2>3, <2>4, <2>5 DEF Stand, AtOf, Kept
  <2> QED BY <2>1, <2>2, <2>3, <2>5, BeginStands DEF Writers
<1>7. CASE SetActiveStylePack \/ set_active_asr_model
  <2>1. PICK p \in Prefs, cmd \in {"pack", "asr"} :
          mem' = [mem EXCEPT !.pref = p] /\ Begin(Main, cmd, "chain", mem', "polish")
    BY <1>7, Zenon DEF SetActiveStylePack, set_active_asr_model
  <2>2. PICK c : c = mem'
    OBVIOUS
  <2>3. mem'.model = mem.model
    BY <1>0, <2>1 DEF Config
  <2>4. UNCHANGED <<userSet, choice, promised, up>>
    BY <1>7, Zenon DEF SetActiveStylePack, set_active_asr_model
  <2>5. ASSUME NEW o, o.cmd = cmd, o.at = "chain", Kept(mem) PROVE Stand(o)'
    BY <2>1, <2>3, <2>4, <2>5 DEF Stand, AtOf, Kept
  <2> QED BY <2>1, <2>2, <2>4, <2>5, BeginStands DEF Writers
<1>8. CASE DeleteAsrModel
  <2>1. PICK c : c = mem
    OBVIOUS
  <2>2. Begin(Main, "deleteAsr", "lock", c, "polish")
        /\ UNCHANGED <<mem, userSet, choice, promised, up>>
    BY <1>8, <2>1, Zenon DEF DeleteAsrModel
  <2>3. ASSUME NEW o, o.cmd = "deleteAsr", o.at = "lock", Kept(mem) PROVE Stand(o)'
    BY <2>2, <2>3 DEF Stand, AtOf, Kept
  <2> QED BY <2>2, <2>3, BeginStands DEF Writers
<1>9. CASE DeleteModel
  <2>1. PICK m : Begin(Main, "delete", "lock", [mem EXCEPT !.model["polish"] = m], "polish")
    BY <1>9, Zenon DEF DeleteModel
  <2>2. PICK c : c = [mem EXCEPT !.model["polish"] = m]
    OBVIOUS
  <2>3. UNCHANGED <<mem, userSet, choice, promised, up>>
    BY <1>9 DEF DeleteModel
  <2>4. ASSUME NEW o, o.cmd = "delete", o.at = "lock", Kept(mem) PROVE Stand(o)'
    BY <2>3, <2>4 DEF Stand, AtOf, Kept
  <2> QED BY <2>1, <2>2, <2>3, <2>4, BeginStands DEF Writers
<1>10. CASE DeleteAsrFallback
  <2>1. PICK o : o = [op[Main] EXCEPT !.at = "chain", !.cfg = mem']
    OBVIOUS
  <2>2. /\ o.at = "chain" /\ o.cmd = "deleteAsr" /\ op' = [op EXCEPT ![Main] = o]
        /\ op[Main].at = "lock" /\ op[Main].cmd = "deleteAsr"
        /\ UNCHANGED <<userSet, choice, promised, up, torn>>
    BY <1>10, <2>1 DEF DeleteAsrFallback, SettingsTypeOK, Op, Writers
  <2>3. mem'.model = mem.model
    BY <1>0, <1>10 DEF DeleteAsrFallback, Config
  <2>4. ASSUME ~torn
        PROVE  Stand(o)' /\ \A k \in Kinds : choice'[k] # None => k \in userSet'
    <3>1. Stand(op[Main]) /\ \A k \in Kinds : choice[k] # None => k \in userSet
      BY <2>2, <2>4 DEF SavedInv, Quiet, ChoiceInv, Writers
    <3>2. Kept(mem)
      BY <2>2, <3>1 DEF Stand
    <3> QED BY <2>2, <2>3, <3>1, <3>2 DEF Stand, AtOf, Kept
  <2> QED BY <2>2, <2>4, StepStands DEF Writers
<1>11. CASE DeleteFallback
  <2>1. op[Main].at = "lock" /\ op[Main].cmd = "delete"
        /\ UNCHANGED <<userSet, choice, promised, up, torn>>
    BY <1>11, Zenon DEF DeleteFallback
  <2>2. \/ mem' = mem /\ Goto(Main, "inval")
        \/ \E k, fb : /\ mem' = [mem EXCEPT !.model[k] = fb] /\ ver' = ver + 1
                      /\ op' = [op EXCEPT ![Main] = [cmd |-> "delete", at |-> "chain", cfg |-> mem',
                                                     kind |-> k, ver |-> ver']]
    BY <1>11, Zenon DEF DeleteFallback
  <2>3. ~torn => Kept(mem) /\ \A k \in Kinds : choice[k] # None => k \in userSet
    BY <2>1 DEF SavedInv, Quiet, ChoiceInv, Stand, Writers
  <2>4. CASE mem' = mem /\ Goto(Main, "inval")
    <3>1. PICK o : o = [op[Main] EXCEPT !.at = "inval"]
      OBVIOUS
    <3>2. o.at = "inval" /\ o.cmd = "delete" /\ op' = [op EXCEPT ![Main] = o]
      BY <2>1, <2>4, <3>1 DEF Goto, SettingsTypeOK, Op, Writers
    <3>3. ~torn => Stand(o)'
      BY <2>1, <2>3, <2>4, <3>2 DEF Stand, AtOf, Kept
    <3> QED BY <2>1, <2>3, <3>2, <3>3, StepStands DEF Writers
  <2>5. ASSUME NEW k, ver' = ver + 1,
               op' = [op EXCEPT ![Main] = [cmd |-> "delete", at |-> "chain", cfg |-> mem',
                                           kind |-> k, ver |-> ver']]
        PROVE  ChoiceInv'
    <3>1. PICK o : o = [cmd |-> "delete", at |-> "chain", cfg |-> mem', kind |-> k,
                        ver |-> ver']
      OBVIOUS
    <3>2. o.at = "chain" /\ o.cmd = "delete" /\ op' = [op EXCEPT ![Main] = o]
          /\ promised < o.ver
      BY <1>0, <2>5, <3>1
    <3>3. Stand(o)'
      BY <2>1, <3>2 DEF Stand, AtOf
    <3> QED BY <2>1, <2>3, <3>2, <3>3, StepStands DEF Writers
  <2> QED BY <2>2, <2>4, <2>5
<1>12. CASE SetUserFlag
  <2>1. PICK o : o = [op[Main] EXCEPT !.at = "inval"]
    OBVIOUS
  <2>2. /\ o.at = "inval" /\ op' = [op EXCEPT ![Main] = o] /\ op[Main].at = "flag"
        /\ o.cmd = op[Main].cmd /\ o.cfg = op[Main].cfg /\ o.kind = op[Main].kind
    BY <1>12, <2>1 DEF SetUserFlag, Goto, SettingsTypeOK, Op, Writers
  <2>3. UNCHANGED <<mem, choice, promised, up>>
        /\ (~torn' => ~torn /\ userSet' = userSet \cup {op[Main].kind})
    BY <1>12 DEF SetUserFlag
  <2>4. ASSUME ~torn'
        PROVE  Stand(o)' /\ \A k \in Kinds : choice'[k] # None => k \in userSet'
    <3>1. Stand(op[Main]) /\ \A k \in Kinds : choice[k] # None => k \in userSet
      BY <2>2, <2>3, <2>4 DEF SavedInv, Quiet, ChoiceInv, Writers
    <3> QED BY <2>2, <2>3, <2>4, <3>1 DEF Stand, AtOf
  <2> QED BY <2>2, <2>3, <2>4, StepStands DEF Writers
<1>13. ASSUME NEW w \in Writers,
              \/ StoreKey(w) \/ WriteJson(w) \/ WriteJsonFails(w) \/ QueueWrite(w)
              \/ WriteMemory(w) \/ Invalidate(w)
       PROVE  ChoiceInv'
  BY <1>13, WriterStands
<1>14. CASE ListModels \/ ListEntries \/ RecorderStep \/ UNCHANGED vars
  <2>1. UNCHANGED <<mem, json, chain, userSet, op, up, torn, choice, promised>>
    BY <1>14, Zenon DEF ListModels, ListEntries, RecorderStep, PipelineCached,
       PipelineBuild, ReadPart, PipelineBuilt, vars
  <2> QED BY <2>1 DEF ChoiceInv, Quiet, Stand, AtOf, Kept
<1> QED
  BY <1>1, <1>2, <1>3, <1>4, <1>5, <1>6, <1>7, <1>8, <1>9, <1>10, <1>11, <1>12,
     <1>13, <1>14
     DEF Next, MainStep, cycle_style_pack, WriterStep, set_active_polish_model,
         set_active_translate_model, Kinds

\* The recommender never takes a choice back, over restarts too, for any
\* models and any number of commands that do not overlap.
THEOREM ChoicesStay == Spec => []ChoiceKept
<1>1. Init => SettingsTypeOK /\ Fresh /\ SavedInv /\ ChoiceInv
  BY TypeInit, FreshInit, SavedInit, ChoiceInit
<1>2. SettingsTypeOK /\ Fresh /\ SavedInv /\ ChoiceInv /\ [Next]_vars
        => (SettingsTypeOK /\ Fresh /\ SavedInv /\ ChoiceInv)'
  BY TypeStep, FreshStep, SavedStep, ChoiceStep
<1>3. SavedInv /\ ChoiceInv => ChoiceKept
  BY DEF ChoiceInv, ChoiceKept, Kept, Quiet, Busy
<1> QED BY <1>1, <1>2, <1>3, PTL DEF Spec

=============================================================================
