--------------------------- MODULE InsertionProofs ---------------------------
(***************************************************************************)
(* A final text on its way to the target.                                  *)
(*                                                                         *)
(* For every setting, every set of backends and every recording: a text is *)
(* sent to the cloud only after the local backends that come first, a      *)
(* polish is cut off only by an ESC of its own session, a backend is asked *)
(* exactly while the session waits, and what was said is kept.             *)
(*                                                                         *)
(* Through the text service, for any number of texts, input methods,       *)
(* switches and crashes: the user's input method comes back, and Committed *)
(* is said of exactly the texts that are in the document.                  *)
(***************************************************************************)
EXTENDS FinalInsert, TsfInsert, FiniteSetTheorems, WellFoundedInduction, TLAPS

-----------------------------------------------------------------------------
(* The polish and its routes. *)

Requesting == pc \in {"ask", "wait"}

AskedWhileWaiting == (pc = "wait") = (asked # "none")

\* The sentinel request, and the plain one after it, go to the cloud only
\* where the cloud is the first hop.
SentinelIsFirstHop ==
  Requesting /\ stage \in {"sentinel", "plain"} => first_hop_is_cloud(ctx)

RouteInv ==
  /\ stage \in Stage
  /\ AskedWhileWaiting
  /\ SentinelIsFirstHop
  /\ CloudLast

\* The cloud has its turn only when no backend that ranks before it is left.
LEMMA CloudTurn ==
  ASSUME RouteInv, pc = "ask", "cloud" \in order \ tried,
         \A f \in order \ tried : HopRank["cloud"] <= HopRank[f]
  PROVE  LocalFirst
<1> USE DEF LocalFirst
<1>1. stage \in Stage /\ "cloud" \in ctx.engines /\ MayTake("cloud")
  BY DEF RouteInv, order
<1>2. CASE stage = "polish"
  <2>1. "local" \in ctx.engines => "local" \in order
    BY <1>1, <1>2 DEF order, MayTake
  <2> QED BY <1>2, <2>1 DEF HopRank
<1>3. CASE stage = "role"
  BY <1>1, <1>3 DEF MayTake, role_backend
<1>4. CASE stage = "translate"
  <2>1. ctx.engines \cap {"dedicated", "fallback"} \subseteq order
    BY <1>4 DEF order, MayTake
  <2> QED BY <1>4, <2>1 DEF HopRank
<1>5. CASE stage \in {"sentinel", "plain"}
  BY <1>5 DEF RouteInv, SentinelIsFirstHop, Requesting, first_hop_is_cloud
<1>6. stage # "light"
  BY <1>1 DEF MayTake
<1> QED BY <1>1, <1>2, <1>3, <1>4, <1>5, <1>6 DEF Stage

LEMMA FirstStageTyped ==
  ASSUME NEW c, NEW t, FirstStage(c, t) # "none"
  PROVE  /\ FirstStage(c, t) \in Stage
         /\ FirstStage(c, t) # "plain"
         /\ FirstStage(c, t) = "sentinel" => first_hop_is_cloud(c)
BY DEF FirstStage, Stage

\* GoOn and Decide leave nobody asked.
LEMMA RouteStep ==
  ASSUME RouteInv, [FinalNext]_vars
  PROVE  RouteInv'
<1> USE DEF RouteInv
<1>1. ASSUME UNCHANGED <<pc, ctx, finals, seq, stage, tried, asked>>
      PROVE  RouteInv'
  BY <1>1 DEF AskedWhileWaiting, SentinelIsFirstHop, Requesting, CloudLast,
              LocalFirst, first_hop_is_cloud, role_provider, Said
<1>2. ASSUME asked' = "none", pc' \notin {"ask", "wait"}, stage' \in Stage
      PROVE  RouteInv'
  BY <1>2 DEF AskedWhileWaiting, SentinelIsFirstHop, Requesting, CloudLast
<1>3. ASSUME asked' = "none", pc' = "ask", UNCHANGED ctx, stage' \in Stage,
             stage' \in {"sentinel", "plain"} => first_hop_is_cloud(ctx)
      PROVE  RouteInv'
  BY <1>3 DEF AskedWhileWaiting, SentinelIsFirstHop, Requesting, CloudLast,
              first_hop_is_cloud
<1>4. ASSUME NEW c, NEW fs, Begin(c, fs) PROVE RouteInv'
  BY <1>2, <1>4 DEF Begin, textVars, AskedWhileWaiting
<1>5. CASE PressEsc
  BY <1>1, <1>5 DEF PressEsc, textVars
<1>6. ASSUME NEW t, Answer(t) PROVE RouteInv'
  <2>1. CASE stage = "light"
    BY <1>3, <1>6, <2>1 DEF Answer, GoOn, stepVars, loopVars, Stage
  <2>2. CASE stage # "light"
    BY <1>2, <1>6, <2>2 DEF Answer, Decide
  <2> QED BY <2>1, <2>2
<1>7. CASE Unparsed
  BY <1>3, <1>7 DEF Unparsed, GoOn, stepVars, loopVars, Stage,
                    SentinelIsFirstHop, Requesting
<1>8. CASE GiveUp
  BY <1>3, <1>8 DEF GiveUp, stepVars, loopVars, SentinelIsFirstHop, Requesting
<1>9. CASE LoopStep
  <2>1. CASE Take
    BY <1>2, <2>1 DEF Take, Return, textVars, AskedWhileWaiting
  <2>2. CASE Drop
    BY <1>2, <2>2 DEF Drop, textVars, AskedWhileWaiting
  <2>3. CASE Plan
    <3>1. CASE FirstStage(ctx, Said) = "none"
      BY <1>2, <2>3, <3>1 DEF Plan, AskedWhileWaiting
    <3>2. CASE FirstStage(ctx, Said) # "none"
      <4>1. /\ stage' = FirstStage(ctx, Said) /\ pc' = "ask"
            /\ asked' = asked /\ ctx' = ctx /\ asked = "none"
        BY <2>3, <3>2 DEF Plan, loopVars, AskedWhileWaiting
      <4> QED BY <1>3, <3>2, <4>1, FirstStageTyped
    <3> QED BY <3>1, <3>2
  <2>4. CASE Exhausted
    <3>1. CASE stage \in {"light", "sentinel", "plain"}
      BY <1>3, <2>4, <3>1 DEF Exhausted, GoOn, stepVars, loopVars, Stage
    <3>2. CASE stage \notin {"light", "sentinel", "plain"}
      BY <1>2, <2>4, <3>2 DEF Exhausted, Decide
    <3> QED BY <3>1, <3>2
  <2>5. CASE Cancelled
    BY <1>2, <2>5 DEF Cancelled, Decide
  <2>6. ASSUME NEW e \in Engine, Ask(e) PROVE RouteInv'
    <3>1. /\ pc = "ask" /\ pc' = "wait" /\ asked' = e
          /\ UNCHANGED <<ctx, finals, seq, stage, tried>>
      BY <2>6 DEF Ask, stepVars, loopVars
    <3>2. AskedWhileWaiting' /\ SentinelIsFirstHop' /\ stage' \in Stage
      BY <3>1 DEF AskedWhileWaiting, SentinelIsFirstHop, Requesting, Engine,
                  first_hop_is_cloud
    <3>3. CASE e = "cloud"
      <4>1. LocalFirst
        BY <2>6, <3>3, CloudTurn DEF Ask
      <4>2. CloudLast'
        BY <3>1, <4>1 DEF CloudLast, LocalFirst, role_provider, Said
      <4> QED BY <3>2, <4>2
    <3>4. CASE e # "cloud"
      BY <3>1, <3>2, <3>4 DEF CloudLast
    <3> QED BY <3>3, <3>4
  <2>7. CASE SkipSame
    BY <1>2, <2>7 DEF SkipSame, textVars, AskedWhileWaiting
  <2>8. CASE InsertEx
    BY <1>2, <2>8 DEF InsertEx, textVars, AskedWhileWaiting
  <2>9. CASE Save
    BY <1>2, <2>9 DEF Save, textVars, AskedWhileWaiting
  <2>10. CASE SaveFails
    BY <1>2, <2>10 DEF SaveFails, Return, textVars, AskedWhileWaiting
  <2>11. CASE Persist
    BY <1>2, <2>11 DEF Persist, Return, textVars, AskedWhileWaiting
  <2>12. CASE PersistFails
    BY <1>2, <2>12 DEF PersistFails, Return, textVars, AskedWhileWaiting
  <2>13. CASE Finish
    BY <1>2, <2>13 DEF Finish, Stage
  <2> QED
    BY <1>9, <2>1, <2>2, <2>3, <2>4, <2>5, <2>6, <2>7, <2>8, <2>9, <2>10,
       <2>11, <2>12, <2>13 DEF LoopStep
<1>10. CASE UNCHANGED vars
  BY <1>1, <1>10 DEF vars, textVars
<1> QED
  BY <1>4, <1>5, <1>6, <1>7, <1>8, <1>9, <1>10 DEF FinalNext, Refuse, Timeout

\* The cloud is asked only when the settings put it first, or after every
\* local backend that may take the request.
THEOREM CloudComesLast == FinalSpec => []CloudLast
<1>1. FinalInit => RouteInv
  BY DEF FinalInit, RouteInv, Stage, AskedWhileWaiting, SentinelIsFirstHop,
         Requesting, CloudLast
<1>2. RouteInv /\ [FinalNext]_vars => RouteInv'
  BY RouteStep
<1>3. RouteInv => CloudLast
  BY DEF RouteInv
<1> QED BY <1>1, <1>2, <1>3, PTL DEF FinalSpec

-----------------------------------------------------------------------------
InLoop == pc \in {"next", "plan", "ask", "wait", "insert", "save"}

\* The cancel flag that a polish can see is of this session, because ESC is
\* registered, and the flag cleared, before the loop of a dictation begins.
EscInv ==
  /\ pc = "idle" => shown = <<>> /\ ~esc
  /\ InLoop /\ ctx.intent = "Dictate" => esc
  /\ Requesting /\ stage = "polish" => ctx.intent = "Dictate"
  /\ esc /\ polish_cancel => escaped = session
  /\ pc = "insert" /\ out.from = "cut" => escaped = session
  /\ \E S : shown \in Seq(S)
  /\ EscIsOwn

LEMMA AppendRange ==
  ASSUME NEW S, NEW s \in Seq(S), NEW e
  PROVE  /\ Append(s, e) \in Seq(S \union {e})
         /\ \A x \in Range(Append(s, e)) : x = e \/ x \in Range(s)
<1>1. s \in Seq(S \union {e})
  OBVIOUS
<1>2. Append(s, e) \in Seq(S \union {e})
  BY <1>1
<1>3. ASSUME NEW x \in Range(Append(s, e)) PROVE x = e \/ x \in Range(s)
  <2>1. PICK i \in 1..Len(s) + 1 : x = Append(s, e)[i]
    BY <1>1, <1>3 DEF Range
  <2>2. CASE i = Len(s) + 1
    BY <1>1, <2>1, <2>2
  <2>3. CASE i \in 1..Len(s)
    BY <1>1, <2>1, <2>3 DEF Range
  <2> QED BY <1>1, <2>1, <2>2, <2>3
<1> QED BY <1>2, <1>3

LEMMA PolishIsDictation ==
  ASSUME NEW c, NEW t, FirstStage(c, t) = "polish"
  PROVE  c.intent # "Translate"
BY DEF FirstStage

LEMMA EscStep ==
  ASSUME FinalAssumption, ctx \in Context, EscInv, [FinalNext]_vars
  PROVE  EscInv'
<1> USE DEF EscInv
<1>0. ctx.intent \in {"Dictate", "Translate"}
  BY DEF Context
\* The steps of the loop that neither insert nor end it.
<1>1. ASSUME InLoop, InLoop', UNCHANGED <<session, ctx, polish_cancel, esc, escaped, shown>>,
             Requesting' /\ stage' = "polish" => ctx.intent = "Dictate",
             pc' = "insert" /\ out'.from = "cut" => escaped = session
      PROVE  EscInv'
  BY <1>1 DEF InLoop, Requesting, EscIsOwn
<1>2. ASSUME UNCHANGED <<session, esc, polish_cancel, escaped, shown>>,
             pc' \in {"persist", "end"}
      PROVE  EscInv'
  BY <1>2 DEF InLoop, Requesting, EscIsOwn
<1>3. ASSUME NEW c \in Contexts, NEW fs, Begin(c, fs) PROVE EscInv'
  <2>1. c.intent \in {"Dictate", "Translate"}
    BY DEF FinalAssumption, Context
  <2>2. shown' = <<>> /\ shown' = shown /\ pc' \in {"persist", "next"} /\ ctx' = c
    BY <1>3 DEF Begin, recVars
  <2>3. EscIsOwn'
    BY <2>2 DEF EscIsOwn, Range
  <2>4. CASE c.intent = "Dictate" /\ ~c.streaming
    BY <1>3, <2>2, <2>3, <2>4 DEF Begin, InLoop, Requesting
  <2>5. CASE ~(c.intent = "Dictate" /\ ~c.streaming)
    <3>1. esc' = FALSE /\ (pc' = "next" => ctx'.intent # "Dictate")
      BY <1>3, <2>2, <2>5 DEF Begin
    <3> QED BY <2>2, <2>3, <3>1 DEF InLoop, Requesting
  <2> QED BY <2>4, <2>5
<1>4. CASE PressEsc
  BY <1>4 DEF PressEsc, textVars, recVars, InLoop, Requesting, EscIsOwn
<1>5. ASSUME NEW t, Answer(t) PROVE EscInv'
  BY <1>1, <1>5 DEF Answer, Decide, GoOn, Outcome, stepVars, loopVars, recVars,
                    InLoop, Requesting
<1>6. CASE Unparsed
  BY <1>1, <1>6 DEF Unparsed, GoOn, stepVars, loopVars, recVars, InLoop, Requesting
<1>7. CASE GiveUp
  BY <1>1, <1>7 DEF GiveUp, stepVars, loopVars, recVars, InLoop, Requesting
<1>8. CASE LoopStep
  <2>1. CASE Take
    BY <1>1, <1>2, <2>1 DEF Take, Return, loopVars, textVars, recVars, InLoop, Requesting
  <2>2. CASE Drop
    BY <1>1, <2>2 DEF Drop, loopVars, textVars, recVars, InLoop, Requesting
  <2>3. CASE Plan
    <3>1. CASE FirstStage(ctx, Said) = "none"
      BY <1>1, <2>3, <3>1 DEF Plan, Outcome, loopVars, recVars, InLoop, Requesting
    <3>2. CASE FirstStage(ctx, Said) # "none"
      <4>1. stage' = FirstStage(ctx, Said) /\ pc' = "ask" /\ pc = "plan"
        BY <2>3, <3>2 DEF Plan
      <4>2. stage' = "polish" => ctx.intent = "Dictate"
        BY <1>0, <4>1, PolishIsDictation
      <4> QED BY <1>1, <2>3, <4>1, <4>2 DEF Plan, loopVars, recVars, InLoop
    <3> QED BY <3>1, <3>2
  <2>4. CASE Exhausted
    BY <1>1, <2>4 DEF Exhausted, Decide, GoOn, Outcome, stepVars, loopVars, recVars,
                      InLoop, Requesting
  <2>5. CASE Cancelled
    <3>1. escaped = session
      BY <2>5 DEF Cancelled, InLoop, Requesting
    <3> QED BY <1>1, <2>5, <3>1 DEF Cancelled, Decide, stepVars, loopVars, recVars,
                                    InLoop, Requesting
  <2>6. ASSUME NEW e \in Engine, Ask(e) PROVE EscInv'
    BY <1>1, <2>6 DEF Ask, stepVars, loopVars, recVars, InLoop, Requesting
  <2>7. CASE SkipSame
    BY <1>1, <2>7 DEF SkipSame, loopVars, textVars, InLoop, Requesting
  <2>8. CASE InsertEx
    <3> DEFINE r == [seq |-> seq, text |-> out.text,
                     warning |-> out.warning, from |-> out.from]
    <3>1. /\ shown' = Append(shown, r) /\ pc = "insert" /\ pc' = "save"
          /\ UNCHANGED <<session, ctx, esc, polish_cancel, escaped>>
      BY <2>8 DEF InsertEx, loopVars
    <3>2. PICK S : shown \in Seq(S)
      OBVIOUS
    <3>3. /\ \E T : shown' \in Seq(T)
          /\ \A x \in Range(shown') : x = r \/ x \in Range(shown)
      <4> HIDE DEF r
      <4> QED BY <3>1, <3>2, AppendRange
    <3>4. r.from = "cut" => escaped = session
      BY <3>1
    <3>5. EscIsOwn'
      <4> HIDE DEF r
      <4> QED BY <3>1, <3>3, <3>4 DEF EscIsOwn
    <3> QED BY <3>1, <3>3, <3>5 DEF InLoop, Requesting
  <2>9. CASE Save
    BY <1>1, <2>9 DEF Save, loopVars, textVars, InLoop, Requesting
  <2>10. CASE SaveFails
    BY <1>2, <2>10 DEF SaveFails, Return, loopVars, recVars
  <2>11. CASE Persist
    BY <1>2, <2>11 DEF Persist, Return, loopVars
  <2>12. CASE PersistFails
    BY <1>2, <2>12 DEF PersistFails, Return, loopVars, recVars
  <2>13. CASE Finish
    <3>1. shown' = <<>> /\ esc' = FALSE /\ pc' = "idle"
      BY <2>13 DEF Finish
    <3>2. EscIsOwn' /\ \E S : shown' \in Seq(S)
      BY <3>1 DEF EscIsOwn, Range
    <3> QED BY <3>1, <3>2 DEF InLoop, Requesting
  <2> QED
    BY <1>8, <2>1, <2>2, <2>3, <2>4, <2>5, <2>6, <2>7, <2>8, <2>9, <2>10,
       <2>11, <2>12, <2>13 DEF LoopStep
<1>9. CASE UNCHANGED vars
  BY <1>9 DEF vars, textVars, recVars, InLoop, Requesting, EscIsOwn
<1> QED
  BY <1>3, <1>4, <1>5, <1>6, <1>7, <1>8, <1>9 DEF FinalNext, Refuse, Timeout

LEMMA ContextStep ==
  ASSUME FinalAssumption, ctx \in Context, [FinalNext]_vars
  PROVE  ctx' \in Context
<1>1. NoContext \in Context
  BY DEF NoContext, Context, Engine
<1>2. ASSUME NEW c \in Contexts, NEW fs, Begin(c, fs) PROVE ctx' \in Context
  BY <1>2 DEF FinalAssumption, Begin
<1>3. CASE LoopStep
  BY <1>1, <1>3 DEF LoopStep, Take, Drop, Plan, Exhausted, Cancelled, Ask, SkipSame,
     InsertEx, Save, SaveFails, Persist, PersistFails, Finish, stepVars, loopVars
<1>4. CASE PressEsc \/ Unparsed \/ GiveUp \/ \E t \in Answers(src) : Answer(t)
  BY <1>4 DEF PressEsc, Unparsed, GiveUp, Answer, stepVars, loopVars
<1>5. CASE UNCHANGED vars
  BY <1>5 DEF vars
<1> QED BY <1>2, <1>3, <1>4, <1>5 DEF FinalNext, Refuse, Timeout

\* A polish that was cut off was cut off by an ESC pressed in its own session.
THEOREM EscCutsItsOwn == FinalSpec => []EscIsOwn
<1> USE FinalAssumption
<1>1. FinalInit => EscInv /\ ctx \in Context
  <2> SUFFICES ASSUME FinalInit PROVE EscInv /\ ctx \in Context
    OBVIOUS
  <2>1. ctx \in Context
    BY DEF FinalInit, NoContext, Context, Engine
  <2>2. EscIsOwn /\ \E S : shown \in Seq(S)
    BY DEF FinalInit, EscIsOwn, Range
  <2> QED BY <2>1, <2>2 DEF FinalInit, EscInv, InLoop, Requesting
<1>2. EscInv /\ ctx \in Context /\ [FinalNext]_vars => (EscInv /\ ctx \in Context)'
  BY EscStep, ContextStep
<1>3. EscInv => EscIsOwn
  BY DEF EscInv
<1> QED BY <1>1, <1>2, <1>3, PTL DEF FinalSpec

-----------------------------------------------------------------------------
(* Types. *)

LEMMA OutcomeTyped ==
  ASSUME NEW text, NEW from \in {"said", "engine", "cut"},
         NEW w \in {"none", "TranslateFailed", "RoleLlmFailed", "RoleNoBackend"}
  PROVE  /\ Outcome(text, w, from).warning = w
         /\ Outcome(text, w, from).from = from
BY DEF Outcome

\* The types of a request that is decided, or handed on.
LEMMA RequestTyped ==
  ASSUME FinalTypeOK, pc \in {"ask", "wait"}, UNCHANGED stepVars,
         \/ \E text : \/ \E w \in {"none", "TranslateFailed", "RoleLlmFailed", "RoleNoBackend"},
                            f \in {"said", "engine", "cut"} : Decide(Outcome(text, w, f))
                     \/ \E s \in Stage : GoOn(s, text)
  PROVE  FinalTypeOK'
<1>1. UNCHANGED <<session, ctx, polish_cancel, esc, escaped, seq, result>>
  BY DEF stepVars, loopVars
<1>2. ASSUME NEW text, NEW f \in {"said", "engine", "cut"},
             NEW w \in {"none", "TranslateFailed", "RoleLlmFailed", "RoleNoBackend"},
             Decide(Outcome(text, w, f))
      PROVE  FinalTypeOK'
  <2>1. out'.warning = w /\ out'.from = f
    BY <1>2, OutcomeTyped DEF Decide
  <2>2. pc' = "insert" /\ asked' = "none" /\ tried' = {} /\ stage' = stage
    BY <1>2 DEF Decide
  <2> QED BY <1>1, <2>1, <2>2 DEF FinalTypeOK
<1>3. ASSUME NEW s \in Stage, NEW text, GoOn(s, text) PROVE FinalTypeOK'
  BY <1>1, <1>3 DEF FinalTypeOK, GoOn
<1> QED BY <1>2, <1>3

LEMMA FinalTypeStep ==
  ASSUME FinalAssumption, FinalTypeOK, [FinalNext]_vars
  PROVE  FinalTypeOK'
<1>0. ctx' \in Context
  BY ContextStep DEF FinalTypeOK
<1>1. ASSUME NEW c, NEW fs, Begin(c, fs) PROVE FinalTypeOK'
  <2>1. /\ session' \in 0..MaxSessions /\ session \in Nat /\ session' = session + 1
        /\ escaped' \in 0..session'
    BY <1>1, FinalAssumption DEF Begin, FinalTypeOK
  <2>2. pc' \in {"persist", "next"} /\ pc = "idle"
    BY <1>1 DEF Begin
  <2>3. esc' \in BOOLEAN /\ polish_cancel' \in BOOLEAN
    BY <1>1 DEF Begin, FinalTypeOK
  <2> QED BY <1>0, <1>1, <2>1, <2>2, <2>3 DEF Begin, textVars, FinalTypeOK
<1>2. CASE PressEsc
  BY <1>0, <1>2 DEF PressEsc, textVars, FinalTypeOK
<1>3. ASSUME NEW t, Answer(t) PROVE FinalTypeOK'
  BY <1>3, RequestTyped DEF Answer, Stage
<1>4. CASE Unparsed
  BY <1>4, RequestTyped DEF Unparsed, Stage
<1>5. CASE GiveUp
  BY <1>0, <1>5 DEF GiveUp, stepVars, loopVars, FinalTypeOK
<1>6. CASE LoopStep
  <2>1. CASE Take
    BY <1>0, <2>1 DEF Take, Return, loopVars, textVars, FinalTypeOK
  <2>2. CASE Drop
    BY <1>0, <2>2 DEF Drop, loopVars, textVars, FinalTypeOK
  <2>3. CASE Plan
    <3>1. CASE FirstStage(ctx, Said) = "none"
      <4>1. out'.warning = "none" /\ out'.from = "said"
        BY <2>3, <3>1, OutcomeTyped DEF Plan
      <4> QED BY <1>0, <2>3, <3>1, <4>1 DEF Plan, loopVars, FinalTypeOK
    <3>2. CASE FirstStage(ctx, Said) # "none"
      <4>1. stage' \in Stage /\ pc' = "ask" /\ tried' = {}
        BY <2>3, <3>2, FirstStageTyped DEF Plan
      <4> QED BY <1>0, <2>3, <3>2, <4>1 DEF Plan, loopVars, FinalTypeOK
    <3> QED BY <3>1, <3>2
  <2>4. CASE Exhausted
    <3>1. FailureWarning \in {"none", "TranslateFailed", "RoleLlmFailed", "RoleNoBackend"}
      BY DEF FailureWarning
    <3> QED BY <2>4, <3>1, RequestTyped DEF Exhausted, Stage
  <2>5. CASE Cancelled
    BY <2>5, RequestTyped DEF Cancelled
  <2>6. ASSUME NEW e \in Engine, Ask(e) PROVE FinalTypeOK'
    <3>1. e # "none"
      BY DEF Engine
    <3> QED BY <1>0, <2>6, <3>1 DEF Ask, stepVars, loopVars, FinalTypeOK
  <2>7. CASE SkipSame
    BY <1>0, <2>7 DEF SkipSame, loopVars, textVars, FinalTypeOK
  <2>8. CASE InsertEx
    BY <1>0, <2>8 DEF InsertEx, loopVars, textVars, FinalTypeOK
  <2>9. CASE Save
    BY <1>0, <2>9 DEF Save, loopVars, textVars, FinalTypeOK
  <2>10. CASE SaveFails
    BY <1>0, <2>10 DEF SaveFails, Return, loopVars, textVars, FinalTypeOK
  <2>11. CASE Persist
    BY <1>0, <2>11 DEF Persist, Return, loopVars, textVars, FinalTypeOK
  <2>12. CASE PersistFails
    BY <1>0, <2>12 DEF PersistFails, Return, loopVars, textVars, FinalTypeOK
  <2>13. CASE Finish
    <3>1. out'.warning = "none" /\ out'.from = "said"
      BY <2>13, OutcomeTyped DEF Finish, NoOut
    <3> QED BY <1>0, <2>13, <3>1 DEF Finish, Stage, FinalTypeOK
  <2> QED
    BY <1>6, <2>1, <2>2, <2>3, <2>4, <2>5, <2>6, <2>7, <2>8, <2>9, <2>10,
       <2>11, <2>12, <2>13 DEF LoopStep
<1>7. CASE UNCHANGED vars
  BY <1>7 DEF vars, textVars, FinalTypeOK
<1> QED
  BY <1>1, <1>2, <1>3, <1>4, <1>5, <1>6, <1>7 DEF FinalNext, Refuse, Timeout

LEMMA FinalTypeInit == FinalAssumption /\ FinalInit => FinalTypeOK
<1> SUFFICES ASSUME FinalAssumption, FinalInit PROVE FinalTypeOK
  OBVIOUS
<1>1. out.warning = "none" /\ out.from = "said"
  BY OutcomeTyped DEF FinalInit, NoOut
<1>2. ctx \in Context
  BY DEF FinalInit, NoContext, Context, Engine
<1>3. session \in 0..MaxSessions /\ escaped \in 0..session
  BY DEF FinalInit, FinalAssumption
<1> QED BY <1>1, <1>2, <1>3 DEF FinalInit, Stage, FinalTypeOK

\* The types, and that a backend is asked exactly while the session waits for
\* it: a request that was given up leaves nobody behind, for every setting.
THEOREM FinalTypes == FinalSpec => []FinalTypeOK
<1> USE FinalAssumption
<1>1. FinalInit => FinalTypeOK
  BY FinalTypeInit
<1>2. FinalTypeOK /\ [FinalNext]_vars => FinalTypeOK'
  BY FinalTypeStep
<1> QED BY <1>1, <1>2, PTL DEF FinalSpec

-----------------------------------------------------------------------------
(* Texts.  What is defined by recursion is reasoned about by an induction over *)
(* a set of naturals: the library's takes an operator.                         *)

\* Induction over the naturals, for a set in the place of a predicate.
LEMMA SetInduction ==
  ASSUME NEW S, 0 \in S, \A n \in Nat : n \in S => n + 1 \in S
  PROVE  Nat \subseteq S
<1>1. SUFFICES ASSUME Nat \ S # {} PROVE FALSE
  OBVIOUS
<1>2. PICK x \in Nat \ S : \A y \in Nat \ S : ~ (<<y, x>> \in OpToRel(<, Nat))
  BY <1>1, NatLessThanWellFounded, WFMin, Zenon
<1>3. x # 0 /\ x - 1 \in Nat /\ x - 1 < x /\ x \in Nat
  OBVIOUS
<1>4. x - 1 \in S
  <2>1. <<x - 1, x>> \in OpToRel(<, Nat)
    BY <1>3 DEF OpToRel
  <2> QED BY <1>2, <1>3, <2>1, Zenon
<1> QED BY <1>3, <1>4

-----------------------------------------------------------------------------
(* A table is filled one entry after the other: each is its step's image of   *)
(* the one before.                                                            *)

Entry(f, n, base, step) == IF n = 0 THEN base ELSE step[n][f[n - 1]]
Filled(f, m, base, step) == \A n \in 0..m : f[n] = Entry(f, n, base, step)
CanFill(m, A, base, step) == \E f \in [0..m -> A] : Filled(f, m, base, step)
Table(f, m, base, step) ==
  f = [n \in 0..m |-> IF n = 0 THEN base ELSE step[n][f[n - 1]]]

LEMMA FillOneMore ==
  ASSUME NEW A, NEW base \in A, NEW m \in Nat, NEW step, step[m + 1] \in [A -> A],
         CanFill(m, A, base, step)
  PROVE  CanFill(m + 1, A, base, step)
<1>1. PICK f \in [0..m -> A] : Filled(f, m, base, step)
  BY DEF CanFill
<1> DEFINE last == step[m + 1][f[m]]
           g == [n \in 0..m + 1 |-> IF n = m + 1 THEN last ELSE f[n]]
<1>2. last \in A
  BY <1>1
<1> HIDE DEF last
<1>3. g \in [0..m + 1 -> A] /\ g[m + 1] = last /\ \A n \in 0..m : g[n] = f[n]
  <2>1. \A n \in 0..m + 1 : n # m + 1 => n \in 0..m
    OBVIOUS
  <2>2. \A n \in 0..m : n \in 0..m + 1 /\ n # m + 1
    OBVIOUS
  <2>3. m + 1 \in 0..m + 1
    OBVIOUS
  <2> QED BY <1>2, <2>1, <2>2, <2>3
<1> HIDE DEF g
<1>4. ASSUME NEW n \in 0..m + 1 PROVE g[n] = Entry(g, n, base, step)
  <2>1. CASE n = m + 1
    <3>1. n - 1 = m /\ m \in 0..m /\ n # 0
      BY <2>1
    <3>2. Entry(g, n, base, step) = step[m + 1][g[m]]
      BY <2>1, <3>1, Zenon DEF Entry
    <3> QED BY <1>3, <2>1, <3>1, <3>2 DEF last
  <2>2. CASE n # m + 1
    <3>1. n \in 0..m /\ (n # 0 => n - 1 \in 0..m)
      BY <2>2
    <3>2. f[n] = Entry(f, n, base, step)
      BY <1>1, <3>1 DEF Filled
    <3>3. Entry(f, n, base, step) = Entry(g, n, base, step)
      BY <1>3, <3>1 DEF Entry
    <3> QED BY <1>3, <3>1, <3>2, <3>3
  <2> QED BY <2>1, <2>2
<1>5. Filled(g, m + 1, base, step)
  BY <1>4 DEF Filled
<1> QED BY <1>3, <1>5 DEF CanFill

LEMMA Fill ==
  ASSUME NEW A, NEW N \in Nat, NEW base \in A, NEW step \in [1..N -> [A -> A]]
  PROVE  \E f \in [0..N -> A] : Table(f, N, base, step)
<1> DEFINE S == {m \in Nat : m <= N => CanFill(m, A, base, step)}
<1>1. 0 \in S
  <2>1. [n \in 0..0 |-> base] \in [0..0 -> A]
    OBVIOUS
  <2>2. Filled([n \in 0..0 |-> base], 0, base, step)
    BY DEF Filled, Entry
  <2> QED BY <2>1, <2>2 DEF CanFill
<1>2. ASSUME NEW m \in Nat, m \in S PROVE m + 1 \in S
  <2> SUFFICES ASSUME m + 1 <= N PROVE CanFill(m + 1, A, base, step)
    OBVIOUS
  <2>1. m + 1 \in 1..N /\ m <= N
    OBVIOUS
  <2> QED BY <1>2, <2>1, FillOneMore
<1>3. N \in S
  <2> HIDE DEF S
  <2> QED BY <1>1, <1>2, SetInduction
<1>4. PICK f \in [0..N -> A] : Filled(f, N, base, step)
  BY <1>3 DEF CanFill
<1>5. \A n \in 0..N : f[n] = IF n = 0 THEN base ELSE step[n][f[n - 1]]
  BY <1>4 DEF Filled, Entry
<1>6. f = [n \in 0..N |-> IF n = 0 THEN base ELSE step[n][f[n - 1]]]
  BY <1>5
<1> QED BY <1>6 DEF Table

-----------------------------------------------------------------------------
(* Phrases. *)

Phrases == Seq(Words)
SomePhrases == Phrases \ {NoText}

\* Without its fillers a text is a text.
LEMMA CleanPhrases ==
  ASSUME NEW t \in Phrases
  PROVE  correct_l0(t) \in Phrases
<1> DEFINE step == [n \in 1..Len(t) |-> [c \in Phrases |->
                      IF t[n] = Filler THEN c ELSE Append(c, t[n])]]
           clean == CHOOSE f : f = [n \in 0..Len(t) |-> IF n = 0 THEN NoText
                             ELSE IF t[n] = Filler THEN f[n - 1] ELSE Append(f[n - 1], t[n])]
<1>1. step \in [1..Len(t) -> [Phrases -> Phrases]]
  BY DEF Phrases
<1>2. NoText \in Phrases /\ Len(t) \in Nat
  BY DEF Phrases, NoText
<1>3. PICK f \in [0..Len(t) -> Phrases] : Table(f, Len(t), NoText, step)
  <2> HIDE DEF step
  <2> QED BY <1>1, <1>2, Fill
<1>4. ASSUME NEW n \in 0..Len(t)
      PROVE (IF n = 0 THEN NoText ELSE step[n][f[n - 1]])
              = IF n = 0 THEN NoText
                ELSE IF t[n] = Filler THEN f[n - 1] ELSE Append(f[n - 1], t[n])
  <2>1. CASE n # 0
    <3>1. n \in 1..Len(t) /\ n - 1 \in 0..Len(t)
      BY <2>1, <1>2
    <3>2. f[n - 1] \in Phrases
      BY <3>1
    <3> QED BY <3>1, <3>2
  <2> QED BY <2>1
<1>5. f = [n \in 0..Len(t) |-> IF n = 0 THEN NoText
             ELSE IF t[n] = Filler THEN f[n - 1] ELSE Append(f[n - 1], t[n])]
  <2> HIDE DEF step
  <2> QED BY <1>3, <1>4 DEF Table
<1>6. clean = [n \in 0..Len(t) |-> IF n = 0 THEN NoText
             ELSE IF t[n] = Filler THEN clean[n - 1] ELSE Append(clean[n - 1], t[n])]
  BY <1>5, Zenon
<1>7. correct_l0(t) = clean[Len(t)]
  BY DEF correct_l0
<1> HIDE DEF clean, step
<1> DEFINE S == {n \in Nat : n <= Len(t) => clean[n] \in Phrases}
<1>8. 0 \in S
  BY <1>2, <1>6
<1>9. ASSUME NEW n \in Nat, n \in S PROVE n + 1 \in S
  <2> SUFFICES ASSUME n + 1 <= Len(t) PROVE clean[n + 1] \in Phrases
    OBVIOUS
  <2>1. n + 1 \in 0..Len(t) /\ n + 1 # 0 /\ (n + 1) - 1 = n /\ n + 1 \in 1..Len(t)
    BY <1>2
  <2>2. clean[n + 1] = IF t[n + 1] = Filler THEN clean[n] ELSE Append(clean[n], t[n + 1])
    BY <1>6, <2>1
  <2>3. clean[n] \in Phrases
    BY <1>9, <1>2
  <2>4. t[n + 1] \in Words
    BY <2>1 DEF Phrases
  <2> QED BY <2>2, <2>3, <2>4 DEF Phrases
<1>10. Nat \subseteq S
  <2> HIDE DEF S
  <2> QED BY <1>8, <1>9, SetInduction
<1> QED BY <1>2, <1>7, <1>10

LEMMA RepeatsItself ==
  ASSUME NEW t \in SomePhrases
  PROVE  Repeats(t, t)
<1>1. t \in Seq(Words) /\ Len(t) \in Nat /\ Len(t) # 0
  BY DEF SomePhrases, Phrases, NoText
<1>2. 1 \in 1..Len(t) /\ Len(t) = 1 * Len(t)
  BY <1>1
<1>3. 1..(Len(t) - Len(t)) = {}
  BY <1>1
<1> QED BY <1>2, <1>3 DEF Repeats

LEMMA RepeatsOfDouble ==
  ASSUME NEW t \in SomePhrases
  PROVE  Repeats(t \o t, t) /\ t \o t \in SomePhrases
<1>1. t \in Seq(Words) /\ Len(t) \in Nat /\ Len(t) # 0
  BY DEF SomePhrases, Phrases, NoText
<1>2. t \o t \in Seq(Words) /\ Len(t \o t) = Len(t) + Len(t)
  BY <1>1
<1>3. 2 \in 1..Len(t \o t) /\ Len(t \o t) = 2 * Len(t)
  BY <1>1, <1>2
<1>4. \A i \in 1..Len(t) : (t \o t)[i] = t[i] /\ (t \o t)[i + Len(t)] = t[i]
  BY <1>1
<1>5. Len(t \o t) - Len(t) = Len(t)
  BY <1>1, <1>2
<1>6. Repeats(t \o t, t)
  BY <1>3, <1>4, <1>5 DEF Repeats
<1> QED BY <1>1, <1>2, <1>6 DEF SomePhrases, Phrases, NoText

\* What repeats a doubled text repeats the text.
LEMMA RepeatsOfHalf ==
  ASSUME NEW f \in Phrases, NEW t \in SomePhrases, Repeats(f, t \o t)
  PROVE  Repeats(f, t)
<1> DEFINE L == Len(t)
           F == Len(f)
<1>1. t \in Seq(Words) /\ L \in Nat /\ L >= 1 /\ F \in Nat
  BY DEF SomePhrases, Phrases, NoText
<1>2. Len(t \o t) = L + L /\ \A i \in 1..L : (t \o t)[i] = t[i] /\ (t \o t)[i + L] = t[i]
  BY <1>1
<1>3. PICK k \in 1..F : F = k * (L + L)
  BY <1>2 DEF Repeats
<1>4. \A i \in 1..(L + L) : f[i] = (t \o t)[i]
  BY <1>2 DEF Repeats
<1>5. \A i \in 1..(F - (L + L)) : f[i + (L + L)] = f[i]
  BY <1>2 DEF Repeats
<1> HIDE DEF L, F
<1>6. \E n \in 1..F : F = n * L
  <2>1. F = (k + k) * L
    BY <1>1, <1>3
  <2>2. \E d \in Nat : L = 1 + d
    BY <1>1
  <2>3. PICK d \in Nat : L = 1 + d
    BY <2>2
  <2>4. (k + k) * L = (k + k) + (k + k) * d
    BY <1>1, <1>3, <2>3
  <2>5. (k + k) * d \in Nat
    BY <1>1, <1>3, <2>3
  <2>6. k + k \in 1..F
    BY <1>1, <2>1, <2>4, <2>5
  <2> QED BY <2>1, <2>6
<1>7. \A i \in 1..L : f[i] = t[i]
  BY <1>1, <1>2, <1>4
<1>8. ASSUME NEW i \in 1..L PROVE f[i + L] = f[i]
  <2>1. i + L \in 1..(L + L)
    BY <1>1
  <2> QED BY <1>2, <1>4, <1>7, <2>1
<1> DEFINE S == {n \in Nat : \A i \in 1..n : i <= F - L => f[i + L] = f[i]}
<1>9. 0 \in S
  OBVIOUS
<1>10. ASSUME NEW n \in Nat, n \in S PROVE n + 1 \in S
  <2>1. ASSUME n + 1 <= F - L PROVE f[(n + 1) + L] = f[n + 1]
    <3>1. CASE n + 1 <= L
      BY <1>8, <1>1, <3>1
    <3>2. CASE n + 1 > L
      <4> DEFINE j == (n + 1) - L
      <4>1. j \in 1..n /\ j <= F - L /\ j + L = n + 1
        BY <1>1, <3>2, <2>1
      <4>2. f[j + L] = f[j]
        BY <1>10, <4>1
      <4>3. j \in 1..(F - (L + L)) /\ j + (L + L) = (n + 1) + L
        BY <1>1, <4>1, <2>1
      <4>4. f[j + (L + L)] = f[j]
        BY <1>5, <4>3
      <4> QED BY <4>1, <4>2, <4>3, <4>4
    <3> QED BY <1>1, <3>1, <3>2
  <2>2. ASSUME NEW i \in 1..n + 1, i <= F - L PROVE f[i + L] = f[i]
    <3>1. i = n + 1 \/ i \in 1..n
      OBVIOUS
    <3> QED BY <1>10, <2>1, <2>2, <3>1
  <2> QED BY <2>2
<1>11. Nat \subseteq S
  <2> HIDE DEF S
  <2> QED BY <1>9, <1>10, SetInduction
<1>12. \A i \in 1..(F - L) : f[i + L] = f[i]
  <2> SUFFICES ASSUME NEW i \in 1..(F - L) PROVE f[i + L] = f[i]
    OBVIOUS
  <2>1. i \in Nat /\ i \in 1..i /\ i <= F - L
    BY <1>1
  <2> QED BY <1>11, <2>1
<1> QED BY <1>6, <1>7, <1>12 DEF Repeats, L, F

Covered(f, ks) == f = NoText \/ \E i \in DOMAIN ks : Repeats(f, ks[i])

\* What is kept still covers what it covered, and the text that was added.
LEMMA KeepCovers ==
  ASSUME NEW ks \in Seq(SomePhrases), NEW t \in Phrases
  PROVE  /\ Keep(ks, t) \in Seq(SomePhrases)
         /\ Covered(t, Keep(ks, t))
         /\ \A f \in Phrases : Covered(f, ks) => Covered(f, Keep(ks, t))
<1>1. CASE t = NoText
  BY <1>1 DEF Keep, Covered
<1>2. CASE t # NoText /\ ks = <<>>
  <2>1. Keep(ks, t) = <<t>> /\ t \in SomePhrases
    BY <1>2 DEF Keep, SomePhrases
  <2>2. Repeats(t, t)
    BY <2>1, RepeatsItself
  <2>3. Covered(t, <<t>>)
    BY <2>2 DEF Covered
  <2>4. DOMAIN ks = {} /\ <<t>> \in Seq(SomePhrases)
    BY <1>2, <2>1
  <2>5. \A f \in Phrases : Covered(f, ks) => Covered(f, <<t>>)
    BY <2>4 DEF Covered
  <2> QED BY <2>1, <2>3, <2>4, <2>5
<1>3. CASE t # NoText /\ ks # <<>>
  <2> DEFINE n == Len(ks)
             last == ks[n]
  <2>0. n \in Nat /\ n >= 1 /\ n \in DOMAIN ks /\ DOMAIN ks = 1..n
    BY <1>3
  <2>1. /\ n \in DOMAIN ks /\ last \in SomePhrases /\ Last(ks) = last /\ t \in SomePhrases
        /\ Front(ks) \in Seq(SomePhrases) /\ n \in Nat /\ n >= 1
        /\ Len(Front(ks)) = n - 1 /\ \A i \in 1..n - 1 : Front(ks)[i] = ks[i]
    <3>1. last \in SomePhrases /\ Last(ks) = last
      BY <2>0 DEF Last
    <3>2. t \in SomePhrases
      BY <1>3 DEF SomePhrases
    <3>3. /\ Front(ks) \in Seq(SomePhrases) /\ Len(Front(ks)) = n - 1
          /\ \A i \in 1..n - 1 : Front(ks)[i] = ks[i]
      BY <2>0 DEF Front
    <3> QED BY <2>0, <3>1, <3>2, <3>3
  <2>2. CASE t = last \/ IsDouble(t, last)
    <3>1. Keep(ks, t) = ks
      <4>1. t = Last(ks) \/ IsDouble(t, Last(ks))
        BY <2>1, <2>2
      <4> HIDE DEF last
      <4>2. ~(t # Last(ks) /\ IsDouble(Last(ks), t))
        <5>1. ASSUME t = last \o last, last = t \o t PROVE FALSE
          <6>1. t \in Seq(Words) /\ last \in Seq(Words) /\ Len(t) # 0
            BY <2>1 DEF SomePhrases, Phrases, NoText
          <6>2. Len(t) = Len(last) + Len(last) /\ Len(last) = Len(t) + Len(t)
            BY <5>1, <6>1
          <6> QED BY <6>1, <6>2
        <5> QED BY <2>1, <4>1, <5>1 DEF IsDouble
      <4> QED BY <1>3, <4>1, <4>2 DEF Keep
    <3>2. Repeats(t, last)
      BY <2>1, <2>2, RepeatsItself, RepeatsOfDouble DEF IsDouble
    <3> QED BY <2>1, <3>1, <3>2 DEF Covered
  <2>3. CASE t # last /\ ~IsDouble(t, last) /\ IsDouble(last, t)
    <3> DEFINE new == Append(Front(ks), t)
    <3>1. Keep(ks, t) = new
      BY <1>3, <2>1, <2>3 DEF Keep
    <3>2. new \in Seq(SomePhrases) /\ n \in DOMAIN new /\ new[n] = t
          /\ \A i \in 1..n - 1 : i \in DOMAIN new /\ new[i] = ks[i]
      BY <2>1
    <3>3. Covered(t, new)
      BY <2>1, <3>2, RepeatsItself DEF Covered
    <3>4. ASSUME NEW f \in Phrases, Covered(f, ks) PROVE Covered(f, new)
      <4>1. CASE f = NoText
        BY <4>1 DEF Covered
      <4>2. ASSUME NEW i \in DOMAIN ks, Repeats(f, ks[i]) PROVE Covered(f, new)
        <5>1. CASE i = n
          <6>1. Repeats(f, t)
            BY <2>1, <2>3, <4>2, <5>1, RepeatsOfHalf DEF IsDouble
          <6> QED BY <3>2, <6>1 DEF Covered
        <5>2. CASE i # n
          <6>1. i \in 1..n - 1
            BY <2>1, <5>2
          <6> QED BY <3>2, <4>2, <6>1 DEF Covered
        <5> QED BY <5>1, <5>2
      <4> QED BY <3>4, <4>1, <4>2 DEF Covered
    <3> QED BY <3>1, <3>2, <3>3, <3>4
  <2>4. CASE t # last /\ ~IsDouble(t, last) /\ ~IsDouble(last, t)
    <3> DEFINE new == Append(ks, t)
    <3>1. Keep(ks, t) = new
      BY <1>3, <2>1, <2>4 DEF Keep
    <3>2. new \in Seq(SomePhrases) /\ n + 1 \in DOMAIN new /\ new[n + 1] = t
          /\ \A i \in DOMAIN ks : i \in DOMAIN new /\ new[i] = ks[i]
      BY <2>1
    <3>3. Covered(t, new)
      BY <2>1, <3>2, RepeatsItself DEF Covered
    <3> QED BY <3>1, <3>2, <3>3 DEF Covered
  <2> QED BY <2>2, <2>3, <2>4
<1> QED BY <1>1, <1>2, <1>3

\* Without consecutive duplicates the finals still cover each of the recording.
LEMMA DedupeCovers ==
  ASSUME NEW fs \in Seq(Phrases)
  PROVE  /\ dedupe_consecutive_finals(fs) \in Seq(SomePhrases)
         /\ \A i \in DOMAIN fs : Covered(fs[i], dedupe_consecutive_finals(fs))
<1> DEFINE A == Seq(SomePhrases)
           N == Len(fs)
           step == [n \in 1..N |-> [ks \in A |-> Keep(ks, fs[n])]]
           kept == CHOOSE f : f = [n \in 0..N |->
                                     IF n = 0 THEN <<>> ELSE Keep(f[n - 1], fs[n])]
<1>1. N \in Nat /\ <<>> \in A /\ \A n \in 1..N : fs[n] \in Phrases
  OBVIOUS
<1>2. step \in [1..N -> [A -> A]]
  <2>1. ASSUME NEW n \in 1..N, NEW ks \in A PROVE Keep(ks, fs[n]) \in A
    BY <1>1, KeepCovers
  <2> QED BY <2>1
<1>3. PICK f \in [0..N -> A] : Table(f, N, <<>>, step)
  <2> HIDE DEF step, A, N
  <2> QED BY <1>1, <1>2, Fill
<1>4. ASSUME NEW n \in 0..N
      PROVE (IF n = 0 THEN <<>> ELSE step[n][f[n - 1]])
              = IF n = 0 THEN <<>> ELSE Keep(f[n - 1], fs[n])
  <2>1. CASE n # 0
    <3>1. n \in 1..N /\ n - 1 \in 0..N
      BY <2>1, <1>1
    <3>2. f[n - 1] \in A
      BY <3>1
    <3> QED BY <3>1, <3>2
  <2> QED BY <2>1
<1>5. f = [n \in 0..N |-> IF n = 0 THEN <<>> ELSE Keep(f[n - 1], fs[n])]
  <2> HIDE DEF step, A, N
  <2> QED BY <1>3, <1>4 DEF Table
<1>6. kept = [n \in 0..N |-> IF n = 0 THEN <<>> ELSE Keep(kept[n - 1], fs[n])]
  BY <1>5, Zenon
<1>7. dedupe_consecutive_finals(fs) = kept[N]
  BY DEF dedupe_consecutive_finals
<1> HIDE DEF kept, step
<1> DEFINE S == {n \in Nat : n <= N => /\ kept[n] \in A
                                       /\ \A i \in 1..n : Covered(fs[i], kept[n])}
<1>8. 0 \in S
  BY <1>1, <1>6
<1>9. ASSUME NEW n \in Nat, n \in S PROVE n + 1 \in S
  <2> SUFFICES ASSUME n + 1 <= N
               PROVE  /\ kept[n + 1] \in A
                      /\ \A i \in 1..n + 1 : Covered(fs[i], kept[n + 1])
    OBVIOUS
  <2> HIDE DEF N
  <2>1. n + 1 \in 0..N /\ n + 1 # 0 /\ (n + 1) - 1 = n /\ n + 1 \in 1..N
    BY <1>1
  <2>2. kept[n + 1] = Keep(kept[n], fs[n + 1])
    BY <1>6, <2>1
  <2>3. kept[n] \in A /\ \A i \in 1..n : Covered(fs[i], kept[n])
    BY <1>9, <1>1
  <2>4. fs[n + 1] \in Phrases
    BY <1>1, <2>1
  <2>5. /\ Keep(kept[n], fs[n + 1]) \in A
        /\ Covered(fs[n + 1], Keep(kept[n], fs[n + 1]))
        /\ \A g \in Phrases : Covered(g, kept[n]) => Covered(g, Keep(kept[n], fs[n + 1]))
    BY <2>3, <2>4, KeepCovers
  <2>6. ASSUME NEW i \in 1..n + 1 PROVE Covered(fs[i], kept[n + 1])
    <3>1. i = n + 1 \/ (i \in 1..n /\ fs[i] \in Phrases)
      BY <1>1, <2>1
    <3> QED BY <2>2, <2>3, <2>5, <3>1
  <2> QED BY <2>2, <2>5, <2>6
<1>10. Nat \subseteq S
  <2> HIDE DEF S
  <2> QED BY <1>8, <1>9, SetInduction
<1>11. DOMAIN fs = 1..N
  OBVIOUS
<1> HIDE DEF N
<1> QED BY <1>1, <1>7, <1>10, <1>11

\* What the polish makes of a text is some text, and of a text alone nothing
\* but the text without a repetition.
LEMMA Sanitized ==
  ASSUME NEW o \in SomePhrases, NEW p \in SomePhrases
  PROVE  sanitize_polish_output(o, p) \in SomePhrases
<1> DEFINE half == SubSeq(p, 1, Len(p) \div 2)
           rest == IF IsPrefix(o, p) THEN SubSeq(p, Len(o) + 1, Len(p)) ELSE NoText
<1>1. o \in Seq(Words) /\ p \in Seq(Words) /\ Len(p) \in Nat /\ Len(o) \in Nat
  BY DEF SomePhrases, Phrases
<1>2. Len(p) >= 4 => half \in SomePhrases
  <2> SUFFICES ASSUME Len(p) >= 4 PROVE half \in SomePhrases
    OBVIOUS
  <2>1. Len(p) \div 2 \in 2..Len(p)
    BY <1>1
  <2>2. half \in Seq(Words) /\ Len(half) = Len(p) \div 2
    BY <1>1, <2>1
  <2> HIDE DEF half
  <2> QED BY <2>1, <2>2 DEF SomePhrases, Phrases, NoText
<1>3. rest # NoText => rest \in SomePhrases
  <2>1. Len(o) + 1 \in Nat /\ Len(o) + 1 >= 1
    BY <1>1
  <2>2. SubSeq(p, Len(o) + 1, Len(p)) \in Seq(Words)
    BY <1>1, <2>1
  <2> QED BY <2>2 DEF SomePhrases, Phrases
<1>4. p # NoText
  BY DEF SomePhrases
<1>5. \/ sanitize_polish_output(o, p) \in {o, p}
      \/ sanitize_polish_output(o, p) = half /\ Len(p) >= 4
      \/ sanitize_polish_output(o, p) = rest /\ rest # NoText
  BY <1>4 DEF sanitize_polish_output
<1> HIDE DEF half, rest
<1> QED BY <1>2, <1>3, <1>5

LEMMA SanitizedAlone ==
  ASSUME NEW o \in SomePhrases
  PROVE  Repeats(o, sanitize_polish_output(o, o))
<1> DEFINE half == SubSeq(o, 1, Len(o) \div 2)
           rest == IF IsPrefix(o, o) THEN SubSeq(o, Len(o) + 1, Len(o)) ELSE NoText
<1>1. o \in Seq(Words) /\ Len(o) \in Nat /\ o # NoText /\ Len(o) # 0
  BY DEF SomePhrases, Phrases, NoText
<1>2. ~IsDouble(o, o)
  <2>1. Len(o \o o) = Len(o) + Len(o)
    BY <1>1
  <2> QED BY <1>1, <2>1 DEF IsDouble
<1>3. rest = NoText
  BY <1>1 DEF NoText
<1>4. \/ sanitize_polish_output(o, o) = o
      \/ sanitize_polish_output(o, o) = half /\ IsDouble(o, half)
  <2> HIDE DEF half
  <2> QED BY <1>1, <1>2, <1>3 DEF sanitize_polish_output, half
<1>5. ASSUME IsDouble(o, half) PROVE Repeats(o, half)
  <2>1. half \in Phrases
    BY <1>1 DEF Phrases
  <2> HIDE DEF half
  <2>2. half # NoText
    BY <1>1, <1>5 DEF IsDouble, NoText
  <2> QED BY <1>5, <2>1, <2>2, RepeatsOfDouble DEF IsDouble, SomePhrases
<1> HIDE DEF half
<1> QED BY <1>4, <1>5, RepeatsItself

-----------------------------------------------------------------------------
(* What a session keeps of what was said. *)

\* The settings want more of this final than a polish.
Called == ctx.intent = "Translate" \/ RoleApplies(ctx, Said)

RequestFits ==
  /\ src \in SomePhrases
  /\ (stage = "polish") = ~Called
  /\ stage = "polish" => src = Body(ctx, Said)

\* What FallbackIsSpoken says of a text that is about to be inserted.
Fits(o, t) ==
  /\ o.from # "engine" => Repeats(Body(ctx, t), o.text)
  /\ (o.warning # "none") <=>
       (o.from = "said" /\ (ctx.intent = "Translate" \/ RoleApplies(ctx, t)))

OutcomeFits == out.text \in SomePhrases /\ Fits(out, Said)

LEMMA BodyPhrases ==
  ASSUME NEW c, NEW t \in SomePhrases
  PROVE  Body(c, t) \in SomePhrases
<1>1. t \in Seq(Words) /\ Len(t) \in Nat
  BY DEF SomePhrases, Phrases
<1>2. ASSUME RoleApplies(c, t) PROVE Body(c, t) \in SomePhrases
  <2> DEFINE s == SubSeq(t, 3, Len(t))
  <2>1. Len(t) >= 3
    BY <1>2 DEF RoleApplies, HasRole
  <2>2. s \in Seq(Words) /\ Len(s) = Len(t) - 2
    BY <1>1, <2>1
  <2>3. Body(c, t) = s
    BY <1>2 DEF Body
  <2> HIDE DEF s
  <2> QED BY <1>1, <2>1, <2>2, <2>3 DEF SomePhrases, Phrases, NoText
<1> QED BY <1>2 DEF Body

LEMMA AnswerPhrases ==
  ASSUME NEW s \in SomePhrases, NEW t \in Answers(s)
  PROVE  t \in SomePhrases
<1>1. s \in Seq(Words) /\ Len(s) \in Nat /\ Rewritten \in Words
  BY DEF SomePhrases, Phrases, Words
<1>2. t = <<Rewritten>> \o s \/ t = s \o s \/ t = s \o <<Rewritten>>
  BY DEF Answers
<1>3. t = s \o s => t \in SomePhrases
  BY RepeatsOfDouble
<1>4. ASSUME NEW u, u = <<Rewritten>> \o s \/ u = s \o <<Rewritten>>
      PROVE  u \in SomePhrases
  <2>1. u \in Seq(Words) /\ Len(u) = Len(s) + 1
    <3>1. u = <<Rewritten>> \o s => u \in Seq(Words) /\ Len(u) = Len(s) + 1
      BY <1>1
    <3>2. u = s \o <<Rewritten>> => u \in Seq(Words) /\ Len(u) = Len(s) + 1
      BY <1>1
    <3> QED BY <1>4, <3>1, <3>2
  <2> QED BY <1>1, <2>1 DEF SomePhrases, Phrases, NoText
<1> QED BY <1>2, <1>3, <1>4

LEMMA FirstStageFits ==
  ASSUME NEW c, c.intent \in {"Dictate", "Translate"}, NEW t
  PROVE  (FirstStage(c, t) \in {"polish", "none"}) =
           ~(c.intent = "Translate" \/ RoleApplies(c, t))
BY DEF FirstStage

\* Where the session stands with a final.
TextTypes ==
  /\ pc = "idle" => /\ seq = 0 /\ shown = <<>> /\ skipped = <<>> /\ rows = <<>>
                    /\ last_inserted = NoText
  /\ pc = "persist" => ctx.streaming
  /\ InLoop => ~ctx.streaming
  /\ finals \in Seq(SomePhrases)
  /\ \A f \in Range(spoken) : Covered(f, finals)
  /\ seq \in 0..Len(finals)
  /\ pc \in {"plan", "ask", "wait", "insert", "save"} => seq \in DOMAIN finals
  /\ pc = "end" /\ result = "ok" => seq = Len(finals)
  /\ Requesting => RequestFits /\ Said \in SomePhrases
  /\ pc = "insert" => OutcomeFits

\* Deciding what is asked for, asking, and what comes of it.
Routing ==
  \/ Plan \/ Exhausted \/ Cancelled \/ Unparsed \/ GiveUp
  \/ \E e \in Engine : Ask(e)
  \/ \E t \in Answers(src) : Answer(t)

LEMMA SaidPhrase ==
  ASSUME TextTypes, seq \in DOMAIN finals
  PROVE  Said \in Phrases
<1>1. finals[seq] \in Phrases
  BY DEF TextTypes, SomePhrases
<1> QED BY <1>1, CleanPhrases DEF Said

LEMMA RoutingStep ==
  ASSUME FinalTypeOK, TextTypes, Routing
  PROVE  /\ pc \in {"plan", "ask", "wait"} /\ pc' \in {"ask", "wait", "insert"}
         /\ UNCHANGED <<ctx, spoken, finals, seq, recVars, result>>
         /\ pc' \in {"ask", "wait"} => RequestFits' /\ Said' \in SomePhrases
         /\ pc' = "insert" => OutcomeFits'
<1> USE DEF stepVars, loopVars, recVars, Outcome
<1>0. ctx.intent \in {"Dictate", "Translate"}
  BY DEF FinalTypeOK, Context
<1>1. CASE Plan
  <2>1. /\ pc = "plan" /\ Said # NoText
        /\ UNCHANGED <<ctx, spoken, finals, seq, recVars, result>>
    BY <1>1 DEF Plan
  <2>2. Said \in SomePhrases
    BY <2>1, SaidPhrase DEF TextTypes, SomePhrases
  <2>3. Said' = Said /\ Body(ctx', Said') = Body(ctx, Said) /\ Called' = Called
    BY <2>1 DEF Said, Called, Body, RoleApplies
  <2>4. CASE FirstStage(ctx, Said) = "none"
    <3>1. out' = [text |-> Said, warning |-> "none", from |-> "said"] /\ pc' = "insert"
      BY <1>1, <2>4 DEF Plan
    <3>2. ~Called
      BY <1>0, <2>4, FirstStageFits DEF Called
    <3>3. Body(ctx, Said) = Said
      BY <3>2 DEF Body, Called
    <3>4. OutcomeFits'
      BY <2>1, <2>2, <2>3, <3>1, <3>2, <3>3, RepeatsItself DEF OutcomeFits, Fits, Called
    <3> QED BY <2>1, <3>1, <3>4
  <2>5. CASE FirstStage(ctx, Said) # "none"
    <3>1. stage' = FirstStage(ctx, Said) /\ src' = Body(ctx, Said) /\ pc' = "ask"
      BY <1>1, <2>5 DEF Plan
    <3>2. (stage' = "polish") = ~Called
      BY <1>0, <2>5, <3>1, FirstStageFits DEF Called
    <3>3. RequestFits'
      BY <2>2, <2>3, <3>1, <3>2, BodyPhrases DEF RequestFits
    <3> QED BY <2>1, <2>2, <2>3, <3>1, <3>3
  <2> QED BY <2>4, <2>5
<1>2. CASE ~Plan
  <2>1. pc \in {"ask", "wait"} /\ UNCHANGED <<ctx, spoken, finals, seq, recVars, result>>
    BY <1>2 DEF Routing, Exhausted, Cancelled, Unparsed, GiveUp, Ask, Answer
  <2>2. RequestFits /\ Said \in SomePhrases
    BY <2>1 DEF TextTypes, Requesting
  <2>3. Said' = Said /\ Body(ctx', Said') = Body(ctx, Said) /\ Called' = Called
    BY <2>1 DEF Said, Called, Body, RoleApplies
  <2>4. Body(ctx, Said) \in SomePhrases
    BY <2>2, BodyPhrases
  \* On to the next backend.
  <2>5. ASSUME UNCHANGED <<stage, src>>, pc' \in {"ask", "wait"}
        PROVE  RequestFits' /\ Said' \in SomePhrases
    BY <2>2, <2>3, <2>5 DEF RequestFits
  \* On to the next request.
  <2>6. ASSUME NEW s, NEW t, GoOn(s, t), s # "polish", stage # "polish", t \in SomePhrases
        PROVE  pc' = "ask" /\ RequestFits' /\ Said' \in SomePhrases
    BY <2>2, <2>3, <2>6 DEF RequestFits, GoOn
  \* Decided.
  <2>7. ASSUME NEW o, Decide(o), o.text \in SomePhrases, Fits(o, Said)
        PROVE  pc' = "insert" /\ OutcomeFits'
    BY <2>1, <2>3, <2>7 DEF OutcomeFits, Decide, Fits, Body, RoleApplies
  <2>8. ASSUME NEW t \in SomePhrases, NEW o, o = Outcome(t, "none", "engine"), Decide(o)
        PROVE  pc' = "insert" /\ OutcomeFits'
    BY <2>7, <2>8 DEF Fits
  <2>9. src \in SomePhrases
    BY <2>2 DEF RequestFits
  <2>10. ASSUME NEW t \in Answers(src), Answer(t)
         PROVE  \/ pc' = "ask" /\ RequestFits' /\ Said' \in SomePhrases
                \/ pc' = "insert" /\ OutcomeFits'
    <3>1. t \in SomePhrases /\ sanitize_polish_output(src, t) \in SomePhrases
      BY <2>9, AnswerPhrases, Sanitized
    <3>2. CASE /\ stage = "polish"
               /\ Decide(Outcome(sanitize_polish_output(src, t), "none", "engine"))
      BY <2>8, <3>1, <3>2
    <3>3. CASE stage = "light" /\ GoOn("translate", t)
      BY <2>6, <3>1, <3>3
    <3>4. CASE Decide(Outcome(t, "none", "engine"))
      BY <2>8, <3>1, <3>4
    <3> QED BY <2>10, <3>2, <3>3, <3>4 DEF Answer
  <2>11. CASE Unparsed
    BY <2>6, <2>9, <2>11 DEF Unparsed
  <2>12. CASE GiveUp
    BY <2>5, <2>12 DEF GiveUp
  <2>13. ASSUME NEW e \in Engine, Ask(e)
         PROVE  pc' \in {"ask", "wait"} /\ RequestFits' /\ Said' \in SomePhrases
    BY <2>5, <2>13 DEF Ask
  <2>14. ASSUME Exhausted
         PROVE  \/ pc' = "ask" /\ RequestFits' /\ Said' \in SomePhrases
                \/ pc' = "insert" /\ OutcomeFits'
    <3>1. CASE /\ stage = "polish"
               /\ Decide(Outcome(sanitize_polish_output(src, src), "none", "said"))
      <4> DEFINE o == Outcome(sanitize_polish_output(src, src), "none", "said")
      <4>1. o.text \in SomePhrases /\ Repeats(src, o.text)
        BY <2>9, Sanitized, SanitizedAlone
      <4>2. ~Called /\ src = Body(ctx, Said)
        BY <2>2, <3>1 DEF RequestFits
      <4>3. Fits(o, Said)
        BY <4>1, <4>2 DEF Fits, Called
      <4> HIDE DEF o
      <4> QED BY <2>7, <3>1, <4>1, <4>3 DEF o
    <3>2. CASE stage \in {"light", "sentinel", "plain"} /\ GoOn("translate", src)
      BY <2>6, <2>9, <3>2
    <3>3. CASE /\ stage \in {"translate", "role"}
               /\ Decide(Outcome(Body(ctx, Said), FailureWarning, "said"))
      <4> DEFINE o == Outcome(Body(ctx, Said), FailureWarning, "said")
      <4>1. Called
        BY <2>2, <3>3 DEF RequestFits
      <4>2. FailureWarning # "none"
        BY DEF FailureWarning
      <4>3. Fits(o, Said)
        BY <2>4, <4>1, <4>2, RepeatsItself DEF Fits, Called
      <4>4. o.text \in SomePhrases
        BY <2>4
      <4> HIDE DEF o
      <4> QED BY <2>7, <3>3, <4>3, <4>4 DEF o
    <3> QED BY <2>14, <3>1, <3>2, <3>3 DEF Exhausted
  <2>15. ASSUME Cancelled PROVE pc' = "insert" /\ OutcomeFits'
    <3> DEFINE o == Outcome(src, "none", "cut")
    <3>1. stage = "polish" /\ Decide(o)
      BY <2>15 DEF Cancelled
    <3>2. src = Body(ctx, Said)
      BY <2>2, <3>1 DEF RequestFits
    <3>3. Fits(o, Said)
      BY <2>9, <3>2, RepeatsItself DEF Fits
    <3>4. o.text \in SomePhrases
      BY <2>9
    <3> HIDE DEF o
    <3> QED BY <2>7, <3>1, <3>3, <3>4
  <2> QED
    BY <1>2, <2>1, <2>10, <2>11, <2>12, <2>13, <2>14, <2>15 DEF Routing
<1> QED BY <1>1, <1>2

LEMMA TextTypesStep ==
  ASSUME FinalAssumption, FinalTypeOK, TextTypes, [FinalNext]_vars
  PROVE  TextTypes'
<1> USE DEF recVars, loopVars, textVars
\* Steps of the loop, and out of it, that leave the request alone.
<1>1. ASSUME UNCHANGED <<ctx, spoken, finals, seq>>, InLoop,
             pc' \in {"next", "save"}, pc' = "save" => pc = "insert"
      PROVE  TextTypes'
  BY <1>1 DEF TextTypes, InLoop, Requesting, FinalTypeOK
<1>2. ASSUME UNCHANGED <<ctx, spoken, finals, seq>>, pc' = "end",
             result' = "ok" => seq = Len(finals)
      PROVE  TextTypes'
  BY <1>2 DEF TextTypes, InLoop, Requesting, FinalTypeOK
<1>3. ASSUME UNCHANGED <<pc, ctx, spoken, finals, seq, textVars, recVars, result>>
      PROVE  TextTypes'
  <2>1. Said' = Said /\ RequestFits' = RequestFits /\ OutcomeFits' = OutcomeFits
    BY <1>3 DEF Said, RequestFits, OutcomeFits, Called, RoleApplies, Body, Fits
  <2> QED BY <1>3, <2>1 DEF TextTypes, InLoop, Requesting
<1>4. ASSUME NEW c \in Contexts, NEW fs \in Spoken, Begin(c, fs) PROVE TextTypes'
  <2>1. /\ pc = "idle" /\ ctx' = c /\ spoken' = fs
        /\ finals' = dedupe_consecutive_finals(fs)
        /\ pc' = IF c.streaming THEN "persist" ELSE "next"
        /\ seq' = seq /\ UNCHANGED result
    BY <1>4 DEF Begin
  <2>2. fs \in Seq(Phrases)
    BY DEF FinalAssumption, Phrases
  <2>3. finals' \in Seq(SomePhrases) /\ \A f \in Range(fs) : Covered(f, finals')
    BY <2>1, <2>2, DedupeCovers DEF Range
  <2>4. seq' = 0 /\ seq' \in 0..Len(finals')
    BY <2>1, <2>3 DEF TextTypes
  <2> QED BY <2>1, <2>3, <2>4 DEF TextTypes, InLoop, Requesting
<1>5. CASE Routing
  <2>1. InLoop' /\ InLoop
    BY <1>5, RoutingStep DEF InLoop
  <2> QED BY <1>5, <2>1, RoutingStep DEF TextTypes, InLoop, Requesting
<1>6. CASE Take
  <2>1. CASE seq = Len(finals)
    BY <1>2, <1>6, <2>1 DEF Take, Return
  <2>2. CASE seq # Len(finals)
    <3>1. /\ pc = "next" /\ pc' = "plan" /\ seq' = seq + 1
          /\ UNCHANGED <<ctx, spoken, finals, recVars, result>>
      BY <1>6, <2>2 DEF Take
    <3>2. seq' \in 0..Len(finals) /\ seq' \in DOMAIN finals
      BY <2>2, <3>1 DEF TextTypes
    <3> QED BY <3>1, <3>2 DEF TextTypes, InLoop, Requesting
  <2> QED BY <2>1, <2>2
<1>7. CASE Drop \/ SkipSame \/ InsertEx \/ Save
  BY <1>1, <1>7 DEF Drop, SkipSame, InsertEx, Save, InLoop
<1>8. CASE SaveFails \/ PersistFails
  BY <1>2, <1>8 DEF SaveFails, PersistFails, Return
<1>9. CASE Persist
  <2>1. CASE seq = Len(finals)
    BY <1>2, <1>9, <2>1 DEF Persist, Return
  <2>2. CASE seq # Len(finals)
    <3>1. /\ pc = "persist" /\ pc' = "persist" /\ seq' = seq + 1
          /\ UNCHANGED <<ctx, spoken, finals, result>>
      BY <1>9, <2>2 DEF Persist
    <3>2. seq' \in 0..Len(finals)
      BY <2>2, <3>1 DEF TextTypes
    <3> QED BY <3>1, <3>2 DEF TextTypes, InLoop, Requesting
  <2> QED BY <2>1, <2>2
<1>10. CASE Finish
  <2>1. /\ pc' = "idle" /\ spoken' = <<>> /\ finals' = <<>> /\ seq' = 0
        /\ shown' = <<>> /\ skipped' = <<>> /\ rows' = <<>> /\ last_inserted' = NoText
    BY <1>10 DEF Finish
  <2>2. Range(spoken') = {} /\ finals' \in Seq(SomePhrases) /\ Len(finals') = 0
    BY <2>1 DEF Range
  <2> QED BY <2>1, <2>2 DEF TextTypes, InLoop, Requesting
<1>11. CASE PressEsc
  BY <1>3, <1>11 DEF PressEsc
<1>12. CASE UNCHANGED vars
  BY <1>3, <1>12 DEF vars
<1> QED
  BY <1>4, <1>5, <1>6, <1>7, <1>8, <1>9, <1>10, <1>11, <1>12
  DEF FinalNext, LoopStep, Routing, Refuse, Timeout

-----------------------------------------------------------------------------
(* Where the finals have gone, as far as the loop has come. *)

Shown == [seq : Nat, text : SomePhrases,
          warning : {"none", "TranslateFailed", "RoleLlmFailed", "RoleNoBackend"},
          from : {"said", "engine", "cut"}]
Left == [seq : Nat, text : SomePhrases]

Reached == IF pc \in {"plan", "ask", "wait", "insert"} THEN seq - 1 ELSE seq

\* The final i was inserted, was all fillers, or came to the text before it.
Treated(i) ==
  \/ correct_l0(finals[i]) = NoText
  \/ \E r \in Range(shown) : r.seq = i
  \/ \E k \in Range(skipped) :
       /\ k.seq = i
       /\ \E r \in Range(shown) :
            /\ r.seq < i /\ r.text = k.text
            /\ \A q \in Range(shown) : q.seq <= r.seq \/ q.seq > i

ShownTexts(n) == [i \in 1..n |-> shown[i].text]

ShownInOrder ==
  /\ shown \in Seq(Shown) /\ skipped \in Seq(Left) /\ rows \in Seq(SomePhrases)
  /\ last_inserted = IF shown = <<>> THEN NoText ELSE shown[Len(shown)].text
  /\ \A i \in DOMAIN shown : shown[i].seq \in 1..Reached
  /\ \A i \in DOMAIN shown : shown[i].seq <= shown[Len(shown)].seq

RowsAreShown ==
  /\ pc \in {"next", "plan", "ask", "wait", "insert"} \/ (pc = "end" /\ result = "ok") =>
       rows = ShownTexts(Len(shown))
  /\ pc = "save" => /\ shown # <<>> /\ last_inserted = out.text
                    /\ rows = ShownTexts(Len(shown) - 1)

AllTreated == \A i \in 1..Reached : Treated(i)

OrderInv ==
  /\ ShownInOrder
  /\ ~ctx.streaming => RowsAreShown /\ AllTreated

LEMMA ShowOneMore ==
  ASSUME TextTypes, FinalTypeOK, OrderInv, pc = "insert",
         NEW r, r = [seq |-> seq, text |-> out.text,
                     warning |-> out.warning, from |-> out.from],
         shown' = Append(shown, r), last_inserted' = out.text, pc' = "save",
         UNCHANGED <<ctx, finals, seq, out, skipped, rows, result>>
  PROVE  OrderInv' /\ r \in Shown
<1> DEFINE n == Len(shown)
<1>1. /\ r \in Shown /\ r.seq = seq /\ r.text = out.text
      /\ shown \in Seq(Shown) /\ n \in Nat /\ seq \in Nat /\ seq >= 1
  BY DEF TextTypes, OutcomeFits, FinalTypeOK, OrderInv, ShownInOrder, Shown
<1>2. /\ shown' \in Seq(Shown) /\ Len(shown') = n + 1 /\ shown'[n + 1] = r
      /\ \A i \in 1..n : shown'[i] = shown[i]
  <2> HIDE DEF Shown
  <2> QED BY <1>1
<1>3. /\ Reached = seq - 1 /\ Reached' = seq
      /\ DOMAIN shown = 1..n /\ DOMAIN shown' = 1..n + 1 /\ shown' # <<>>
  BY <1>1, <1>2 DEF Reached
<1>4. \A i \in 1..n : shown[i].seq \in 1..(seq - 1)
  BY <1>3 DEF OrderInv, ShownInOrder
<1> HIDE DEF n
<1>5. \A i \in 1..n + 1 : i = n + 1 \/ i \in 1..n
  BY <1>1
<1>6. \A i \in 1..n + 1 : shown'[i].seq \in 1..seq
  BY <1>1, <1>2, <1>4, <1>5
<1>7. ShownInOrder'
  <2>1. last_inserted' = shown'[Len(shown')].text
    BY <1>1, <1>2
  <2>2. \A i \in 1..n + 1 : shown'[i].seq <= shown'[Len(shown')].seq
    BY <1>1, <1>2, <1>6
  <2>3. skipped' \in Seq(Left) /\ rows' \in Seq(SomePhrases)
    BY DEF OrderInv, ShownInOrder
  <2> QED BY <1>2, <1>3, <1>6, <2>1, <2>2, <2>3 DEF ShownInOrder
<1>8. ASSUME ~ctx.streaming PROVE RowsAreShown'
  <2>1. rows = ShownTexts(n)
    BY <1>8 DEF OrderInv, RowsAreShown, n
  <2>2. [i \in 1..n |-> shown'[i].text] = ShownTexts(n)
    BY <1>2 DEF ShownTexts
  <2>3. Len(shown') - 1 = n
    BY <1>1, <1>2
  <2>4. rows' = [i \in 1..Len(shown') - 1 |-> shown'[i].text]
    BY <2>1, <2>2, <2>3
  <2> QED BY <1>3, <2>4 DEF RowsAreShown, ShownTexts
<1>9. ASSUME ~ctx.streaming, NEW i \in 1..seq PROVE Treated(i)'
  <2>1. CASE i = seq
    <3>1. r \in Range(shown')
      BY <1>1, <1>2, <1>3 DEF Range
    <3> QED BY <1>1, <2>1, <3>1 DEF Treated
  <2>2. CASE i # seq
    <3>1. i \in 1..(seq - 1) /\ seq > i
      BY <1>1, <2>2
    <3>2. Treated(i)
      BY <1>3, <1>9, <3>1 DEF OrderInv, AllTreated
    <3>3. \A q : q \in Range(shown') <=> q \in Range(shown) \/ q = r
      <4>1. \A q : q \in Range(shown) <=> \E j \in 1..n : q = shown[j]
        BY <1>3 DEF Range, n
      <4>2. \A q : q \in Range(shown') <=> \E j \in 1..n + 1 : q = shown'[j]
        BY <1>3 DEF Range, n
      <4>3. n + 1 \in 1..n + 1 /\ \A j \in 1..n : j \in 1..n + 1
        BY <1>1
      <4> QED BY <1>2, <1>5, <4>1, <4>2, <4>3
    <3> QED BY <1>1, <3>1, <3>2, <3>3 DEF Treated
  <2> QED BY <2>1, <2>2
<1> QED BY <1>1, <1>3, <1>7, <1>8, <1>9 DEF OrderInv, AllTreated

LEMMA SkipTreated ==
  ASSUME TextTypes, FinalTypeOK, OrderInv, pc = "insert", pc' = "next",
         out.text = last_inserted,
         skipped' = Append(skipped, [seq |-> seq, text |-> out.text]),
         UNCHANGED <<ctx, finals, seq, out, shown, last_inserted, rows, result>>
  PROVE  OrderInv'
<1> DEFINE k == [seq |-> seq, text |-> out.text]
           n == Len(shown)
           m == Len(skipped)
<1>1. /\ k \in Left /\ k.seq = seq /\ k.text = out.text /\ out.text # NoText
      /\ shown \in Seq(Shown) /\ skipped \in Seq(Left)
      /\ n \in Nat /\ m \in Nat /\ seq \in Nat /\ seq >= 1
  BY DEF TextTypes, OutcomeFits, FinalTypeOK, OrderInv, ShownInOrder, Left, SomePhrases
<1> HIDE DEF k
<1>2. /\ skipped' \in Seq(Left) /\ k \in Range(skipped')
      /\ \A x \in Range(skipped) : x \in Range(skipped')
  <2>1. /\ skipped' = Append(skipped, k) /\ skipped' \in Seq(Left)
        /\ Len(skipped') = m + 1 /\ skipped'[m + 1] = k /\ \A j \in 1..m : skipped'[j] = skipped[j]
    BY <1>1 DEF k
  <2>2. \A j \in 1..m : j \in 1..m + 1
    BY <1>1
  <2>3. DOMAIN skipped = 1..m /\ DOMAIN skipped' = 1..m + 1 /\ m + 1 \in 1..m + 1
    BY <1>1, <2>1
  <2> QED BY <2>1, <2>2, <2>3 DEF Range
<1>3. Reached = seq - 1 /\ Reached' = seq /\ shown # <<>> /\ shown[n].text = k.text
      /\ DOMAIN shown = 1..n /\ n \in DOMAIN shown
  <2>1. shown # <<>> /\ shown[n].text = k.text
    BY <1>1 DEF OrderInv, ShownInOrder
  <2> QED BY <1>1, <2>1 DEF Reached
<1>4. \A i \in DOMAIN shown : shown[i].seq \in 1..(seq - 1) /\ shown[i].seq <= shown[n].seq
  BY <1>3 DEF OrderInv, ShownInOrder
<1>5. ShownInOrder'
  <2>1. \A i \in DOMAIN shown : shown[i].seq \in 1..seq
    BY <1>1, <1>4
  <2> QED BY <1>2, <1>3, <1>4, <2>1 DEF OrderInv, ShownInOrder
<1>6. ~ctx.streaming => RowsAreShown'
  BY DEF OrderInv, RowsAreShown, ShownTexts
<1>7. ASSUME ~ctx.streaming, NEW i \in 1..seq PROVE Treated(i)'
  <2>1. CASE i = seq
    <3> DEFINE r == shown[n]
    <3>1. r \in Range(shown') /\ r.seq < i /\ r.text = k.text
      BY <1>1, <1>3, <1>4, <2>1 DEF Range
    <3>2. \A q \in Range(shown') : q.seq <= r.seq
      BY <1>4 DEF Range
    <3> HIDE DEF r
    <3> QED BY <1>1, <1>2, <2>1, <3>1, <3>2 DEF Treated
  <2>2. CASE i # seq
    <3>1. i \in 1..(seq - 1)
      BY <1>1, <2>2
    <3>2. Treated(i)
      BY <1>3, <1>7, <3>1 DEF OrderInv, AllTreated
    <3> QED BY <1>2, <3>2 DEF Treated
  <2> QED BY <2>1, <2>2
<1> QED BY <1>3, <1>5, <1>6, <1>7 DEF OrderInv, AllTreated

LEMMA OrderStep ==
  ASSUME FinalAssumption, FinalTypeOK, TextTypes, OrderInv, [FinalNext]_vars
  PROVE  OrderInv'
<1> USE DEF recVars, loopVars, textVars
\* Steps that move no text.
<1>1. ASSUME UNCHANGED <<ctx, finals, shown, skipped, last_inserted, rows>>,
             Reached' = Reached, ~ctx.streaming => RowsAreShown'
      PROVE  OrderInv'
  <2>1. \A i : Treated(i)' = Treated(i)
    BY <1>1 DEF Treated
  <2>2. ShownInOrder'
    BY <1>1 DEF OrderInv, ShownInOrder
  <2> QED BY <1>1, <2>1, <2>2 DEF OrderInv, AllTreated
<1>2. ASSUME NEW c \in Contexts, NEW fs \in Spoken, Begin(c, fs) PROVE OrderInv'
  <2>1. /\ pc = "idle" /\ pc' \in {"persist", "next"}
        /\ UNCHANGED <<seq, recVars, result>>
        /\ seq = 0 /\ shown = <<>> /\ rows = <<>>
    BY <1>2 DEF Begin, TextTypes
  <2>2. Reached' = 0 /\ Reached = 0
    BY <2>1 DEF Reached
  <2>3. ShownInOrder'
    BY <2>1, <2>2 DEF OrderInv, ShownInOrder
  <2>4. rows' = ShownTexts(Len(shown))'
    BY <2>1 DEF ShownTexts
  <2>5. RowsAreShown'
    BY <2>1, <2>4 DEF RowsAreShown
  <2> QED BY <2>2, <2>3, <2>5 DEF OrderInv, AllTreated
<1>3. CASE Routing
  <2>1. /\ pc \in {"plan", "ask", "wait"} /\ pc' \in {"ask", "wait", "insert"}
        /\ UNCHANGED <<ctx, finals, seq, recVars, result>>
    BY <1>3, RoutingStep
  <2>2. Reached' = Reached
    BY <2>1 DEF Reached
  <2>3. ~ctx.streaming => RowsAreShown'
    BY <2>1 DEF OrderInv, RowsAreShown, ShownTexts
  <2> QED BY <1>1, <2>1, <2>2, <2>3
<1>4. CASE Take
  <2>1. /\ pc = "next" /\ UNCHANGED <<ctx, finals, recVars>> /\ seq \in Nat
        /\ (pc' = "end" /\ seq' = seq) \/ (pc' = "plan" /\ seq' = seq + 1)
    BY <1>4 DEF Take, Return, FinalTypeOK
  <2>2. Reached' = Reached
    BY <2>1 DEF Reached
  <2>3. ~ctx.streaming => RowsAreShown'
    BY <2>1 DEF OrderInv, RowsAreShown, ShownTexts
  <2> QED BY <1>1, <2>1, <2>2, <2>3
<1>5. CASE Drop
  <2>1. /\ pc = "plan" /\ pc' = "next" /\ Said = NoText
        /\ UNCHANGED <<ctx, finals, seq, recVars, result>> /\ seq \in Nat /\ seq >= 1
    BY <1>5 DEF Drop, TextTypes
  <2>2. Reached = seq - 1 /\ Reached' = seq
    BY <2>1 DEF Reached
  <2>3. ShownInOrder'
    BY <2>1, <2>2 DEF OrderInv, ShownInOrder
  <2>4. ASSUME ~ctx.streaming PROVE RowsAreShown' /\ AllTreated'
    <3>1. RowsAreShown'
      BY <2>1, <2>4 DEF OrderInv, RowsAreShown, ShownTexts
    <3>2. ASSUME NEW i \in 1..seq PROVE Treated(i)'
      <4>1. CASE i = seq
        BY <2>1, <4>1 DEF Said, Treated
      <4>2. CASE i # seq
        <5>1. i \in 1..(seq - 1)
          BY <2>1, <4>2
        <5>2. Treated(i)
          BY <2>2, <2>4, <5>1 DEF OrderInv, AllTreated
        <5> QED BY <2>1, <5>2 DEF Treated
      <4> QED BY <4>1, <4>2
    <3> QED BY <2>2, <3>1, <3>2 DEF AllTreated
  <2> QED BY <2>1, <2>3, <2>4 DEF OrderInv
<1>6. CASE SkipSame
  BY <1>6, SkipTreated DEF SkipSame
<1>7. CASE InsertEx
  BY <1>7, ShowOneMore DEF InsertEx
<1>8. CASE Save
  <2>1. /\ pc = "save" /\ pc' = "next" /\ rows' = Append(rows, out.text)
        /\ UNCHANGED <<ctx, finals, seq, shown, skipped, last_inserted, result>>
    BY <1>8 DEF Save
  <2>2. ~ctx.streaming
    BY <2>1 DEF TextTypes, InLoop
  <2>3. Reached' = Reached
    BY <2>1 DEF Reached
  <2> DEFINE n == Len(shown)
  <2>4. /\ shown \in Seq(Shown) /\ n \in Nat /\ n >= 1 /\ shown[n].text = out.text
        /\ rows = ShownTexts(n - 1)
        /\ out.text \in SomePhrases
    <3>1. shown \in Seq(Shown) /\ shown # <<>> /\ rows = ShownTexts(n - 1)
          /\ last_inserted = out.text /\ last_inserted = shown[n].text
      BY <2>1, <2>2 DEF OrderInv, ShownInOrder, RowsAreShown
    <3>2. n \in Nat /\ n >= 1 /\ n \in DOMAIN shown
      BY <3>1
    <3>3. shown[n] \in Shown
      BY <3>1, <3>2
    <3>4. shown[n].text \in SomePhrases
      BY <3>3 DEF Shown
    <3> QED BY <3>1, <3>2, <3>4
  <2> HIDE DEF n
  <2>5. rows \in Seq(SomePhrases) /\ rows' \in Seq(SomePhrases)
    BY <2>1, <2>4 DEF OrderInv, ShownInOrder
  <2>6. rows' = ShownTexts(n)
    <3>1. Len(rows) = n - 1 /\ \A i \in 1..n - 1 : rows[i] = shown[i].text
      BY <2>4, <2>5 DEF ShownTexts
    <3>2. /\ Len(rows') = n /\ rows'[n] = shown[n].text
          /\ \A i \in 1..n - 1 : rows'[i] = shown[i].text
      BY <2>1, <2>4, <2>5, <3>1
    <3>3. \A i \in 1..n : rows'[i] = shown[i].text
      <4>1. \A i \in 1..n : i = n \/ i \in 1..n - 1
        BY <2>4
      <4> QED BY <3>2, <4>1
    <3>4. rows' = [i \in 1..n |-> rows'[i]]
      BY <2>5, <3>2
    <3> QED BY <3>3, <3>4 DEF ShownTexts
  <2>7. RowsAreShown'
    BY <2>1, <2>6 DEF RowsAreShown, ShownTexts, n
  <2>8. ShownInOrder'
    BY <2>1, <2>3, <2>5 DEF OrderInv, ShownInOrder
  <2>9. AllTreated'
    BY <2>1, <2>2, <2>3 DEF OrderInv, AllTreated, Treated
  <2> QED BY <2>7, <2>8, <2>9 DEF OrderInv
<1>9. CASE SaveFails \/ PersistFails
  <2>1. /\ pc \in {"save", "persist"} /\ pc' = "end" /\ result' = "err"
        /\ UNCHANGED <<ctx, finals, seq, recVars>>
    BY <1>9 DEF SaveFails, PersistFails, Return
  <2>2. Reached' = Reached
    BY <2>1 DEF Reached
  <2>3. RowsAreShown'
    BY <2>1 DEF RowsAreShown
  <2> QED BY <1>1, <2>1, <2>2, <2>3
<1>10. CASE Persist
  <2>1. /\ pc = "persist" /\ ctx.streaming /\ pc' \in {"persist", "end"}
        /\ UNCHANGED <<ctx, finals, shown, skipped, last_inserted>>
        /\ seq \in Nat /\ seq' \in Nat /\ seq' >= seq
    BY <1>10 DEF Persist, Return, TextTypes, FinalTypeOK
  <2>2. rows' \in Seq(SomePhrases)
    <3>1. rows \in Seq(SomePhrases)
      BY DEF OrderInv, ShownInOrder
    <3>2. CASE seq = Len(finals)
      BY <1>10, <3>1, <3>2 DEF Persist
    <3>3. CASE seq # Len(finals)
      <4>1. seq + 1 \in DOMAIN finals /\ finals \in Seq(SomePhrases)
        BY <3>3 DEF TextTypes
      <4>2. finals[seq + 1] \in SomePhrases
        BY <4>1
      <4>3. rows' = rows \/ rows' = Append(rows, finals[seq + 1])
        BY <1>10, <3>3 DEF Persist
      <4> QED BY <3>1, <4>2, <4>3
    <3> QED BY <3>2, <3>3
  <2>3. Reached = seq /\ Reached' = seq'
    BY <2>1 DEF Reached
  <2>4. \A i \in 1..Reached : i \in 1..Reached'
    BY <2>1, <2>3
  <2>5. ShownInOrder'
    BY <2>1, <2>2, <2>4 DEF OrderInv, ShownInOrder
  <2> QED BY <2>1, <2>5 DEF OrderInv
<1>11. CASE Finish
  <2>1. /\ pc' = "idle" /\ seq' = 0 /\ shown' = <<>> /\ skipped' = <<>> /\ rows' = <<>>
        /\ last_inserted' = NoText
    BY <1>11 DEF Finish
  <2>2. Reached' = 0
    BY <2>1 DEF Reached
  <2> QED BY <2>1, <2>2 DEF OrderInv, ShownInOrder, RowsAreShown, AllTreated
<1>12. CASE PressEsc \/ UNCHANGED vars
  <2>1. UNCHANGED <<pc, ctx, finals, seq, out, recVars, result>>
    BY <1>12 DEF PressEsc, vars
  <2>2. Reached' = Reached /\ RowsAreShown' = RowsAreShown
    BY <2>1 DEF Reached, RowsAreShown, ShownTexts
  <2> QED BY <1>1, <2>1, <2>2 DEF OrderInv
<1> QED
  BY <1>2, <1>3, <1>4, <1>5, <1>6, <1>7, <1>8, <1>9, <1>10, <1>11, <1>12
  DEF FinalNext, LoopStep, Routing, Refuse, Timeout

-----------------------------------------------------------------------------
(* What a failure leaves on the screen. *)

LEMMA FallbackStep ==
  ASSUME FinalTypeOK, TextTypes, OrderInv, FallbackIsSpoken, [FinalNext]_vars
  PROVE  FallbackIsSpoken'
<1> USE DEF loopVars, recVars, textVars
<1>1. ASSUME UNCHANGED <<ctx, finals, shown>> PROVE FallbackIsSpoken'
  BY <1>1 DEF FallbackIsSpoken, Body, RoleApplies
<1>2. ASSUME shown' = <<>> PROVE FallbackIsSpoken'
  BY <1>2 DEF FallbackIsSpoken, Range
<1>3. CASE InsertEx
  <2> DEFINE r == [seq |-> seq, text |-> out.text,
                   warning |-> out.warning, from |-> out.from]
  <2>1. /\ pc = "insert" /\ shown' = Append(shown, r)
        /\ UNCHANGED <<ctx, finals>>
    BY <1>3 DEF InsertEx
  <2>2. Fits(out, Said)
    BY <2>1 DEF TextTypes, OutcomeFits
  <2>3. Fits(r, correct_l0(finals[r.seq]))
    BY <2>2 DEF Fits, Said
  <2>4. shown \in Seq(Shown)
    BY DEF OrderInv, ShownInOrder
  <2> HIDE DEF r
  <2>5. \A x \in Range(shown') : x = r \/ x \in Range(shown)
    BY <2>1, <2>4, AppendRange
  <2>6. ASSUME NEW x \in Range(shown') PROVE Fits(x, correct_l0(finals[x.seq]))
    <3>1. CASE x = r
      BY <2>3, <3>1
    <3>2. CASE x \in Range(shown)
      BY <3>2 DEF FallbackIsSpoken, Fits
    <3> QED BY <2>5, <3>1, <3>2
  <2> QED BY <2>1, <2>6 DEF FallbackIsSpoken, Fits, Body, RoleApplies
<1>4. ASSUME NEW c, NEW fs, Begin(c, fs) PROVE FallbackIsSpoken'
  BY <1>2, <1>4 DEF Begin, TextTypes
<1>5. CASE Finish
  BY <1>2, <1>5 DEF Finish
<1>6. CASE Routing
  BY <1>1, <1>6, RoutingStep
<1>7. CASE PressEsc \/ Take \/ Drop \/ SkipSame \/ Save \/ SaveFails \/ Persist \/ PersistFails
           \/ UNCHANGED vars
  BY <1>1, <1>7 DEF PressEsc, Take, Drop, SkipSame, Save, SaveFails, Persist,
                    PersistFails, vars
<1> QED
  BY <1>3, <1>4, <1>5, <1>6, <1>7 DEF FinalNext, LoopStep, Routing, Refuse, Timeout

-----------------------------------------------------------------------------
(* What streaming leaves in the history. *)

HoldsUpTo(rs, fs, n) ==
  \E at \in [1..n -> DOMAIN rs] :
    /\ Range(at) = DOMAIN rs
    /\ \A i \in 1..n : rs[at[i]] = fs[i]
    /\ \A i, j \in 1..n : i <= j => at[i] <= at[j]

StreamInv == ctx.streaming => HoldsUpTo(rows, finals, seq)

\* The next final has a row of its own, or shares that of the one before.
LEMMA OneMoreRow ==
  ASSUME NEW T, NEW rs \in Seq(T), NEW fs \in Seq(T), NEW n \in Nat, n + 1 \in DOMAIN fs,
         HoldsUpTo(rs, fs, n),
         NEW new, new = IF n > 0 /\ fs[n] = fs[n + 1] THEN rs ELSE Append(rs, fs[n + 1])
  PROVE  HoldsUpTo(new, fs, n + 1)
<1>1. PICK at \in [1..n -> DOMAIN rs] :
        /\ Range(at) = DOMAIN rs
        /\ \A i \in 1..n : rs[at[i]] = fs[i]
        /\ \A i, j \in 1..n : i <= j => at[i] <= at[j]
  BY DEF HoldsUpTo
<1> DEFINE m == Len(rs)
<1>2. m \in Nat /\ DOMAIN rs = 1..m /\ fs[n + 1] \in T
  OBVIOUS
<1>3. \A i \in 1..n + 1 : i = n + 1 \/ i \in 1..n
  OBVIOUS
<1>4. \A i \in 1..n : i \in 1..n + 1 /\ i # n + 1 /\ at[i] \in 1..m
  BY <1>2
<1>5. n + 1 \in 1..n + 1
  OBVIOUS
\* The row that the next final has.
<1>6. ASSUME NEW k \in DOMAIN new, new[k] = fs[n + 1],
             \A j \in 1..n : at[j] <= k,
             \A j \in 1..m : j \in DOMAIN new /\ new[j] = rs[j],
             \A j \in DOMAIN new : j = k \/ j \in 1..m
      PROVE  HoldsUpTo(new, fs, n + 1)
  <2> DEFINE to == [i \in 1..n + 1 |-> IF i = n + 1 THEN k ELSE at[i]]
  <2>1. /\ to[n + 1] = k /\ \A i \in 1..n : to[i] = at[i]
    BY <1>4, <1>5
  <2>2. to \in [1..n + 1 -> DOMAIN new]
    BY <1>3, <1>4, <1>6
  <2> HIDE DEF to
  <2>3. \A j : j \in Range(at) <=> \E i \in 1..n : j = at[i]
    BY DEF Range
  <2>4. \A j : j \in Range(to) <=> \E i \in 1..n + 1 : j = to[i]
    BY <2>2 DEF Range
  <2>5. Range(to) = DOMAIN new
    <3>1. ASSUME NEW j \in DOMAIN new PROVE j \in Range(to)
      <4>1. CASE j = k
        BY <1>5, <2>1, <2>4, <4>1
      <4>2. CASE j \in 1..m
        <5>1. PICK i \in 1..n : j = at[i]
          BY <1>1, <1>2, <2>3, <4>2
        <5>2. i \in 1..n + 1 /\ to[i] = j
          BY <1>4, <2>1, <5>1
        <5> QED BY <2>4, <5>2
      <4> QED BY <1>6, <4>1, <4>2
    <3>2. ASSUME NEW j \in Range(to) PROVE j \in DOMAIN new
      BY <2>2, <2>4
    <3> QED BY <3>1, <3>2
  <2>6. \A i \in 1..n + 1 : new[to[i]] = fs[i]
    BY <1>1, <1>3, <1>4, <1>6, <2>1
  <2>7. ASSUME NEW i \in 1..n + 1, NEW j \in 1..n + 1, i <= j PROVE to[i] <= to[j]
    <3>1. CASE j \in 1..n
      <4>1. i \in 1..n
        BY <2>7, <3>1
      <4> QED BY <1>1, <2>1, <2>7, <3>1, <4>1
    <3>2. CASE j = n + 1
      <4>1. k <= k
        BY <1>2, <1>6
      <4> QED BY <1>3, <1>6, <2>1, <3>2, <4>1
    <3> QED BY <1>3, <3>1, <3>2
  <2> QED BY <2>2, <2>5, <2>6, <2>7 DEF HoldsUpTo
<1>7. CASE n > 0 /\ fs[n] = fs[n + 1]
  <2>1. new = rs /\ n \in 1..n
    BY <1>7
  <2>2. at[n] \in DOMAIN new /\ new[at[n]] = fs[n + 1] /\ \A j \in 1..n : at[j] <= at[n]
    <3>1. at[n] \in DOMAIN rs
      BY <2>1
    <3>2. rs[at[n]] = fs[n]
      BY <1>1, <2>1
    <3>3. \A j \in 1..n : at[j] <= at[n]
      <4>1. \A j \in 1..n : j <= n
        OBVIOUS
      <4> QED BY <1>1, <2>1, <4>1
    <3> QED BY <1>7, <2>1, <3>1, <3>2, <3>3
  <2> QED BY <1>2, <1>6, <2>1, <2>2
<1>8. CASE ~(n > 0 /\ fs[n] = fs[n + 1])
  <2>1. new = Append(rs, fs[n + 1])
    BY <1>8
  <2>2. /\ new \in Seq(T) /\ Len(new) = m + 1 /\ new[m + 1] = fs[n + 1]
        /\ \A j \in 1..m : new[j] = rs[j]
    BY <1>2, <2>1
  <2> HIDE DEF m
  <2>3. /\ m + 1 \in DOMAIN new /\ \A j \in 1..m : j \in DOMAIN new
        /\ \A j \in DOMAIN new : j = m + 1 \/ j \in 1..m
    BY <1>2, <2>2
  <2>4. \A j \in 1..n : at[j] <= m + 1
    BY <1>2, <1>4
  <2> QED BY <1>6, <2>2, <2>3, <2>4
<1> QED BY <1>7, <1>8

LEMMA StreamStep ==
  ASSUME FinalTypeOK, TextTypes, OrderInv, StreamInv, [FinalNext]_vars
  PROVE  StreamInv'
<1> USE DEF loopVars, recVars, textVars
<1>1. ASSUME UNCHANGED <<ctx, finals, seq, rows>> PROVE StreamInv'
  BY <1>1 DEF StreamInv
<1>2. ASSUME ~ctx.streaming, ctx' = ctx PROVE StreamInv'
  BY <1>2 DEF StreamInv
<1>3. ASSUME NEW c, NEW fs, Begin(c, fs) PROVE StreamInv'
  <2>1. seq' = 0 /\ rows' = <<>>
    BY <1>3 DEF Begin, TextTypes
  <2>2. HoldsUpTo(rows', finals', 0)
    <3>1. DOMAIN rows' = {} /\ 1..0 = {}
      BY <2>1
    <3>2. [i \in 1..0 |-> i] \in [1..0 -> DOMAIN rows'] /\ Range([i \in 1..0 |-> i]) = {}
      BY <3>1 DEF Range
    <3> QED BY <3>1, <3>2 DEF HoldsUpTo
  <2> QED BY <2>1, <2>2 DEF StreamInv
<1>4. CASE Persist
  <2>1. ctx' = ctx /\ finals' = finals /\ ctx.streaming
    BY <1>4 DEF Persist, TextTypes
  <2>2. CASE seq = Len(finals)
    BY <1>1, <1>4, <2>2 DEF Persist
  <2>3. CASE seq # Len(finals)
    <3>1. /\ seq' = seq + 1
          /\ rows' = IF seq > 0 /\ finals[seq] = finals[seq + 1] THEN rows
                     ELSE Append(rows, finals[seq + 1])
      BY <1>4, <2>3 DEF Persist
    <3>2. /\ rows \in Seq(SomePhrases) /\ finals \in Seq(SomePhrases) /\ seq \in Nat
          /\ seq + 1 \in DOMAIN finals
      BY <2>3 DEF OrderInv, ShownInOrder, TextTypes
    <3>3. HoldsUpTo(rows, finals, seq)
      BY <2>1 DEF StreamInv
    <3>4. HoldsUpTo(rows', finals, seq + 1)
      BY <3>1, <3>2, <3>3, OneMoreRow
    <3> QED BY <2>1, <3>1, <3>4 DEF StreamInv
  <2> QED BY <2>2, <2>3
<1>5. CASE Finish
  <2>1. ~ctx'.streaming
    BY <1>5 DEF Finish, NoContext
  <2> QED BY <2>1 DEF StreamInv
<1>6. CASE Routing
  BY <1>1, <1>6, RoutingStep
<1>7. CASE Take \/ Drop \/ SkipSame \/ InsertEx \/ Save \/ SaveFails
  <2>1. ~ctx.streaming /\ ctx' = ctx
    BY <1>7 DEF Take, Drop, SkipSame, InsertEx, Save, SaveFails, TextTypes, InLoop
  <2> QED BY <1>2, <2>1
<1>8. CASE PressEsc \/ PersistFails \/ UNCHANGED vars
  BY <1>1, <1>8 DEF PressEsc, PersistFails, vars
<1> QED
  BY <1>3, <1>4, <1>5, <1>6, <1>7, <1>8
  DEF FinalNext, LoopStep, Routing, Refuse, Timeout

-----------------------------------------------------------------------------
KeptInv == FinalTypeOK /\ TextTypes /\ OrderInv /\ FallbackIsSpoken /\ StreamInv

LEMMA KeptInit == FinalAssumption /\ FinalInit => KeptInv
<1> SUFFICES ASSUME FinalAssumption, FinalInit PROVE KeptInv
  OBVIOUS
<1> USE DEF FinalInit
<1>1. FinalTypeOK
  BY FinalTypeInit
<1>2. TextTypes
  BY DEF TextTypes, InLoop, Requesting, Range
<1>3. OrderInv
  <2>1. Reached = 0
    BY DEF Reached
  <2> QED BY <2>1 DEF OrderInv, ShownInOrder, RowsAreShown, AllTreated
<1>4. FallbackIsSpoken
  BY DEF FallbackIsSpoken, Range
<1>5. StreamInv
  BY DEF StreamInv, NoContext
<1> QED BY <1>1, <1>2, <1>3, <1>4, <1>5 DEF KeptInv

LEMMA KeptMeansTextKept == KeptInv => TextKept
<1> SUFFICES ASSUME KeptInv PROVE NothingLost
  BY DEF TextKept, KeptInv
<1> SUFFICES ASSUME pc = "end", result = "ok"
             PROVE  /\ seq = Len(finals)
                    /\ \A f \in Range(spoken) : Covered(f, finals)
                    /\ ctx.streaming => HoldsUpTo(rows, finals, Len(finals))
                    /\ ~ctx.streaming => /\ \A i \in DOMAIN finals : Treated(i)
                                         /\ rows = ShownTexts(Len(shown))
  <2>1. finals \in Seq(SomePhrases) /\ shown \in Seq(Shown)
    BY DEF KeptInv, TextTypes, OrderInv, ShownInOrder
  <2>2. DOMAIN finals = 1..Len(finals) /\ DOMAIN shown = 1..Len(shown)
    BY <2>1
  <2>3. HoldsUpTo(rows, finals, Len(finals)) => Holds(rows, finals)
    BY <2>2 DEF HoldsUpTo, Holds
  <2>4. ASSUME NEW f, Covered(f, finals)
        PROVE  f = NoText \/ \E g \in Range(finals) : Repeats(f, g)
    BY <2>4 DEF Covered, Range
  <2>5. ShownTexts(Len(shown)) = [i \in DOMAIN shown |-> shown[i].text]
    BY <2>2 DEF ShownTexts
  <2> QED BY <2>3, <2>4, <2>5 DEF NothingLost, Treated
<1>1. seq = Len(finals) /\ \A f \in Range(spoken) : Covered(f, finals)
  BY DEF KeptInv, TextTypes
<1>2. Reached = seq /\ DOMAIN finals = 1..seq
  BY <1>1 DEF Reached, KeptInv, TextTypes
<1> QED
  BY <1>1, <1>2 DEF KeptInv, OrderInv, StreamInv, RowsAreShown, AllTreated

\* Nothing that was said gets lost, and what no backend worked on is shown as
\* it was said: for every recording, whatever the backends answer, whichever of
\* them fail, and wherever ESC cuts a polish off.
THEOREM WhatWasSaidIsKept == FinalSpec => []TextKept
<1> USE FinalAssumption
<1>1. FinalInit => KeptInv
  BY KeptInit
<1>2. KeptInv /\ [FinalNext]_vars => KeptInv'
  BY FinalTypeStep, TextTypesStep, OrderStep, FallbackStep, StreamStep DEF KeptInv
<1>3. KeptInv => TextKept
  BY KeptMeansTextKept
<1> QED BY <1>1, <1>2, <1>3, PTL DEF FinalSpec

-----------------------------------------------------------------------------
(* The text service: types. *)

\* The next text is one of those that insert_ex has not returned from.
LEMMA NextTextIn ==
  ASSUME Unreturned # {}
  PROVE  NextText \in Text /\ outcome[NextText] = "none"
<1>1. Unreturned \subseteq Nat
  BY TsfAssumption DEF Unreturned, Text
<1>2. PICK t \in Unreturned : \A u \in Unreturned : ~ (<<u, t>> \in OpToRel(<, Nat))
  BY <1>1, NatLessThanWellFounded, WFMin, Zenon
<1>3. \A u \in Unreturned : t <= u
  <2> TAKE u \in Unreturned
  <2>1. u < t => <<u, t>> \in OpToRel(<, Nat)
    BY <1>1 DEF OpToRel
  <2>2. ~ (u < t)
    BY <1>2, <2>1, Zenon
  <2>3. t \in Nat /\ u \in Nat
    BY <1>1
  <2> QED
    BY <2>2, <2>3
<1>4. NextText \in Unreturned
  BY <1>3 DEF NextText
<1> QED
  BY <1>4 DEF Unreturned

\* A session has a text that is not yet returned; a job has one too.
Sessions ==
  /\ host.at = "idle" \/ (host.text \in Text /\ outcome[host.text] = "none")
  /\ host.at = "idle" => ~host.ok
  /\ host.ok => host.at = "restore"
  /\ served.at = "wait" => served.text \in Text

TsfInv == TsfTypeOK /\ Sessions

HostType == [at : HostSteps, text : Text \cup {None},
             saved : Profiles \cup {OpenIme, None}, activated : BOOLEAN, ok : BOOLEAN]
ServedType == [at : {"off", "listen", "serve", "wait"}, text : Text \cup {None},
               request : Text \cup {None}]

LEMMA NoHostType == NoHost \in HostType /\ NoHost.at = "idle" /\ NoHost.ok = FALSE
  BY DEF NoHost, HostType, HostSteps

LEMMA ServiceTypes ==
  /\ NoService \in ServedType /\ NoService.at = "off"
  /\ Listening \in ServedType /\ Listening.at = "listen"
  BY DEF NoService, Listening, ServedType

LEMMA TsfInitTypes == Init => TsfInv
<1> SUFFICES ASSUME Init PROVE TsfInv
  OBVIOUS
<1>1. host \in HostType /\ host.at = "idle" /\ host.ok = FALSE
  BY NoHostType DEF Init
<1>2. served \in ServedType /\ served.at = "off"
  BY ServiceTypes DEF Init
<1>3. outcome \in [Text -> {"none", "Committed", "ordinary", "Failed"}]
  BY DEF Init
<1>4. switches \in 0..MaxSwitches /\ crashes \in 0..MaxCrashes
  BY TsfAssumption DEF Init
<1>5. ui \in [text : Text \cup {None}, done : Results \cup {"none"}]
  BY DEF Init
<1>6. replies \in Seq(Frame) /\ document \in Seq(Text)
  BY DEF Init
<1> QED
  BY <1>1, <1>2, <1>3, <1>4, <1>5, <1>6
     DEF Init, TsfInv, TsfTypeOK, Sessions, HostType, ServedType, Results

\* The host moves within a session, with the same text and the same result.
LEMMA HostMoves ==
  ASSUME TsfInv, NEW s \in HostSteps \ {"idle"}, HostGoto(s), host.at # "idle", ~host.ok,
         outcome' = outcome
  PROVE  /\ host' \in HostType /\ host'.at = s /\ host'.text = host.text /\ ~host'.ok
         /\ host'.text \in Text /\ outcome'[host'.text] = "none"
  BY DEF TsfInv, TsfTypeOK, Sessions, HostGoto, HostType

LEMMA ReturnTypes ==
  ASSUME TsfInv, NEW t, NEW o \in {"Committed", "ordinary", "Failed"}, InsertReturns(t, o)
  PROVE  /\ host' \in HostType /\ host'.at = "idle" /\ ~host'.ok
         /\ outcome' \in [Text -> {"none", "Committed", "ordinary", "Failed"}]
  BY NoHostType DEF InsertReturns, TsfInv, TsfTypeOK

LEMMA AnswerTypes ==
  ASSUME TsfInv, served.at = "wait", AnswerHost
  PROVE  /\ replies' \in Seq(Frame)
         /\ served' \in ServedType /\ served'.at \in {"serve", "listen"}
<1>1. served.text \in Text /\ jobResult \in Results /\ replies \in Seq(Frame)
      /\ served \in ServedType
  BY DEF TsfInv, TsfTypeOK, Sessions, ServedType
<1>2. [text |-> served.text, status |-> jobResult] \in Frame
  BY <1>1 DEF Frame
<1>3. replies' \in Seq(Frame)
  BY <1>1, <1>2 DEF AnswerHost
<1>4. served' \in ServedType /\ served'.at \in {"serve", "listen"}
  BY <1>1, ServiceTypes DEF AnswerHost, ServedType
<1> QED
  BY <1>3, <1>4

LEMMA TsfTypesStep == TsfInv /\ [Next]_tsfVars => TsfInv'
<1> SUFFICES ASSUME TsfInv, [Next]_tsfVars PROVE TsfInv'
  OBVIOUS
<1> USE DEF pipeVars, ghostVars
<1>0. host \in HostType /\ served \in ServedType /\ replies \in Seq(Frame) /\ document \in Seq(Text)
  BY DEF TsfInv, TsfTypeOK, HostType, ServedType
<1>1. CASE ensure_registered
  <2>1. registry' \in Registry
    BY <1>1 DEF ensure_registered, TsfInv, TsfTypeOK, Registry
  <2> QED
    BY <1>1, <2>1 DEF ensure_registered, TsfInv, TsfTypeOK, Sessions
<1>2. CASE Gate
  <2>1. CASE host' = [NoHost EXCEPT !.at = "prepare", !.text = NextText] /\ UNCHANGED outcome
    <3>1. host' \in HostType /\ host'.at = "prepare" /\ host'.text = NextText /\ ~host'.ok
          /\ NextText \in Text /\ outcome'[NextText] = "none"
      BY <1>2, <2>1, NextTextIn DEF Gate, NoHost, HostType, HostSteps
    <3> QED
      BY <1>2, <2>1, <3>1 DEF Gate, TsfInv, TsfTypeOK, Sessions, HostType
  <2>2. CASE InsertReturns(NextText, "ordinary")
    <3>1. /\ host' \in HostType /\ host'.at = "idle" /\ ~host'.ok
          /\ outcome' \in [Text -> {"none", "Committed", "ordinary", "Failed"}]
      BY <2>2, ReturnTypes
    <3> QED
      BY <1>2, <3>1 DEF Gate, TsfInv, TsfTypeOK, Sessions, HostType
  <2> QED
    BY <1>2, <2>1, <2>2 DEF Gate
<1>3. CASE Prepare
  <2>1. PICK saved \in {profile, None} :
          host' = [host EXCEPT !.at = "activate", !.saved = saved] /\ stuck' = (stuck \/ saved = None)
    BY <1>3 DEF Prepare
  <2>2. /\ host' \in HostType /\ host'.at = "activate" /\ host'.text = host.text /\ ~host'.ok
        /\ stuck' \in BOOLEAN
    BY <1>0, <1>3, <2>1 DEF Prepare, TsfInv, TsfTypeOK, Sessions, HostType, HostSteps
  <2> QED
    BY <1>3, <2>2 DEF Prepare, TsfInv, TsfTypeOK, Sessions, HostType
<1>4. CASE Connect
  <2>1. host' \in HostType /\ host'.at = "submit" /\ host'.text = host.text /\ ~host'.ok
    BY <1>0, <1>4 DEF Connect, TsfInv, Sessions, HostType, HostSteps
  <2>2. served' \in ServedType /\ served'.at = "serve"
    BY <1>0, <1>4 DEF Connect, ServedType
  <2>3. replies' \in Seq(Frame)
    BY <1>4 DEF Connect
  <2> QED
    BY <1>4, <2>1, <2>2, <2>3 DEF Connect, TsfInv, TsfTypeOK, Sessions, HostType, ServedType
<1>5. ASSUME NEW s \in HostSteps \ {"idle"}, HostGoto(s), host.at # "idle", ~host.ok,
             outcome' = outcome, served' \in ServedType, served'.at = "wait" => served' = served,
             replies' = replies, late' \in BOOLEAN,
             UNCHANGED <<registry, fallback, profile, job, jobResult, jobDone, posted, ui,
                         document, switches, crashes, chosen, stuck>>
      PROVE  TsfInv'
  <2>1. /\ host' \in HostType /\ host'.at = s /\ host'.text = host.text /\ ~host'.ok
        /\ host'.text \in Text /\ outcome'[host'.text] = "none"
    BY <1>5, HostMoves
  <2> QED
    BY <1>5, <2>1 DEF TsfInv, TsfTypeOK, Sessions, HostType, ServedType
<1>24. CASE PrepareFails
  <2>1. Fallback \in {"Committed", "ordinary", "Failed"}
    BY DEF Fallback
  <2>2. /\ host' \in HostType /\ host'.at = "idle" /\ ~host'.ok
        /\ outcome' \in [Text -> {"none", "Committed", "ordinary", "Failed"}]
    BY <1>24, <2>1, ReturnTypes DEF PrepareFails
  <2> QED
    BY <1>24, <2>2 DEF PrepareFails, TsfInv, TsfTypeOK, Sessions, HostType
<1>25. CASE ActivateProfile
  <2>1. "connect" \in HostSteps \ {"idle"} /\ ~host.ok
    BY <1>25 DEF HostSteps, ActivateProfile, TsfInv, TsfTypeOK, Sessions
  <2>2. /\ host' \in HostType /\ host'.at = "connect" /\ host'.text = host.text /\ ~host'.ok
        /\ host'.text \in Text /\ outcome'[host'.text] = "none"
    BY <1>25, <2>1, HostMoves DEF ActivateProfile
  <2>3. profile' \in Profiles \cup {OpenIme}
    BY <1>25 DEF ActivateProfile, TsfInv, TsfTypeOK
  <2> QED
    BY <1>25, <2>2, <2>3 DEF ActivateProfile, TsfInv, TsfTypeOK, Sessions, HostType
<1>6. CASE ConnectFails
  <2>1. "restore" \in HostSteps \ {"idle"} /\ ~host.ok /\ late \in BOOLEAN
    BY <1>6 DEF HostSteps, ConnectFails, TsfInv, TsfTypeOK, Sessions
  <2> QED
    BY <1>0, <1>5, <1>6, <2>1 DEF ConnectFails
<1>7. CASE Submit
  <2>1. "restore" \in HostSteps \ {"idle"} /\ "wait" \in HostSteps \ {"idle"} /\ ~host.ok
        /\ late \in BOOLEAN /\ host.text \in Text
    BY <1>7 DEF HostSteps, Submit, TsfInv, TsfTypeOK, Sessions
  <2>2. served' \in ServedType /\ (served'.at = "wait" => served' = served)
    BY <1>0, <1>7, <2>1 DEF Submit, ServedType
  <2> QED
    BY <1>5, <1>7, <2>1, <2>2 DEF Submit
<1>8. CASE ReadReply
  <2>1. replies' \in Seq(Frame)
    BY <1>0, <1>8 DEF ReadReply
  <2>2. CASE host' = [host EXCEPT !.at = "restore", !.ok = TRUE]
    <3>1. host' \in HostType /\ host'.at = "restore" /\ host'.text = host.text
      BY <1>0, <2>2 DEF HostType, HostSteps
    <3> QED
      BY <1>8, <2>1, <3>1 DEF ReadReply, TsfInv, TsfTypeOK, Sessions, HostType
  <2>3. CASE host' = host
    BY <1>8, <2>1, <2>3 DEF ReadReply, TsfInv, TsfTypeOK, Sessions, HostType
  <2> QED
    BY <1>8, <2>2, <2>3 DEF ReadReply
<1>9. CASE HostTimeout
  <2>1. "restore" \in HostSteps \ {"idle"} /\ ~host.ok
    BY <1>9 DEF HostSteps, HostTimeout, TsfInv, Sessions
  <2>2. late' \in BOOLEAN
    BY <1>9 DEF HostTimeout
  <2> QED
    BY <1>0, <1>5, <1>9, <2>1, <2>2 DEF HostTimeout
<1>10. ASSUME NEW o \in {"Committed", "ordinary", "Failed"}, InsertReturns(host.text, o),
              Disconnect, profile' \in Profiles \cup {OpenIme}, stuck' \in BOOLEAN,
              late' \in BOOLEAN, crashes' \in 0..MaxCrashes,
              UNCHANGED <<registry, fallback, job, jobResult, jobDone, posted, ui, document,
                          switches, chosen>>
       PROVE  TsfInv'
  <2>1. /\ host' \in HostType /\ host'.at = "idle" /\ ~host'.ok
        /\ outcome' \in [Text -> {"none", "Committed", "ordinary", "Failed"}]
    BY <1>10, ReturnTypes
  <2>2. served' \in ServedType /\ (served'.at = "wait" => served' = served)
    BY <1>0, <1>10, ServiceTypes DEF Disconnect
  <2>3. replies' \in Seq(Frame)
    BY <1>10 DEF Disconnect
  <2> QED
    BY <1>10, <2>1, <2>2, <2>3 DEF TsfInv, TsfTypeOK, Sessions, HostType, ServedType
<1>11. CASE RestoreSession
  <2>1. (IF host.ok THEN "Committed" ELSE Fallback) \in {"Committed", "ordinary", "Failed"}
    BY DEF Fallback
  <2>2. profile' \in Profiles \cup {OpenIme} /\ stuck' \in BOOLEAN
    BY <1>0, <1>11 DEF RestoreSession, restore_decision, TsfInv, TsfTypeOK, HostType
  <2>3. late \in BOOLEAN /\ crashes \in 0..MaxCrashes
    BY DEF TsfInv, TsfTypeOK
  <2> QED
    BY <1>10, <1>11, <2>1, <2>2, <2>3 DEF RestoreSession
<1>12. CASE Crash
  <2>1. crashes' \in 0..MaxCrashes /\ profile \in Profiles \cup {OpenIme}
    BY <1>12, TsfAssumption DEF Crash, TsfInv, TsfTypeOK
  <2> QED
    BY <1>10, <1>12, <2>1 DEF Crash
<1>13. CASE Activate
  <2>1. served' \in ServedType /\ served'.at = "listen" /\ job' = None /\ jobResult' \in Results
        /\ jobDone' \in BOOLEAN /\ posted' \in Nat
    BY <1>13, ServiceTypes DEF Activate, Results
  <2> QED
    BY <1>13, <2>1 DEF Activate, TsfInv, TsfTypeOK, Sessions, ServedType
<1>14. CASE Deactivate
  BY <1>14, ServiceTypes DEF Deactivate, TsfInv, TsfTypeOK, Sessions, ServedType
<1>15. CASE TakeRequest
  <2>1. /\ served' = [at |-> "wait", text |-> served.request, request |-> None]
        /\ job' = served.request /\ jobResult' = "failed" /\ jobDone' = FALSE
        /\ posted' \in {posted, posted + 1} /\ served.request # None
    BY <1>15 DEF TakeRequest
  <2>2. served.request \in Text /\ posted \in Nat
    BY <2>1 DEF TsfInv, TsfTypeOK
  <2>3. /\ served' \in ServedType /\ served'.text \in Text /\ job' \in Text
        /\ jobResult' \in Results /\ posted' \in Nat
    BY <2>1, <2>2 DEF ServedType, Results
  <2>4. jobDone' = FALSE
        /\ UNCHANGED <<registry, fallback, profile, host, outcome, ui, replies, document,
                       switches, crashes, ghostVars>>
    BY <1>15 DEF TakeRequest
  <2> QED
    BY <2>3, <2>4 DEF TsfInv, TsfTypeOK, Sessions, ServedType
<1>16. CASE JobTimeout
  <2>1. /\ replies' \in Seq(Frame)
        /\ served' \in ServedType /\ served'.at \in {"serve", "listen"}
    BY <1>16, AnswerTypes DEF JobTimeout
  <2>2. late' \in BOOLEAN
    BY <1>16 DEF JobTimeout
  <2> QED
    BY <1>16, <2>1, <2>2 DEF JobTimeout, TsfInv, TsfTypeOK, Sessions, ServedType
<1>17. CASE JobDone
  <2>1. /\ replies' \in Seq(Frame)
        /\ served' \in ServedType /\ served'.at \in {"serve", "listen"}
    BY <1>17, AnswerTypes DEF JobDone
  <2>2. jobDone' \in BOOLEAN /\ job' = None
        /\ UNCHANGED <<registry, fallback, profile, host, outcome, jobResult, posted, ui,
                       document, switches, crashes, ghostVars>>
    BY <1>17 DEF JobDone
  <2> QED
    BY <2>1, <2>2 DEF TsfInv, TsfTypeOK, Sessions, ServedType
<1>18. CASE TakeJob
  <2>1. posted' \in Nat /\ ui' \in [text : Text \cup {None}, done : Results \cup {"none"}]
    BY <1>18 DEF TakeJob, TsfInv, TsfTypeOK
  <2>2. late' \in BOOLEAN
    BY <1>18 DEF TakeJob
  <2> QED
    BY <1>18, <2>1, <2>2 DEF TakeJob, TsfInv, TsfTypeOK, Sessions
<1>19. CASE DoEditSession
  <2>1. ui' \in [text : Text \cup {None}, done : Results \cup {"none"}]
    BY <1>19 DEF DoEditSession, TsfInv, TsfTypeOK
  <2>2. ui.text \in Text
    BY <1>19 DEF DoEditSession, TsfInv, TsfTypeOK
  <2>3. document' \in Seq(Text)
    BY <1>0, <1>19, <2>2 DEF DoEditSession
  <2> QED
    BY <1>19, <2>1, <2>3 DEF DoEditSession, TsfInv, TsfTypeOK, Sessions
<1>20. CASE CompleteJob
  <2>1. /\ ui' \in [text : Text \cup {None}, done : Results \cup {"none"}]
        /\ jobResult' \in Results /\ jobDone' \in BOOLEAN
    BY <1>20 DEF CompleteJob, TsfInv, TsfTypeOK
  <2> QED
    BY <1>20, <2>1 DEF CompleteJob, TsfInv, TsfTypeOK, Sessions
<1>21. CASE SwitchProfile
  <2>1. switches' \in 0..MaxSwitches
    BY <1>21, TsfAssumption DEF SwitchProfile, TsfInv, TsfTypeOK
  <2> QED
    BY <1>21, <2>1 DEF SwitchProfile, TsfInv, TsfTypeOK, Sessions
<1>22. CASE restore_to_system_default
  BY <1>22 DEF restore_to_system_default, TsfInv, TsfTypeOK, Sessions
<1>23. CASE UNCHANGED tsfVars
  BY <1>23 DEF tsfVars, TsfInv, TsfTypeOK, Sessions
<1> QED
  BY <1>1, <1>2, <1>3, <1>4, <1>6, <1>7, <1>8, <1>9, <1>11, <1>12, <1>13, <1>14, <1>15,
     <1>16, <1>17, <1>18, <1>19, <1>20, <1>21, <1>22, <1>23, <1>24, <1>25
     DEF Next, Host, Dll

-----------------------------------------------------------------------------
(* The user's input method comes back. *)

\* Unless the host was ended or the system refused, a session that has made
\* openIME current has the user's input method saved.
ProfileSaved ==
  ~stuck => /\ host.at \in {"idle", "prepare"} => profile \in Profiles
            /\ host.at \notin {"idle", "prepare"} => host.saved \in Profiles

LEMMA ProfileSavedStep == TsfInv /\ ProfileSaved /\ [Next]_tsfVars => ProfileSaved'
<1> SUFFICES ASSUME TsfInv, ProfileSaved, [Next]_tsfVars, ~stuck'
             PROVE  /\ host'.at \in {"idle", "prepare"} => profile' \in Profiles
                    /\ host'.at \notin {"idle", "prepare"} => host'.saved \in Profiles
  BY DEF ProfileSaved
<1> USE DEF pipeVars, ghostVars
<1>0. host \in HostType /\ stuck \in BOOLEAN
  BY DEF TsfInv, TsfTypeOK, HostType
<1>1. CASE Gate
  <2>1. host.at = "idle" /\ UNCHANGED <<profile, stuck>>
        /\ (host' = NoHost \/ host' = [NoHost EXCEPT !.at = "prepare", !.text = NextText])
    BY <1>1 DEF Gate, InsertReturns
  <2>2. host'.at \in {"idle", "prepare"}
    <3>1. CASE host' = NoHost
      BY <3>1 DEF NoHost
    <3>2. CASE host' = [NoHost EXCEPT !.at = "prepare", !.text = NextText]
      BY <3>2 DEF NoHost
    <3> QED
      BY <2>1, <3>1, <3>2
  <2> QED
    BY <2>1, <2>2 DEF ProfileSaved
<1>2. CASE Prepare
  <2>1. PICK saved \in {profile, None} :
          host' = [host EXCEPT !.at = "activate", !.saved = saved] /\ stuck' = (stuck \/ saved = None)
    BY <1>2 DEF Prepare
  <2>2. ~stuck /\ saved = profile /\ host.at = "prepare"
    BY <1>0, <1>2, <2>1 DEF Prepare
  <2> QED
    BY <1>0, <2>1, <2>2 DEF ProfileSaved, HostType
<1>8. CASE PrepareFails
  <2>1. host.at = "prepare" /\ host'.at = "idle" /\ UNCHANGED <<profile, stuck>>
    BY <1>8 DEF PrepareFails, InsertReturns, NoHost
  <2> QED
    BY <2>1 DEF ProfileSaved
<1>3. CASE ActivateProfile \/ Connect \/ ConnectFails \/ Submit \/ ReadReply
         \/ HostTimeout
  <2>1. host.at \in {"activate", "connect", "submit", "wait"} /\ stuck' = stuck
    BY <1>3 DEF ActivateProfile, Connect, ConnectFails, Submit, ReadReply, HostTimeout
  <2>2. host'.at \in {"connect", "submit", "wait", "restore"} /\ host'.saved = host.saved
    BY <1>0, <1>3 DEF ActivateProfile, Connect, ConnectFails, Submit, ReadReply, HostTimeout, HostGoto, HostType
  <2> QED
    BY <2>1, <2>2 DEF ProfileSaved
<1>4. CASE RestoreSession
  <2>1. host'.at = "idle" /\ host.at = "restore"
    BY <1>4 DEF RestoreSession, InsertReturns, NoHost
  <2>2. ~stuck
    BY <1>0, <1>4 DEF RestoreSession
  <2>3. host.saved \in Profiles /\ host.saved # None
    BY <2>1, <2>2, TsfAssumption DEF ProfileSaved
  <2>4. restore_decision(host.saved, host.activated, ~host.activated)
    BY <1>0, <2>3 DEF restore_decision
  <2>5. profile' = host.saved
    BY <1>4, <2>4 DEF RestoreSession
  <2> QED
    BY <2>1, <2>3, <2>5
<1>5. CASE Crash
  BY <1>5 DEF Crash
<1>6. CASE SwitchProfile \/ restore_to_system_default
  <2>1. profile' \in Profiles /\ UNCHANGED <<host, stuck>>
    BY <1>6 DEF SwitchProfile, restore_to_system_default
  <2> QED
    BY <2>1 DEF ProfileSaved
<1>7. CASE Dll \/ ensure_registered \/ UNCHANGED tsfVars
  <2>1. UNCHANGED <<host, stuck, profile>>
    BY <1>7 DEF Dll, Activate, Deactivate, TakeRequest, JobTimeout, JobDone, TakeJob,
                DoEditSession, CompleteJob, ensure_registered, tsfVars
  <2> QED
    BY <2>1 DEF ProfileSaved
<1> QED
  BY <1>1, <1>2, <1>3, <1>4, <1>5, <1>6, <1>7, <1>8 DEF Next, Host

\* However a session fails, and whoever changes the input method meanwhile, openIME
\* is not left as the user's input method between two insertions (NotLeftInOpenIme),
\* for any number of texts, input methods, switches and crashes.
THEOREM InputMethodComesBack == Spec => []NotLeftInOpenIme
<1>1. Init => ProfileSaved
  BY DEF Init, ProfileSaved, NoHost
<1>2. ProfileSaved => NotLeftInOpenIme
  BY DEF ProfileSaved, NotLeftInOpenIme
<1> QED
  BY <1>1, <1>2, TsfInitTypes, TsfTypesStep, ProfileSavedStep, PTL DEF Spec

-----------------------------------------------------------------------------
(* Committed is said of what is in the document. *)

InDoc(d, t) == \E i \in DOMAIN d : d[i] = t

\* One text at a time is on its way, the session's, and is at one place: asked
\* for, with the UI thread, done, or answered.  A message that is left of an
\* earlier job finds none.
OneExchange ==
  /\ served.request # None =>
       /\ served.at = "serve" /\ host.at = "wait" /\ served.request = host.text
       /\ replies = <<>>
  /\ served.at = "wait" =>
       /\ host.at = "wait" /\ served.text = host.text /\ job = host.text /\ replies = <<>>
       /\ ~jobDone => jobResult = "failed"
  /\ served.at # "wait" => job = None /\ ~jobDone /\ ui.text = None
  /\ ui.text # None => ui.text = job /\ ~jobDone /\ posted = 0
  /\ jobDone => posted = 0
  /\ replies = <<>> \/ (/\ host.at \in {"wait", "restore"}
                        /\ \E s \in Results :
                             /\ replies = <<[text |-> host.text, status |-> s]>>
                             /\ host.at = "restore" => s # "committed")

\* A text is in the document when insert_ex said so, or the session's text while
\* the news of its commit is at one of those places.
Told ==
  \/ host.ok
  \/ ui.text # None /\ ui.done = "committed"
  \/ jobDone /\ jobResult = "committed"
  \/ replies # <<>> /\ Head(replies).status = "committed"

CommitsTold ==
  \A t \in Text :
    InDoc(document, t) <=> outcome[t] = "Committed" \/ (host.at # "idle" /\ t = host.text /\ Told)

CommitInv == late \/ (OneExchange /\ CommitsTold)

LEMMA InDocAppend ==
  ASSUME NEW d \in Seq(Text), NEW x, NEW t
  PROVE  InDoc(Append(d, x), t) <=> InDoc(d, t) \/ t = x
<1>1. Len(d) \in Nat /\ DOMAIN d = 1..Len(d)
  OBVIOUS
<1>2. /\ DOMAIN Append(d, x) = 1..(Len(d) + 1)
      /\ \A i \in 1..Len(d) : Append(d, x)[i] = d[i]
      /\ Append(d, x)[Len(d) + 1] = x
  OBVIOUS
<1>3. Len(d) + 1 \in DOMAIN Append(d, x) /\ \A i \in DOMAIN d : i \in DOMAIN Append(d, x)
  BY <1>1, <1>2
<1>4. \A i \in DOMAIN Append(d, x) : i \in DOMAIN d \/ i = Len(d) + 1
  BY <1>1, <1>2
<1> QED
  BY <1>1, <1>2, <1>3, <1>4, Zenon DEF InDoc

LEMMA TimesPositive ==
  ASSUME document \in Seq(Text), NEW t
  PROVE  Times(t) > 0 <=> InDoc(document, t)
<1> DEFINE I == {i \in DOMAIN document : document[i] = t}
<1>1. DOMAIN document = 1..Len(document) /\ Len(document) \in Nat
  OBVIOUS
<1>2. IsFiniteSet(I) /\ Cardinality(I) \in Nat
  <2>1. IsFiniteSet(1..Len(document))
    BY <1>1, FS_Interval
  <2>2. I \in SUBSET (1..Len(document))
    BY <1>1
  <2>3. IsFiniteSet(I)
    BY <2>1, <2>2, FS_Subset
  <2> QED
    BY <2>3, FS_CardinalityType
<1>3. Cardinality(I) = 0 <=> I = {}
  BY <1>2, FS_EmptySet
<1>4. I = {} <=> ~InDoc(document, t)
  BY DEF InDoc
<1>5. Times(t) = Cardinality(I)
  BY DEF Times
<1> HIDE DEF I
<1> QED
  BY <1>2, <1>3, <1>4, <1>5

\* A host that neither waits nor restores has nothing on its way.
LEMMA NoneOnTheWay ==
  ASSUME TsfInv, OneExchange, host.at \notin {"wait", "restore"}
  PROVE  /\ served.request = None /\ served.at # "wait" /\ replies = <<>>
         /\ job = None /\ ~jobDone /\ ui.text = None /\ ~Told
<1>1. ~host.ok
  BY DEF TsfInv, Sessions
<1> QED
  BY <1>1 DEF OneExchange, Told

LEMMA CommitInvStep == TsfInv /\ CommitInv /\ [Next]_tsfVars => CommitInv'
<1> SUFFICES ASSUME TsfInv, CommitInv, [Next]_tsfVars, ~late' PROVE OneExchange' /\ CommitsTold'
  BY DEF CommitInv
<1> USE DEF pipeVars, ghostVars
<1>0. /\ host \in HostType /\ served \in ServedType /\ late \in BOOLEAN /\ document \in Seq(Text)
      /\ outcome \in [Text -> {"none", "Committed", "ordinary", "Failed"}] /\ posted \in Nat
  BY DEF TsfInv, TsfTypeOK, HostType, ServedType
<1>00. ~late
  <2>1. late' = late \/ HostTimeout \/ Crash \/ JobTimeout \/ TakeJob
    BY DEF Next, Host, Dll, ensure_registered, Gate, PrepareFails, Prepare, ActivateProfile,
           Connect, ConnectFails, Submit, ReadReply, RestoreSession, Activate, Deactivate, TakeRequest, JobDone,
           DoEditSession, CompleteJob, SwitchProfile, restore_to_system_default, tsfVars
  <2> QED
    BY <1>0, <2>1 DEF HostTimeout, Crash, JobTimeout, TakeJob
<1>000. OneExchange /\ CommitsTold
  BY <1>00 DEF CommitInv
<1>1. CASE Gate
  <2>1. /\ served.request = None /\ served.at # "wait" /\ replies = <<>> /\ host.at = "idle"
        /\ job = None /\ ~jobDone /\ ui.text = None /\ ~Told
    BY <1>1, <1>000, NoneOnTheWay DEF Gate
  <2>2. NextText \in Text /\ outcome[NextText] = "none"
        /\ UNCHANGED <<served, replies, job, jobDone, jobResult, ui, posted, document>>
    BY <1>1, NextTextIn DEF Gate
  <2>3. CASE host' = [NoHost EXCEPT !.at = "prepare", !.text = NextText] /\ UNCHANGED outcome
    <3>1. host'.at = "prepare" /\ ~host'.ok
      BY <2>3 DEF NoHost
    <3>2. ~Told'
      BY <2>1, <2>2, <3>1 DEF Told
    <3>3. OneExchange'
      BY <2>1, <2>2 DEF OneExchange
    <3> QED
      BY <1>000, <2>1, <2>2, <2>3, <3>1, <3>2, <3>3 DEF CommitsTold
  <2>4. CASE InsertReturns(NextText, "ordinary")
    <3>1. host'.at = "idle" /\ outcome' = [outcome EXCEPT ![NextText] = "ordinary"]
      BY <2>4 DEF InsertReturns, NoHost
    <3>2. OneExchange'
      BY <2>1, <2>2 DEF OneExchange
    <3> QED
      BY <1>0, <1>000, <2>1, <2>2, <3>1, <3>2 DEF CommitsTold
  <2> QED
    BY <1>1, <2>3, <2>4 DEF Gate
<1>2. ASSUME host.at \notin {"idle", "wait", "restore"}, host'.at # "idle", host'.text = host.text,
             ~host'.ok, served'.at # "wait", replies' = <<>>,
             served'.request # None =>
               served'.at = "serve" /\ host'.at = "wait" /\ served'.request = host.text,
             UNCHANGED <<outcome, document, job, jobResult, jobDone, ui, posted>>
      PROVE  OneExchange' /\ CommitsTold'
  <2>1. /\ served.request = None /\ served.at # "wait" /\ replies = <<>>
        /\ job = None /\ ~jobDone /\ ui.text = None /\ ~Told
    BY <1>2, <1>000, NoneOnTheWay
  <2>2. OneExchange'
    BY <1>2, <2>1 DEF OneExchange
  <2>3. ~Told'
    BY <1>2, <2>1 DEF Told
  <2> QED
    BY <1>2, <1>000, <2>1, <2>2, <2>3 DEF CommitsTold
<1>19. CASE PrepareFails
  <2>1. /\ host.at = "prepare" /\ host.text \in Text /\ outcome[host.text] = "none" /\ host'.at = "idle"
        /\ outcome' = [outcome EXCEPT ![host.text] = Fallback]
        /\ UNCHANGED <<served, replies, job, jobDone, jobResult, ui, posted, document>>
    BY <1>19 DEF PrepareFails, InsertReturns, NoHost, TsfInv, Sessions
  <2>2. /\ served.request = None /\ served.at # "wait" /\ replies = <<>>
        /\ job = None /\ ~jobDone /\ ui.text = None /\ ~Told
    BY <2>1, <1>000, NoneOnTheWay
  <2>3. OneExchange'
    BY <2>1, <2>2 DEF OneExchange
  <2>4. Fallback # "Committed"
    BY DEF Fallback
  <2> QED
    BY <1>0, <1>000, <2>1, <2>2, <2>3, <2>4 DEF CommitsTold
<1>3. CASE Prepare \/ ActivateProfile \/ Connect \/ ConnectFails \/ Submit
  <2>1. host.at \in {"prepare", "activate", "connect", "submit"} /\ ~host.ok
    BY <1>3 DEF Prepare, ActivateProfile, Connect, ConnectFails, Submit, TsfInv, Sessions
  <2>2. /\ served.request = None /\ served.at # "wait" /\ replies = <<>>
    BY <2>1, <1>000, NoneOnTheWay
  <2>3. host'.at \in {"activate", "connect", "submit", "wait", "restore"} /\ host'.text = host.text /\ ~host'.ok
    BY <1>0, <1>3, <2>1 DEF Prepare, ActivateProfile, Connect, ConnectFails, Submit, HostGoto, HostType
  <2>4. replies' = <<>> /\ UNCHANGED <<outcome, document, job, jobResult, jobDone, ui, posted>>
    BY <1>3, <2>2 DEF Prepare, ActivateProfile, Connect, ConnectFails, Submit
  <2>5. CASE served' = served \/ served' = [served EXCEPT !.at = "serve"]
    <3>1. served'.request = None /\ served'.at # "wait"
      BY <1>0, <2>2, <2>5 DEF ServedType
    <3> QED
      BY <1>2, <2>1, <2>3, <2>4, <3>1
  <2>6. CASE served.at = "serve" /\ HostGoto("wait") /\ served' = [served EXCEPT !.request = host.text]
    <3>1. served'.request = host.text /\ served'.at = "serve" /\ host'.at = "wait"
      BY <1>0, <2>6 DEF ServedType, HostGoto, HostType
    <3> QED
      BY <1>2, <2>1, <2>3, <2>4, <3>1
  <2> QED
    BY <1>3, <2>5, <2>6 DEF Prepare, ActivateProfile, Connect, ConnectFails, Submit
<1>4. CASE ReadReply
  <2>1. PICK s \in Results : replies = <<[text |-> host.text, status |-> s]>>
    BY <1>4, <1>000 DEF ReadReply, OneExchange
  <2>2. host.at = "wait" /\ ~host.ok /\ replies' = <<>> /\ Head(replies) = [text |-> host.text, status |-> s]
        /\ UNCHANGED <<outcome, served, job, jobResult, jobDone, ui, posted, document>>
    BY <1>4, <2>1 DEF ReadReply, TsfInv, Sessions
  <2>3. served.request = None /\ served.at # "wait" /\ job = None /\ ~jobDone /\ ui.text = None
    BY <1>000, <2>1 DEF OneExchange
  <2>4. OneExchange'
    BY <2>2, <2>3 DEF OneExchange
  <2>5. Told <=> s = "committed"
    BY <2>1, <2>2, <2>3 DEF Told
  <2>6. CASE s = "committed"
    <3>1. host'.at = "restore" /\ host'.ok /\ host'.text = host.text
      BY <1>0, <1>4, <2>2, <2>6 DEF ReadReply, HostType
    <3>2. Told'
      BY <3>1 DEF Told
    <3> QED
      BY <1>000, <2>2, <2>4, <2>5, <2>6, <3>1, <3>2 DEF CommitsTold
  <2>7. CASE s # "committed"
    <3>1. host' = host
      BY <1>4, <2>2, <2>7 DEF ReadReply
    <3>2. ~Told'
      BY <2>2, <2>3, <3>1 DEF Told
    <3> QED
      BY <1>000, <2>2, <2>4, <2>5, <2>7, <3>1, <3>2 DEF CommitsTold
  <2> QED
    BY <2>6, <2>7
<1>5. CASE HostTimeout
  <2>1. /\ host.at = "wait" /\ host'.at = "restore" /\ host'.text = host.text /\ host'.ok = host.ok
        /\ UNCHANGED <<outcome, served, job, jobResult, jobDone, ui, posted, document, replies>>
    BY <1>0, <1>5 DEF HostTimeout, HostGoto, HostType
  <2>2. host.text \notin {served.request, served.text, ui.text}
        /\ [text |-> host.text, status |-> "committed"] \notin ToSet(replies)
    BY <1>5 DEF HostTimeout
  <2>3. served.request = None /\ served.at # "wait"
    BY <1>000, <2>2 DEF OneExchange
  <2>4. ASSUME NEW s \in Results, replies = <<[text |-> host.text, status |-> s]>>
        PROVE  s # "committed"
    <3>1. 1 \in DOMAIN replies /\ replies[1] = [text |-> host.text, status |-> s]
      BY <2>4
    <3> QED
      BY <2>2, <3>1 DEF ToSet
  <2>5. OneExchange'
    BY <1>000, <2>1, <2>3, <2>4 DEF OneExchange
  <2>6. Told' = Told
    BY <2>1 DEF Told
  <2> QED
    BY <1>000, <2>1, <2>5, <2>6 DEF CommitsTold
<1>6. CASE RestoreSession
  <2>1. /\ host.at = "restore" /\ host.text \in Text /\ outcome[host.text] = "none"
        /\ host'.at = "idle" /\ replies' = <<>>
        /\ outcome' = [outcome EXCEPT ![host.text] = IF host.ok THEN "Committed" ELSE Fallback]
        /\ UNCHANGED <<job, jobResult, jobDone, ui, posted, document>>
        /\ served' = IF served.at = "serve" /\ served.request = None THEN Listening ELSE served
    BY <1>6 DEF RestoreSession, Disconnect, InsertReturns, NoHost, TsfInv, Sessions
  <2>2. served.request = None /\ served.at # "wait" /\ job = None /\ ~jobDone /\ ui.text = None
    BY <1>000, <2>1 DEF OneExchange
  <2>3. served'.request = None /\ served'.at # "wait"
    BY <2>1, <2>2 DEF Listening, NoService
  <2>4. OneExchange'
    BY <2>1, <2>2, <2>3 DEF OneExchange
  <2>5. Told <=> host.ok
    <3>1. replies # <<>> => Head(replies).status # "committed"
      BY <1>000, <2>1 DEF OneExchange
    <3> QED
      BY <2>2, <3>1 DEF Told
  <2>6. Fallback # "Committed"
    BY DEF Fallback
  <2> QED
    BY <1>0, <1>000, <2>1, <2>4, <2>5, <2>6 DEF CommitsTold
<1>7. CASE Crash
  BY <1>7 DEF Crash
<1>8. ASSUME UNCHANGED <<host, outcome, document>>, Told' <=> Told
      PROVE  CommitsTold'
  BY <1>8, <1>000 DEF CommitsTold
<1>9. CASE Activate
  <2>1. served.request = None /\ served.at # "wait" /\ job = None /\ ~jobDone /\ ui.text = None
    BY <1>9, <1>000 DEF Activate, OneExchange
  <2>2. served'.request = None /\ served'.at = "listen" /\ job' = None /\ ~jobDone'
        /\ UNCHANGED <<host, outcome, ui, replies, document>>
    BY <1>9 DEF Activate, Listening, NoService
  <2>3. OneExchange'
    BY <1>000, <2>1, <2>2 DEF OneExchange
  <2>4. Told' <=> Told
    BY <2>1, <2>2 DEF Told
  <2> QED
    BY <1>8, <2>2, <2>3, <2>4
<1>10. CASE Deactivate
  <2>1. served.at # "wait" /\ job = None /\ ~jobDone /\ ui.text = None
    BY <1>10, <1>000 DEF Deactivate, OneExchange
  <2>2. served'.request = None /\ served'.at = "off"
        /\ UNCHANGED <<host, outcome, job, jobResult, jobDone, ui, replies, document>>
    BY <1>10 DEF Deactivate, NoService
  <2>3. OneExchange'
    BY <1>000, <2>1, <2>2 DEF OneExchange
  <2>4. Told' <=> Told
    BY <2>2 DEF Told
  <2> QED
    BY <1>8, <2>2, <2>3, <2>4
<1>11. CASE TakeRequest
  <2>1. served.at = "serve" /\ host.at = "wait" /\ served.request = host.text
        /\ replies = <<>> /\ ~jobDone /\ ui.text = None
    BY <1>11, <1>000 DEF TakeRequest, OneExchange
  <2>2. served'.request = None /\ served'.at = "wait" /\ served'.text = host.text /\ job' = host.text
        /\ jobResult' = "failed" /\ ~jobDone' /\ UNCHANGED <<host, outcome, ui, replies, document>>
    BY <1>11, <2>1 DEF TakeRequest
  <2>3. OneExchange'
    BY <2>1, <2>2 DEF OneExchange
  <2>4. Told' <=> Told
    BY <2>1, <2>2 DEF Told
  <2> QED
    BY <1>8, <2>2, <2>3, <2>4
<1>12. ASSUME served.at = "wait", AnswerHost, ui.text = None, job' = None, ~jobDone',
              UNCHANGED <<host, outcome, jobResult, posted, ui, document>>,
              jobResult = "committed" => jobDone
       PROVE  OneExchange' /\ CommitsTold'
  <2>1. host.at = "wait" /\ served.text = host.text /\ replies = <<>> /\ served.request = None
        /\ jobResult \in Results
    BY <1>12, <1>000 DEF OneExchange, TsfInv, TsfTypeOK
  <2>2. replies' = <<[text |-> host.text, status |-> jobResult]>>
    BY <1>12, <2>1 DEF AnswerHost
  <2>3. served'.request = None /\ served'.at = "serve"
    BY <1>0, <1>12, <2>1 DEF AnswerHost, ServedType
  <2>4. OneExchange'
    BY <1>12, <2>1, <2>2, <2>3 DEF OneExchange
  <2>5. replies' # <<>> /\ Head(replies').status = jobResult
    BY <2>2
  <2>6. Told' <=> Told
    BY <1>12, <2>1, <2>5 DEF Told
  <2> QED
    BY <1>8, <1>12, <2>4, <2>6
<1>13. CASE JobTimeout
  <2>1. served.at = "wait" /\ ~jobDone /\ AnswerHost /\ job' = None /\ ui.text # served.text
        /\ UNCHANGED <<host, outcome, jobResult, jobDone, posted, ui, document>>
    BY <1>13 DEF JobTimeout
  <2>2. ui.text = None /\ jobResult = "failed"
    BY <1>000, <2>1 DEF OneExchange
  <2> QED
    BY <1>12, <2>1, <2>2
<1>14. CASE JobDone
  <2>1. served.at = "wait" /\ jobDone /\ ~jobDone' /\ AnswerHost /\ job' = None
        /\ UNCHANGED <<host, outcome, jobResult, posted, ui, document>>
    BY <1>14 DEF JobDone
  <2>2. ui.text = None
    BY <1>000, <2>1 DEF OneExchange
  <2> QED
    BY <1>12, <2>1, <2>2
<1>15. CASE TakeJob
  <2>1. posted > 0 /\ ui.text = None /\ posted' = posted - 1 /\ ui' = [text |-> job, done |-> "none"]
        /\ ~(posted > 1 /\ job # None)
        /\ UNCHANGED <<host, outcome, served, job, jobResult, jobDone, replies, document>>
    BY <1>15 DEF TakeJob
  <2>2. ~jobDone
    BY <1>0, <1>000, <2>1 DEF OneExchange
  <2>3. ui'.text = job /\ ui'.done = "none"
    BY <2>1
  <2>4. job # None => posted' = 0
    BY <1>0, <2>1
  <2>5. OneExchange'
    BY <1>000, <2>1, <2>2, <2>3, <2>4 DEF OneExchange
  <2>6. Told' <=> Told
    BY <2>1, <2>2, <2>3 DEF Told
  <2> QED
    BY <1>8, <2>1, <2>5, <2>6
<1>16. CASE DoEditSession
  <2>1. PICK r \in Results :
          /\ ui' = [ui EXCEPT !.done = r]
          /\ document' = IF r = "committed" THEN Append(document, ui.text) ELSE document
    BY <1>16 DEF DoEditSession
  <2>2. ui.text # None /\ ui.done = "none"
        /\ UNCHANGED <<host, outcome, served, job, jobResult, jobDone, posted, replies>>
    BY <1>16 DEF DoEditSession
  <2>3. host.at = "wait" /\ ui.text = host.text /\ ~jobDone /\ replies = <<>> /\ ~host.ok
    BY <1>000, <2>2 DEF OneExchange, TsfInv, Sessions
  <2>4. ui'.text = ui.text /\ ui'.done = r
    BY <2>1 DEF TsfInv, TsfTypeOK
  <2>5. OneExchange'
    BY <1>000, <2>2, <2>4 DEF OneExchange
  <2>6. ~Told /\ (Told' <=> r = "committed")
    BY <2>2, <2>3, <2>4 DEF Told
  <2>7. \A t : InDoc(document', t) <=> InDoc(document, t) \/ (r = "committed" /\ t = host.text)
    BY <1>0, <2>1, <2>3, InDocAppend
  <2> QED
    BY <1>000, <2>2, <2>3, <2>5, <2>6, <2>7 DEF CommitsTold
<1>17. CASE CompleteJob
  <2>1. ui.text # None /\ jobResult' = ui.done /\ jobDone' /\ ui'.text = None
        /\ UNCHANGED <<host, outcome, served, job, posted, replies, document>>
    BY <1>17 DEF CompleteJob
  <2>2. served.at = "wait" /\ ~jobDone /\ posted = 0
    BY <1>000, <2>1 DEF OneExchange
  <2>3. OneExchange'
    BY <1>000, <2>1, <2>2 DEF OneExchange
  <2>4. Told' <=> Told
    BY <2>1, <2>2 DEF Told
  <2> QED
    BY <1>8, <2>1, <2>3, <2>4
<1>18. CASE ensure_registered \/ SwitchProfile \/ restore_to_system_default \/ UNCHANGED tsfVars
  <2>1. UNCHANGED <<host, outcome, pipeVars>>
    BY <1>18 DEF ensure_registered, SwitchProfile, restore_to_system_default, tsfVars
  <2> QED
    BY <1>000, <2>1 DEF OneExchange, CommitsTold, Told
<1> QED
  BY <1>1, <1>3, <1>4, <1>5, <1>6, <1>7, <1>9, <1>10, <1>11, <1>13, <1>14, <1>15, <1>16,
     <1>17, <1>18, <1>19 DEF Next, Host, Dll

\* insert_ex says Committed of exactly the texts that are in the document
\* (CommittedIsTrue), unless somebody stopped waiting for a commit that was under
\* way, for any number of texts, input methods, switches and crashes.
THEOREM CommittedMeansInserted == Spec => []CommittedIsTrue
<1>1. Init => CommitInv
  <2> SUFFICES ASSUME Init PROVE OneExchange /\ CommitsTold
    BY DEF CommitInv
  <2>1. OneExchange
    BY DEF Init, OneExchange, NoService
  <2>2. \A t \in Text : ~InDoc(document, t)
    BY DEF Init, InDoc
  <2> QED
    BY <2>1, <2>2 DEF Init, CommitsTold, NoHost
<1>2. TsfInv /\ CommitInv => CommittedIsTrue
  <2> SUFFICES ASSUME TsfInv, CommitInv, ~late, NEW t \in Text, outcome[t] # "none"
               PROVE  Times(t) > 0 <=> outcome[t] = "Committed"
    BY DEF CommittedIsTrue, TsfInv
  <2>1. CommitsTold /\ document \in Seq(Text)
    BY DEF CommitInv, TsfInv, TsfTypeOK
  <2>2. host.at # "idle" => t # host.text
    BY DEF TsfInv, Sessions
  <2>3. InDoc(document, t) <=> outcome[t] = "Committed"
    BY <2>1, <2>2 DEF CommitsTold
  <2> QED
    BY <2>1, <2>3, TimesPositive
<1> QED
  BY <1>1, <1>2, TsfInitTypes, TsfTypesStep, CommitInvStep, PTL DEF Spec
==============================================================================
