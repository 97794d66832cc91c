------------------------------ MODULE FinalInsert ------------------------------
(***************************************************************************)
(* What happens to the finals of a recording: the end of toggle_recording, *)
(* Pipeline::insert_finals_with_polish with the intent of the session, the *)
(* two routers that ask one backend after the other, ESC, and the history. *)
(*                                                                         *)
(* A text is a sequence of words; separators, quotes and labels are left   *)
(* out.  A backend answers, fails, or stays silent until its timeout.      *)
(***************************************************************************)
EXTENDS SequencesExt

CONSTANTS
  Wake,        \* the assistant's name
  Filler,      \* a word that says nothing, standing between separators
  Packs,       \* the style packs: alias -> [kind, provider]
  Rewritten,   \* the word that marks what a model wrote by itself
  ShortText,   \* the length up to which a text is not polished (8 in the code)
  Spoken,      \* the sequences of finals a recording may return
  Contexts,    \* the settings and the models a session may run with
  MaxSessions  \* bound on the sessions

Engine == {"local", "cloud", "dedicated", "fallback"}

\* PolishContext and PipelineDeps.  "Legacy": polish_mode is Off but the old
\* polish_enabled is set, which polish_context honours and the router does not.
Context ==
  [intent : {"Dictate", "Translate"}, mode : {"Off", "Legacy", "On"},
   prefix_roles_enabled : BOOLEAN, translate_with_polish : BOOLEAN,
   policy : {"PreferCloud", "PreferLocal"}, engines : SUBSET Engine,
   streaming : BOOLEAN]

\* Between sessions.
NoContext ==
  [intent |-> "Dictate", mode |-> "Off", prefix_roles_enabled |-> FALSE,
   translate_with_polish |-> FALSE, policy |-> "PreferCloud", engines |-> {},
   streaming |-> FALSE]

Pack == [kind : {"Translate", "Plain"}, provider : {"", "local", "cloud"}]

\* The words there are.
Words == {Wake, Filler, Rewritten}
         \union UNION {Range(t) : t \in UNION {Range(fs) : fs \in Spoken}}

ASSUME FinalAssumption ==
  /\ MaxSessions \in Nat /\ ShortText \in Nat
  /\ Spoken \subseteq Seq(Seq(Words))
  /\ Contexts \subseteq Context
  /\ \A alias \in DOMAIN Packs : Packs[alias] \in Pack

VARIABLES
  session,        \* how many sessions have come to insert their finals
  pc,             \* where the session task is
  ctx,            \* PolishContext and the backends of PipelineDeps
  spoken,         \* history: r.utterances
  finals,         \* the finals without consecutive duplicates
  seq,            \* the final at hand
  stage,          \* the request that is being made of the backends
  src,            \* the text it is made for
  tried,          \* the backends that have failed it
  asked,          \* the backend that is thinking, or "none"
  out,            \* PolishOutcome, and history: where its text comes from
  last_inserted,  \* the text inserted last
  polish_cancel,  \* the cancel flag of AppState
  esc,            \* TRUE while ESC is registered
  escaped,        \* history: the session in which ESC was pressed last
  shown,          \* history: what was inserted
  skipped,        \* history: what was not, being the same as the text before
  rows,           \* history: the utterances saved
  result          \* what insert_finals_with_polish returned, or "none"

textVars == <<stage, src, tried, asked, out>>
recVars  == <<last_inserted, shown, skipped, rows>>
vars == <<session, pc, ctx, spoken, finals, seq, textVars, recVars,
          polish_cancel, esc, escaped, result>>

(***************************************************************************)
(* Texts.                                                                  *)
(***************************************************************************)
NoText == <<>>

IsDouble(t, s) == t = s \o s

\* The engine may push a final twice, or twice in one: once is enough.
Keep(kept, t) ==
  CASE t = NoText -> kept
    [] t # NoText /\ kept = <<>> -> <<t>>
    [] t # NoText /\ kept # <<>> ->
         CASE t = Last(kept) \/ IsDouble(t, Last(kept)) -> kept
           [] t # Last(kept) /\ IsDouble(Last(kept), t) -> Append(Front(kept), t)
           [] OTHER -> Append(kept, t)

dedupe_consecutive_finals(fs) ==
  LET kept[n \in 0..Len(fs)] == IF n = 0 THEN <<>> ELSE Keep(kept[n - 1], fs[n])
  IN  kept[Len(fs)]

\* Fillers go from both ends, and from the middle where they stand alone; the
\* last one of a final of nothing else, which trim_fillers keeps, goes there.
correct_l0(t) ==
  LET clean[n \in 0..Len(t)] ==
        IF n = 0 THEN NoText
        ELSE IF t[n] = Filler THEN clean[n - 1] ELSE Append(clean[n - 1], t[n])
  IN  clean[Len(t)]

\* What a model writes when it repeats the text, or answers it with more.
sanitize_polish_output(o, p) ==
  LET half == SubSeq(p, 1, Len(p) \div 2)
      rest == IF IsPrefix(o, p) THEN SubSeq(p, Len(o) + 1, Len(p)) ELSE NoText
  IN  CASE p = NoText -> o
        [] Len(p) >= 4 /\ IsDouble(p, half) -> half
        [] IsDouble(p, o) -> o
        [] /\ rest # NoText /\ ~IsPrefix(o, rest)
           /\ Len(rest) <= 3 * Len(o) -> rest
        [] OTHER -> p

\* The assistant's name, then an alias of a pack, then something to work on.
HasRole(t) == Len(t) >= 3 /\ t[1] = Wake /\ t[2] \in DOMAIN Packs
starts_with_assistant(t) == t # NoText /\ t[1] = Wake

\* The role that a final calls for, and the text it is about.
RoleApplies(c, t) ==
  c.intent = "Dictate" /\ c.prefix_roles_enabled /\ HasRole(t)
Body(c, t) == IF RoleApplies(c, t) THEN SubSeq(t, 3, Len(t)) ELSE t

Said == correct_l0(finals[seq])

-----------------------------------------------------------------------------
(***************************************************************************)
(* Which backends a request may go to, and in which order.                 *)
(***************************************************************************)
Stage == {"polish", "light", "sentinel", "plain", "translate", "role"}

role_provider == Packs[Said[2]].provider

role_backend ==
  IF role_provider # "" THEN role_provider
  ELSE IF "local" \in ctx.engines THEN "local" ELSE "cloud"

MayTake(e) ==
  \/ stage = "polish" /\ ctx.mode = "On" /\ e \in {"local", "cloud"}
  \/ stage = "light" /\ e = "local"
  \/ stage \in {"sentinel", "plain"} /\ e = "cloud"
  \/ stage = "translate" /\ e \in {"cloud", "dedicated", "fallback"}
  \/ stage = "role" /\ e = role_backend

order == {e \in ctx.engines : MayTake(e)}

\* Mutant of HopRank: the cloud translates first under either policy.
HopRankCloudFirst ==
  [local |-> 1, dedicated |-> 2, fallback |-> 3,
   cloud |-> IF stage = "translate" THEN 0 ELSE 4]

\* The backend with the lowest number is asked first.
HopRank ==
  [local |-> 1, dedicated |-> 2, fallback |-> 3,
   cloud |-> IF stage = "translate" /\ ctx.policy = "PreferCloud" THEN 0 ELSE 4]

first_hop_is_cloud(c) ==
  /\ "cloud" \in c.engines
  /\ c.policy = "PreferLocal" => c.engines \cap {"dedicated", "fallback"} = {}

Outcome(text, warning, from) == [text |-> text, warning |-> warning, from |-> from]

FailureWarning ==
  IF ctx.intent = "Translate" THEN "TranslateFailed"
  ELSE IF order = {} THEN "RoleNoBackend" ELSE "RoleLlmFailed"

NoOut == Outcome(NoText, "none", "said")

\* The first request for a text, or "none": it is inserted as it is.
FirstStage(c, t) ==
  LET polished == /\ ~(c.prefix_roles_enabled /\ starts_with_assistant(t))
                  /\ c.mode # "Off" /\ Len(t) > ShortText
  IN  IF c.intent = "Translate"
      THEN IF ~c.translate_with_polish \/ c.engines \subseteq {"local"} THEN "translate"
           ELSE IF first_hop_is_cloud(c) THEN "sentinel" ELSE "light"
      ELSE IF RoleApplies(c, t)
      THEN IF Packs[t[2]].kind = "Translate" THEN "translate" ELSE "role"
      ELSE IF polished THEN "polish" ELSE "none"

-----------------------------------------------------------------------------
FinalInit ==
  /\ session = 0 /\ pc = "idle"
  /\ ctx = NoContext /\ spoken = <<>> /\ finals = <<>> /\ seq = 0
  /\ stage = "polish" /\ src = NoText /\ tried = {} /\ asked = "none" /\ out = NoOut
  /\ last_inserted = NoText /\ shown = <<>> /\ skipped = <<>> /\ rows = <<>>
  /\ polish_cancel = FALSE /\ esc = FALSE /\ escaped = 0 /\ result = "none"

\* Mutant of Begin: the cancel flag of an earlier session stays up.
BeginKeepsCancel(c, fs) ==
  /\ pc = "idle" /\ session < MaxSessions
  /\ session' = session + 1
  /\ ctx' = c /\ spoken' = fs
  /\ finals' = dedupe_consecutive_finals(fs)
  /\ pc' = IF c.streaming THEN "persist" ELSE "next"
  /\ esc' = (c.intent = "Dictate" /\ ~c.streaming)
  /\ UNCHANGED <<seq, textVars, recVars, polish_cancel, escaped, result>>

\* The recording has returned its finals.  For dictation the cancel flag is
\* cleared and ESC is registered; while streaming everything is on screen.
Begin(c, fs) ==
  /\ pc = "idle" /\ session < MaxSessions
  /\ session' = session + 1
  /\ ctx' = c /\ spoken' = fs
  /\ finals' = dedupe_consecutive_finals(fs)
  /\ pc' = IF c.streaming THEN "persist" ELSE "next"
  /\ IF c.intent = "Dictate" /\ ~c.streaming
     THEN esc' = TRUE /\ polish_cancel' = FALSE
     ELSE UNCHANGED <<esc, polish_cancel>>
  /\ UNCHANGED <<seq, textVars, recVars, escaped, result>>

\* on_hotkey: ESC while it is registered.
PressEsc ==
  /\ esc
  /\ polish_cancel' = TRUE /\ escaped' = session
  /\ UNCHANGED <<session, pc, ctx, spoken, finals, seq, textVars, recVars, esc, result>>

Return(r) ==
  /\ pc' = "end" /\ result' = r

loopVars == <<session, ctx, spoken, finals, polish_cancel, esc, escaped>>

\* The loop of insert_finals_with_polish takes the next final, or is through.
Take ==
  /\ pc = "next"
  /\ IF seq = Len(finals)
     THEN Return("ok") /\ UNCHANGED seq
     ELSE seq' = seq + 1 /\ pc' = "plan" /\ UNCHANGED result
  /\ UNCHANGED <<loopVars, textVars, recVars>>

\* Nothing is left of a final that was all fillers.
Drop ==
  /\ pc = "plan" /\ Said = NoText
  /\ pc' = "next"
  /\ UNCHANGED <<loopVars, seq, textVars, recVars, result>>

\* apply_polish decides what is to be asked for this text.
Plan ==
  /\ pc = "plan" /\ Said # NoText
  /\ LET s == FirstStage(ctx, Said) IN
     IF s = "none"
     THEN /\ out' = Outcome(Said, "none", "said") /\ pc' = "insert"
          /\ UNCHANGED <<stage, src, tried, asked>>
     ELSE /\ stage' = s /\ src' = Body(ctx, Said) /\ tried' = {} /\ pc' = "ask"
          /\ UNCHANGED <<asked, out>>
  /\ UNCHANGED <<loopVars, seq, recVars, result>>

stepVars == <<loopVars, seq, recVars, result>>

\* A router calls the next backend of its order.
Ask(e) ==
  /\ pc = "ask" /\ e \in order \ tried
  /\ \A f \in order \ tried : HopRank[e] <= HopRank[f]
  /\ asked' = e /\ pc' = "wait"
  /\ UNCHANGED <<stepVars, stage, src, tried, out>>

Decide(o) ==
  /\ out' = o /\ pc' = "insert"
  /\ asked' = "none" /\ tried' = {}
  /\ UNCHANGED <<stage, src>>

\* The same text goes on to the next request.
GoOn(s, text) ==
  /\ stage' = s /\ src' = text /\ tried' = {} /\ pc' = "ask"
  /\ asked' = "none" /\ UNCHANGED out

\* What a model may write: its own words, the text twice, the text and more.
Answers(t) == {<<Rewritten>> \o t, t \o t, t \o <<Rewritten>>}

Answer(t) ==
  /\ pc = "wait"
  /\ \/ /\ stage = "polish"
        /\ Decide(Outcome(sanitize_polish_output(src, t), "none", "engine"))
     \/ stage = "light" /\ GoOn("translate", t)
     \/ stage \notin {"polish", "light"} /\ Decide(Outcome(t, "none", "engine"))
  /\ UNCHANGED stepVars

\* The cloud's answer lacks the sentinels: it is asked for the translation only.
Unparsed ==
  /\ pc = "wait" /\ stage = "sentinel"
  /\ GoOn("plain", src)
  /\ UNCHANGED stepVars

\* Mutant of GiveUp: the backend still counts as being asked.
GiveUpKeepsAsked ==
  /\ pc = "wait"
  /\ tried' = tried \union {asked} /\ pc' = "ask"
  /\ UNCHANGED <<stepVars, stage, src, asked, out>>

\* The backend has failed this request.
GiveUp ==
  /\ pc = "wait"
  /\ tried' = tried \union {asked} /\ asked' = "none" /\ pc' = "ask"
  /\ UNCHANGED <<stepVars, stage, src, out>>

Refuse == GiveUp

\* Mutant of Timeout: an inference on this machine is waited for.
TimeoutCloudOnly == asked = "cloud" /\ GiveUp

Timeout == GiveUp

\* Mutant of Exhausted: what goes on screen is the text as it was sent, which
\* a model has already rewritten.
ExhaustedKeepsSent ==
  /\ pc = "ask" /\ order \subseteq tried
  /\ \/ /\ stage = "polish"
        /\ Decide(Outcome(sanitize_polish_output(src, src), "none", "said"))
     \/ stage \in {"light", "sentinel", "plain"} /\ GoOn("translate", src)
     \/ /\ stage \in {"translate", "role"}
        /\ Decide(Outcome(src, FailureWarning, "said"))
  /\ UNCHANGED stepVars

\* Every backend has failed, or there is none.  A polish falls back to the
\* text, which is then cleaned like an answer; a translation goes on without
\* the polish; or the text is inserted as it was said, with a warning.
Exhausted ==
  /\ pc = "ask" /\ order \subseteq tried
  /\ \/ /\ stage = "polish"
        /\ Decide(Outcome(sanitize_polish_output(src, src), "none", "said"))
     \/ stage \in {"light", "sentinel", "plain"} /\ GoOn("translate", src)
     \/ /\ stage \in {"translate", "role"}
        /\ Decide(Outcome(Body(ctx, Said), FailureWarning, "said"))
  /\ UNCHANGED stepVars

\* wait_cancel wins the race against the polish.
Cancelled ==
  /\ pc \in {"ask", "wait"} /\ stage = "polish" /\ polish_cancel
  /\ Decide(Outcome(src, "none", "cut"))
  /\ UNCHANGED stepVars

\* The same text is not inserted twice in a row.
SkipSame ==
  /\ pc = "insert" /\ out.text = last_inserted
  /\ skipped' = Append(skipped, [seq |-> seq, text |-> out.text])
  /\ pc' = "next"
  /\ UNCHANGED <<loopVars, seq, textVars, last_inserted, shown, rows, result>>

\* insert_ex: typed, pasted, left on the clipboard, or failed, all the same here.
InsertEx ==
  /\ pc = "insert" /\ out.text # last_inserted
  /\ shown' = Append(shown, [seq |-> seq, text |-> out.text,
                             warning |-> out.warning, from |-> out.from])
  /\ last_inserted' = out.text
  /\ pc' = "save"
  /\ UNCHANGED <<loopVars, seq, textVars, skipped, rows, result>>

\* save_utterance.
Save ==
  /\ pc = "save"
  /\ rows' = Append(rows, out.text) /\ pc' = "next"
  /\ UNCHANGED <<loopVars, seq, textVars, last_inserted, shown, skipped, result>>

\* The error leaves the loop: what follows is not inserted.
SaveFails ==
  /\ pc = "save" /\ Return("err")
  /\ UNCHANGED <<loopVars, seq, textVars, recVars>>

\* persist_finals.
Persist ==
  /\ pc = "persist"
  /\ IF seq = Len(finals)
     THEN Return("ok") /\ UNCHANGED <<seq, rows>>
     ELSE /\ seq' = seq + 1 /\ UNCHANGED <<pc, result>>
          /\ rows' = IF seq > 0 /\ finals[seq] = finals[seq + 1] THEN rows
                     ELSE Append(rows, finals[seq + 1])
  /\ UNCHANGED <<loopVars, textVars, last_inserted, shown, skipped>>

PersistFails ==
  /\ pc = "persist" /\ seq < Len(finals) /\ Return("err")
  /\ UNCHANGED <<loopVars, seq, textVars, recVars>>

\* ESC is unregistered; what the session held is dropped.
Finish ==
  /\ pc = "end"
  /\ pc' = "idle" /\ esc' = FALSE
  /\ ctx' = NoContext /\ spoken' = <<>> /\ finals' = <<>> /\ seq' = 0
  /\ stage' = "polish" /\ src' = NoText /\ tried' = {} /\ asked' = "none" /\ out' = NoOut
  /\ last_inserted' = NoText /\ shown' = <<>> /\ skipped' = <<>> /\ rows' = <<>>
  /\ result' = "none"
  /\ UNCHANGED <<session, polish_cancel, escaped>>

LoopStep ==
  \/ Take \/ Drop \/ Plan \/ Exhausted \/ Cancelled
  \/ \E e \in Engine : Ask(e)
  \/ SkipSame \/ InsertEx \/ Save \/ SaveFails \/ Persist \/ PersistFails \/ Finish

FinalNext ==
  \/ \E c \in Contexts, fs \in Spoken : Begin(c, fs)
  \/ PressEsc
  \/ LoopStep
  \/ \E t \in Answers(src) : Answer(t)
  \/ Unparsed \/ Refuse \/ Timeout

FinalSpec == FinalInit /\ [][FinalNext]_vars

\* The session task is scheduled and the inserter and the store return.  No
\* backend has to answer: the requests carry a timeout.
FairFinalSpec ==
  FinalSpec /\ WF_vars(LoopStep) /\ WF_vars(Timeout)

-----------------------------------------------------------------------------
(***************************************************************************)
(* Properties.                                                             *)
(***************************************************************************)
\* The types, and: a backend is asked exactly while the session waits for it,
\* ESC is registered only during an insertion, which alone has a result.
FinalTypeOK ==
  /\ session \in 0..MaxSessions /\ escaped \in 0..session
  /\ pc \in {"idle", "persist", "next", "plan", "ask", "wait", "insert", "save", "end"}
  /\ ctx \in Context
  /\ seq \in Nat
  /\ stage \in Stage /\ tried \subseteq Engine
  /\ asked \in Engine \union {"none"} /\ (pc = "wait") = (asked # "none")
  /\ out.warning \in {"none", "TranslateFailed", "RoleLlmFailed", "RoleNoBackend"}
  /\ out.from \in {"said", "engine", "cut"}
  /\ polish_cancel \in BOOLEAN /\ esc \in BOOLEAN /\ (esc => pc # "idle")
  /\ result \in {"none", "ok", "err"} /\ (result # "none") = (pc = "end")

\* t is s, once or several times over.
Repeats(t, s) ==
  /\ \E k \in 1..Len(t) : Len(t) = k * Len(s)
  /\ \A i \in 1..Len(s) : t[i] = s[i]
  /\ \A i \in 1..(Len(t) - Len(s)) : t[i + Len(s)] = t[i]

\* The rows are the texts, in their order; only equal ones share a row.
Holds(rs, fs) ==
  \E at \in [DOMAIN fs -> DOMAIN rs] :
    /\ Range(at) = DOMAIN rs
    /\ \A i \in DOMAIN fs : rs[at[i]] = fs[i]
    /\ \A i, j \in DOMAIN fs : i <= j => at[i] <= at[j]

\* Nothing that was said gets lost: at the end of an insertion that no failed
\* save cut short the loop is through its list; each final of the recording is on
\* it, or repeats one that is; each of these was inserted, was all fillers, or came
\* to the very text inserted before it; and the history holds what was inserted, or,
\* after streaming, every final.
NothingLost ==
  (pc = "end" /\ result = "ok") =>
    /\ seq = Len(finals)
    /\ \A f \in Range(spoken) : f = NoText \/ \E g \in Range(finals) : Repeats(f, g)
    /\ ctx.streaming => Holds(rows, finals)
    /\ ~ctx.streaming =>
         /\ \A i \in DOMAIN finals :
              \/ correct_l0(finals[i]) = NoText
              \/ \E r \in Range(shown) : r.seq = i
              \/ \E k \in Range(skipped) :
                   /\ k.seq = i
                   /\ \E r \in Range(shown) :
                        /\ r.seq < i /\ r.text = k.text
                        /\ \A q \in Range(shown) : q.seq <= r.seq \/ q.seq > i
         /\ rows = [i \in DOMAIN shown |-> shown[i].text]

\* Whatever fails, the user gets their own words: a text that is no backend's
\* is the one that was said, without the role's prefix and at most without a
\* repetition.  A translation that failed says so, and nothing else warns.
FallbackIsSpoken ==
  \A r \in Range(shown) :
    LET t == correct_l0(finals[r.seq]) IN
    /\ r.from # "engine" => Repeats(Body(ctx, t), r.text)
    /\ (r.warning # "none") <=>
         (r.from = "said" /\ (ctx.intent = "Translate" \/ RoleApplies(ctx, t)))

\* What was said is kept: every final ends up on the screen and in the history,
\* in the user's own words where no backend could work on them.
TextKept == NothingLost /\ FallbackIsSpoken

LocalFirst ==
  /\ stage = "polish" => ctx.engines \cap {"local"} \subseteq tried
  /\ stage = "role" => \/ role_provider = "cloud"
                       \/ role_provider = "" /\ "local" \notin ctx.engines
  /\ stage \notin {"polish", "role"} /\ ctx.policy = "PreferLocal" =>
       ctx.engines \cap {"dedicated", "fallback"} \subseteq tried

\* A text leaves this machine only where the settings want the cloud first,
\* or when each backend of this machine that could do it has failed it; for a
\* role that is tied to the local model it never does.
CloudLast == asked = "cloud" => LocalFirst

\* A polish is cut off only by an ESC of the session it belongs to.
EscIsOwn == \A r \in Range(shown) : r.from = "cut" => escaped = session

\* An insertion comes to its end though no backend ever answers.
InsertionEnds == (pc # "idle") ~> (pc = "idle")

=============================================================================
