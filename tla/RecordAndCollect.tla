--------------------------- MODULE RecordAndCollect ---------------------------
(***************************************************************************)
(* One recording: Pipeline::record_and_collect (voice-core pipeline.rs),   *)
(* the reader task it spawns, and the recognition engine between them.     *)
(*                                                                         *)
(* The engine is one of five: the service behind the read loop of          *)
(* bailian.rs and the online thread of sherpa.rs push partials and finals  *)
(* while the frames come; the offline thread of sherpa.rs collects them    *)
(* and decodes once the input is closed; openai_asr.rs and                 *)
(* multimodal_asr.rs have no engine of their own and post everything in    *)
(* finish.  The reader consumes the channel, typing each difference while  *)
(* streaming.  Recognition is idealised: every frame that is not silent is *)
(* one character of the sentence, recognised in order.                     *)
(***************************************************************************)
EXTENDS SequencesExt

CONSTANTS
  Chars,      \* what a frame may say
  MaxFrames,  \* bound on the frames that say something
  Failures    \* the steps that may fail, a subset of FailureSteps

\* connect: create_session or connect.  start, stop: the microphone.  source:
\* next_frame ends or fails.  feed, finish: the engine refuses the call.
\* read: a response is an error or cannot be parsed.  close: the task fails or
\* the connection closes.  answer: the decoder or the reply has no text.
\* chunk, final: what a partial or a final adds cannot be inserted.
FailureSteps == {"connect", "start", "source", "feed", "stop", "finish",
                 "read", "close", "answer", "chunk", "final"}

ASSUME CollectAssumption ==
  /\ MaxFrames \in Nat
  /\ Failures \subseteq FailureSteps

VARIABLES
  streaming,   \* its argument streaming_insert
  backend,     \* the engine that its configuration leads to
  task,        \* where record_and_collect is
  stop_flag,   \* the stop flag it was given
  fed,         \* history: the characters fed, in order
  input_open,  \* FALSE once finish-task is sent or the audio sender dropped
  heard,       \* how many of the fed characters the engine has taken
  partial,     \* the sentence the engine is in
  engine,      \* "none", "open" while it holds the sender of the deltas,
               \* "closed" when it is through, "broken" when it left early
               \* or had no text to give
  channel,     \* the deltas in flight
  reader,      \* "none", "reading", "done"
  finals,      \* the finals the reader has collected
  inserted,    \* how much of the current sentence is on screen
  broken,      \* <<>>, or <<what was on screen when a chunk failed>>
  screen,      \* history: everything typed, in order
  missed       \* history: TRUE once something could not be inserted

vars == <<streaming, backend, task, stop_flag, fed, input_open, heard, partial, engine,
          channel, reader, finals, inserted, broken, screen, missed>>

given      == <<streaming, backend>>
taskVars   == <<given, task, stop_flag, fed, input_open>>
engineVars == <<heard, partial, engine>>
readerVars == <<reader, finals, inserted, broken, screen, missed>>

TaskStep == {"connect", "start", "check", "frame", "stop", "finish", "join",
             "ok", "err"}
Returned == {"ok", "err"}

\* AsrProvider::connect of sherpa.rs: the models of the catalogue are decoded
\* whole; any other name is the directory of a model for the online recognizer.
SherpaConnect(model) ==
  IF model \in {"sensevoice", "funasr-nano-int8", "funasr-nano-fp16"}
  THEN "offline" ELSE "online"

\* RoutingProvider: the engine that a configuration leads to.
RoutingConnect(kind, model) ==
  CASE kind = "Bailian" -> "service"
    [] kind = "OpenAiAsr" -> "rest"
    [] kind = "MultimodalAsr" -> "chat"
    [] kind = "Sherpa" -> SherpaConnect(model)

ProviderKind == {"Bailian", "OpenAiAsr", "MultimodalAsr", "Sherpa"}
Backends == {RoutingConnect(k, m) : k \in ProviderKind,
                                    m \in {"sensevoice", "a-directory"}}

\* Where the sender of the deltas lives in the session itself.
InSession == {"rest", "chat"}

Text  == Seq(Chars)
Delta == [kind : {"Partial", "Final", "Err"}, text : Text]

CollectTypeOK ==
  /\ task \in TaskStep
  /\ backend \in Backends
  /\ streaming \in BOOLEAN /\ stop_flag \in BOOLEAN
  /\ input_open \in BOOLEAN /\ missed \in BOOLEAN
  /\ engine \in {"none", "open", "closed", "broken"}
  /\ fed \in Text /\ partial \in Text /\ inserted \in Text /\ screen \in Text
  /\ heard \in 0..Len(fed)
  /\ channel \in Seq(Delta)
  /\ reader \in {"none", "reading", "done"}
  /\ finals \in Seq(Text)
  /\ broken \in Seq(Text) /\ Len(broken) <= 1

Init ==
  /\ streaming \in BOOLEAN /\ backend \in Backends
  /\ task = "connect" /\ stop_flag = FALSE /\ fed = <<>> /\ input_open = TRUE
  /\ heard = 0 /\ partial = <<>> /\ engine = "none" /\ channel = <<>>
  /\ reader = "none" /\ finals = <<>> /\ inserted = <<>> /\ broken = <<>>
  /\ screen = <<>> /\ missed = FALSE

-----------------------------------------------------------------------------
(* The session task. *)

\* An early return drops the session, and with it the engine's input; the
\* reader task is left to itself.
Fail == task' = "err" /\ input_open' = FALSE

\* create_session, connect, deltas, and the spawn of the reader.
Connect ==
  /\ task = "connect"
  /\ \/ /\ task' = "start" /\ reader' = "reading"
        /\ engine' = IF backend \in InSession THEN "none" ELSE "open"
        /\ UNCHANGED input_open
     \/ "connect" \in Failures /\ Fail /\ UNCHANGED <<engine, reader>>
  /\ UNCHANGED <<given, stop_flag, fed, heard, partial, channel, finals,
                 inserted, broken, screen, missed>>

StartAudio ==
  /\ task = "start"
  /\ \/ task' = "check" /\ UNCHANGED input_open
     \/ "start" \in Failures /\ Fail
  /\ UNCHANGED <<given, stop_flag, fed, engineVars, channel, readerVars>>

CheckStop ==
  /\ task = "check"
  /\ task' = IF stop_flag THEN "stop" ELSE "frame"
  /\ UNCHANGED <<given, stop_flag, fed, input_open, engineVars, channel,
                 readerVars>>

\* next_frame and feed: a frame that says something, a silent one, or the end.
\* Only the connection to the service may refuse the frame, surely once it is
\* gone: the threads stay until their input is closed, and the two others only
\* collect.
NextFrame ==
  /\ task = "frame"
  /\ \/ /\ \E c \in Chars : Len(fed) < MaxFrames /\ fed' = Append(fed, c)
        /\ task' = "check" /\ UNCHANGED input_open
     \/ task' = "check" /\ UNCHANGED <<fed, input_open>>
     \/ "source" \in Failures /\ task' = "stop" /\ UNCHANGED <<fed, input_open>>
     \/ /\ backend = "service" /\ ("feed" \in Failures \/ engine # "open")
        /\ Fail /\ UNCHANGED fed
  /\ UNCHANGED <<given, stop_flag, engineVars, channel, readerVars>>

StopAudio ==
  /\ task = "stop"
  /\ \/ task' = "finish" /\ UNCHANGED input_open
     \/ "stop" \in Failures /\ Fail
  /\ UNCHANGED <<given, stop_flag, fed, engineVars, channel, readerVars>>

Send(k, text) == channel' = Append(channel, [kind |-> k, text |-> text])

\* BailianSession::finish: the finish-task message.
FinishService ==
  /\ task = "finish" /\ backend = "service"
  /\ \/ task' = "join" /\ input_open' = FALSE
     \/ "finish" \in Failures /\ Fail
  /\ UNCHANGED <<given, stop_flag, fed, engineVars, channel, readerVars>>

\* Mutant of FinishThread: the input is closed only when the session is dropped.
FinishKeepsInput ==
  /\ task = "finish" /\ backend \in {"online", "offline"}
  /\ task' = "join"
  /\ UNCHANGED <<given, stop_flag, fed, input_open, engineVars, channel,
                 readerVars>>

\* SherpaSession::finish: the drop of the only audio sender.
FinishThread ==
  /\ task = "finish" /\ backend \in {"online", "offline"}
  /\ task' = "join" /\ input_open' = FALSE
  /\ UNCHANGED <<given, stop_flag, fed, engineVars, channel, readerVars>>

\* The text of everything fed as the one final, empty when the reply has none;
\* or an error, and no final at all.
Answered ==
  /\ \/ /\ Send("Final", fed)
        /\ task' = "join" /\ input_open' = FALSE /\ UNCHANGED engine
     \/ /\ "answer" \in Failures /\ Send("Final", <<>>)
        /\ task' = "join" /\ input_open' = FALSE /\ engine' = "broken"
     \/ "finish" \in Failures /\ Fail /\ UNCHANGED <<channel, engine>>
  /\ heard' = IF task' = "join" THEN Len(fed) ELSE heard
  /\ UNCHANGED <<given, stop_flag, fed, partial, readerVars>>

\* OpenAiAsrSession::finish: /audio/transcriptions.
FinishRest == task = "finish" /\ backend = "rest" /\ Answered

\* MultimodalAsrSession::finish: /chat/completions.
FinishChat == task = "finish" /\ backend = "chat" /\ Answered

Finish == FinishService \/ FinishThread \/ FinishRest \/ FinishChat

\* Mutant of Join: the result is taken without waiting for the reader.
JoinAtOnce ==
  /\ task = "join"
  /\ task' = "ok"
  /\ UNCHANGED <<given, stop_flag, fed, input_open, engineVars, channel,
                 readerVars>>

\* reader.await
Join ==
  /\ task = "join"
  /\ reader = "done"
  /\ task' = "ok"
  /\ UNCHANGED <<given, stop_flag, fed, input_open, engineVars, channel,
                 readerVars>>

\* The user, through request_stop.
RequestStop ==
  /\ ~stop_flag
  /\ stop_flag' = TRUE
  /\ UNCHANGED <<given, task, fed, input_open, engineVars, channel, readerVars>>

-----------------------------------------------------------------------------
(* The engine. *)

Streams == engine = "open" /\ backend \in {"service", "online"}

\* A frame is decoded, and the sentence so far pushed.
Hear ==
  /\ Streams
  /\ heard < Len(fed)
  /\ heard' = heard + 1
  /\ partial' = Append(partial, fed[heard + 1])
  /\ Send("Partial", partial')
  /\ UNCHANGED <<taskVars, engine, readerVars>>

\* A sentence ends; an empty one is not sent.
EndSentence ==
  /\ Streams /\ partial # <<>>
  /\ Send("Final", partial)
  /\ partial' = <<>>
  /\ UNCHANGED <<taskVars, heard, engine, readerVars>>

\* Mutant of Flush: the rest of the sentence is dropped with the thread.
FlushDropsTail ==
  /\ Streams /\ ~input_open /\ heard = Len(fed)
  /\ engine' = "closed"
  /\ UNCHANGED <<taskVars, heard, partial, channel, readerVars>>

\* When the input has ended and is used up, the rest of the sentence is sent
\* and the channel closed.
Flush ==
  /\ Streams /\ ~input_open /\ heard = Len(fed)
  /\ engine' = "closed"
  /\ partial' = <<>>
  /\ IF partial = <<>> THEN UNCHANGED channel ELSE Send("Final", partial)
  /\ UNCHANGED <<taskVars, heard, readerVars>>

\* The offline thread has all the samples, decodes them and ends, whether or
\* not anybody still waits for it.
DecodeWhole ==
  /\ engine = "open" /\ backend = "offline" /\ ~input_open
  /\ \/ Send("Final", fed) /\ engine' = "closed"
     \/ "answer" \in Failures /\ Send("Final", <<>>) /\ engine' = "broken"
  /\ heard' = Len(fed)
  /\ UNCHANGED <<taskVars, partial, readerVars>>

\* read_loop leaves on an error, which it passes on, and on task-failed or the
\* end of the connection, which it does not.
Break ==
  /\ engine = "open" /\ backend = "service"
  /\ engine' = "broken"
  /\ \/ "read" \in Failures /\ Send("Err", <<>>)
     \/ "close" \in Failures /\ UNCHANGED channel
  /\ UNCHANGED <<taskVars, heard, partial, readerVars>>

-----------------------------------------------------------------------------
(* The reader. *)

diff_prefix(previous, current) ==
  SubSeq(current, Len(LongestCommonPrefix({previous, current})) + 1,
         Len(current))

Reads(k) ==
  /\ reader = "reading"
  /\ channel # <<>>
  /\ Head(channel).kind = k
  /\ channel' = Tail(channel)

\* insert_ex of a difference: whether it succeeds, and what is then on screen.
Types(delta, ok, failure) ==
  \/ ok /\ screen' = screen \o delta /\ UNCHANGED missed
  \/ /\ ~ok /\ delta # <<>> /\ failure \in Failures
     /\ missed' = TRUE /\ UNCHANGED screen

\* A partial: its difference is typed; after a chunk that fails nothing more is
\* until the final.
ReadPartial ==
  /\ Reads("Partial")
  /\ LET text  == Head(channel).text
         delta == diff_prefix(inserted, text)
     IN  \/ /\ streaming /\ broken = <<>> /\ delta # <<>>
            /\ \E ok \in BOOLEAN :
                 /\ Types(delta, ok, "chunk")
                 /\ inserted' = IF ok THEN text ELSE inserted
                 /\ broken' = IF ok THEN <<>> ELSE <<inserted>>
         \/ /\ ~streaming \/ broken # <<>> \/ delta = <<>>
            /\ UNCHANGED <<inserted, broken, screen, missed>>
  /\ UNCHANGED <<taskVars, engineVars, reader, finals>>

\* Mutant of ReadFinal: the next sentence does not start from nothing.
FinalKeepsInserted ==
  /\ Reads("Final")
  /\ LET text == Head(channel).text
     IN  /\ finals' = Append(finals, text)
         /\ IF streaming
            THEN \E ok \in BOOLEAN :
                   Types(diff_prefix(inserted, text), ok, "final")
            ELSE UNCHANGED <<screen, missed>>
  /\ UNCHANGED <<taskVars, engineVars, reader, inserted, broken>>

\* A final: what of it is not on screen is typed, or pasted when a chunk had
\* failed.  Only the first of the two starts the next sentence from nothing.
ReadFinal ==
  /\ Reads("Final")
  /\ LET text == Head(channel).text
     IN  /\ finals' = Append(finals, text)
         /\ \/ /\ streaming /\ broken = <<>>
               /\ \E ok \in BOOLEAN :
                    Types(diff_prefix(inserted, text), ok, "final")
               /\ inserted' = <<>>
               /\ UNCHANGED broken
            \/ /\ streaming /\ broken # <<>>
               /\ \E ok \in BOOLEAN :
                    Types(diff_prefix(Head(broken), text), ok, "final")
               /\ broken' = <<>>
               /\ UNCHANGED inserted
            \/ ~streaming /\ UNCHANGED <<inserted, broken, screen, missed>>
  /\ UNCHANGED <<taskVars, engineVars, reader>>

\* Nobody holds the sender any more: the engine, or the session after finish.
SenderDropped ==
  IF backend \in InSession THEN task \in {"join", "ok", "err"}
  ELSE engine # "open"

\* An error, or the closed channel, ends the reader.
ReadEnd ==
  /\ \/ Reads("Err")
     \/ reader = "reading" /\ channel = <<>> /\ SenderDropped /\ UNCHANGED channel
  /\ reader' = "done"
  /\ UNCHANGED <<taskVars, engineVars, finals, inserted, broken, screen, missed>>

-----------------------------------------------------------------------------

TaskRuns == Connect \/ StartAudio \/ CheckStop \/ NextFrame \/ StopAudio
              \/ Finish \/ Join

EngineAnswers == Hear \/ Flush \/ DecodeWhole

ReaderRuns == ReadPartial \/ ReadFinal \/ ReadEnd

Next == TaskRuns \/ RequestStop \/ EngineAnswers \/ EndSentence \/ Break
          \/ ReaderRuns

Spec == Init /\ [][Next]_vars

\* tokio runs both tasks, the microphone delivers frames, and the engine works
\* through its input; nothing obliges a sentence to end.
Fairness == WF_vars(TaskRuns) /\ WF_vars(EngineAnswers) /\ WF_vars(ReaderRuns)

FairSpec == Spec /\ Fairness

-----------------------------------------------------------------------------
(* Properties. *)

\* Every character that was fed is in the finals of a recording that ends well,
\* in order and once, wherever the sentences end and the stop comes, unless the
\* engine left early.
AllHeard == task = "ok" /\ engine # "broken" => FlattenSeq(finals) = fed

\* While streaming, and until an insertion fails, the screen shows the finals and
\* the typed part of the current sentence, no character missing or doubled.
ScreenIsSpoken ==
  streaming /\ ~missed => screen = FlattenSeq(finals) \o inserted

\* Once a final has been inserted the screen shows the finals so far, even when a
\* chunk had failed: what was missing has been pasted (FR-7.10).
FinalsOnScreen ==
  [][streaming /\ finals' # finals => screen' = FlattenSeq(finals')]_vars

\* Whatever breaks, and whenever: the finals collected are an initial stretch of
\* what was fed, in order, nothing skipped and nothing said twice.
FinalsArePrefix == IsPrefix(FlattenSeq(finals), fed)

\* What is heard is what was said, whichever of the five engines hears it: in
\* order, nothing skipped or said twice, and all of it when none left early.
HeardInOrder == CollectTypeOK /\ FinalsArePrefix /\ AllHeard

\* Once the recording has ended well its reader types nothing more, so its text
\* never mixes with the next recording's.
QuietAfterOk == [][task = "ok" => screen' = screen]_vars

\* A stop ends the recording, in success or failure: the task, the reader and
\* the engine never wait for each other for ever.
StopEnds == stop_flag ~> task \in Returned

=============================================================================
