------------------------------ MODULE TsfInsert ------------------------------
(***************************************************************************)
(* Insertion through a text service (TSF) on Windows.  openIME, the host,  *)
(* makes its own input method current, which loads a DLL into the target   *)
(* application; the DLL serves a named pipe on a thread of its own and     *)
(* commits the text on the application's UI thread.  When anything fails   *)
(* the host goes on with the ordinary insertion.                           *)
(*                                                                         *)
(* Four actors: the host's insertion (try_tsf_insert, session.rs, ipc.rs), *)
(* the pipe thread and the UI thread of the DLL (ipc_server.cpp,           *)
(* text_service.cpp) and the user, who may change the input method.  The   *)
(* host waits 1200 ms and the pipe thread 1000 ms; either may be delayed,  *)
(* so a wait may end at any moment.                                        *)
(***************************************************************************)
EXTENDS Naturals, Sequences, FiniteSets, SequencesExt

CONSTANTS
  Texts,        \* the texts, inserted in the order 1..Texts
  Profiles,     \* the user's input methods
  MaxSwitches,  \* bound on the times the user changes the input method
  MaxCrashes,   \* bound on the times the host is ended
  None

OpenIme == "openIME"

ASSUME TsfAssumption ==
  /\ Texts \in Nat \ {0}
  /\ Profiles # {} /\ OpenIme \notin Profiles /\ None \notin Profiles
  /\ MaxSwitches \in Nat /\ MaxCrashes \in Nat

VARIABLES
  registry,  \* what the registry and msctf say of the DLL
  fallback,  \* windows_tsf_fallback
  profile,   \* the current input method
  host,      \* the insertion: where it is and its session
  outcome,   \* [1..Texts -> the outcome insert_ex has returned]
  served,    \* the pipe thread
  job,       \* job_: the text for the UI thread, None if none
  jobResult, \* result_
  jobDone,   \* the event job_done_
  posted,    \* the messages WM_APP + 1 in the UI thread's queue
  ui,        \* the text the UI thread has taken, and whether it is committed
  replies,   \* the frames on their way to the host
  document,  \* the texts that were committed, in their order
  switches, crashes, \* what has been used of the bounds
  chosen,    \* the input method the user chose last
  stuck,     \* the host was ended, or could not restore, in a session
  late       \* somebody stopped waiting for a commit that was under way, or a
             \* message left of an earlier job has found a later one

pipeVars  == <<served, job, jobResult, jobDone, posted, ui, replies, document>>
ghostVars == <<chosen, stuck, late>>
tsfVars == <<registry, fallback, profile, host, outcome, pipeVars, switches, crashes,
          ghostVars>>

Text == 1..Texts
HostSteps == {"idle", "prepare", "activate", "connect", "submit", "wait", "restore"}
Results == {"committed", "rejected", "failed"}
Frame == [text : Text, status : Results]
Registry == [path : {"none", "old", "ours"}, dll : BOOLEAN, tip : BOOLEAN,
             listed : BOOLEAN]
NoHost == [at |-> "idle", text |-> None, saved |-> None, activated |-> FALSE,
           ok |-> FALSE]

TsfTypeOK ==
  /\ registry \in Registry /\ fallback \in BOOLEAN
  /\ profile \in Profiles \cup {OpenIme}
  /\ host \in [at : HostSteps, text : Text \cup {None},
               saved : Profiles \cup {OpenIme, None}, activated : BOOLEAN,
               ok : BOOLEAN]
  /\ outcome \in [Text -> {"none", "Committed", "ordinary", "Failed"}]
  /\ served \in [at : {"off", "listen", "serve", "wait"}, text : Text \cup {None},
                 request : Text \cup {None}]
  /\ job \in Text \cup {None} /\ jobResult \in Results /\ jobDone \in BOOLEAN
  /\ posted \in Nat
  /\ ui \in [text : Text \cup {None}, done : Results \cup {"none"}]
  /\ replies \in Seq(Frame)
  /\ document \in Seq(Text)
  /\ switches \in 0..MaxSwitches /\ crashes \in 0..MaxCrashes
  /\ chosen \in Profiles /\ stuck \in BOOLEAN /\ late \in BOOLEAN

NoService == [at |-> "off", text |-> None, request |-> None]
Listening == [NoService EXCEPT !.at = "listen"]

-----------------------------------------------------------------------------
(* The installation. *)

\* classify_ime_status and system_lists_tip.
detect_status(r) ==
  CASE r.path = "none" -> "NotInstalled"
    [] r.path # "none" /\ (r.path # "ours" \/ ~r.dll \/ ~r.tip \/ ~r.listed)
         -> "RegistrationBroken"
    [] OTHER -> "Installed"

\* tsf_gate: the text's length and the target's machine are an input.
tsf_gate(fits, amd64) == detect_status(registry) = "Installed" /\ fits /\ amd64

\* Mutant of restore_decision: a failed activation has nothing to restore.
restore_unless_failed(saved, current, failed) == saved # None /\ current

\* restore_decision.
restore_decision(saved, current, failed) == saved # None /\ (current \/ failed)

Init ==
  /\ registry \in Registry /\ fallback \in BOOLEAN
  /\ profile \in Profiles /\ chosen = profile
  /\ host = NoHost /\ outcome = [t \in Text |-> "none"]
  /\ served = NoService /\ job = None /\ jobResult = "failed" /\ jobDone = FALSE
  /\ posted = 0 /\ ui = [text |-> None, done |-> "none"]
  /\ replies = <<>> /\ document = <<>>
  /\ switches = 0 /\ crashes = 0
  /\ stuck = FALSE /\ late = FALSE

\* ensure_registered, in a thread of its own at the start: DllRegisterServer
\* writes the keys; whether msctf takes them in is the system's affair.
ensure_registered ==
  /\ detect_status(registry) # "Installed" /\ registry.dll
  /\ ~(registry.path = "ours" /\ registry.tip)
  /\ \E l \in BOOLEAN :
       registry' = [registry EXCEPT !.path = "ours", !.tip = TRUE, !.listed = l]
  /\ UNCHANGED <<fallback, profile, host, outcome, pipeVars, switches, crashes,
                 ghostVars>>

-----------------------------------------------------------------------------
(* The host. *)

HostGoto(s) == host' = [host EXCEPT !.at = s]
Unreturned == {t \in Text : outcome[t] = "none"}
NextText == CHOOSE t \in Unreturned : \A u \in Unreturned : t <= u

\* insert_ex returns: Committed, or what the ordinary insertion makes of it,
\* or Failed when the fallback is switched off.
InsertReturns(t, o) ==
  /\ outcome' = [outcome EXCEPT ![t] = o]
  /\ host' = NoHost
Fallback == IF fallback THEN "ordinary" ELSE "Failed"

\* The gate does not let the text through: the ordinary insertion.
Gate ==
  /\ host.at = "idle" /\ Unreturned # {}
  /\ \E fits, amd64 \in BOOLEAN :
       IF tsf_gate(fits, amd64)
       THEN /\ host' = [NoHost EXCEPT !.at = "prepare", !.text = NextText]
            /\ UNCHANGED outcome
       ELSE InsertReturns(NextText, "ordinary")
  /\ UNCHANGED <<registry, fallback, profile, pipeVars, switches, crashes, ghostVars>>

\* prepare_session gives up before it has touched anything: the installation,
\* the foreground, the target's machine or COM.
PrepareFails ==
  /\ host.at = "prepare"
  /\ InsertReturns(host.text, Fallback)
  /\ UNCHANGED <<registry, fallback, profile, pipeVars, switches, crashes, ghostVars>>

\* The snapshot of the current input method, which may fail ...
Prepare ==
  /\ host.at = "prepare"
  /\ \E saved \in {profile, None} :
       /\ host' = [host EXCEPT !.at = "activate", !.saved = saved]
       /\ stuck' = (stuck \/ saved = None)
  /\ UNCHANGED <<registry, fallback, profile, outcome, pipeVars, switches, crashes, chosen,
                 late>>

\* ... and the activation, whose result nobody looks at.
ActivateProfile ==
  /\ host.at = "activate"
  /\ HostGoto("connect")
  /\ profile' \in {profile, OpenIme}
  /\ UNCHANGED <<registry, fallback, outcome, pipeVars, switches, crashes, ghostVars>>

\* connect_and_wait_ready: the pipe of the right process, and its clientReady.
Connect ==
  /\ host.at = "connect" /\ served.at = "listen"
  /\ served' = [served EXCEPT !.at = "serve"]
  /\ replies' = <<>>
  /\ host' = [host EXCEPT !.at = "submit", !.activated = TRUE]
  /\ UNCHANGED <<registry, fallback, profile, outcome, job, jobResult, jobDone, posted,
                 ui, document, switches, crashes, ghostVars>>

\* Nothing in 800 ms, or the wrong process, or a bad frame.
ConnectFails ==
  /\ host.at = "connect"
  /\ HostGoto("restore")
  /\ UNCHANGED <<registry, fallback, profile, outcome, pipeVars, switches, crashes,
                 ghostVars>>

\* submit: the frame with a session id of its own; the write may fail.
Submit ==
  /\ host.at = "submit"
  /\ \/ served.at = "serve" /\ HostGoto("wait")
        /\ served' = [served EXCEPT !.request = host.text]
     \/ HostGoto("restore") /\ UNCHANGED served
  /\ UNCHANGED <<registry, fallback, profile, outcome, job, jobResult, jobDone, posted,
                 ui, replies, document, switches, crashes, ghostVars>>

\* interpret_result: only "committed" for this session ends the wait; what was
\* rejected is read past like a frame of another session.
ReadReply ==
  /\ host.at = "wait" /\ replies # <<>>
  /\ replies' = Tail(replies)
  /\ IF Head(replies) = [text |-> host.text, status |-> "committed"]
     THEN host' = [host EXCEPT !.at = "restore", !.ok = TRUE]
     ELSE UNCHANGED host
  /\ UNCHANGED <<registry, fallback, profile, outcome, served, job, jobResult, jobDone,
                 posted, ui, document, switches, crashes, ghostVars>>

\* The wait is over without an answer.
HostTimeout ==
  /\ host.at = "wait"
  /\ HostGoto("restore")
  /\ late' = (late \/ host.text \in {served.request, served.text, ui.text}
                   \/ [text |-> host.text, status |-> "committed"] \in ToSet(replies))
  /\ UNCHANGED <<registry, fallback, profile, outcome, pipeVars, switches, crashes,
                 chosen, stuck>>

\* The host closes the connection.  What the DLL has not read yet it still
\* reads; then it waits for the next host.
Disconnect ==
  /\ replies' = <<>>
  /\ served' = IF served.at = "serve" /\ served.request = None THEN Listening ELSE served

\* restore_session, by hand or when the session is dropped; then insert_ex
\* returns or goes on with the ordinary insertion.
RestoreSession ==
  /\ host.at = "restore"
  /\ IF restore_decision(host.saved, host.activated, ~host.activated)
     THEN \/ profile' = host.saved /\ UNCHANGED stuck
          \/ stuck' = TRUE /\ UNCHANGED profile
     ELSE UNCHANGED <<profile, stuck>>
  /\ InsertReturns(host.text, IF host.ok THEN "Committed" ELSE Fallback)
  /\ Disconnect
  /\ UNCHANGED <<registry, fallback, job, jobResult, jobDone, posted, ui, document, switches,
                 crashes, chosen, late>>

\* The host is ended; what it has not returned is never inserted.
Crash ==
  /\ crashes < MaxCrashes /\ host.at # "idle"
  /\ crashes' = crashes + 1
  /\ InsertReturns(host.text, "Failed")
  /\ stuck' = TRUE /\ late' = TRUE
  /\ Disconnect
  /\ UNCHANGED <<registry, fallback, profile, job, jobResult, jobDone, posted, ui, document,
                 switches, chosen>>

-----------------------------------------------------------------------------
(* The DLL in the target. *)

\* Activate and Deactivate run on the UI thread, when the target has heard of
\* the change; Stop waits for the pipe thread.
Activate ==
  /\ profile = OpenIme /\ served.at = "off" /\ ui.text = None
  /\ served' = Listening
  /\ job' = None /\ jobResult' = "failed" /\ jobDone' = FALSE /\ posted' = 0
  /\ UNCHANGED <<registry, fallback, profile, host, outcome, ui, replies, document,
                 switches, crashes, ghostVars>>

Deactivate ==
  /\ profile # OpenIme /\ served.at \in {"listen", "serve"} /\ ui.text = None
  /\ served' = NoService /\ posted' = 0
  /\ UNCHANGED <<registry, fallback, profile, host, outcome, job, jobResult, jobDone, ui,
                 replies, document, switches, crashes, ghostVars>>

\* ServeOneClient: a job for the UI thread, a result in case nobody answers.  If
\* the message cannot be posted the wait is over at once (JobTimeout).
TakeRequest ==
  /\ served.at = "serve" /\ served.request # None
  /\ served' = [at |-> "wait", text |-> served.request, request |-> None]
  /\ job' = served.request /\ jobResult' = "failed" /\ jobDone' = FALSE
  /\ posted' \in {posted, posted + 1}
  /\ UNCHANGED <<registry, fallback, profile, host, outcome, ui, replies, document,
                 switches, crashes, ghostVars>>

AnswerHost ==
  /\ replies' = IF host.at = "wait" /\ host.text = served.text
                THEN Append(replies, [text |-> served.text, status |-> jobResult])
                ELSE replies
  /\ served' = IF host.at = "wait" /\ host.text = served.text
               THEN [served EXCEPT !.at = "serve", !.text = None] ELSE Listening

\* Mutant of JobTimeout: the job stays where the UI thread finds it.
JobTimeoutKeepsJob ==
  /\ served.at = "wait" /\ ~jobDone
  /\ AnswerHost
  /\ late' = (late \/ ui.text = served.text)
  /\ UNCHANGED <<registry, fallback, profile, host, outcome, job, jobResult, jobDone,
                 posted, ui, document, switches, crashes, chosen, stuck>>

\* kCommitTimeoutMs are over: the job is cleared against a stale replay.
JobTimeout ==
  /\ served.at = "wait" /\ ~jobDone
  /\ AnswerHost
  /\ job' = None
  /\ late' = (late \/ ui.text = served.text)
  /\ UNCHANGED <<registry, fallback, profile, host, outcome, jobResult, jobDone, posted,
                 ui, document, switches, crashes, chosen, stuck>>

JobDone ==
  /\ served.at = "wait" /\ jobDone
  /\ jobDone' = FALSE
  /\ AnswerHost
  /\ job' = None
  /\ UNCHANGED <<registry, fallback, profile, host, outcome, jobResult, posted, ui,
                 document, switches, crashes, ghostVars>>

\* HandleCommitFromWindow: TakeJob ...
TakeJob ==
  /\ posted > 0 /\ ui.text = None
  /\ posted' = posted - 1
  /\ ui' = [text |-> job, done |-> "none"]
  /\ late' = (late \/ (posted > 1 /\ job # None))
  /\ UNCHANGED <<registry, fallback, profile, host, outcome, served, job, jobResult,
                 jobDone, replies, document, switches, crashes, chosen, stuck>>

\* ... the edit session, which may find no document or be refused ...
DoEditSession ==
  /\ ui.text # None /\ ui.done = "none"
  /\ \E r \in Results :
       /\ ui' = [ui EXCEPT !.done = r]
       /\ document' = IF r = "committed" THEN Append(document, ui.text) ELSE document
  /\ UNCHANGED <<registry, fallback, profile, host, outcome, served, job, jobResult,
                 jobDone, posted, replies, switches, crashes, ghostVars>>

\* ... and CompleteJob, whatever job the pipe thread waits for now.
CompleteJob ==
  /\ ui.text # None /\ ui.done # "none"
  /\ jobResult' = ui.done /\ jobDone' = TRUE
  /\ ui' = [text |-> None, done |-> "none"]
  /\ UNCHANGED <<registry, fallback, profile, host, outcome, served, job, posted,
                 replies, document, switches, crashes, ghostVars>>

-----------------------------------------------------------------------------
(* The user. *)

SwitchProfile ==
  /\ switches < MaxSwitches
  /\ switches' = switches + 1
  /\ \E p \in Profiles \ {profile} : profile' = p /\ chosen' = p
  /\ UNCHANGED <<registry, fallback, host, outcome, pipeVars, crashes, stuck, late>>

\* restore_to_system_default, the button for when openIME is stuck as the
\* current input method: Microsoft Pinyin, one of the user's.
restore_to_system_default ==
  /\ profile = OpenIme /\ host.at = "idle"
  /\ \E p \in Profiles : profile' = p /\ chosen' = p
  /\ UNCHANGED <<registry, fallback, host, outcome, pipeVars, switches, crashes, stuck,
                 late>>

Host == \/ Gate \/ PrepareFails \/ Prepare \/ ActivateProfile \/ Connect \/ ConnectFails
        \/ Submit \/ ReadReply \/ HostTimeout \/ RestoreSession
Dll == \/ Activate \/ Deactivate \/ TakeRequest \/ JobTimeout \/ JobDone \/ TakeJob
       \/ DoEditSession \/ CompleteJob

Next == \/ Host \/ Dll \/ ensure_registered \/ SwitchProfile
        \/ restore_to_system_default \/ Crash

Spec == Init /\ [][Next]_tsfVars

-----------------------------------------------------------------------------
(* Properties. *)

Times(t) == Cardinality({i \in DOMAIN document : document[i] = t})

\* Unless somebody stopped waiting for a commit that was under way, or a message
\* left of a job that timed out has found a later one, insert_ex
\* says Committed of exactly the texts that are in the document: the text
\* service never commits - not later either, when the target gets to its
\* messages - what the host has inserted the ordinary way or reported failed.
\* (With the types.)
CommittedIsTrue ==
  TsfTypeOK /\
  (~late => \A t \in Text : outcome[t] # "none" =>
             (Times(t) > 0 <=> outcome[t] = "Committed"))

\* Between two insertions openIME is not left as the user's input method,
\* however the session failed, unless the host was ended in it or the system
\* refused the snapshot or the restoration.
NotLeftInOpenIme ==
  host.at = "idle" /\ ~stuck => profile \in Profiles

\* "Cleared, against a stale replay" (ipc_server.cpp:279): a text is committed
\* once.  The code breaks it: a message that is left of a job that timed out
\* finds the next job, and the next message finds it again, for the job is
\* cleared only when the pipe thread has woken up.
CommittedOnce == \A t \in Text : Times(t) <= 1

\* "When the user has switched away before the restoration, do not switch back
\* by force" (profile.rs:36).  The code breaks it.
UserSwitchKept == host.at = "idle" /\ ~stuck => profile = chosen
=============================================================================
