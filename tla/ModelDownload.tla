----------------------------- MODULE ModelDownload -----------------------------
(***************************************************************************)
(* Installing a local model: install_llm_model and install_local_model     *)
(* (commands.rs), install_file_list, download_one and download_from_url    *)
(* (model_download.rs), over the disk and several sources.                 *)
(*                                                                         *)
(* A call is one run of an install command.  It takes the model_downloading*)
(* flag, and its task fetches each missing file into a .part that survives *)
(* the run, resuming what an older run or another source left, checks its  *)
(* SHA256 and renames it.  The application may quit at any step, and the   *)
(* user may delete the model at any step.                                  *)
(***************************************************************************)
EXTENDS Naturals, FiniteSets

CONSTANTS
  LlmCalls,    \* install_llm_model commands
  AsrCalls,    \* install_local_model commands
  NFiles,      \* files of the model
  NSources,    \* download sources of each file, tried in this order
  Size,        \* chunks of a file
  Cuts,        \* the sources that may refuse a request or break off
  Stale,       \* the sources that serve another content, one chunk longer
  NoRange,     \* the sources that ignore Range and send the whole file
  MaxCrashes,  \* bound on the times the application quits
  MaxDeletes   \* bound on the times the user deletes the model

Calls   == LlmCalls \cup AsrCalls
Files   == 1..NFiles
Sources == 1..NSources

ASSUME DownloadAssumption ==
  /\ LlmCalls \cap AsrCalls = {}
  /\ NFiles \in Nat \ {0} /\ NSources \in Nat \ {0} /\ Size \in Nat \ {0}
  /\ Cuts \subseteq Sources /\ Stale \subseteq Sources /\ NoRange \subseteq Sources
  /\ MaxCrashes \in Nat /\ MaxDeletes \in Nat

VARIABLES
  model_downloading,  \* AppState.model_downloading
  dest,     \* [Files -> "absent", "good" or "bad"]: the installed files
  part,     \* [Files -> [len, good]]: the .part files, absent when len is 0
  pc,       \* [Calls -> CallStep]
  file,     \* [Calls -> the file the task is at]
  src,      \* [Calls -> the source it tries]
  got,      \* [Calls -> chunks it counts as downloaded]
  lost,     \* [Calls -> TRUE when its open .part has been deleted]
  result,   \* [Calls -> "none", "ok", "err"]: what install_file_list returned
  told,     \* [Calls -> "none", "complete", "error", "refused"]
  crashes,
  deletes,
  faulty    \* history: the calls the disk or the HTTP client has failed

vars == <<model_downloading, dest, part, pc, file, src, got, lost, result, told,
          crashes, deletes, faulty>>

disk   == <<dest, part>>
counts == <<crashes, deletes, faulty>>

CallStep == {"idle", "check", "file", "request", "open", "body", "verify",
             "rename", "release", "report", "done", "panicked", "dead"}
Working  == {"check", "file", "request", "open", "body", "verify", "rename",
             "release"}

NoPart == [len |-> 0, good |-> TRUE]

DownloadTypeOK ==
  /\ model_downloading \in BOOLEAN
  /\ dest \in [Files -> {"absent", "good", "bad"}]
  /\ part \in [Files -> [len : Nat, good : BOOLEAN]]
  /\ pc \in [Calls -> CallStep]
  /\ file \in [Calls -> 1..(NFiles + 1)]
  /\ src \in [Calls -> Sources]
  /\ got \in [Calls -> Nat]
  /\ lost \in [Calls -> BOOLEAN]
  /\ result \in [Calls -> {"none", "ok", "err"}]
  /\ told \in [Calls -> {"none", "complete", "error", "refused"}]
  /\ crashes \in 0..MaxCrashes /\ deletes \in 0..MaxDeletes
  /\ faulty \subseteq Calls

Init ==
  /\ model_downloading = FALSE
  /\ dest = [f \in Files |-> "absent"]
  /\ part = [f \in Files |-> NoPart]
  /\ pc = [c \in Calls |-> "idle"]
  /\ file = [c \in Calls |-> 1]
  /\ src = [c \in Calls |-> 1]
  /\ got = [c \in Calls |-> 0]
  /\ lost = [c \in Calls |-> FALSE]
  /\ result = [c \in Calls |-> "none"]
  /\ told = [c \in Calls |-> "none"]
  /\ crashes = 0 /\ deletes = 0 /\ faulty = {}

Goto(c, s) == pc' = [pc EXCEPT ![c] = s]
Tell(c, e) == told' = [told EXCEPT ![c] = e]

\* is_installed_lenient: by size, or else by content.
Installed(f) == dest[f] # "absent"

\* The size of the file a source serves.
ServedSize(s) == IF s \in Stale THEN Size + 1 ELSE Size

-----------------------------------------------------------------------------
(* The command. *)

\* Mutant of Begin: the flag is looked at here and raised by the task.
BeginLooksOnly(c) ==
  /\ pc[c] = "idle"
  /\ \/ /\ ~model_downloading
        /\ Goto(c, "check")
        /\ UNCHANGED told
     \/ /\ model_downloading
        /\ Goto(c, "done")
        /\ Tell(c, "refused")
  /\ UNCHANGED <<model_downloading, disk, file, src, got, lost, result, counts>>

\* The compare-exchange on model_downloading.
Begin(c) ==
  /\ pc[c] = "idle"
  /\ \/ /\ ~model_downloading
        /\ model_downloading' = TRUE
        /\ Goto(c, "check")
        /\ UNCHANGED told
     \/ /\ model_downloading
        /\ Goto(c, "done")
        /\ Tell(c, "refused")
        /\ UNCHANGED model_downloading
  /\ UNCHANGED <<disk, file, src, got, lost, result, counts>>

\* A model that is there already is reported at once; else the task is spawned.
CheckInstalled(c) ==
  /\ pc[c] = "check"
  /\ \/ /\ \A f \in Files : Installed(f)
        /\ model_downloading' = FALSE
        /\ Goto(c, "done")
        /\ Tell(c, "complete")
     \/ /\ \E f \in Files : ~Installed(f)
        /\ Goto(c, "file")
        /\ UNCHANGED <<model_downloading, told>>
  /\ UNCHANGED <<disk, file, src, got, lost, result, counts>>

\* The task gives the flag back first.
Release(c) ==
  /\ pc[c] = "release"
  /\ model_downloading' = FALSE
  /\ Goto(c, "report")
  /\ UNCHANGED <<disk, file, src, got, lost, result, told, counts>>

\* The frontend is told.  After a language model the pipeline is invalidated
\* first, by a blocking_write that panics on the async worker it runs on.
Report(c) ==
  /\ pc[c] = "report"
  /\ \/ /\ result[c] = "err" /\ Tell(c, "error") /\ Goto(c, "done")
     \/ /\ result[c] = "ok" /\ c \in AsrCalls
        /\ Tell(c, "complete") /\ Goto(c, "done")
     \/ /\ result[c] = "ok" /\ c \in LlmCalls
        /\ Goto(c, "panicked") /\ UNCHANGED told
  /\ UNCHANGED <<model_downloading, disk, file, src, got, lost, result, counts>>

-----------------------------------------------------------------------------
(* install_file_list and download_one. *)

Return(c, r) ==
  /\ result' = [result EXCEPT ![c] = r]
  /\ Goto(c, "release")

\* The next file that is missing, or the end of the list.
NextFile(c) ==
  /\ pc[c] = "file"
  /\ \/ /\ file[c] > NFiles
        /\ Return(c, "ok")
        /\ UNCHANGED <<file, src>>
     \/ /\ file[c] <= NFiles /\ Installed(file[c])
        /\ file' = [file EXCEPT ![c] = @ + 1]
        /\ UNCHANGED <<pc, src, result>>
     \/ /\ file[c] <= NFiles /\ ~Installed(file[c])
        /\ src' = [src EXCEPT ![c] = 1]
        /\ Goto(c, "request")
        /\ UNCHANGED <<file, result>>
  /\ UNCHANGED <<model_downloading, disk, got, lost, told, counts>>

\* Mutant of NextSource: after the last source the first is tried again.
NextSourceForever(c) ==
  /\ src' = [src EXCEPT ![c] = (@ % NSources) + 1]
  /\ Goto(c, "request")
  /\ UNCHANGED result

\* Mutant of NextSource: an error of the first source is the end.
NextSourceGivesUp(c) == Return(c, "err") /\ UNCHANGED src

\* The .part is kept for the next source; after the last one the install fails.
NextSource(c) ==
  \/ /\ src[c] < NSources
     /\ src' = [src EXCEPT ![c] = @ + 1]
     /\ Goto(c, "request")
     /\ UNCHANGED result
  \/ /\ src[c] = NSources
     /\ Return(c, "err")
     /\ UNCHANGED src

\* download_from_url: the length of the .part is read and what is missing asked
\* for; a source that has nothing beyond it answers 416.
Request(c) ==
  /\ pc[c] = "request"
  /\ LET s     == src[c]
         start == part[file[c]].len
     IN  \/ /\ s \in Cuts \/ (s \notin NoRange /\ start >= ServedSize(s))
            /\ NextSource(c)
            /\ UNCHANGED got
         \/ /\ s \in NoRange \/ start < ServedSize(s)
            /\ got' = [got EXCEPT ![c] = IF s \in NoRange THEN 0 ELSE start]
            /\ Goto(c, "open")
            /\ UNCHANGED <<src, result>>
  /\ UNCHANGED <<model_downloading, disk, file, lost, told, counts>>

\* The .part is opened, emptied unless the answer resumes it.  The directory of
\* a recognition model may have been deleted.
Open(c) ==
  /\ pc[c] = "open"
  /\ \/ /\ part' = IF got[c] = 0 THEN [part EXCEPT ![file[c]] = NoPart] ELSE part
        /\ lost' = [lost EXCEPT ![c] = FALSE]
        /\ Goto(c, "body")
        /\ UNCHANGED <<src, result>>
     \/ /\ c \in AsrCalls /\ deletes > 0
        /\ NextSource(c)
        /\ UNCHANGED <<part, lost>>
  /\ UNCHANGED <<model_downloading, dest, file, got, told, counts>>

\* A chunk is appended, the body is complete, or the connection breaks.  What
\* is appended fits only when the .part still has the length that was asked.
Body(c) ==
  /\ pc[c] = "body"
  /\ LET f == file[c]
         s == src[c]
     IN  \/ /\ got[c] < ServedSize(s)
            /\ got' = [got EXCEPT ![c] = @ + 1]
            /\ part' = IF lost[c] THEN part
                       ELSE [part EXCEPT ![f] =
                               [len |-> @.len + 1,
                                good |-> /\ @.good /\ s \notin Stale
                                         /\ @.len = got[c]]]
            /\ UNCHANGED <<pc, src, result>>
         \/ /\ got[c] = ServedSize(s)
            /\ Goto(c, "verify")
            /\ UNCHANGED <<part, src, got, result>>
         \/ /\ got[c] < ServedSize(s) /\ s \in Cuts
            /\ NextSource(c)
            /\ UNCHANGED <<part, got>>
  /\ UNCHANGED <<model_downloading, dest, file, lost, told, counts>>

\* verify_sha256_file of the .part.
Verified(f) == part[f].len = Size /\ part[f].good

\* A .part that is not the file is removed, and the next source tried.
Verify(c) ==
  /\ pc[c] = "verify"
  /\ \/ /\ Verified(file[c])
        /\ Goto(c, "rename")
        /\ UNCHANGED <<part, src, result>>
     \/ /\ ~Verified(file[c])
        /\ part' = [part EXCEPT ![file[c]] = NoPart]
        /\ NextSource(c)
  /\ UNCHANGED <<model_downloading, dest, file, got, lost, told, counts>>

\* Mutant of Rename: the count of the files goes on after the last one.
RenameSkipsFile(c) ==
  /\ pc[c] = "rename"
  /\ dest' = [dest EXCEPT ![file[c]] = "good"]
  /\ part' = [part EXCEPT ![file[c]] = NoPart]
  /\ file' = [file EXCEPT ![c] = @ + 2]
  /\ Goto(c, "file")
  /\ UNCHANGED <<model_downloading, src, got, lost, result, told, counts>>

\* The rename; when the .part has been deleted meanwhile the install fails.
Rename(c) ==
  /\ pc[c] = "rename"
  /\ LET f == file[c]
     IN  \/ /\ part[f].len > 0
            /\ dest' = [dest EXCEPT ![f] =
                          IF part[f].len = Size /\ part[f].good
                          THEN "good" ELSE "bad"]
            /\ part' = [part EXCEPT ![f] = NoPart]
            /\ file' = [file EXCEPT ![c] = @ + 1]
            /\ Goto(c, "file")
            /\ UNCHANGED result
         \/ /\ part[f].len = 0
            /\ Return(c, "err")
            /\ UNCHANGED <<dest, part, file>>
  /\ UNCHANGED <<model_downloading, src, got, lost, told, counts>>

\* What the disk or the client refuses.  Without a client or a directory the
\* install fails at once, and so it does when the rename fails; an open, a write
\* or a flush that fails leaves the .part to the next source; a .part that cannot
\* be read counts as wrong, and stays if it cannot be removed either.
DiskFails(c) ==
  /\ \/ /\ pc[c] = "file"
        /\ file[c] = 1 \/ (file[c] <= NFiles /\ ~Installed(file[c]))
        /\ Return(c, "err")
        /\ UNCHANGED <<part, src>>
     \/ /\ pc[c] \in {"open", "body"}
        /\ NextSource(c)
        /\ UNCHANGED part
     \/ /\ pc[c] = "verify"
        /\ NextSource(c)
        /\ part' \in {part, [part EXCEPT ![file[c]] = NoPart]}
     \/ /\ pc[c] = "rename"
        /\ Return(c, "err")
        /\ UNCHANGED <<part, src>>
  /\ faulty' = faulty \cup {c}
  /\ UNCHANGED <<model_downloading, dest, file, got, lost, told, crashes, deletes>>

-----------------------------------------------------------------------------
(* The user and the system. *)

\* delete_llm_model and delete_local_asr_model do not look at the flag: they
\* remove the files and the .part of a download that is under way.
Delete ==
  /\ deletes < MaxDeletes
  /\ deletes' = deletes + 1
  /\ dest' = [f \in Files |-> "absent"]
  /\ part' = [f \in Files |-> NoPart]
  /\ lost' = [c \in Calls |-> lost[c] \/ pc[c] = "body"]
  /\ UNCHANGED <<model_downloading, pc, file, src, got, result, told, crashes, faulty>>

\* The application quits and is started again: the disk is what is left.
Crash ==
  /\ crashes < MaxCrashes
  /\ crashes' = crashes + 1
  /\ model_downloading' = FALSE
  /\ pc' = [c \in Calls |-> IF pc[c] \in {"idle", "done", "panicked"} THEN pc[c]
                            ELSE "dead"]
  /\ UNCHANGED <<disk, file, src, got, lost, result, told, deletes, faulty>>

-----------------------------------------------------------------------------

CallRuns(c) ==
  \/ CheckInstalled(c) \/ NextFile(c) \/ Request(c) \/ Open(c) \/ Body(c)
  \/ Verify(c) \/ Rename(c) \/ Release(c) \/ Report(c)

Next ==
  \/ \E c \in Calls : Begin(c) \/ CallRuns(c) \/ DiskFails(c)
  \/ Delete \/ Crash

Spec == Init /\ [][Next]_vars

\* The spawned task runs, and a source answers or fails (the HTTP client has
\* timeouts); nobody is obliged to click.
Fairness == \A c \in Calls : WF_vars(CallRuns(c))

FairSpec == Spec /\ Fairness

-----------------------------------------------------------------------------
(* Properties. *)

\* Two installs never work at the same time: the .part files have one writer.
OneInstall ==
  \A c, d \in Calls : pc[c] \in Working /\ pc[d] \in Working => c = d

\* An installed file is the file: whatever was resumed, from whichever source,
\* after whichever crash or deletion, nothing that failed its SHA256 is kept.
InstalledIsGood == \A f \in Files : dest[f] # "bad"

\* One install at a time, and only good files from it: two that ran together
\* would write the same .part, and what both have written might pass for one.
OneGoodInstall == OneInstall /\ InstalledIsGood

\* A sound source that sends whole files is enough: whatever refuses, breaks off
\* or serves another content before it, and whatever .part a crash or an install
\* that ran out of disk has left, an install that no deletion and no disk disturbs
\* succeeds.
FailoverInstalls ==
  deletes = 0 /\ (\E s \in NoRange : s \notin Cuts \cup Stale)
    => \A c \in Calls \ faulty : result[c] # "err"

\* A report of success is true when it is made: every file is there, unless the
\* user deletes the model.
ReportIsTrue ==
  [][\A c \in Calls : told'[c] = "complete" /\ told[c] # "complete"
       => deletes > 0 \/ \A f \in Files : Installed(f)]_vars

\* The frontend, which waits for it, hears of every recognition model: each
\* install_local_model that was started ends in download-complete or
\* download-error, unless the application quits.
AsrInstallReported ==
  \A c \in AsrCalls : pc[c] = "check" ~> (told[c] # "none" \/ pc[c] = "dead")

\* A download that was interrupted is resumed: with sound sources, an install
\* after a crash does not fail.
ResumeInstalls ==
  deletes = 0 /\ Stale = {} /\ Cuts # Sources
    => \A c \in Calls \ faulty : result[c] # "err"

=============================================================================
