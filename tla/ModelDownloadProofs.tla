-------------------------- MODULE ModelDownloadProofs --------------------------
(***************************************************************************)
(* For any number of install commands, files, sources and chunks, any      *)
(* number of crashes and deletions, and whatever the sources serve: one    *)
(* install works at a time, what it installs has passed its SHA256, what   *)
(* it reports is true, and a sound source is enough.                       *)
(***************************************************************************)
EXTENDS ModelDownload, TLAPS

\* The steps at which a task is at a file of the list.
Fetching == {"request", "open", "body", "verify", "rename"}

FileInList == \A c \in Calls : pc[c] \in Fetching => file[c] \in Files

\* A call that works holds the flag.
FlagHeld == \A c \in Calls : pc[c] \in Working => model_downloading

\* Between the check and the rename the .part is the file, or has been deleted:
\* the holder of the flag is the only one that writes it.
RenameChecked ==
  \A c \in Calls :
    pc[c] = "rename" => part[file[c]].len = 0 \/ Verified(file[c])

Typed == DownloadTypeOK /\ FileInList

\* The inductive invariant.  InstalledIsGood alone is not inductive: a rename
\* moves whatever is there, and only RenameChecked says what that is; it holds
\* because no second call writes meanwhile, which FlagHeld and OneInstall say.
IInv == Typed /\ FlagHeld /\ OneInstall /\ RenameChecked /\ InstalledIsGood

-----------------------------------------------------------------------------

\* What a call does when a source has failed.
LEMMA NextSourceTypes ==
  ASSUME DownloadTypeOK, NEW c \in Calls, NextSource(c)
  PROVE  /\ src' \in [Calls -> Sources]
         /\ \/ pc' = [pc EXCEPT ![c] = "request"] /\ UNCHANGED result
            \/ /\ pc' = [pc EXCEPT ![c] = "release"]
               /\ result' = [result EXCEPT ![c] = "err"]
<1>1. CASE src[c] < NSources /\ src' = [src EXCEPT ![c] = @ + 1]
           /\ Goto(c, "request") /\ UNCHANGED result
  <2>1. src[c] + 1 \in Sources
    BY <1>1, DownloadAssumption DEF DownloadTypeOK, Sources
  <2> QED BY <1>1, <2>1 DEF DownloadTypeOK, Goto
<1>2. CASE src[c] = NSources /\ Return(c, "err") /\ UNCHANGED src
  BY <1>2 DEF DownloadTypeOK, Return, Goto
<1> QED BY <1>1, <1>2 DEF NextSource

LEMMA NoPartType == NoPart \in [len : Nat, good : BOOLEAN]
  BY DEF NoPart

LEMMA InitInv == Init => IInv
<1> SUFFICES ASSUME Init PROVE IInv
  OBVIOUS
<1>1. part \in [Files -> [len : Nat, good : BOOLEAN]]
  BY NoPartType DEF Init
<1>2. file \in [Calls -> 1..(NFiles + 1)] /\ src \in [Calls -> Sources]
  BY DownloadAssumption DEF Init, Sources
<1>3. crashes \in 0..MaxCrashes /\ deletes \in 0..MaxDeletes
  BY DownloadAssumption DEF Init
<1>4. DownloadTypeOK
  BY <1>1, <1>2, <1>3 DEF Init, DownloadTypeOK, CallStep
<1>5. FileInList /\ FlagHeld /\ OneInstall /\ RenameChecked /\ InstalledIsGood
  BY DEF Init, FileInList, FlagHeld, OneInstall, RenameChecked,
         InstalledIsGood, Working, Fetching
<1> QED BY <1>4, <1>5 DEF IInv, Typed

\* What a failing disk does: the call goes to the next source, or ends in an error.
LEMMA FaultTypes ==
  ASSUME Typed, NEW c \in Calls, DiskFails(c)
  PROVE  /\ pc[c] \in Working
         /\ UNCHANGED <<model_downloading, dest, file, got, lost, told, crashes, deletes>>
         /\ faulty' = faulty \cup {c}
         /\ src' \in [Calls -> Sources]
         /\ part' \in [Files -> [len : Nat, good : BOOLEAN]]
         /\ \/ /\ pc' = [pc EXCEPT ![c] = "request"] /\ file[c] \in Files
               /\ UNCHANGED result
            \/ /\ pc' = [pc EXCEPT ![c] = "release"]
               /\ result' = [result EXCEPT ![c] = "err"]
<1> USE DEF Typed, DownloadTypeOK, DiskFails
<1>1. CASE Return(c, "err") /\ UNCHANGED <<part, src>>
  BY <1>1 DEF Return, Goto, Working
<1>2. CASE pc[c] \in {"open", "body", "verify"} /\ NextSource(c)
  <2>1. file[c] \in Files
    BY <1>2 DEF FileInList, Fetching
  <2>2. part' \in [Files -> [len : Nat, good : BOOLEAN]]
    BY <1>2, NoPartType
  <2> QED BY <1>2, <2>1, <2>2, NextSourceTypes DEF Working
<1> QED BY <1>1, <1>2

\* No step breaks the types, nor leaves the list of files.
LEMMA TypesStep ==
  ASSUME Typed, [Next]_vars
  PROVE  Typed'
<1> USE DEF Typed, DownloadTypeOK, FileInList, Goto, Tell, CallStep, Fetching,
            disk, counts
<1> USE DownloadAssumption
<1>1. ASSUME NEW c \in Calls, Begin(c)
      PROVE  Typed'
  BY <1>1 DEF Begin
<1>2. ASSUME NEW c \in Calls, CheckInstalled(c)
      PROVE  Typed'
  BY <1>2 DEF CheckInstalled
<1>3. ASSUME NEW c \in Calls, NextFile(c)
      PROVE  Typed'
  <2>1. 1 \in Sources
    BY DEF Sources
  <2>2. file[c] <= NFiles => file[c] \in Files /\ file[c] + 1 \in 1..(NFiles + 1)
    BY DEF Files
  <2> QED BY <1>3, <2>1, <2>2 DEF NextFile, Return
<1>4. ASSUME NEW c \in Calls, Request(c)
      PROVE  Typed'
  <2>1. CASE NextSource(c) /\ UNCHANGED got
    BY <1>4, <2>1, NextSourceTypes DEF Request
  <2>2. CASE /\ got' = [got EXCEPT ![c] = IF src[c] \in NoRange THEN 0
                                          ELSE part[file[c]].len]
             /\ Goto(c, "open")
             /\ UNCHANGED <<src, result>>
    <3>1. part[file[c]].len \in Nat
      BY <1>4 DEF Request
    <3> QED BY <1>4, <2>2, <3>1 DEF Request
  <2> QED BY <1>4, <2>1, <2>2 DEF Request
<1>5. ASSUME NEW c \in Calls, Open(c)
      PROVE  Typed'
  <2>1. CASE NextSource(c) /\ UNCHANGED <<part, lost>>
    BY <1>5, <2>1, NextSourceTypes DEF Open
  <2>2. CASE Goto(c, "body")
    <3>1. part' \in [Files -> [len : Nat, good : BOOLEAN]]
      BY <1>5, <2>2, NoPartType DEF Open
    <3>2. lost' \in [Calls -> BOOLEAN]
      BY <1>5, <2>2 DEF Open
    <3>3. UNCHANGED <<src, result>>
      BY <1>5, <2>2 DEF Open, NextSource, Return
    <3> QED BY <1>5, <2>2, <3>1, <3>2, <3>3 DEF Open
  <2> QED BY <1>5, <2>1, <2>2 DEF Open
<1>6. ASSUME NEW c \in Calls, Body(c)
      PROVE  Typed'
  <2>1. CASE NextSource(c) /\ UNCHANGED <<part, got>>
    BY <1>6, <2>1, NextSourceTypes DEF Body
  <2>2. CASE UNCHANGED <<pc, src, result>>
    <3>1. part' \in [Files -> [len : Nat, good : BOOLEAN]]
      <4> DEFINE fits == /\ part[file[c]].good /\ src[c] \notin Stale
                         /\ part[file[c]].len = got[c]
      <4>1. fits \in BOOLEAN
        BY Zenon DEF fits
      <4>2. \/ part' = part
            \/ part' = [part EXCEPT ![file[c]] =
                          [len |-> part[file[c]].len + 1, good |-> fits]]
        BY <1>6, <2>2 DEF Body
      <4>3. file[c] \in Files
        BY <1>6 DEF Body
      <4>4. part[file[c]].len + 1 \in Nat
        BY <4>3
      <4> HIDE DEF fits
      <4> QED BY <4>1, <4>2, <4>3, <4>4
    <3>2. got' \in [Calls -> Nat]
      BY <1>6, <2>2 DEF Body
    <3> QED BY <1>6, <2>2, <3>1, <3>2 DEF Body
  <2>3. CASE Goto(c, "verify") /\ UNCHANGED <<part, src, got, result>>
    BY <1>6, <2>3 DEF Body
  <2> QED BY <1>6, <2>1, <2>2, <2>3 DEF Body
<1>7. ASSUME NEW c \in Calls, Verify(c)
      PROVE  Typed'
  <2>1. CASE /\ part' = [part EXCEPT ![file[c]] = NoPart]
             /\ NextSource(c)
    BY <1>7, <2>1, NextSourceTypes, NoPartType DEF Verify
  <2>2. CASE Goto(c, "rename") /\ UNCHANGED <<part, src, result>>
    BY <1>7, <2>2 DEF Verify
  <2> QED BY <1>7, <2>1, <2>2 DEF Verify
<1>8. ASSUME NEW c \in Calls, Rename(c)
      PROVE  Typed'
  <2>1. file[c] + 1 \in 1..(NFiles + 1)
    BY <1>8 DEF Rename, Files
  <2>2. CASE part[file[c]].len > 0
    <3>1. dest' \in [Files -> {"absent", "good", "bad"}]
      BY <1>8, <2>2 DEF Rename
    <3>2. part' = [part EXCEPT ![file[c]] = NoPart]
      BY <1>8, <2>2 DEF Rename
    <3>3. part' \in [Files -> [len : Nat, good : BOOLEAN]]
      BY <3>2, NoPartType
    <3>4. /\ file' = [file EXCEPT ![c] = @ + 1]
          /\ pc' = [pc EXCEPT ![c] = "file"]
          /\ UNCHANGED result
      BY <1>8, <2>2 DEF Rename
    <3>5. file' \in [Calls -> 1..(NFiles + 1)]
      BY <2>1, <3>4
    <3>6. \A d \in Calls : pc'[d] \in Fetching => file'[d] \in Files
      BY <3>4
    <3> QED BY <1>8, <3>1, <3>3, <3>4, <3>5, <3>6 DEF Rename
  <2>3. CASE part[file[c]].len = 0
    <3>1. Return(c, "err") /\ UNCHANGED <<dest, part, file>>
      BY <1>8, <2>3 DEF Rename
    <3>2. result' \in [Calls -> {"none", "ok", "err"}]
      BY <3>1 DEF Return
    <3>3. pc' = [pc EXCEPT ![c] = "release"]
      BY <3>1 DEF Return
    <3> QED BY <1>8, <3>1, <3>2, <3>3 DEF Rename
  <2> QED BY <1>8, <2>2, <2>3 DEF Rename
<1>9. ASSUME NEW c \in Calls, Release(c)
      PROVE  Typed'
  BY <1>9 DEF Release
<1>10. ASSUME NEW c \in Calls, Report(c)
       PROVE  Typed'
  BY <1>10 DEF Report
<1>11. CASE Delete
  <2>1. \A c \in Calls : (lost[c] \/ pc[c] = "body") \in BOOLEAN
    BY Zenon
  <2> QED BY <1>11, <2>1, NoPartType DEF Delete
<1>12. CASE Crash
  <2>1. pc' \in [Calls -> CallStep]
    BY <1>12 DEF Crash
  <2>2. \A c \in Calls : pc'[c] \in Fetching => FALSE
    BY <1>12 DEF Crash
  <2>3. crashes' \in 0..MaxCrashes
    BY <1>12 DEF Crash
  <2> QED BY <1>12, <2>1, <2>2, <2>3 DEF Crash
<1>13. ASSUME NEW c \in Calls, DiskFails(c)
       PROVE  Typed'
  <2>1. result' \in [Calls -> {"none", "ok", "err"}] /\ pc' \in [Calls -> CallStep]
    BY <1>13, FaultTypes
  <2>2. faulty' \subseteq Calls
    BY <1>13, FaultTypes
  <2>3. \A d \in Calls : pc'[d] \in Fetching => file'[d] \in Files
    BY <1>13, FaultTypes
  <2> QED BY <1>13, <2>1, <2>2, <2>3, FaultTypes
<1>14. CASE UNCHANGED vars
  BY <1>14 DEF vars
<1> QED
  BY <1>1, <1>2, <1>3, <1>4, <1>5, <1>6, <1>7, <1>8, <1>9, <1>10, <1>11,
     <1>12, <1>13, <1>14 DEF Next, CallRuns

-----------------------------------------------------------------------------

Safe == FlagHeld /\ OneInstall /\ RenameChecked /\ InstalledIsGood

\* A step of the call that works, to s: the others stay where they are.
LEMMA WorkerMoves ==
  ASSUME Typed, Safe, NEW c \in Calls, pc[c] \in Working, NEW s,
         pc' = [pc EXCEPT ![c] = s], UNCHANGED model_downloading
  PROVE  /\ FlagHeld' /\ OneInstall'
         /\ \A d \in Calls : d # c => pc'[d] # "rename"
<1>1. model_downloading
  BY DEF Safe, FlagHeld
<1>2. \A d \in Calls : d # c => pc[d] \notin Working
  BY DEF Safe, OneInstall
<1>3. \A d \in Calls : d # c => pc'[d] \notin Working
  BY <1>2 DEF Typed, DownloadTypeOK
<1> QED
  BY <1>1, <1>3 DEF FlagHeld, OneInstall, Working

\* The same of a step that ends the work.
LEMMA WorkerEnds ==
  ASSUME Typed, Safe, NEW c \in Calls, pc[c] \in Working, NEW s,
         s \notin Working, pc' = [pc EXCEPT ![c] = s]
  PROVE  FlagHeld' /\ OneInstall' /\ \A d \in Calls : pc'[d] # "rename"
<1>1. \A d \in Calls : d # c => pc[d] \notin Working
  BY DEF Safe, OneInstall
<1>2. \A d \in Calls : pc'[d] \notin Working
  BY <1>1 DEF Typed, DownloadTypeOK
<1> QED
  BY <1>2 DEF FlagHeld, OneInstall, Working

\* No step lets a second call work, or installs what was not checked.
LEMMA SafetyStep ==
  ASSUME Typed, Safe, [Next]_vars
  PROVE  Safe'
<1> USE DEF Goto, Tell, disk, counts
<1>1. ASSUME NEW c \in Calls, Begin(c)
      PROVE  Safe'
  <2>1. UNCHANGED <<dest, part, file>>
    BY <1>1 DEF Begin
  <2>2. CASE ~model_downloading /\ model_downloading' = TRUE
             /\ pc' = [pc EXCEPT ![c] = "check"]
    <3>1. \A d \in Calls : pc[d] \notin Working
      BY <2>2 DEF Safe, FlagHeld
    <3>2. \A d \in Calls : d # c => pc'[d] \notin Working
      BY <2>2, <3>1 DEF Typed, DownloadTypeOK
    <3>3. pc'[c] = "check"
      BY <2>2 DEF Typed, DownloadTypeOK
    <3>4. FlagHeld' /\ OneInstall'
      BY <2>2, <3>2 DEF FlagHeld, OneInstall
    <3>5. \A d \in Calls : pc'[d] # "rename"
      BY <3>2, <3>3 DEF Working
    <3> QED
      BY <2>1, <3>4, <3>5 DEF Safe, RenameChecked, InstalledIsGood
  <2>3. CASE UNCHANGED model_downloading /\ pc' = [pc EXCEPT ![c] = "done"]
    <3>1. \A d \in Calls : pc'[d] = pc[d] \/ pc'[d] = "done"
      BY <2>3 DEF Typed, DownloadTypeOK
    <3> QED
      BY <2>1, <2>3, <3>1
      DEF Safe, FlagHeld, OneInstall, RenameChecked, InstalledIsGood, Working,
          Verified
  <2> QED BY <1>1, <2>2, <2>3 DEF Begin
<1>2. ASSUME NEW c \in Calls, CheckInstalled(c)
      PROVE  Safe'
  <2>1. pc[c] \in Working /\ UNCHANGED <<dest, part, file>>
    BY <1>2 DEF CheckInstalled, Working
  <2>2. CASE pc' = [pc EXCEPT ![c] = "done"]
    <3>1. "done" \notin Working
      BY DEF Working
    <3> QED
      BY <2>1, <2>2, <3>1, WorkerEnds DEF Safe, RenameChecked, InstalledIsGood
  <2>3. CASE UNCHANGED model_downloading /\ pc' = [pc EXCEPT ![c] = "file"]
    <3>1. FlagHeld' /\ OneInstall' /\ \A d \in Calls : d # c => pc'[d] # "rename"
      BY <2>1, <2>3, WorkerMoves
    <3>2. pc'[c] # "rename"
      BY <2>3 DEF Typed, DownloadTypeOK
    <3> QED
      BY <2>1, <3>1, <3>2 DEF Safe, RenameChecked, InstalledIsGood
  <2> QED BY <1>2, <2>2, <2>3 DEF CheckInstalled
<1>3. ASSUME NEW c \in Calls,
             NextFile(c) \/ Request(c) \/ Open(c) \/ Body(c)
      PROVE  Safe'
  <2>1. /\ pc[c] \in Working
        /\ UNCHANGED <<dest, model_downloading>>
        /\ \E s \in {"file", "release", "request", "open", "body", "verify"} :
              pc' = [pc EXCEPT ![c] = s]
    <3>1. CASE NextFile(c)
      <4>1. pc[c] = "file" /\ UNCHANGED <<dest, model_downloading>>
        BY <3>1 DEF NextFile
      <4>2. UNCHANGED pc => pc' = [pc EXCEPT ![c] = "file"]
        BY <4>1 DEF Typed, DownloadTypeOK
      <4> QED BY <3>1, <4>1, <4>2 DEF NextFile, Return, Working
    <3>2. CASE Request(c)
      BY <3>2, NextSourceTypes DEF Request, Working, Typed
    <3>3. CASE Open(c)
      BY <3>3, NextSourceTypes DEF Open, Working, Typed
    <3>4. CASE Body(c)
      <4>1. pc[c] = "body" /\ UNCHANGED <<dest, model_downloading>>
        BY <3>4 DEF Body
      <4>2. UNCHANGED pc => pc' = [pc EXCEPT ![c] = "body"]
        BY <4>1 DEF Typed, DownloadTypeOK
      <4> QED BY <3>4, <4>1, <4>2, NextSourceTypes DEF Body, Working, Typed
    <3> QED BY <1>3, <3>1, <3>2, <3>3, <3>4
  <2>2. FlagHeld' /\ OneInstall' /\ \A d \in Calls : d # c => pc'[d] # "rename"
    BY <2>1, WorkerMoves
  <2>3. pc'[c] # "rename"
    BY <2>1 DEF Typed, DownloadTypeOK
  <2> QED
    BY <2>1, <2>2, <2>3 DEF Safe, RenameChecked, InstalledIsGood
<1>4. ASSUME NEW c \in Calls, Verify(c)
      PROVE  Safe'
  <2>1. /\ pc[c] \in Working
        /\ UNCHANGED <<dest, file, model_downloading>>
        /\ \/ pc' = [pc EXCEPT ![c] = "request"]
           \/ pc' = [pc EXCEPT ![c] = "release"]
           \/ /\ pc' = [pc EXCEPT ![c] = "rename"]
              /\ Verified(file[c]) /\ UNCHANGED part
    BY <1>4, NextSourceTypes DEF Verify, Working, Typed
  <2>2. FlagHeld' /\ OneInstall' /\ \A d \in Calls : d # c => pc'[d] # "rename"
    BY <2>1, WorkerMoves
  <2>3. pc'[c] = "rename" => Verified(file[c])'
    BY <2>1 DEF Typed, DownloadTypeOK, Verified
  <2> QED
    BY <2>1, <2>2, <2>3 DEF Safe, RenameChecked, InstalledIsGood
<1>5. ASSUME NEW c \in Calls, Rename(c)
      PROVE  Safe'
  <2>1. /\ pc[c] \in Working /\ UNCHANGED model_downloading
        /\ \/ pc' = [pc EXCEPT ![c] = "file"]
           \/ pc' = [pc EXCEPT ![c] = "release"]
    BY <1>5 DEF Rename, Return, Working
  <2>2. FlagHeld' /\ OneInstall' /\ \A d \in Calls : d # c => pc'[d] # "rename"
    BY <2>1, WorkerMoves
  <2>3. pc'[c] # "rename"
    BY <2>1 DEF Typed, DownloadTypeOK
  <2>4. part[file[c]].len = 0 \/ Verified(file[c])
    BY <1>5 DEF Rename, Safe, RenameChecked
  <2>5. InstalledIsGood'
    <3>1. CASE part[file[c]].len > 0
      <4>1. dest' = [dest EXCEPT ![file[c]] = "good"]
        BY <1>5, <2>4, <3>1 DEF Rename, Verified
      <4> QED BY <4>1 DEF Safe, InstalledIsGood, Typed, DownloadTypeOK
    <3>2. CASE part[file[c]].len = 0
      BY <1>5, <3>2 DEF Rename, Safe, InstalledIsGood
    <3> QED BY <1>5, <3>1, <3>2 DEF Rename
  <2> QED
    BY <2>2, <2>3, <2>5 DEF Safe, RenameChecked
<1>6. ASSUME NEW c \in Calls, Release(c)
      PROVE  Safe'
  <2>1. pc[c] \in Working /\ "report" \notin Working /\ UNCHANGED <<dest, part, file>>
        /\ pc' = [pc EXCEPT ![c] = "report"]
    BY <1>6 DEF Release, Working
  <2> QED
    BY <2>1, WorkerEnds DEF Safe, RenameChecked, InstalledIsGood
<1>7. ASSUME NEW c \in Calls, Report(c)
      PROVE  Safe'
  <2>1. /\ UNCHANGED <<dest, part, file, model_downloading>>
        /\ \A d \in Calls : pc'[d] = pc[d] \/ pc'[d] \in {"done", "panicked"}
    BY <1>7 DEF Report, Typed, DownloadTypeOK
  <2> QED
    BY <2>1
    DEF Safe, FlagHeld, OneInstall, RenameChecked, InstalledIsGood, Working,
        Verified
<1>8. CASE Delete
  <2>1. \A f \in Files : dest'[f] = "absent" /\ part'[f].len = 0
    BY <1>8 DEF Delete, NoPart
  <2>2. UNCHANGED <<pc, file, model_downloading>>
    BY <1>8 DEF Delete
  <2>3. \A c \in Calls : pc[c] = "rename" => file[c] \in Files
    BY DEF Typed, FileInList, Fetching
  <2> QED
    BY <2>1, <2>2, <2>3
    DEF Safe, FlagHeld, OneInstall, RenameChecked, InstalledIsGood
<1>9. CASE Crash
  <2>1. \A c \in Calls : pc'[c] \notin Working
    BY <1>9 DEF Crash, Working
  <2>2. UNCHANGED dest
    BY <1>9 DEF Crash
  <2> QED
    BY <2>1, <2>2
    DEF Safe, FlagHeld, OneInstall, RenameChecked, InstalledIsGood, Working
<1>10. CASE UNCHANGED vars
  BY <1>10
  DEF vars, Safe, FlagHeld, OneInstall, RenameChecked, InstalledIsGood, Verified
<1>11. ASSUME NEW c \in Calls, DiskFails(c)
       PROVE  Safe'
  <2>1. /\ pc[c] \in Working
        /\ UNCHANGED <<dest, file, model_downloading>>
        /\ \E s \in {"request", "release"} : pc' = [pc EXCEPT ![c] = s]
    BY <1>11, FaultTypes
  <2>2. FlagHeld' /\ OneInstall' /\ \A d \in Calls : d # c => pc'[d] # "rename"
    BY <2>1, WorkerMoves
  <2>3. pc'[c] # "rename"
    BY <2>1 DEF Typed, DownloadTypeOK
  <2> QED
    BY <2>1, <2>2, <2>3 DEF Safe, RenameChecked, InstalledIsGood
<1> QED
  BY <1>1, <1>2, <1>3, <1>4, <1>5, <1>6, <1>7, <1>8, <1>9, <1>10, <1>11
  DEF Next, CallRuns

-----------------------------------------------------------------------------

\* The inductive invariant holds in every reachable state.
LEMMA Invariance == Spec => []IInv
<1>1. IInv /\ [Next]_vars => IInv'
  BY TypesStep, SafetyStep DEF IInv, Safe
<1> QED
  BY InitInv, <1>1, PTL DEF Spec

\* Every variable keeps its type, for any calls, files, sources and chunks.
THEOREM DownloadTyping == Spec => []DownloadTypeOK
<1>1. IInv => DownloadTypeOK
  BY DEF IInv, Typed
<1> QED
  BY Invariance, <1>1, PTL

\* The compare-exchange on model_downloading, and the order in which the task
\* gives it back, keep two installs apart (OneInstall), crashes included.
THEOREM InstallsAreExclusive == Spec => []OneInstall
<1>1. IInv => OneInstall
  BY DEF IInv
<1> QED
  BY Invariance, <1>1, PTL

\* No file is ever installed that failed its SHA256 (InstalledIsGood), whatever
\* was resumed, from whichever source, after any crashes and deletions.
THEOREM InstalledFilesAreGood == Spec => []InstalledIsGood
<1>1. IInv => InstalledIsGood
  BY DEF IInv
<1> QED
  BY Invariance, <1>1, PTL

\* One install at a time, and nothing bad from it (OneGoodInstall).
THEOREM InstallsAreGood == Spec => []OneGoodInstall
<1>1. IInv => OneGoodInstall
  BY DEF IInv, OneGoodInstall
<1> QED
  BY <1>1, Invariance, PTL

-----------------------------------------------------------------------------
(* What is reported. *)

\* Unless the user deletes, the files before the one a task is at are there, and
\* all of them are once it has come to the end of the list.
ListDone ==
  deletes = 0 =>
    \A c \in Calls :
      /\ \A f \in Files : f < file[c] => Installed(f)
      /\ result[c] = "ok" => \A f \in Files : Installed(f)

\* Only a deletion takes a file away; a task leaves a file behind it that is
\* there, and ends well only behind the last.
LEMMA FilesPass ==
  ASSUME Typed, [Next]_vars, deletes' = 0
  PROVE  /\ deletes = 0
         /\ \A f \in Files : Installed(f) => Installed(f)'
         /\ \A c \in Calls :
              /\ \/ file'[c] = file[c]
                 \/ file[c] \in Files /\ file'[c] = file[c] + 1 /\ dest'[file[c]] # "absent"
              /\ result'[c] = "ok" => result[c] = "ok" \/ file[c] > NFiles
<1> USE DEF Typed, DownloadTypeOK, disk, counts
<1>1. ASSUME NEW c \in Calls, Begin(c) \/ CheckInstalled(c) \/ Release(c) \/ Report(c)
      PROVE  UNCHANGED <<deletes, dest, file, result>>
  BY <1>1, Zenon DEF Begin, CheckInstalled, Release, Report
<1>2. ASSUME NEW c \in Calls, NextFile(c)
      PROVE  /\ UNCHANGED <<deletes, dest>>
             /\ \/ file' = file
                \/ /\ file[c] \in Files /\ Installed(file[c])
                   /\ file' = [file EXCEPT ![c] = @ + 1]
             /\ \/ result' = result
                \/ file[c] > NFiles /\ result' = [result EXCEPT ![c] = "ok"]
  BY <1>2 DEF NextFile, Return, Files
<1>3. ASSUME NEW c \in Calls, Request(c) \/ Open(c) \/ Body(c) \/ Verify(c)
      PROVE  /\ UNCHANGED <<deletes, dest, file>>
             /\ result' = result \/ result' = [result EXCEPT ![c] = "err"]
  <2>1. UNCHANGED <<deletes, dest, file>> /\ (UNCHANGED result \/ NextSource(c))
    BY <1>3, Zenon DEF Request, Open, Body, Verify
  <2> QED BY <2>1, NextSourceTypes
<1>4. ASSUME NEW c \in Calls, Rename(c)
      PROVE  /\ UNCHANGED deletes
             /\ \/ /\ file[c] \in Files /\ result' = result
                   /\ file' = [file EXCEPT ![c] = @ + 1]
                   /\ \E d \in {"good", "bad"} : dest' = [dest EXCEPT ![file[c]] = d]
                \/ /\ UNCHANGED <<dest, file>>
                   /\ result' = [result EXCEPT ![c] = "err"]
  <2>1. file[c] \in Files
    BY <1>4 DEF FileInList, Fetching, Rename
  <2> QED BY <1>4, <2>1 DEF Rename, Return
<1>5. CASE Delete
  BY <1>5, DownloadAssumption DEF Delete
<1>6. CASE Crash \/ UNCHANGED vars
  <2>1. UNCHANGED <<deletes, dest, file, result>>
    BY <1>6, Zenon DEF Crash, vars
  <2> QED BY <2>1 DEF Installed
<1>7. ASSUME NEW c \in Calls, Begin(c) \/ CallRuns(c)
      PROVE  /\ deletes = 0
             /\ \A f \in Files : Installed(f) => Installed(f)'
             /\ \A d \in Calls :
                  /\ \/ file'[d] = file[d]
                     \/ file[d] \in Files /\ file'[d] = file[d] + 1 /\ dest'[file[d]] # "absent"
                  /\ result'[d] = "ok" => result[d] = "ok" \/ file[d] > NFiles
  <2>1. CASE Begin(c) \/ CheckInstalled(c) \/ Release(c) \/ Report(c)
    BY <1>1, <2>1 DEF Installed
  <2>2. CASE NextFile(c)
    BY <1>2, <2>2 DEF Installed
  <2>3. CASE Request(c) \/ Open(c) \/ Body(c) \/ Verify(c)
    BY <1>3, <2>3 DEF Installed
  <2>4. CASE Rename(c)
    BY <1>4, <2>4 DEF Installed
  <2> QED BY <1>7, <2>1, <2>2, <2>3, <2>4 DEF CallRuns
<1>8. ASSUME NEW c \in Calls, DiskFails(c)
      PROVE  /\ deletes = 0
             /\ \A f \in Files : Installed(f) => Installed(f)'
             /\ file' = file
             /\ \A d \in Calls : result'[d] = "ok" => result[d] = "ok"
  BY <1>8, FaultTypes DEF Installed
<1> QED BY <1>5, <1>6, <1>7, <1>8, Zenon DEF Next

LEMMA ListDoneStep == Typed /\ ListDone /\ [Next]_vars => ListDone'
<1> SUFFICES ASSUME Typed, ListDone, [Next]_vars, deletes' = 0
             PROVE  \A c \in Calls :
                      /\ \A f \in Files : f < file'[c] => Installed(f)'
                      /\ result'[c] = "ok" => \A f \in Files : Installed(f)'
  BY DEF ListDone
<1> TAKE c \in Calls
<1>1. /\ \A f \in Files : f < file[c] => Installed(f)
      /\ result[c] = "ok" => \A f \in Files : Installed(f)
  BY FilesPass DEF ListDone
<1>2. ASSUME NEW f \in Files, f < file'[c]
      PROVE  Installed(f)'
  <2>1. f \in Nat /\ file[c] \in Nat
    BY DownloadAssumption DEF Files, Typed, DownloadTypeOK
  <2>2. f < file[c] \/ dest'[f] # "absent"
    BY <1>2, <2>1, FilesPass
  <2> QED BY <1>1, <2>2, FilesPass DEF Installed
<1>3. ASSUME result'[c] = "ok", NEW f \in Files
      PROVE  Installed(f)'
  <2>1. f \in Nat /\ f <= NFiles /\ file[c] \in Nat
    BY DownloadAssumption DEF Files, Typed, DownloadTypeOK
  <2>2. result[c] = "ok" \/ f < file[c]
    BY <1>3, <2>1, FilesPass, DownloadAssumption
  <2> QED BY <1>1, <2>2, FilesPass
<1> QED BY <1>2, <1>3

\* Whoever reports success has found every file, or come to the end of the list.
LEMMA ReportStep ==
  Typed /\ ListDone /\ [Next]_vars =>
    [\A c \in Calls : told'[c] = "complete" /\ told[c] # "complete"
       => deletes > 0 \/ \A f \in Files : Installed(f)]_vars
<1> SUFFICES ASSUME Typed, ListDone, Next, NEW c \in Calls,
                    told'[c] = "complete", told[c] # "complete"
             PROVE  deletes > 0 \/ \A f \in Files : Installed(f)
  OBVIOUS
<1>1. deletes = 0 \/ deletes > 0
  BY DownloadAssumption DEF Typed, DownloadTypeOK
<1>2. PICK d \in Calls : CheckInstalled(d) \/ Report(d) \/ Begin(d)
  BY Zenon DEF Next, CallRuns, NextFile, Request, Open, Body, Verify, Rename, Release,
               DiskFails, Delete, Crash
<1>3. d = c \/ told'[c] = told[c]
  BY <1>2 DEF CheckInstalled, Report, Begin, Tell, Typed, DownloadTypeOK
<1>4. CheckInstalled(c) \/ Report(c) \/ Begin(c)
  BY <1>2, <1>3
<1>5. (\A f \in Files : Installed(f)) \/ result[c] = "ok"
  BY <1>4 DEF CheckInstalled, Report, Begin, Tell, Typed, DownloadTypeOK
<1> QED BY <1>1, <1>5 DEF ListDone

\* A report of success is true when it is made (ReportIsTrue).
THEOREM ReportsAreTrue == Spec => ReportIsTrue
<1>1. Init => ListDone
  BY DownloadAssumption DEF Init, ListDone, Files
<1>2. IInv /\ ListDone /\ [Next]_vars => ListDone'
  BY ListDoneStep DEF IInv
<1>3. IInv /\ ListDone /\ [Next]_vars =>
        [\A c \in Calls : told'[c] = "complete" /\ told[c] # "complete"
           => deletes > 0 \/ \A f \in Files : Installed(f)]_vars
  BY ReportStep DEF IInv
<1> QED BY <1>1, <1>2, <1>3, Invariance, PTL DEF Spec, ReportIsTrue

-----------------------------------------------------------------------------
(* Failover. *)

\* The sources that never break off, and send the whole file and the right one.
Sound == NoRange \ (Cuts \cup Stale)

\* While nothing is deleted and its disk does not fail, a call comes to the sound
\* source s at the latest; there it starts from nothing, and what it has counted is what is in the .part.
ComesTo(s, c) ==
  /\ result[c] # "err"
  /\ pc[c] \in {"request", "open", "body", "verify"} => src[c] <= s
  /\ pc[c] = "open" /\ src[c] = s => got[c] = 0
  /\ pc[c] \in {"body", "verify"} => ~lost[c]
  /\ pc[c] \in {"body", "verify"} /\ src[c] = s =>
       part[file[c]].good /\ part[file[c]].len = got[c] /\ got[c] <= Size
  /\ pc[c] = "verify" /\ src[c] = s => got[c] = Size
  /\ pc[c] = "rename" => Verified(file[c])

Failover == deletes = 0 => \A s \in Sound, c \in Calls \ faulty : ComesTo(s, c)

\* The next source: as far as the sound one, and never beyond.
LEMMA NextSourceComes ==
  ASSUME Typed, NEW s \in Sound, NEW c \in Calls, src[c] <= s, src[c] # s, NextSource(c)
  PROVE  /\ UNCHANGED result
         /\ pc' = [pc EXCEPT ![c] = "request"] /\ src' = [src EXCEPT ![c] = @ + 1]
         /\ src[c] + 1 <= s
<1>1. src[c] \in Nat /\ s \in Nat /\ s <= NSources /\ NSources \in Nat
  BY DownloadAssumption DEF Sound, Sources, Typed, DownloadTypeOK
<1>2. src[c] < NSources
  BY <1>1
<1> QED BY <1>1, <1>2 DEF NextSource, Goto

\* The steps of the call itself.
LEMMA RequestComes ==
  ASSUME Typed, NEW s \in Sound, NEW c \in Calls, ComesTo(s, c), Request(c)
  PROVE  ComesTo(s, c)'
<1> USE DEF Typed, DownloadTypeOK, disk, counts
<1>1. pc[c] = "request" /\ src[c] <= s /\ result[c] # "err"
  BY DEF Request, ComesTo
<1>2. CASE NextSource(c) /\ UNCHANGED got
  <2>1. src[c] # s
    <3> SUFFICES ASSUME src[c] = s PROVE FALSE
      OBVIOUS
    <3>1. s \in NoRange /\ s \notin Cuts /\ pc'[c] # "open"
      BY <1>2, NextSourceTypes DEF Sound
    <3> QED BY <3>1 DEF Request, Goto
  <2>2. pc'[c] = "request" /\ src'[c] <= s /\ result'[c] # "err"
    BY <1>1, <1>2, <2>1, NextSourceComes
  <2> QED BY <2>2 DEF ComesTo
<1>3. CASE /\ got' = [got EXCEPT ![c] = IF src[c] \in NoRange THEN 0
                                        ELSE part[file[c]].len]
           /\ Goto(c, "open")
           /\ UNCHANGED <<src, result>>
  <2>1. pc'[c] = "open" /\ src'[c] = src[c] /\ result'[c] # "err"
    BY <1>1, <1>3 DEF Goto
  <2>2. src[c] = s => got'[c] = 0
    BY <1>3 DEF Sound
  <2> QED BY <1>1, <2>1, <2>2 DEF ComesTo
<1> QED BY <1>2, <1>3 DEF Request

LEMMA OpenComes ==
  ASSUME Typed, deletes = 0, NEW s \in Sound, NEW c \in Calls, ComesTo(s, c), Open(c)
  PROVE  ComesTo(s, c)'
<1> USE DEF Typed, DownloadTypeOK
<1>1. /\ pc[c] = "open" /\ src[c] <= s /\ result[c] # "err"
      /\ src[c] = s => got[c] = 0
  BY DEF Open, ComesTo
<1>2. /\ part' = IF got[c] = 0 THEN [part EXCEPT ![file[c]] = NoPart] ELSE part
      /\ lost' = [lost EXCEPT ![c] = FALSE]
      /\ Goto(c, "body")
      /\ UNCHANGED <<src, result, file, got>>
  BY DEF Open
<1>3. pc'[c] = "body" /\ src'[c] = src[c] /\ result'[c] # "err" /\ ~lost'[c]
  BY <1>1, <1>2 DEF Goto
<1>4. src[c] = s => part'[file[c]] = NoPart /\ got'[c] = 0
  BY <1>1, <1>2 DEF FileInList, Fetching
<1>5. NoPart.good /\ NoPart.len = 0 /\ 0 <= Size
  BY DownloadAssumption DEF NoPart
<1>6. file'[c] = file[c]
  BY <1>2
<1> QED BY <1>1, <1>3, <1>4, <1>5, <1>6 DEF ComesTo

LEMMA BodyComes ==
  ASSUME Typed, NEW s \in Sound, NEW c \in Calls, ComesTo(s, c), Body(c)
  PROVE  ComesTo(s, c)'
<1> USE DEF Typed, DownloadTypeOK
<1>1. /\ pc[c] = "body" /\ src[c] <= s /\ result[c] # "err" /\ ~lost[c]
      /\ src[c] = s =>
           part[file[c]].good /\ part[file[c]].len = got[c] /\ got[c] <= Size
  BY DEF Body, ComesTo
<1>2. UNCHANGED <<file, lost>> /\ file[c] \in Files
  BY <1>1 DEF Body, FileInList, Fetching
<1>3. CASE /\ got[c] < ServedSize(src[c])
           /\ got' = [got EXCEPT ![c] = @ + 1]
           /\ part' = IF lost[c] THEN part
                      ELSE [part EXCEPT ![file[c]] =
                              [len |-> @.len + 1,
                               good |-> /\ @.good /\ src[c] \notin Stale
                                        /\ @.len = got[c]]]
           /\ UNCHANGED <<pc, src, result>>
  <2>1. pc'[c] = "body" /\ src'[c] = src[c] /\ result'[c] # "err" /\ ~lost'[c]
    BY <1>1, <1>2, <1>3
  <2>2. ASSUME src[c] = s
        PROVE  part'[file'[c]].good /\ part'[file'[c]].len = got'[c] /\ got'[c] <= Size
    <3>1. s \notin Stale /\ ServedSize(s) = Size
      BY DEF Sound, ServedSize
    <3>2. part'[file[c]] = [len |-> got[c] + 1, good |-> TRUE]
      BY <1>1, <1>2, <1>3, <2>2, <3>1
    <3>3. got'[c] = got[c] + 1 /\ got[c] < Size /\ got[c] \in Nat
      BY <1>3, <2>2, <3>1
    <3> QED BY <1>2, <3>2, <3>3, DownloadAssumption
  <2> QED BY <1>1, <2>1, <2>2 DEF ComesTo
<1>4. CASE /\ got[c] = ServedSize(src[c])
           /\ Goto(c, "verify")
           /\ UNCHANGED <<part, src, got, result>>
  <2>1. /\ pc'[c] = "verify" /\ src'[c] = src[c] /\ result'[c] # "err" /\ ~lost'[c]
        /\ part'[file'[c]] = part[file[c]] /\ got'[c] = got[c]
    BY <1>1, <1>2, <1>4 DEF Goto
  <2>2. src[c] = s => got[c] = Size
    BY <1>4 DEF Sound, ServedSize
  <2> QED BY <1>1, <2>1, <2>2 DEF ComesTo
<1>5. CASE src[c] \in Cuts /\ NextSource(c)
  <2>1. src[c] # s
    BY <1>5 DEF Sound
  <2>2. pc'[c] = "request" /\ src'[c] <= s /\ result'[c] # "err"
    BY <1>1, <1>5, <2>1, NextSourceComes
  <2> QED BY <2>2 DEF ComesTo
<1> QED BY <1>3, <1>4, <1>5 DEF Body

LEMMA VerifyComes ==
  ASSUME Typed, NEW s \in Sound, NEW c \in Calls, ComesTo(s, c), Verify(c)
  PROVE  ComesTo(s, c)'
<1> USE DEF Typed, DownloadTypeOK
<1>1. /\ pc[c] = "verify" /\ src[c] <= s /\ result[c] # "err"
      /\ src[c] = s => Verified(file[c])
  BY DEF Verify, ComesTo, Verified
<1>2. CASE Verified(file[c]) /\ Goto(c, "rename") /\ UNCHANGED <<part, src, result>>
  <2>1. pc'[c] = "rename" /\ result'[c] # "err" /\ file' = file
    BY <1>1, <1>2 DEF Goto, Verify
  <2>2. Verified(file[c])'
    BY <1>2, <2>1 DEF Verified
  <2> QED BY <2>1, <2>2 DEF ComesTo
<1>3. CASE ~Verified(file[c]) /\ NextSource(c)
  <2>1. pc'[c] = "request" /\ src'[c] <= s /\ result'[c] # "err"
    BY <1>1, <1>3, NextSourceComes
  <2> QED BY <2>1 DEF ComesTo
<1> QED BY <1>2, <1>3 DEF Verify

LEMMA RestComes ==
  ASSUME Typed, NEW s \in Sound, NEW c \in Calls, ComesTo(s, c),
         CheckInstalled(c) \/ NextFile(c) \/ Rename(c) \/ Release(c) \/ Report(c) \/ Begin(c)
  PROVE  ComesTo(s, c)'
<1> USE DEF Typed, DownloadTypeOK, Goto
<1>1. result[c] # "err"
  BY DEF ComesTo
<1>2. CASE CheckInstalled(c) \/ Release(c) \/ Report(c) \/ Begin(c)
  <2>1. pc'[c] \in {"done", "file", "report", "panicked", "check"} /\ result'[c] # "err"
    BY <1>1, <1>2 DEF CheckInstalled, Release, Report, Begin
  <2> QED BY <2>1 DEF ComesTo
<1>3. CASE NextFile(c)
  <2>1. CASE src' = [src EXCEPT ![c] = 1] /\ Goto(c, "request") /\ UNCHANGED result
    <3>1. 1 <= s
      BY DownloadAssumption DEF Sound, Sources
    <3> QED BY <1>1, <2>1, <3>1 DEF ComesTo
  <2>2. CASE Return(c, "ok") \/ UNCHANGED <<pc, result>>
    <3>1. pc'[c] \in {"release", "file"} /\ result'[c] # "err"
      BY <1>1, <1>3, <2>2 DEF Return, NextFile
    <3> QED BY <3>1 DEF ComesTo
  <2> QED BY <1>3, <2>1, <2>2 DEF NextFile
<1>4. CASE Rename(c)
  <2>1. Verified(file[c])
    BY <1>4 DEF Rename, ComesTo
  <2>2. part[file[c]].len > 0
    BY <2>1, DownloadAssumption DEF Verified
  <2>3. pc'[c] = "file" /\ result'[c] # "err"
    BY <1>1, <1>4, <2>2 DEF Rename
  <2> QED BY <2>3 DEF ComesTo
<1> QED BY <1>2, <1>3, <1>4

\* A step of c leaves another call where it is: it is not at work, or c was not.
LEMMA OthersCome ==
  ASSUME Typed, OneInstall, NEW s, NEW c \in Calls, NEW d \in Calls, d # c,
         ComesTo(s, d), Begin(c) \/ CallRuns(c)
  PROVE  ComesTo(s, d)'
<1> USE DEF Typed, DownloadTypeOK, Goto, disk, counts
<1>1. result[d] # "err"
  BY DEF ComesTo
<1>2. CASE Begin(c) \/ Report(c)
  <2>1. /\ UNCHANGED <<part, file, src, got, lost, result>>
        /\ pc'[d] = pc[d]
    BY <1>2 DEF Begin, Report
  <2> QED BY <2>1 DEF ComesTo, Verified
<1>3. CASE CheckInstalled(c) \/ NextFile(c) \/ Request(c) \/ Open(c) \/ Body(c)
           \/ Verify(c) \/ Rename(c) \/ Release(c)
  <2>1. pc[c] \in Working
    BY <1>3 DEF CheckInstalled, NextFile, Request, Open, Body, Verify, Rename, Release,
                Working
  <2>2. pc[d] \notin Working
    BY <2>1 DEF OneInstall
  <2>3. pc'[d] = pc[d] /\ result'[d] = result[d]
    <3>1. CASE CheckInstalled(c) \/ NextFile(c) \/ Rename(c) \/ Release(c)
      BY <3>1 DEF CheckInstalled, NextFile, Rename, Release, Return
    <3>2. CASE Request(c) \/ Open(c) \/ Body(c) \/ Verify(c)
      BY <3>2, NextSourceTypes DEF Request, Open, Body, Verify
    <3> QED BY <1>3, <3>1, <3>2
  <2>4. pc'[d] \notin Working /\ result'[d] # "err"
    BY <1>1, <2>2, <2>3
  <2> QED BY <2>4 DEF ComesTo, Working
<1> QED BY <1>2, <1>3 DEF CallRuns

\* Nor does a disk that fails another call.
LEMMA FaultComes ==
  ASSUME Typed, OneInstall, NEW s, NEW c \in Calls, NEW d \in Calls, d # c,
         ComesTo(s, d), DiskFails(c)
  PROVE  ComesTo(s, d)'
<1>1. pc[d] \notin Working
  BY FaultTypes DEF OneInstall
<1>2. pc'[d] = pc[d] /\ result'[d] = result[d]
  BY FaultTypes DEF Typed, DownloadTypeOK
<1> QED BY <1>1, <1>2 DEF ComesTo, Working

LEMMA FailoverStep == IInv /\ Failover /\ [Next]_vars => Failover'
<1> SUFFICES ASSUME IInv, Failover, [Next]_vars, deletes' = 0, NEW s \in Sound,
                    NEW c \in Calls, c \notin faulty'
             PROVE  ComesTo(s, c)'
  BY DEF Failover
<1>0. c \notin faulty
  <2>1. ASSUME NEW d \in Calls, DiskFails(d) PROVE faulty' = faulty \cup {d}
    BY <2>1 DEF DiskFails
  <2>2. CASE \/ UNCHANGED vars \/ Delete \/ Crash
             \/ \E d \in Calls : Begin(d) \/ CallRuns(d)
    <3>1. faulty' = faulty
      BY <2>2, Zenon
         DEF vars, counts, Delete, Crash, Begin, CallRuns, CheckInstalled, NextFile,
             Request, Open, Body, Verify, Rename, Release, Report
    <3> QED BY <3>1
  <2> QED BY <2>1, <2>2, Zenon DEF Next
<1>1. deletes = 0
  BY FilesPass DEF IInv
<1>2. ComesTo(s, c)
  BY <1>0, <1>1 DEF Failover
<1>3. ASSUME NEW d \in Calls, Begin(d) \/ CallRuns(d)
      PROVE  ComesTo(s, c)'
  <2>1. CASE d = c
    BY <1>1, <1>2, <1>3, <2>1, RequestComes, OpenComes, BodyComes, VerifyComes, RestComes
       DEF CallRuns, IInv
  <2>2. CASE d # c
    BY <1>2, <1>3, <2>2, OthersCome DEF IInv
  <2> QED BY <2>1, <2>2
<1>4. CASE Crash
  <2>1. pc'[c] \notin Working /\ UNCHANGED result
    BY <1>4 DEF Crash, Working
  <2> QED BY <1>2, <2>1 DEF ComesTo, Working
<1>5. CASE UNCHANGED vars
  BY <1>2, <1>5 DEF vars, ComesTo, Verified
<1>6. ~Delete
  BY <1>1 DEF Delete
<1>7. ASSUME NEW d \in Calls, DiskFails(d)
      PROVE  ComesTo(s, c)'
  <2>1. d # c
    BY <1>7, FaultTypes DEF IInv
  <2> QED BY <1>2, <1>7, <2>1, FaultComes DEF IInv
<1> QED BY <1>3, <1>4, <1>5, <1>6, <1>7, Zenon DEF Next

\* One sound source is enough for an install that neither a deletion nor its disk
\* disturbs, however the others refuse, break off or lie, and whatever .part a crash
\* or a failed install has left.
THEOREM FailoverAlwaysInstalls == Spec => []FailoverInstalls
<1>1. Init => Failover
  <2> SUFFICES ASSUME Init, NEW s \in Sound, NEW c \in Calls PROVE ComesTo(s, c)
    BY DEF Failover
  <2>1. pc[c] = "idle" /\ result[c] = "none"
    BY DEF Init
  <2> QED BY <2>1 DEF ComesTo
<1>2. IInv /\ Failover => FailoverInstalls
  BY DEF Failover, FailoverInstalls, Sound, ComesTo
<1> QED BY <1>1, <1>2, FailoverStep, Invariance, PTL DEF Spec

=============================================================================
