--------------------------- MODULE InstallerProofs ---------------------------
(***************************************************************************)
(* Proofs about Installer, for releases of any size and any number of      *)
(* versions.                                                               *)
(***************************************************************************)
EXTENDS Installer, TLAPS

\* A new process runs what was started last, and starts from scratch.
ProcessIsLast ==
    /\ Starts(last)
    /\ running # 0 => running = last.version
    /\ running = 0 => step = "idle"

\* Before the backup that is the executable ...
ExeUntilBackup ==
    running # 0 /\ step \in {"idle", "download", "verify", "backup"} => exe = last

\* ... after it the backup, and in the end it is one of them.
BackupAfterwards ==
    /\ step \in {"move", "copy", "chmod", "restart"} => backup = last
    /\ exe = last \/ backup = last

\* A chunk is on its way to the executable only once the download is in its place.
LateIsInPlace ==
    /\ late \in {"none", "update", "exe"}
    /\ late = "exe" => step \in {"chmod", "restart", "failed"} /\ backup = last

NotLost == ProcessIsLast /\ ExeUntilBackup /\ BackupAfterwards /\ LateIsInPlace

LEMMA NotLostStep ==
  ASSUME NotLost, [Next]_vars
  PROVE  NotLost'
<1> USE DEF NotLost, ProcessIsLast, ExeUntilBackup, BackupAfterwards, LateIsInPlace,
        At, Then, Run, Die, NewProcess, vars, download, files
<1>1. CASE Begin
  BY <1>1 DEF Begin
<1>2. CASE BeginFails
  BY <1>2 DEF BeginFails, Fail
<1>3. CASE Chunk
  BY <1>3 DEF Chunk
<1>4. CASE ChunkFails
  BY <1>4 DEF ChunkFails, Fail
<1>5. CASE EndOfBody
  BY <1>5 DEF EndOfBody
<1>6. CASE WrongLength
  BY <1>6 DEF WrongLength, Fail
<1>7. CASE Verify
  BY <1>7 DEF Verify
<1>8. CASE VerifyFails
  BY <1>8 DEF VerifyFails, Fail
<1>9. CASE BackUp
  BY <1>9 DEF BackUp
<1>10. CASE Move
  BY <1>10 DEF Move
<1>11. CASE CrossDevice
  BY <1>11 DEF CrossDevice
<1>12. CASE Copy
  BY <1>12 DEF Copy
<1>13. CASE CopyFails
  BY <1>13 DEF CopyFails, Fail
<1>14. CASE Chmod
  BY <1>14 DEF Chmod
<1>15. CASE ReplaceFails
  BY <1>15 DEF ReplaceFails, Fail
<1>16. CASE Land
  BY <1>16 DEF Land
<1>17. CASE Lose
  BY <1>17 DEF Lose
<1>18. CASE Restart
  BY <1>18 DEF Restart
<1>19. CASE RestartFails
  BY <1>19 DEF RestartFails
<1>20. CASE Crash
  BY <1>20 DEF Crash
<1>21. CASE Start
  BY <1>21 DEF Start
<1>22. CASE Down
  BY <1>22 DEF Down
<1>23. CASE UNCHANGED vars
  BY <1>23
<1> QED
  BY <1>1, <1>2, <1>3, <1>4, <1>5, <1>6, <1>7, <1>8, <1>9, <1>10, <1>11,
     <1>12, <1>13, <1>14, <1>15, <1>16, <1>17, <1>18, <1>19, <1>20, <1>21, <1>22, <1>23 DEF Next

LEMMA NotLostInvariant == Spec => []NotLost
<1>1. Init => NotLost
  BY SizeAssumption, MaxVersionAssumption
  DEF Init, NotLost, ProcessIsLast, ExeUntilBackup, BackupAfterwards, LateIsInPlace, Starts, Release,
      Versions
<1>2. NotLost /\ [Next]_vars => NotLost'
  BY NotLostStep
<1> QED
  BY <1>1, <1>2, PTL DEF Spec

\* However an attempt fails and whenever the process is killed, the file that ran
\* last is still there, as it was then, under one of its two names.
THEOREM AlwaysRecoverable == Spec => []Recoverable
<1>1. NotLost => Recoverable
  BY DEF NotLost, BackupAfterwards, Recoverable
<1> QED
  BY <1>1, NotLostInvariant, PTL

\* Nothing touches the executable before the download has been verified.
THEOREM UntouchedBeforeVerification == Spec => []UntouchedUntilVerified
<1>1. NotLost => UntouchedUntilVerified
  BY DEF NotLost, ProcessIsLast, ExeUntilBackup, UntouchedUntilVerified
<1> QED
  BY <1>1, NotLostInvariant, PTL

-----------------------------------------------------------------------------
(***************************************************************************)
(* Chunks                                                                  *)
(*                                                                         *)
(* At any time the file of the download holds what was received, or lacks  *)
(* the one chunk that is on its way or was lost.                           *)
(***************************************************************************)

Downloads == {"download", "verify", "backup", "move", "copy"}

Verified == {"backup", "move", "copy", "chmod", "restart"}

UpdateHolds ==
    /\ step \in Downloads =>
         /\ update.version = target /\ update.genuine = genuine
         /\ IF late = "none" /\ ~writeError THEN update.chunks = body
                                            ELSE update.chunks + 1 = body
    /\ late = "update" =>
         /\ update # NoFile /\ update.version = target /\ update.chunks + 1 = body
         /\ step # "failed" /\ ~writeError

ExeHolds ==
    /\ step \in {"chmod", "restart"} =>
         /\ exe.version = target /\ exe.genuine
         /\ exe.chunks <= Size[target] /\ exe.chunks + 1 >= Size[target]
    /\ step = "restart" => exe.executable
    /\ late = "exe" =>
         /\ exe # NoFile /\ exe.chunks + 1 = Size[exe.version]
         /\ exe.version > last.version
    /\ Starts(exe) => exe.version >= last.version

Accepted ==
    /\ step \in Verified => body = Size[target] /\ genuine
    /\ step \in Verified \cup {"verify"} => announced = body

Targeted == step \in Downloads \cup Verified => target > last.version

Counted == UpdateHolds /\ ExeHolds /\ Accepted /\ Targeted

\* Releases have a length, and those that are there to begin with are files.
LEMMA Lengths ==
  /\ \A v \in Versions : Size[v] \in Nat
  /\ \A v \in Versions : Release(v) \in File /\ Release(v).version = v
  /\ ~Starts(NoFile)
<1>1. \A v \in Versions : Size[v] \in Nat
  BY SizeAssumption
<1>2. ASSUME NEW v \in Versions PROVE Release(v) \in File /\ Release(v).version = v
  <2>1. Size[v] \in Nat /\ Size[v] <= Size[v] + 1
    BY <1>1
  <2> QED
    BY <2>1 DEF Release, File
<1>3. ~Starts(NoFile)
  BY DEF Starts, NoFile
<1> QED
  BY <1>1, <1>2, <1>3

\* What the steps make of a file, by field.
LEMMA FileChanges ==
  /\ NoFile \notin File
  /\ \A f \in File :
       /\ f.version \in Versions /\ f.version \in Nat \ {0} /\ f.genuine \in BOOLEAN
       /\ f.chunks \in Nat /\ f.chunks <= Size[f.version] + 1
  /\ \A f \in File : \A n \in Nat : n <= Size[f.version] + 1 =>
       /\ [f EXCEPT !.chunks = n] \in File
       /\ [f EXCEPT !.chunks = n].version = f.version
       /\ [f EXCEPT !.chunks = n].chunks = n
       /\ [f EXCEPT !.chunks = n].genuine = f.genuine
       /\ [f EXCEPT !.chunks = n].executable = f.executable
  /\ \A f \in File : \A b \in BOOLEAN :
       /\ [f EXCEPT !.genuine = b] \in File
       /\ [f EXCEPT !.genuine = b].version = f.version
       /\ [f EXCEPT !.genuine = b].chunks = f.chunks
       /\ [f EXCEPT !.genuine = b].genuine = b
       /\ [f EXCEPT !.genuine = b].executable = f.executable
  /\ \A f \in File :
       /\ [f EXCEPT !.executable = TRUE] \in File
       /\ [f EXCEPT !.executable = TRUE].version = f.version
       /\ [f EXCEPT !.executable = TRUE].chunks = f.chunks
       /\ [f EXCEPT !.executable = TRUE].genuine = f.genuine
       /\ [f EXCEPT !.executable = TRUE].executable = TRUE
<1>1. NoFile \notin File
  BY DEF File, NoFile, Versions
<1>2. ASSUME NEW f \in File
      PROVE  /\ f.version \in Versions /\ f.version \in Nat \ {0} /\ f.genuine \in BOOLEAN
             /\ f.chunks \in Nat /\ f.chunks <= Size[f.version] + 1
  BY DEF File, Versions
<1>3. ASSUME NEW f \in File, NEW n \in Nat, n <= Size[f.version] + 1
      PROVE  /\ [f EXCEPT !.chunks = n] \in File
             /\ [f EXCEPT !.chunks = n].version = f.version
             /\ [f EXCEPT !.chunks = n].chunks = n
             /\ [f EXCEPT !.chunks = n].genuine = f.genuine
             /\ [f EXCEPT !.chunks = n].executable = f.executable
  BY <1>3 DEF File
<1>4. ASSUME NEW f \in File, NEW b \in BOOLEAN
      PROVE  /\ [f EXCEPT !.genuine = b] \in File
             /\ [f EXCEPT !.genuine = b].version = f.version
             /\ [f EXCEPT !.genuine = b].chunks = f.chunks
             /\ [f EXCEPT !.genuine = b].genuine = b
             /\ [f EXCEPT !.genuine = b].executable = f.executable
  BY DEF File
<1>5. ASSUME NEW f \in File
      PROVE  /\ [f EXCEPT !.executable = TRUE] \in File
             /\ [f EXCEPT !.executable = TRUE].version = f.version
             /\ [f EXCEPT !.executable = TRUE].chunks = f.chunks
             /\ [f EXCEPT !.executable = TRUE].genuine = f.genuine
             /\ [f EXCEPT !.executable = TRUE].executable = TRUE
  BY DEF File
<1> QED
  BY <1>1, <1>2, <1>3, <1>4, <1>5

\* Type correctness in three parts: numbers and names, truth values, files.
NumbersOK ==
    /\ running \in 0..MaxVersion /\ target \in Versions
    /\ announced \in 0..(Size[target] + 1) /\ body \in 0..(Size[target] + 1)
    /\ step \in Steps /\ late \in {"none", "update", "exe"}

FlagsOK == genuine \in BOOLEAN /\ writeError \in BOOLEAN

FilesOK ==
    last \in File /\ exe \in File \cup {NoFile} /\ backup \in File \cup {NoFile} /\ update \in File \cup {NoFile}

LEMMA TypeParts ==
  /\ TypeOK <=> NumbersOK /\ FlagsOK /\ FilesOK
  /\ TypeOK' <=> NumbersOK' /\ FlagsOK' /\ FilesOK'
  BY DEF TypeOK, NumbersOK, FlagsOK, FilesOK

LEMMA TypedAndCountedInit == Init => TypeOK /\ Counted
<1> SUFFICES ASSUME Init PROVE TypeOK /\ Counted
  OBVIOUS
<1>1. 1 \in Versions /\ Release(1) \in File /\ Release(1).version = 1 /\ Size[1] \in Nat
  BY MaxVersionAssumption, Lengths DEF Versions
<1>2. NumbersOK
  BY <1>1, MaxVersionAssumption DEF Init, NumbersOK, Steps
<1>3. FlagsOK
  BY DEF Init, FlagsOK
<1>4. FilesOK
  BY <1>1 DEF Init, FilesOK
<1>5. Counted
  BY <1>1 DEF Init, Counted, UpdateHolds, ExeHolds, Accepted, Targeted, Downloads, Verified
<1> QED
  BY <1>2, <1>3, <1>4, <1>5, TypeParts

LEMMA NumbersAndFlagsStep ==
  ASSUME TypeOK, [Next]_vars
  PROVE  NumbersOK' /\ FlagsOK'
<1> USE Lengths, MaxVersionAssumption DEF At, Then, download, files
<1>1. NumbersOK /\ FlagsOK /\ FilesOK
  BY TypeParts
<1>2. ASSUME Fail PROVE NumbersOK' /\ FlagsOK'
  BY <1>1, <1>2 DEF Fail, NumbersOK, FlagsOK, Steps
<1>3. CASE BeginFails \/ ChunkFails \/ WrongLength \/ VerifyFails \/ CopyFails \/ ReplaceFails
  BY <1>2, <1>3 DEF BeginFails, ChunkFails, WrongLength, VerifyFails, CopyFails, ReplaceFails
<1>4. CASE Begin
  <2>1. target' \in Versions
    BY <1>1, <1>4 DEF Begin, Newer, Versions, NumbersOK
  <2>2. NumbersOK'
    BY <1>1, <1>4, <2>1 DEF Begin, NumbersOK, Steps
  <2>3. FlagsOK'
    BY <1>4 DEF Begin, FlagsOK
  <2> QED
    BY <2>2, <2>3
<1>5. CASE Chunk
  <2>1. NumbersOK'
    BY <1>1, <1>5 DEF Chunk, NumbersOK
  <2>2. FlagsOK'
    BY <1>1, <1>5 DEF Chunk, FlagsOK
  <2> QED
    BY <2>1, <2>2
<1>6. CASE EndOfBody \/ Verify \/ BackUp \/ Move \/ CrossDevice \/ Copy \/ Chmod \/ Land \/ Lose
  <2>1. NumbersOK'
    BY <1>1, <1>6 DEF EndOfBody, Verify, BackUp, Move, CrossDevice, Copy, Chmod, Land, Lose,
       NumbersOK, Steps
  <2>2. FlagsOK'
    BY <1>1, <1>6 DEF EndOfBody, Verify, BackUp, Move, CrossDevice, Copy, Chmod, Land, Lose, FlagsOK
  <2> QED
    BY <2>1, <2>2
<1>7. ASSUME running' \in 0..MaxVersion, NewProcess PROVE NumbersOK' /\ FlagsOK'
  BY <1>1, <1>7 DEF NewProcess, NumbersOK, FlagsOK, Steps
<1>8. CASE Restart \/ Start
  <2>1. Run
    BY <1>8 DEF Restart, Start
  <2>2. exe.version \in 0..MaxVersion
    BY <1>1, FileChanges DEF FilesOK, NoFile, Versions
  <2> QED
    BY <1>7, <2>1, <2>2 DEF Run
<1>9. CASE RestartFails \/ Crash
  BY <1>7, <1>9 DEF RestartFails, Crash, Die
<1>10. CASE Down \/ UNCHANGED vars
  BY <1>1, <1>10 DEF Down, vars, NumbersOK, FlagsOK
<1> QED
  BY <1>3, <1>4, <1>5, <1>6, <1>8, <1>9, <1>10 DEF Next

\* What is known of the files in the steps that change one.
LEMMA FilesInUse ==
  ASSUME TypeOK, NotLost, Counted
  PROVE  /\ step \in Downloads \/ late = "update" => update \in File /\ update.version = target
         /\ step \in {"chmod", "restart"} \/ late = "exe" => exe \in File
         /\ target \in Nat /\ last.version \in Nat /\ Size[target] \in Nat
         /\ body \in Nat /\ body <= Size[target] + 1
         /\ step \in Downloads \cup Verified => target > last.version
<1>1. FilesOK /\ NumbersOK
  BY TypeParts
<1>2. target \in Versions /\ target # 0 /\ target \in Nat /\ last.version \in Nat
      /\ Size[target] \in Nat
  BY <1>1, MaxVersionAssumption, FileChanges, Lengths DEF NumbersOK, FilesOK, Versions
<1>3. \A f : f.version = target => f # NoFile
  BY <1>2 DEF NoFile
<1>4. body \in Nat /\ body <= Size[target] + 1
  BY <1>1, <1>2 DEF NumbersOK
<1> QED
  BY <1>1, <1>2, <1>3, <1>4 DEF FilesOK, Counted, UpdateHolds, ExeHolds, Targeted, Downloads

LEMMA FilesStep ==
  ASSUME TypeOK, NotLost, Counted, [Next]_vars
  PROVE  FilesOK'
<1> USE DEF At, Then, download, files, FilesOK
<1>1. NumbersOK /\ FilesOK
  BY TypeParts
<1>2. CASE Begin
  <2>1. PICK v \in Newer : update' = [version |-> v, chunks |-> 0, genuine |-> TRUE, executable |-> FALSE]
    BY <1>2 DEF Begin
  <2>2. v \in Versions
    BY <1>1, <1>2, <2>1, MaxVersionAssumption DEF Begin, Newer, Versions, NumbersOK
  <2>3. update' \in File
    BY <2>1, <2>2, Lengths DEF File
  <2> QED
    BY <1>1, <1>2, <2>3 DEF Begin
<1>3. CASE BeginFails \/ ChunkFails \/ WrongLength \/ VerifyFails \/ ReplaceFails
  BY <1>1, <1>3 DEF BeginFails, ChunkFails, WrongLength, VerifyFails, ReplaceFails, Fail
<1>4. CASE Chunk
  <2>1. update \in File /\ genuine' \in BOOLEAN
    BY <1>4, FilesInUse, NumbersAndFlagsStep DEF Chunk, Downloads, FlagsOK
  <2>2. update' \in File
    BY <1>4, <2>1, FileChanges DEF Chunk
  <2> QED
    BY <1>1, <1>4, <2>2 DEF Chunk
<1>5. CASE EndOfBody \/ Verify \/ BackUp \/ Move \/ CrossDevice \/ Copy \/ Lose
  BY <1>1, <1>5 DEF EndOfBody, Verify, BackUp, Move, CrossDevice, Copy, Lose
<1>6. CASE CopyFails
  <2>1. update \in File
    BY <1>6, FilesInUse DEF CopyFails, Downloads
  <2>2. PICK n \in 0..update.chunks : exe' = [update EXCEPT !.chunks = n]
    BY <1>6 DEF CopyFails
  <2>3. n \in Nat /\ n <= Size[update.version] + 1
    BY <2>1, <2>2, FileChanges, Lengths
  <2> QED
    BY <1>1, <1>6, <2>1, <2>2, <2>3, FileChanges DEF CopyFails, Fail
<1>7. CASE Chmod
  <2>1. exe \in File
    BY <1>7, FilesInUse DEF Chmod
  <2> QED
    BY <1>1, <1>7, <2>1, FileChanges DEF Chmod
<1>8. CASE Land
  <2>1. CASE late = "update"
    <3>1. update \in File /\ update.chunks + 1 \in Nat /\ update.chunks + 1 <= Size[update.version] + 1
      BY <2>1, FilesInUse, FileChanges DEF Counted, UpdateHolds
    <3> QED
      BY <1>1, <1>8, <2>1, <3>1, FileChanges DEF Land
  <2>2. CASE late # "update"
    <3>1. late = "exe"
      BY <1>1, <1>8, <2>2 DEF Land, NumbersOK
    <3>2. exe \in File /\ exe.chunks + 1 \in Nat /\ exe.chunks + 1 <= Size[exe.version] + 1
      BY <3>1, FilesInUse, FileChanges, Lengths DEF Counted, ExeHolds
    <3> QED
      BY <1>1, <1>8, <3>1, <3>2, FileChanges DEF Land
  <2> QED
    BY <2>1, <2>2
<1>9. CASE Restart \/ Start
  <2>1. exe \in File
    BY <1>1, <1>9, Lengths DEF Restart, Start, Run
  <2> QED
    BY <1>1, <1>9, <2>1 DEF Restart, Start, Run, NewProcess
<1>11. CASE RestartFails \/ Crash
  BY <1>1, <1>11 DEF RestartFails, Crash, Die, NewProcess
<1>10. CASE Down \/ UNCHANGED vars
  BY <1>1, <1>10 DEF Down, vars
<1> QED
  BY <1>2, <1>3, <1>4, <1>5, <1>6, <1>7, <1>8, <1>9, <1>10, <1>11 DEF Next

LEMMA CountedStep ==
  ASSUME TypeOK, NotLost, Counted, [Next]_vars
  PROVE  Counted'
<1> USE DEF At, Then, download, files, Counted, UpdateHolds, ExeHolds, Accepted, Targeted,
            Downloads, Verified
<1>1. NumbersOK /\ FlagsOK /\ FilesOK
  BY TypeParts
<1>2. /\ running # 0 => running = last.version
      /\ running = 0 => step = "idle"
      /\ late = "exe" => step \in {"chmod", "restart", "failed"}
  BY DEF NotLost, ProcessIsLast, LateIsInPlace
<1>3. /\ late = "none" \/ late = "update" \/ late = "exe"
      /\ body \in Nat /\ last.version \in Nat /\ target \in Nat /\ Size[target] \in Nat
  BY <1>1, FilesInUse DEF NumbersOK
<1>4. CASE Begin
  <2>1. PICK v \in Newer : target' = v /\ update' = [version |-> v, chunks |-> 0, genuine |-> TRUE, executable |-> FALSE]
    BY <1>4 DEF Begin
  <2>2. v > last.version
    BY <1>1, <1>2, <1>3, <1>4, <2>1, MaxVersionAssumption DEF Begin, Newer, Versions, NumbersOK
  <2>3. exe' = exe /\ last' = last /\ step' = "download" /\ late' = "none" /\ ~writeError'
        /\ body' = 0 /\ genuine' = TRUE
    BY <1>4 DEF Begin
  <2> QED
    BY <2>1, <2>2, <2>3
<1>5. ASSUME Fail, exe' = exe \/ exe'.version >= last.version, late # "exe" \/ exe' = exe
      PROVE  Counted'
  BY <1>5 DEF Fail
<1>6. CASE BeginFails \/ ChunkFails \/ WrongLength \/ VerifyFails \/ ReplaceFails
  BY <1>5, <1>6 DEF BeginFails, ChunkFails, WrongLength, VerifyFails, ReplaceFails
<1>7. CASE Chunk
  <2>1. update \in File /\ genuine' \in BOOLEAN /\ update.chunks = body
    BY <1>7, FilesInUse, NumbersAndFlagsStep DEF Chunk, FlagsOK
  <2>2. /\ update' # NoFile /\ update'.genuine = genuine'
        /\ update'.version = target /\ update'.chunks + 1 = body'
    BY <1>3, <1>7, <2>1, FileChanges DEF Chunk
  <2> QED
    BY <1>7, <2>2 DEF Chunk
<1>8. CASE EndOfBody
  BY <1>8 DEF EndOfBody, LengthMatches
<1>9. CASE Verify
  BY <1>9 DEF Verify, HashMatches
<1>10. CASE BackUp
  BY <1>2, <1>10, Lengths DEF BackUp
<1>11a. ASSUME step \in {"move", "copy"}
        PROVE  /\ update.version = target /\ update.genuine /\ target > last.version
               /\ update.chunks <= Size[target] /\ update.chunks + 1 >= Size[target]
               /\ late = "update" => update # NoFile /\ update.chunks + 1 = Size[target]
               /\ late # "exe"
  <2>1. body = Size[target] /\ genuine /\ update.genuine = genuine
    BY <1>11a
  <2>2. update.chunks = body \/ update.chunks + 1 = body
    BY <1>11a
  <2>3. update \in File
    BY <1>11a, FilesInUse
  <2>4. update.chunks \in Nat
    BY <2>3, FileChanges, <1>3
  <2> QED
    BY <1>2, <1>3, <1>11a, <2>1, <2>2, <2>4
<1>11. CASE Move
  <2>0. step = "move" /\ late' # "update" /\ (late' = "exe" => late = "update")
    <3>1. step = "move"
      BY <1>11 DEF Move
    <3>2. late' = IF late = "update" THEN "exe" ELSE late
      BY <1>11 DEF Move
    <3>3. late' # "update" /\ (late' = "exe" => late = "update")
      BY <1>2, <3>1, <3>2
    <3> QED
      BY <3>1, <3>3
  <2>1. exe' = update /\ step' = "chmod" /\ UNCHANGED <<last, target, body, genuine, announced, writeError>>
    BY <1>11 DEF Move
  <2>2. UpdateHolds'
    BY <2>0, <2>1
  <2>3. ExeHolds'
    BY <1>3, <1>11a, <2>0, <2>1
  <2> QED
    BY <2>0, <2>1, <2>2, <2>3
<1>12. CASE CrossDevice
  BY <1>12 DEF CrossDevice
<1>13. CASE Copy
  <2>0. step = "copy" /\ (late' = "none" \/ UNCHANGED <<update, late>>)
    <3>1. step = "copy"
      BY <1>13 DEF Copy
    <3>2. late' = "none" \/ UNCHANGED <<update, late>>
      BY <1>13 DEF Copy
    <3> QED
      BY <3>1, <3>2
  <2>1. exe' = update /\ step' = "chmod" /\ UNCHANGED <<last, target, body, genuine, announced, writeError>>
    BY <1>13 DEF Copy
  <2>2. UpdateHolds'
    BY <2>0, <2>1
  <2>3. ExeHolds'
    BY <1>3, <1>11a, <2>0, <2>1
  <2> QED
    BY <2>0, <2>1, <2>2, <2>3
<1>14. CASE CopyFails
  <2>1. PICK n \in 0..update.chunks : exe' = [update EXCEPT !.chunks = n]
    BY <1>14 DEF CopyFails
  <2>2. update \in File
    BY <1>14, FilesInUse DEF CopyFails
  <2>2b. n \in Nat /\ n <= Size[update.version] + 1
    BY <1>3, <2>1, <2>2, FileChanges, Lengths
  <2>3. exe'.version > last.version
    <3>1. exe'.version = update.version
      BY <2>1, <2>2, <2>2b, FileChanges
    <3> QED
      BY <1>14, <3>1 DEF CopyFails
  <2> QED
    BY <1>2, <1>3, <1>5, <1>14, <2>3 DEF CopyFails
<1>15. CASE Chmod
  <2>1. exe \in File
    BY <1>15, FilesInUse DEF Chmod
  <2>2. /\ exe' \in File /\ exe'.executable = TRUE
        /\ exe'.version = exe.version /\ exe'.chunks = exe.chunks /\ exe'.genuine = exe.genuine
    BY <1>15, <2>1, FileChanges DEF Chmod
  <2> QED
    BY <1>3, <1>15, <2>2, FileChanges DEF Chmod
<1>16. CASE Land
  <2>1. CASE late = "update"
    <3>1. update \in File /\ update.chunks + 1 \in Nat /\ update.chunks + 1 <= Size[update.version] + 1
      BY <1>3, <2>1, FilesInUse, FileChanges
    <3>2. update' = [update EXCEPT !.chunks = update.chunks + 1]
      BY <1>16, <2>1 DEF Land
    <3>3. update'.chunks = update.chunks + 1 /\ update'.version = update.version /\ update'.genuine = update.genuine
      BY <3>1, <3>2, FileChanges
    <3>4. late' = "none" /\ UNCHANGED <<running, last, step, download, writeError, exe>>
      BY <1>16, <2>1 DEF Land
    <3>5. UpdateHolds'
      BY <1>2, <2>1, <3>3, <3>4
    <3>6. ExeHolds'
      BY <3>4
    <3> QED
      BY <3>4, <3>5, <3>6
  <2>2. CASE late = "exe"
    <3>1. exe \in File /\ exe.chunks + 1 = Size[exe.version] /\ Size[exe.version] \in Nat
      BY <2>2, FilesInUse, FileChanges, Lengths
    <3>2. /\ exe'.chunks = Size[exe.version] /\ exe'.version = exe.version
          /\ exe'.genuine = exe.genuine /\ exe'.executable = exe.executable
      <4>1. exe' = [exe EXCEPT !.chunks = Size[exe.version]]
        BY <1>16, <2>2, <3>1 DEF Land
      <4> QED
        BY <3>1, <4>1, FileChanges
    <3>3. late' = "none" /\ UNCHANGED <<running, last, step, download, writeError, update>>
      BY <1>16, <2>2 DEF Land
    <3>4. exe'.version >= last.version
      <4>1. exe.version \in Nat
        BY <3>1, FileChanges DEF Versions
      <4> QED
        BY <1>3, <2>2, <3>2, <4>1
    <3> QED
      BY <1>2, <1>3, <2>2, <3>2, <3>3, <3>4
  <2> QED
    BY <1>3, <1>16, <2>1, <2>2 DEF Land
<1>17. CASE Lose
  BY <1>2, <1>3, <1>17 DEF Lose
<1>18. ASSUME NewProcess, Starts(exe) => exe.version >= last'.version PROVE Counted'
  BY <1>18 DEF NewProcess
<1>19. CASE Restart \/ Start
  <2>1. exe.version \in Nat
    BY <1>1, FileChanges DEF FilesOK, NoFile
  <2> QED
    BY <1>18, <1>19, <2>1 DEF Restart, Start, Run
<1>20. CASE RestartFails \/ Crash
  BY <1>18, <1>20 DEF RestartFails, Crash, Die
<1>21. CASE Down \/ UNCHANGED vars
  BY <1>21 DEF Down, vars
<1> QED
  BY <1>4, <1>6, <1>7, <1>8, <1>9, <1>10, <1>11, <1>12, <1>13, <1>14, <1>15, <1>16, <1>17,
     <1>19, <1>20, <1>21 DEF Next

LEMMA TypedAndCounted == Spec => [](TypeOK /\ Counted)
<1>1. Init => TypeOK /\ Counted
  BY TypedAndCountedInit
<1>2. TypeOK /\ Counted /\ NotLost /\ [Next]_vars => TypeOK' /\ Counted'
  BY NumbersAndFlagsStep, FilesStep, CountedStep, TypeParts
<1> QED
  BY <1>1, <1>2, NotLostInvariant, PTL DEF Spec

\* Every state of an installation is well typed, whatever arrives and however
\* late it reaches the disk.
THEOREM TypeCorrect == Spec => []TypeOK
  BY TypedAndCounted, PTL

\* What is about to be executed is what was verified, but for the last chunk.
THEOREM ExecutesWhatWasVerified == Spec => []VerifiedButForLastChunk
<1>1. Counted => VerifiedButForLastChunk
  BY DEF Counted, ExeHolds, VerifiedButForLastChunk
<1> QED
  BY <1>1, TypedAndCounted, PTL

-----------------------------------------------------------------------------
(* Progress                                                                *)

\* What remains of the quotient is less than the length.
LEMMA Quotient ==
  \A a \in Nat : \A n \in Nat \ {0} :
    a \div n \in Nat /\ n * (a \div n) <= a /\ a < n * (a \div n) + n
  OBVIOUS

LEMMA AllReceived == \A n \in Nat \ {0} : Percent(n, n) = 100
<1> SUFFICES ASSUME NEW n \in Nat \ {0} PROVE Percent(n, n) = 100
  OBVIOUS
<1>1. (n * 100) \div n = 100
  OBVIOUS
<1> QED
  BY <1>1 DEF Percent

LEMMA MoreReceived ==
  \A b, n \in Nat : Percent(b + 1, n) >= Percent(b, n)
<1> SUFFICES ASSUME NEW b \in Nat, NEW n \in Nat PROVE Percent(b + 1, n) >= Percent(b, n)
  OBVIOUS
<1>1. CASE n = 0
  BY <1>1 DEF Percent
<1>2. CASE n # 0
  <2> DEFINE q == (b * 100) \div n
             r == ((b + 1) * 100) \div n
  <2>1. q \in Nat /\ r \in Nat /\ n * q <= b * 100 /\ (b + 1) * 100 < n * r + n
    BY <1>2, Quotient
  <2> HIDE DEF q, r
  <2>2. n * q < n * r + n
    BY <2>1
  <2>3. CASE r < q
    <3>1. PICK d \in Nat : q = r + 1 + d
      <4>1. q - (r + 1) \in Nat /\ q = r + 1 + (q - (r + 1))
        BY <2>1, <2>3
      <4> QED
        BY <4>1
    <3>2. n * q = n * r + n + n * d /\ n * d >= 0
      BY <2>1, <3>1
    <3> QED
      BY <2>1, <2>2, <3>2
  <2>4. r >= q
    BY <2>1, <2>3
  <2> QED
    BY <1>2, <2>1, <2>4 DEF Percent, q, r
<1> QED
  BY <1>1, <1>2

\* A progress bar never runs backwards.
THEOREM ProgressNeverFalls == Spec => ProgressMonotone
<1>1. TypeOK /\ [Next]_vars => [At("download") /\ step' = "download" => percent' >= percent]_vars
  <2> SUFFICES ASSUME TypeOK, [Next]_vars, At("download"), step' = "download"
               PROVE  percent' >= percent
    OBVIOUS
  <2>1. body \in Nat /\ announced \in Nat
    BY Lengths DEF TypeOK
  <2>2. announced' = announced /\ (body' = body \/ body' = body + 1)
    BY DEF Next, vars, download, At, Then, Begin, BeginFails, Chunk, ChunkFails, EndOfBody, WrongLength,
       Verify, VerifyFails, BackUp, Move, CrossDevice, Copy, CopyFails, Chmod, ReplaceFails, Land,
       Lose, Restart, RestartFails, Crash, Start, Down, Run, Die, NewProcess, Fail
  <2>3. Percent(body, announced) \in Nat
    <3>1. CASE announced # 0
      BY <2>1, <3>1, Quotient DEF Percent
    <3> QED
      BY <3>1 DEF Percent
  <2>4. CASE body' = body
    BY <2>2, <2>3, <2>4 DEF percent
  <2>5. CASE body' = body + 1
    BY <2>1, <2>2, <2>5, MoreReceived DEF percent
  <2> QED
    BY <2>2, <2>4, <2>5
<1> QED
  BY <1>1, TypedAndCounted, PTL DEF Spec, ProgressMonotone

\* What is installed has been shown as wholly received.
THEOREM InstallsAllReceived == Spec => []ProgressComplete
<1>1. TypeOK /\ Counted => ProgressComplete
  <2> SUFFICES ASSUME TypeOK, Counted, step \in Verified
               PROVE  percent = IF Size[target] = 0 THEN 0 ELSE 100
    BY DEF ProgressComplete, Verified
  <2>1. body = Size[target] /\ announced = Size[target] /\ Size[target] \in Nat
    BY Lengths DEF Counted, Accepted, TypeOK
  <2>2. Percent(0, 0) = 0
    BY DEF Percent
  <2> QED
    BY <2>1, <2>2, AllReceived DEF percent
<1> QED
  BY <1>1, TypedAndCounted, PTL

-----------------------------------------------------------------------------
(* KeptVersions                                                            *)

LEMMA StepKeepsVersions ==
  ASSUME TypeOK, TypeOK', NotLost, NotLost', Counted, Counted', [Next]_vars
  PROVE  [Keeping!Next]_<<last.version, kept>>
<1>1. /\ kept \subseteq Versions /\ kept' \subseteq Versions
      /\ last.version \in kept /\ last'.version \in kept'
  <2>1. \A f \in File \cup {NoFile} : Starts(f) => f.version \in Versions
    BY Lengths, FileChanges
  <2>2. kept \subseteq Versions /\ kept' \subseteq Versions
    BY <2>1 DEF kept, TypeOK
  <2>3. last.version \in kept
    BY DEF kept, NotLost, ProcessIsLast, BackupAfterwards
  <2>4. last'.version \in kept'
    BY DEF kept, NotLost, ProcessIsLast, BackupAfterwards
  <2> QED
    BY <2>2, <2>3, <2>4
<1>2. ASSUME last' = last, \A v \in kept' \ kept : v > last.version PROVE [Keeping!Next]_<<last.version, kept>>
  <2>1. Keeping!Attempt(kept')
    BY <1>1, <1>2 DEF Keeping!Attempt
  <2> QED
    BY <1>1, <2>1 DEF Keeping!Next
<1>3. CASE UNCHANGED <<last, exe, backup>>
  BY <1>3 DEF kept
<1>4. ASSUME last' = last, exe'.version > last.version, backup' = backup
       PROVE  [Keeping!Next]_<<last.version, kept>>
  <2>1. \A v \in kept' \ kept : v > last.version
    BY <1>4 DEF kept
  <2> QED
    BY <1>2, <1>4, <2>1
<1>5. CASE BackUp
  <2>1. ~Starts(NoFile)
    BY Lengths
  <2>2. \A v \in kept' \ kept : v > last.version
    BY <1>5, <2>1 DEF BackUp, kept
  <2> QED
    BY <1>2, <1>5, <2>2 DEF BackUp, Then
<1>6. CASE Move \/ Copy \/ Chmod
  <2>1. step' = "chmod" \/ step' = "restart"
    BY <1>6 DEF Move, Copy, Chmod, Then
  <2>2. exe'.version = target' /\ target' > last'.version /\ last' = last /\ backup' = backup
    BY <1>6, <2>1 DEF Counted, ExeHolds, Targeted, Downloads, Verified, Move, Copy, Chmod, Then
  <2> QED
    BY <1>4, <2>2
<1>7. CASE CopyFails
  <2>1. update \in File /\ target > last.version /\ update.version = target
    BY <1>7, FilesInUse DEF CopyFails, At, Downloads, Counted, UpdateHolds, Targeted
  <2>2. PICK n \in 0..update.chunks : exe' = [update EXCEPT !.chunks = n]
    BY <1>7 DEF CopyFails
  <2>3. n \in Nat /\ n <= Size[update.version] + 1
    BY <2>1, <2>2, FileChanges, Lengths
  <2>4. exe'.version > last.version
    BY <2>1, <2>2, <2>3, FileChanges
  <2> QED
    BY <1>4, <1>7, <2>4 DEF CopyFails, Fail, Then
<1>8. CASE Land
  <2>1. CASE late = "update"
    BY <1>3, <1>8, <2>1 DEF Land
  <2>2. CASE late # "update"
    <3>1. late = "exe"
      BY <1>8, <2>2 DEF Land, TypeOK
    <3>2. exe \in File /\ exe.chunks + 1 = Size[exe.version] /\ Size[exe.version] \in Nat /\ exe.version > last.version
      BY <3>1, FilesInUse, FileChanges, Lengths DEF Counted, ExeHolds
    <3>3. exe' = [exe EXCEPT !.chunks = Size[exe.version]] /\ last' = last /\ backup' = backup
      BY <1>8, <3>1, <3>2 DEF Land
    <3>4. exe'.version > last.version
      BY <3>2, <3>3, FileChanges
    <3> QED
      BY <1>4, <3>3, <3>4
  <2> QED
    BY <2>1, <2>2
<1>9. CASE Restart \/ Start
  <2>1. Starts(exe) /\ exe.version >= last.version
    BY <1>9 DEF Restart, Start, Run, Counted, ExeHolds
  <2>2. last' = exe /\ exe' = exe /\ backup' = backup
    BY <1>9 DEF Restart, Start, Run, NewProcess
  <2>3. exe.version \in kept /\ kept' = kept
    BY <2>1, <2>2 DEF kept
  <2>4. Keeping!Run(exe.version)
    BY <2>1, <2>2, <2>3 DEF Keeping!Run
  <2> QED
    BY <1>1, <2>3, <2>4 DEF Keeping!Next
<1>10. CASE Begin \/ BeginFails \/ Chunk \/ ChunkFails \/ EndOfBody \/ WrongLength \/ Verify
            \/ VerifyFails \/ CrossDevice \/ ReplaceFails \/ Lose
  BY <1>3, <1>10 DEF Begin, BeginFails, Chunk, ChunkFails, EndOfBody, WrongLength, Verify,
     VerifyFails, CrossDevice, ReplaceFails, Lose, Fail, Then, files
<1>11. CASE RestartFails \/ Crash \/ Down \/ UNCHANGED vars
  BY <1>3, <1>11 DEF RestartFails, Crash, Down, Die, NewProcess, vars, files
<1> QED
  BY <1>5, <1>6, <1>7, <1>8, <1>9, <1>10, <1>11 DEF Next

\* Whatever fails, and wherever the process is killed, the copies on the machine
\* change as KeptVersions allows.
THEOREM VersionsAreKept == Spec => KeepsVersions
<1>1. Init => Keeping!Init
  <2> SUFFICES ASSUME Init PROVE last.version \in Versions /\ kept = {last.version}
    BY DEF Keeping!Init
  <2>1. 1 \in Versions /\ Size[1] \in Nat \ {0}
    BY SizeAssumption, MaxVersionAssumption, Lengths DEF Versions
  <2>2. Starts(Release(1)) /\ Release(1).version = 1
    BY <2>1 DEF Starts, Release
  <2>3. exe = Release(1) /\ ~Starts(backup) /\ last = Release(1)
    BY Lengths DEF Init
  <2> QED
    BY <2>1, <2>2, <2>3 DEF kept
<1>2. TypeOK /\ TypeOK' /\ NotLost /\ NotLost' /\ Counted /\ Counted' /\ [Next]_vars
        => [Keeping!Next]_<<last.version, kept>>
  BY StepKeepsVersions
<1> QED
  BY <1>1, <1>2, NotLostInvariant, TypedAndCounted, PTL DEF Spec, KeepsVersions, Keeping!Spec

\* Through crashes, failures and restarts at any step, no version is started on
\* this machine after a newer one has run there.
THEOREM NeverRunsOlder == Spec => Keeping!NeverOlder
<1>1. TypeOK /\ [Keeping!Next]_<<last.version, kept>> => [(last.version)' >= last.version]_(last.version)
  <2> SUFFICES ASSUME TypeOK, [Keeping!Next]_<<last.version, kept>>, last'.version # last.version
               PROVE  (last.version)' >= last.version
    OBVIOUS
  <2>1. PICK v \in Versions : Keeping!Run(v)
    BY DEF Keeping!Next, Keeping!Attempt
  <2> QED
    BY <2>1 DEF Keeping!Run
<1> QED
  BY <1>1, VersionsAreKept, TypedAndCounted, PTL DEF KeepsVersions, Keeping!Spec, Keeping!NeverOlder

=============================================================================
