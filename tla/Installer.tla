------------------------------ MODULE Installer ------------------------------
(***************************************************************************)
(* From the first byte of a download to the restart: download_update,      *)
(* verify_update, replace_executable and restart of src/src/client.rs, and *)
(* the files they leave behind when they fail or the process is killed.    *)
(*                                                                         *)
(* A release is a sequence of chunks, or empty; a file is known by the     *)
(* version it is a copy of, how many chunks of it are on disk, whether     *)
(* those are the original's, and whether it may be executed.  What the     *)
(* operating system and a supervisor start is any file that may be         *)
(* executed and is not empty, whole or not.  The API server answers        *)
(* anything: any length or none, chunks of something else, a stream that   *)
(* breaks off; only the hash it signs is the hash of the release.          *)
(*                                                                         *)
(* The file of a download is tokio's (external): write_all hands a chunk   *)
(* to a thread and returns; the next write_all waits for it and reports    *)
(* its failure.  Nothing waits for the last one, as the code never flushes *)
(* the file.  One update is installed at a time (Updater says when).       *)
(*                                                                         *)
(* A definition whose name ends in Bug is the definition below it with a   *)
(* plausible mistake; no specification uses it.                            *)
(***************************************************************************)
EXTENDS Naturals

CONSTANTS
    Size,               \* Size[v]: how many chunks the release of v has
    MaxVersion          \* the newest version ever released; the oldest is 1

Versions == 1..MaxVersion

ASSUME MaxVersionAssumption == MaxVersion \in Nat \ {0}
\* The version that is there to begin with runs, so its executable is not empty.
ASSUME SizeAssumption == Size \in [Versions -> Nat] /\ Size[1] # 0

VARIABLES
    running,            \* the version of the running process, 0 when there is none
    last,               \* the file that was started last, as it was then
    step,               \* how far check_for_updates has come
    target,             \* the version it installs
    announced,          \* the Content-Length of the release, 0 without the header
    body,               \* body_len: the chunks received and hashed
    genuine,            \* whether those are the original's
    late,               \* the file with a chunk on its way to disk, or "none"
    writeError,         \* whether a chunk could not be written
    exe,                \* the file at exe_path
    backup,             \* the file at exe_path with extension .old
    update              \* the file in the temporary directory

download == <<target, announced, body, genuine>>
files == <<exe, backup, update>>
vars == <<running, last, step, download, late, writeError, files>>

-----------------------------------------------------------------------------
(* Files                                                                   *)

File ==
    {f \in [version : Versions, chunks : Nat, genuine : BOOLEAN, executable : BOOLEAN] :
       f.chunks <= Size[f.version] + 1}

NoFile == [version |-> 0, chunks |-> 0, genuine |-> FALSE, executable |-> FALSE]

Release(v) == [version |-> v, chunks |-> Size[v], genuine |-> TRUE, executable |-> TRUE]

\* exec accepts the file: nothing asks whether it is whole (external).
Starts(f) == f.executable /\ f.chunks > 0

Steps == {"idle", "download", "verify", "backup", "move", "copy", "chmod", "restart",
          "failed"}

Init ==
    /\ running = 1
    /\ last = Release(1)
    /\ step = "idle"
    /\ target = 1
    /\ announced = 0
    /\ body = 0
    /\ genuine = TRUE
    /\ late = "none"
    /\ writeError = FALSE
    /\ exe = Release(1)
    /\ backup = NoFile
    /\ update = NoFile

-----------------------------------------------------------------------------

At(from) == running # 0 /\ step = from

Then(to) == step' = to /\ UNCHANGED <<running, last>>

\* An error is logged and check_for_updates returns: the status is left as it
\* is, so that no other attempt follows; the temporary directory is dropped.
Fail_RetryBug ==
    /\ Then("idle")
    /\ update' = NoFile
    /\ late' = IF late = "update" THEN "none" ELSE late
    /\ UNCHANGED <<download, writeError>>

Fail ==
    /\ Then("failed")
    /\ update' = NoFile
    /\ late' = IF late = "update" THEN "none" ELSE late
    /\ UNCHANGED <<download, writeError>>

(* download_update                                                         *)

Newer_OtherBug == Versions \ {running}

Newer == (running + 1)..MaxVersion

\* The file is created, the release is requested and its headers are read.
Begin ==
    /\ At("idle")
    /\ Then("download")
    /\ \E v \in Newer :
         /\ target' = v
         /\ update' = [version |-> v, chunks |-> 0, genuine |-> TRUE, executable |-> FALSE]
    /\ announced' \in 0..(Size[target'] + 1)
    /\ body' = 0
    /\ genuine' = TRUE
    /\ late' = "none"
    /\ writeError' = FALSE
    /\ UNCHANGED <<exe, backup>>

\* No directory, no file, no answer, or an answer of another content type.
BeginFails ==
    /\ At("idle")
    /\ Fail
    /\ UNCHANGED <<exe, backup>>

Percent_WrapBug(received, length) ==
    IF length = 0 THEN (IF received = 0 THEN 0 ELSE 255)
                  ELSE ((received * 100) \div length) % 256

\* A quotient of floats that is cast to u8: it saturates, and 0/0 becomes 0.
Percent(received, length) ==
    IF length = 0 THEN (IF received = 0 THEN 0 ELSE 255)
                  ELSE LET p == (received * 100) \div length
                       IN  IF p > 255 THEN 255 ELSE p

\* The progress that Status::Downloading shows.
percent == Percent(body, announced)

\* The next chunk, the original's or not, is written, hashed and counted.
Chunk ==
    /\ At("download")
    /\ late = "none" /\ ~writeError
    /\ body <= Size[target]
    /\ body' = body + 1
    /\ genuine' \in {genuine, FALSE}
    /\ update' = [update EXCEPT !.genuine = genuine']
    /\ late' = "update"
    /\ UNCHANGED <<running, last, step, target, announced, writeError, exe, backup>>

ChunkFails ==
    /\ At("download")
    /\ writeError
    /\ Fail
    /\ UNCHANGED <<exe, backup>>

LengthMatches_LongBug == body >= announced

LengthMatches == body = announced

\* The stream ends, or breaks off, which looks the same.
EndOfBody ==
    /\ At("download")
    /\ LengthMatches
    /\ Then("verify")
    /\ UNCHANGED <<download, late, writeError, files>>

WrongLength ==
    /\ At("download")
    /\ ~LengthMatches
    /\ Fail
    /\ UNCHANGED <<exe, backup>>

(* verify_update                                                           *)

HashMatches_LengthBug == body = Size[target]

\* What was received is the release that the signed hash belongs to.
HashMatches == body = Size[target] /\ genuine

Verify ==
    /\ At("verify")
    /\ HashMatches
    /\ Then("backup")
    /\ UNCHANGED <<download, late, writeError, files>>

\* No hash, a hash with a bad signature, or the hash of something else.
VerifyFails ==
    /\ At("verify")
    /\ Fail
    /\ UNCHANGED <<exe, backup>>

(* replace_executable                                                      *)

BackUp_NotBug ==
    /\ At("backup")
    /\ Then("move")
    /\ UNCHANGED <<download, late, writeError, files>>

BackUp ==
    /\ At("backup")
    /\ Then("move")
    /\ backup' = exe
    /\ exe' = NoFile
    /\ UNCHANGED <<download, late, writeError, update>>

\* The rename takes the file with it, and a chunk that is on its way to it.
Move ==
    /\ At("move")
    /\ Then("chmod")
    /\ exe' = update
    /\ update' = NoFile
    /\ late' = IF late = "update" THEN "exe" ELSE late
    /\ UNCHANGED <<download, writeError, backup>>

\* EXDEV: the temporary directory is on another device.
CrossDevice ==
    /\ At("move")
    /\ Then("copy")
    /\ UNCHANGED <<download, late, writeError, files>>

\* What is on disk by now is copied; then the download is removed, or not.
Copy ==
    /\ At("copy")
    /\ Then("chmod")
    /\ exe' = update
    /\ \/ update' = NoFile /\ late' = "none"
       \/ UNCHANGED <<update, late>>
    /\ UNCHANGED <<download, writeError, backup>>

\* The copy stops half way, and what has been copied stays.
CopyFails ==
    /\ At("copy")
    /\ \E n \in 0..update.chunks : exe' = [update EXCEPT !.chunks = n]
    /\ Fail
    /\ UNCHANGED backup

Chmod ==
    /\ At("chmod")
    /\ Then("restart")
    /\ exe' = [exe EXCEPT !.executable = TRUE]
    /\ UNCHANGED <<download, late, writeError, backup, update>>

\* A rename, the metadata or the permissions: nothing is undone.
ReplaceFails ==
    /\ \E from \in {"backup", "move", "chmod"} : At(from)
    /\ Fail
    /\ UNCHANGED <<exe, backup>>

(* The chunk on its way                                                    *)

Land_AgainBug ==
    /\ late # "none"
    /\ IF late = "update"
       THEN update' = [update EXCEPT !.chunks = @ + 1] /\ UNCHANGED exe
       ELSE exe' = [exe EXCEPT !.chunks = @ + 1] /\ UNCHANGED update
    /\ UNCHANGED <<running, last, step, download, writeError, backup, late>>

Land ==
    /\ late # "none"
    /\ IF late = "update"
       THEN update' = [update EXCEPT !.chunks = @ + 1] /\ UNCHANGED exe
       ELSE exe' = [exe EXCEPT !.chunks = @ + 1] /\ UNCHANGED update
    /\ late' = "none"
    /\ UNCHANGED <<running, last, step, download, writeError, backup>>

Lose ==
    /\ late # "none"
    /\ late' = "none"
    /\ writeError' = TRUE
    /\ UNCHANGED <<running, last, step, download, files>>

(* restart, and the end of a process                                       *)

\* A new process knows nothing of the attempt; a chunk still on its way is lost.
NewProcess ==
    /\ step' = "idle"
    /\ update' = NoFile
    /\ late' = "none"
    /\ writeError' = FALSE
    /\ UNCHANGED <<download, exe, backup>>

Run == Starts(exe) /\ running' = exe.version /\ last' = exe /\ NewProcess

Die == running' = 0 /\ UNCHANGED last /\ NewProcess

\* A file that is still being written is busy and cannot be executed.
Restart == At("restart") /\ late # "exe" /\ Run

\* exec fails and the process exits, or what it has started does not run.
RestartFails == At("restart") /\ Die

\* The process ends at any time: killed, by a fault of its own, or by its user.
Crash == running # 0 /\ Die

\* Whoever supervises the application starts it again (external).
Start == running = 0 /\ Run

\* Without an executable the application stays down.
Down == running = 0 /\ ~Starts(exe) /\ UNCHANGED vars

Next ==
    \/ Begin \/ BeginFails \/ Chunk \/ ChunkFails \/ EndOfBody \/ WrongLength
    \/ Verify \/ VerifyFails
    \/ BackUp \/ Move \/ CrossDevice \/ Copy \/ CopyFails \/ Chmod \/ ReplaceFails
    \/ Land \/ Lose
    \/ Restart \/ RestartFails \/ Crash \/ Start \/ Down

Spec == Init /\ [][Next]_vars

-----------------------------------------------------------------------------
(* Properties                                                              *)

TypeOK ==
    /\ running \in 0..MaxVersion
    /\ last \in File
    /\ step \in Steps
    /\ target \in Versions
    /\ announced \in 0..(Size[target] + 1)
    /\ body \in 0..(Size[target] + 1)
    /\ genuine \in BOOLEAN
    /\ late \in {"none", "update", "exe"}
    /\ writeError \in BOOLEAN
    /\ exe \in File \cup {NoFile}
    /\ backup \in File \cup {NoFile}
    /\ update \in File \cup {NoFile}

\* However an attempt fails, and whenever the process is killed, the file that ran
\* last is still there as it was when it was started, under its own name or under
\* that of the backup (replace_executable undoes nothing, client.rs 786-820).
Recoverable == last \in {exe, backup}

\* Until a download has been verified the process could be started again as it
\* is: nothing has touched its executable.
UntouchedUntilVerified ==
    running # 0 /\ step \in {"idle", "download", "verify", "backup"} =>
      exe = last /\ exe.version = running

\* What is about to be executed is what the signed hash was compared with, may
\* be executed, and lacks the last chunk at most.
VerifiedButForLastChunk ==
    step = "restart" =>
      /\ exe.version = target /\ exe.genuine /\ exe.executable
      /\ exe.chunks <= Size[target] /\ exe.chunks + 1 >= Size[target]

\* A progress bar never runs backwards, even when the server announced no length
\* or sends more than it announced (client.rs 649 divides the one by the other).
ProgressMonotone ==
    [][At("download") /\ step' = "download" => percent' >= percent]_vars

\* Nothing is installed of which the user has not seen all of 100 per cent, and
\* no more, but for an empty release: the length was announced and was kept to.
ProgressComplete ==
    step \in {"backup", "move", "copy", "chmod", "restart"} =>
      percent = IF Size[target] = 0 THEN 0 ELSE 100

\* "This ensures that the files are an accurate replica of the original"
\* (README.md 74-76): with nothing left to write, the executable is whole.
AccurateReplica == step = "restart" /\ late = "none" => exe = Release(target)

-----------------------------------------------------------------------------

kept == {f.version : f \in {g \in {exe, backup} : Starts(g)}}

Keeping == INSTANCE KeptVersions WITH Versions <- Versions, ran <- last.version, kept <- kept

\* Whatever fails, and wherever the process is killed, the files go through no
\* change that KeptVersions does not allow (replace_executable undoes nothing).
KeepsVersions == Keeping!Spec

=============================================================================
