# Patchify, in TLA+

Patchify adds self-update to an application: a client (`src/src/client.rs`, feature
`client`) that runs inside the application, and an API server (`src/src/server.rs`,
feature `server`) that offers releases. This directory holds TLA+ modules for both,
the TLC configurations that check them on small instances, and theorems about them
that TLAPS proves for every value of the constants.

## 1. The system

| Component | State | Operations | Hard because |
|---|---|---|---|
| update coordinator (`Updater`) | `status` under a lock, atomic counter `actions`, the tasks' positions in `check_for_updates` | `check_for_updates`, `register_action`, `deregister_action`, `is_safe_to_update`, `set_status`, `restart` | startup task, timer task and the application's threads share status and counter, which are never read and written in one step |
| status broadcast | tokio broadcast channel of capacity 1, its receivers, the logging task | `set_status` (second half), `subscribe` | events overwrite each other, are sent outside the lock, receivers come, lag and go |
| updater lifetime | reference count, timer queue, running tasks | `new`, `Drop` | tasks hold references of their own to what `Drop` is to end |
| download and installation | files at `exe_path`, `.old` and in the temporary directory, and chunks not yet on disk | `download_update`, `verify_update`, `replace_executable`, `restart` | every step can fail or be the last before a crash, nothing is undone, writes are late |
| response verification | none | `request`, `decode_and_verify`, `get_header` | the signature covers the body alone: neither the headers nor which request it answers |
| server core | version list, latest version, release files | `Core::new`, `latest_version`, `release_file` | files are checked once and served for ever |
| server endpoints | the file open for a download, the signing key | `get_latest_version`, `get_hash_for_version`, `get_release_file`, `sign_response` | three requests make one update, and the server may change between them |

How they interact: `Updater::new` spawns a logging task (a subscriber), a startup task
(one check) and a timer task (a check per tick but the first). A check makes three
requests (`latest`, `releases/:version`, `hashes/:version`), replaces the executable
and restarts the process, at once or, when critical actions are under way, from the
`deregister_action` that ends the last of them. Every change of status is broadcast.

What makes each correct:

- coordinator: one update at a time; the counter is exact; no restart under a critical
  action; a pending restart keeps somebody to trigger it, and happens; what is
  announced is what is installed; a failed update is the last;
- broadcast: whoever has heard of a status and has caught up knows the one that holds,
  and catches up in the end;
- lifetime: an updater nobody holds comes to its end;
- installation: the file that ran last is never lost; nothing unverified is executed;
  the percentage reported never falls and is 100 before anything is installed;
- server and client together: only what a server with the trusted key has checked ever
  runs; with an operator who only adds an update fails only for want of a server; every
  update is one to a newer version as the application itself has it.

## 2. The modules

| Module | What it is | Source |
|---|---|---|
| `UpdateGate` | abstract specification: what the updater promises to critical actions | README and doc comments of the code |
| `Updater` | the coordinator, one step per access to status or counter | `client.rs` 349-602, 840-857 |
| `StatusCycle` | abstract specification: the way of one process through the statuses | `Status`, as the doc comments of `client.rs` 105-135 have it |
| `MCUpdater` | `Updater` with constants for TLC | |
| `UpdaterProofs`, `UpdateGateProofs` | theorems | |
| `StatusFeed` | abstract specification: what a subscriber hears, without lock, channel and lag | README, "Status event subscription", and `client.rs` 353-374, 505-526 |
| `StatusChannel`, `StatusChannelProofs` | `set_status` in two steps and the channel | `client.rs` 353-374, 505-526 |
| `Lifecycle`, `LifecycleProofs` | references, tasks, `Drop` | `client.rs` 349-405, 863-869 |
| `SharedUpdater`, `SharedUpdaterProofs` | `StatusChannel` and `Lifecycle` composed: those who set the status hold references, `Drop` closes the channel | `client.rs` 349-405, 505-526, 863-869 |
| `KeptVersions` | abstract specification: which copies of the application an update keeps | what the backup of `replace_executable` is for |
| `Installer`, `InstallerProofs` | one update attempt after another, on a file system | `client.rs` 571-592, 620-686, 790-857 |
| `MCInstaller` | `Installer` with constants for TLC | |
| `Responses`, `ResponsesProofs` | what the server puts into a response and what the client asks of one, as operators | `responses.rs` 21-42, `server.rs` 483-531, `client.rs` 700-770, 886-896 |
| `Server` | configuration, latest version, files, answers | `server.rs` 173-276, 318-322, 377-415 |
| `Rollout`, `MCRollout`, `RolloutProofs` | `Server` and `Responses` composed with the client's requests, an operator, a network and the application's process | `client.rs` 537-602, 628-686, `server.rs` 443-491, examples and test binaries |

### Updater

`check[t]` is the point of `check_for_updates` that task `t` has reached and `action[c]`
the point of `register_action` or `deregister_action` that thread `c` has reached; the
names of the points are those of the action that leaves them. `status`, `actions` are
the fields; `version[a]` and `value[c]` the locals that survive a step; `installed` is
the version of the file at `exe_path`, or none; `proc` says whether the process still runs.

A failed download or verification (`Fail`) leaves the executable alone. A failed
`replace_executable` (`ReplaceFails`) may leave the running one, none, or the new one in
place, the latter when only its permissions could not be set; the status stays
`Installing` in each case and the process is not restarted. A thread in `Resident` may
keep its critical action for ever, as the README of the repository recommends (236-239) to
an application that wants to restart on its own.

A step is one access to the status lock or to the counter with the computation that
precedes it. The constant `Preemptive` decides whether a step of somebody else may come
between two steps that no `.await` separates. On a multi-threaded tokio runtime
(`#[tokio::main]` of the examples) it may; on a current-thread runtime (`#[tokio::test]`
of the tests) it may not: `Turn` lets only the actor that is inside such a stretch go on
(`MidSegment`). The tests therefore never see the interleavings that the three violation
runs of `Updater`, and `channel_order`, show.

Left out: the answers of server and file system are success or failure; the percentage;
the broadcast (`StatusChannel`). The method `set_status` is public; the modelled
application does not call it, nor `deregister_action` without `register_action`.

`UpdateGate` knows two things, the phase of the gate and the set of active critical
actions. The mapping (end of `Updater`): an action is active from the increment to the
decrement of the counter; the gate is open until `PendingRestart` or `Restarting` is
set, pending as long as the status is `PendingRestart` and the counter is not zero, and
restarting from then on: the decrement to zero, not the write of the status, is the
moment at which the restart becomes due. `StatusCycle` knows the status alone, and is
implemented with the identity as the mapping.

### StatusChannel

`Write` and `Send` are the two halves of `set_status`. Statuses are numbered by the
order in which they are written. On a multi-threaded runtime two setters may send in
another order than they wrote (`channel_order`); what is checked and proved of the channel
besides holds for a current-thread runtime. The channel is tokio's and is modelled from how it is
used: it keeps the last event; a receiver further behind than that gets an error and
then the event kept; sending fails if there is no receiver. A subscriber continues after
the error; the logging task, which matches `Ok(..)` and breaks `else`, does not. `Close` is
the end of the updater: what has been sent can still be received, and then the logging task
stops.
`StatusFeed` knows the number of the status that is known to the world, the receivers, and
what each has heard of last: to hear is to hear of the status as it is at that moment. The
mapping (end of `StatusChannel`) publishes a status when it is sent: while a call of
`set_status` is under way, that is one less than the status in the lock. Events that
nobody has received and those that lag made a receiver miss do not exist there.

### Installer

A file is a copy of a version with a number of chunks on disk, genuine or not,
executable or not. `exec` asks for nothing but the permission and that the file is not
empty (`Starts`): an executable that has lost its last chunk can start, run, and become
the backup of the next update. A release may be empty. The stream may bring anything, of any announced length, and break
off. tokio's file passes a chunk to another thread: `late` says which file a chunk is
still on its way to. It may land or be lost at any time; the next chunk waits for it and
reports a loss; after the last chunk nobody does. `Crash` may come at any step, `Start`
is the supervisor that starts what it finds at `exe_path`. `last`, the file that was
started last as it was then, is a history variable. After a failure the attempt is over (`step = "failed"`), as
the status never returns to `Idle`, until the process ends. `percent` is the percentage
as the code computes it: a quotient of floats, infinite when no length was announced,
above 100 when more comes than was announced, and saturated to the width of `u8`.
`KeptVersions` knows the version that ran last and the versions of which there is a copy
that can be started under one of the two names; the mapping reads both off the files.

### Lifecycle and SharedUpdater

The reference count is the set of those who hold one: parts of the application, the
startup task until it ends, the timer task until it ends. Whoever lets go of the last
runs `Drop` in the same step. `Init` has two parts: the constructor returns, or it panics
at an interval of zero, when the startup task may already hold a reference.

`SharedUpdater` is the conjunction of the two, with `dropped` of the one as `closed` of the
other. Who sets the status holds a reference meanwhile: an application's thread in
`deregister_action` its own, the tasks theirs while a check is under way (`Holds`); nobody
lets go of a reference, and no task ends, half way through `set_status` (`Free`).

### Responses, Server and Rollout

A response is a status, the headers that are there and can be read, and a body, the
sequence of its fields; a signature is the pair of the key and the body it was made with.
`decode_and_verify` is the conjunction of the checks of the code, `get_header` its default
for what is missing. The kinds of error are one failure. `Broken` is what a network may make
of a response: it may lose it, cut off its body, answer with an error, take away or alter a
header (`Damaged`), or put in another body with headers that fit it and any signature but
one that the trusted key would have to make for it (`Replaced`).

A content stands for its hash. `Core` is `Core::new`; a server that could not start
answers nothing. `Stop` and `Start` are the end and the start of the server's process, for
every operator: a download under way breaks off, and every request in between fails. A download takes three looks at the file, `Request` (open), `Measure`
(metadata) and `Receive` (read), and the operator may act between any two: overwriting in
place changes what an open file reads as, removing or renaming does not.

The client's steps are the requests of `check_for_updates` with what it does with the
answer; `Answers` is what may arrive of the answer that the server gives in that state.
`setting` says who is around. The orderly operator only adds: files first, then the list,
with which the server is started again; the key stays. The careless one does anything, and may list
a release as a version that it is not. Behind the faulty network there is an operator who
does anything but that; the network makes anything of an answer that is in `Broken`, brings
anything for a release, and has kept the answers that were signed before.
`content` is what the executable consists of, `label` the version it was downloaded as, and
`running` the version that was compiled into it, which the updater is told. The process is
started (`Launch`), ended (`Quit`), and replaced by an update; it has a startup check, a
timer, both or neither, or no updater at all, as the applications of the examples and of
the test binaries have it. `vouched` is a history variable.

## 3. The runs

| Run | Module | Shows | Properties |
|---|---|---|---|
| `cooperative` | `MCUpdater` | current-thread runtime, both tasks, three threads: types, one update at a time, quiet restart, a pending restart is never left without somebody to trigger it, announcement and installation agree, one installation, no action refused while a check waits for an answer, an installed update takes effect unless an action is kept for ever, `UpdateGate` implemented with its liveness, `StatusCycle` implemented | `TypeOK`, `ExclusiveUpdate`, `QuietRestart`, `AnnouncedIsInstalled`, `InstalledOnce`, `WaitingIsOpen`, `PendingIsWatched`, `UpdateTakesEffect`, `KeepsPromise`, `FollowsCycle` |
| `preemptive_single` | `MCUpdater` | multi-threaded runtime, timer only: exact counter, failures final, no step loses the last who is to trigger a pending restart, actions under way do not block it | `CounterExact`, `FailureIsFinal`, `WatchIsKept`, `BlockedByWorkEnds` |
| `preemptive_checks` | `MCUpdater` | violation: both tasks pass the guard "Ensure no updates are already underway" | `ExclusiveUpdate` |
| `preemptive_register` | `MCUpdater` | violation: an admitted action is not counted yet when the restart is decided | `QuietRestart` |
| `preemptive_pending` | `MCUpdater` | violation: the last action ends between the test of the counter and `PendingRestart`; no restart ever | `PendingRestartHappens` |
| `shared` | `SharedUpdater` | current-thread runtime, an updater that comes and goes: caught up means up to date; subscribers catch up; `StatusFeed` implemented; no check on a dropped updater; one that is let go of and has no timer ends, and the logging task with it | `TypeOK`, `CaughtUp`, `HearsLatest`, `FeedsLatest`, `NoCheckOnceDropped`, `ReleasedIsDropped` |
| `channel_order` | `StatusChannel` | violation, multi-threaded runtime: a subscriber is notified of the later of two changes first | `NotifiedInTurn` |
| `channel_logger` | `StatusChannel` | violation: the persistent subscriber stops at its first lag | `LoggerPersists` |
| `installer` | `MCInstaller` | the file that ran last survives every failure; nothing is touched before verification; what is executed was verified, but for the last chunk; progress never falls and is complete before the installation; `KeptVersions` implemented | `TypeOK`, `Recoverable`, `UntouchedUntilVerified`, `VerifiedButForLastChunk`, `ProgressComplete`, `ProgressMonotone`, `KeepsVersions` |
| `installer_flush` | `MCInstaller` | violation: a verified update can be incomplete on disk, with nothing left to write | `AccurateReplica` |
| `lifecycle_stop` | `Lifecycle` | violation: the timer is never stopped by `Drop` | `ReleaseStopsTimer` |
| `rollout` | `MCRollout` | only contents that a server with the trusted key has checked run; every update raises the version the application says it is, unless the operator confuses versions; with an orderly operator an update fails only for want of a server, and applications converge while it runs | `RunsWhatWasVouched`, `SteadyNeverFails`, `EveryUpdateIsNewer`, `SteadyConverges` |

Bounds. `Updater`: versions 0 to 3 with 1 running, so that the server may offer an older,
the same and two newer versions; three threads (two in the violation runs) and a counter
that holds one less, so that one registration overflows, and so that two actions can be
under way while a third is refused. Nothing else is bounded. `SharedUpdater`: four
changes, so that a receiver can lag, recover and lag again, with two owners and the two
tasks as setters, and one subscriber besides the logging task; `channel_order` and
`channel_logger` have what they need of it. Since the changes are bounded, a subscriber
that lags behind for ever is not explored. `Installer`: releases of two chunks (one that is
waited for and one that is not) and an empty one, four versions, so that an update that has
lost its last chunk becomes a backup and is replaced as one. `Lifecycle`: two owners. `Rollout`: an application at
version 1, releases 2 and 3, four contents of two lengths (one of version 2, two of version
3, one of which has no updater), and `MaxVouched`, which bounds the pairs of version and
content ever vouched for by three: with the one the application starts as, the two that it
takes for one to stand in for the other. Two more restrictions keep the instance small, and
the proofs do without them: the careless operator keeps the key, and only the orderly one's
applications have less than every check.

Fairness. `Updater`: every task is polled again and again when it is ready, in turn, hence
strong fairness of a task's progress and of a thread's calls; a download ends, requests
and file operations end (there is no timeout in the code: a server that never answers is
outside this assumption); a critical action that has begun ends, unless it is that of a
resident thread. Registering is never forced. `SharedUpdater`: a call of `set_status` is
finished, a subscriber and the tasks are polled in turn, the interval ticks, a check
returns; nobody has to subscribe or to let go. `Lifecycle`: the same of its tasks.
`Rollout`: a process goes on with what it has begun and checks again; the operator need
not do anything, also not start the server, and nobody has to start the application.

`CHECK_DEADLOCK FALSE` in `shared`, `channel_order`, `channel_logger` and `lifecycle_stop`:
the system really stops once the updater is gone. Elsewhere deadlock is checked; the end of the process in `Updater`
and an application that cannot be started in `Installer` are steps that change nothing.

Every property of a passing run has a mutant in `PROJECT.json`: a definition whose name
ends in `Bug` that, put in the place of the one it precedes, makes TLC find the property
violated.

## 4. The proofs

Assumptions: those of the modules (`ASSUME`), which TLC evaluates in the runs: options
are Booleans, threads are finitely many and none is a task, versions are naturals, the
bounds are positive.

`UpdaterProofs`, in this order:

1. `TypeCorrect`. `TypeOK` is not inductive: that a task has a version in hand when it
   installs (`VersionInHand`) is needed as well.
2. `OneUpdate`, the invariant of a coordinator whose tasks do not get between guard and
   claim (`Sequential`: not preemptive, or a single task): the status tells exactly how
   far the one task at work is (`StatusTracksTask`), the executable is replaced only by
   the task that is about to restart (`InstalledTracksTask`), and a thread that triggers
   the restart knows the pending version (`TriggerTracksStatus`). From it
   `OneUpdateAtATime`, `AnnouncementIsTrue`, `OneInstallation`, `FailureStays`,
   `WaitingDeniesNothing` and `CycleIsFollowed`.
3. `CounterCorrect`, on any runtime, with the lemmas on finite sets of the library.
4. `Cooperative`, for a current-thread runtime: at most one actor is inside a stretch
   without `.await` (`OneSegment`), and what it has read of counter and status still
   holds when it acts on it (`ReadIsFresh`). From it `QuietRestartCorrect` and
   `KeepsPromiseSafely`: every step of `Updater` is a step of `UpdateGate` or changes
   nothing there. `GateNeverInterrupts` and `GateOnlyDrains` say of `UpdateGate` what that
   is good for: nothing is cut off, and once the gate is shut the actions under way only
   become fewer. `ActionsOnlyDrain` carries the second over to `Updater`.
5. `NewerOnly`, on any runtime, while two tasks update at once as well. Its invariant
   `NewerInHand` follows the version from the answer through the task that has it in hand
   to status and executable.
6. What liveness of the restart rests upon. `PendingIsNeverForgotten` (current-thread
   runtime): a pending restart has a critical action under way, or a thread that has
   just brought the counter to zero. `WatchKept` (either runtime, one task if it is
   preemptive): no step takes away the last who is to trigger it, so that what
   `preemptive_pending` finds can only go wrong at the moment of becoming pending.
7. What `StatusCycle` is good for: in `OneVersionIsAnnounced` and `RestartingIsSaidLast`
   the properties `NamesNewer`, `NamesOneVersion` and `RestartingIsLast` of the abstract
   specification are proved of every process that implements it.

`StatusChannelProofs`: `InStep`, the channel is behind the status by at most the one call
of `set_status` that is under way, and a receiver behind the channel can still hear the
last event. From it `CaughtUpCorrect` and, step by step, `FeedIsLatest` (current-thread
runtime). `TypeCorrect` holds on any runtime: that no more
events are sent than statuses are written takes a count of the calls of `set_status` that
are under way (`NoMoreThanChanges`), with the library's lemmas on finite sets.

`InstallerProofs`: `NotLost`, which of executable and backup is the file that ran last,
whole or not, at each step of an attempt, and that a late chunk can touch the executable
only when the backup is in place. From it `AlwaysRecoverable` and
`UntouchedBeforeVerification`. `Counted`, how many chunks of which version, and of what worth, the
update and the executable hold at each step, is proved together with the types
(`TypeCorrect`), and gives `ExecutesWhatWasVerified`, `ProgressNeverFalls`,
`InstallsAllReceived` and, step by step, `VersionsAreKept`. A property of `KeptVersions`
follows: no crash, failure or restart takes a machine back to an older version
(`NeverRunsOlder`).

`LifecycleProofs`: `Accounted`, the updater is dropped exactly when nobody holds a
reference and the queue has a message only then, gives `DroppedIsQuiet`. With `TimerGoesOn`
it gives `TimerOutlivesOwners`, what the run `lifecycle_stop` shows on an example: a timer
task that has begun is never stopped.

`SharedUpdaterProofs`: the composition implements both its parts. That it lives as
`Lifecycle` says (`LivesAsAlone`) gives `SharedDroppedIsQuiet`. That those who listen see
the channel of `StatusChannel` (`SharedChannel`) needs that nobody is cut off in
`set_status` by the closing of the channel (`CallsHoldOn`), and gives `SharedCaughtUp`.

`ResponsesProofs`: what the client believes. `BelievesTheAnswerItself`: of an answer and of
all that the network may make of it (`Broken`), with any bodies, keys of its own and
signatures kept of other answers, exactly what the trusted key has made is believed, to the
last header. That no other header may be missing or altered, whatever `get_header` puts in
the place of one that is missing, is `DamagedIsRefused`.

`RolloutProofs`: the types (`TypeCorrect`), and that the latest version of a running server
is the newest of its list (`LatestIsNewest`), from which follows that no check passes over
an update (`NewerIsAnnounced`); that a response is believed only with the trusted key's signature of its
own body (`BelievedIsSigned`), and that the network can add no signature
(`ArrivingIsKnown`), so that what is believed of a hash was vouched for
(`BelievedIsVouched`). The invariant `Vouching`, a running server with the trusted key
lists only what is vouched for, gives `RunsOnlyVouched`; with `Truthful` (nobody confuses
versions) and `Ahead` (what is downloaded is newer than what runs) it gives
`UpdatesAreNewer`. `Orderly` ties what the client has in hand to list and files, whether the
server is up or down, and gives `SteadyUpdatesSucceed`, for any number of versions of which every set has a latest.

Proved, and in no run of section 3, as they are consequences of what the runs check, or say
what the violation runs show from the other side: `NewerOnly`, `OneVersionIsAnnounced`,
`RestartingIsSaidLast`, `ActionsOnlyDrain`, `GateOnlyDrains`, `NeverRunsOlder`,
`TimerOutlivesOwners`, `LivesAsAlone`, `SharedChannel`, `NewerIsAnnounced`,
`BelievesTheAnswerItself`, and the types of `Rollout`. TLC, given them in the configuration of
the run of their module, finds `OnlyNewer`, `TimerIsForEver`, `NoUpdateMissed` and the types
of `Rollout` to hold; the others are about an abstract specification or about operators.

Only model-checked: every liveness property (`UpdateTakesEffect`, `BlockedByWorkEnds`,
`HearsLatest`, `ReleasedIsDropped`, `SteadyConverges`, the liveness part
of `KeepsPromise`), since liveness under fairness is beyond the prover.

## 5. Findings

The seven violation runs, each with the sentence of the repository it contradicts, are in
`PROJECT.json`. Four of them need a multi-threaded runtime; the logging task, the unflushed
file and the timer do not. The sentence that `channel_order` contradicts, that a subscriber
is notified every time the status changes, fails on a current-thread runtime as well, for a
subscriber that is not polled between two changes: the channel holds one event. Not findings, because the code says so itself: `is_safe_to_update`
is "naive" (`client.rs` 478-480), and so is `replace_executable` (778-781), after whose
failure the application may have no executable at its path (`Recoverable` says what is
left); and a server that is stopped for a new list makes the updates of the moment fail for
good, as `client.rs` 24-27 says of every error. Also seen and not modelled: `src/examples/axum-server.rs` drops the future of
`create_patchify_api_server` without awaiting it, so that the example serves nothing.

## 6. Not modelled

- Wire formats: hexadecimal signatures, JSON text, versions as text, URLs. A field is
  there or not.
- Which error an operation reports: the error enums, `Display` and log lines are wording.
- That `Core::new` takes a while to look at one file after the other: `Start` is one step,
  and until it has been taken every request fails.
- How a body is cut into buffers, and thresholds for streaming: a file that is read while
  it changes is torn, whichever way it is read.
- A server that accepts a request and never answers. There is no timeout in the code, so
  the check would wait for ever; the fairness of the liveness properties excludes it, and
  `WaitingIsOpen` says that such a wait blocks no critical action.
- `deregister_action` without `register_action`: the counter cannot tell whose action it
  is, and takes one of another's away; the modelled application pairs its calls.
- Server requests other than those of one application: the server keeps no state
  between requests.
- The module structure and features of `lib.rs`; the pages of the test applications; the
  `main` of `axum-server.rs` (see section 5).

## 7. Plan

Done, in this order, the most important first: `UpdateGate`, `Updater` and their proofs;
`StatusChannel`; `Installer`; `Lifecycle`; `Server` and `Rollout`; `StatusCycle`,
`KeptVersions` and the refinements; the percentage; `Responses`; the proofs of `Rollout`,
of the types and of `Lifecycle`; `StatusFeed` and its refinement; the theorems on the
abstract specifications and what follows from them for the detailed ones; `ResponsesProofs`;
`SharedUpdater`, the composition of `StatusChannel` and `Lifecycle`.

Left:

1. a composition of `Updater` and `StatusChannel` (the events a subscriber hears of one
   update, in the order of the life cycle);
2. two installations that overlap, as `preemptive_checks` makes possible, on the files
   of `Installer`.
