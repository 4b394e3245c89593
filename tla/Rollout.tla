------------------------------- MODULE Rollout -------------------------------
(***************************************************************************)
(* An application that updates itself from a server whose operator puts    *)
(* out releases, edits the version list, stops the server and starts it    *)
(* again between any two of the application's requests.                    *)
(*                                                                         *)
(* The application's side is check_for_updates of src/src/client.rs, one   *)
(* step for each request and, for the download, one for each look the      *)
(* server takes at the file (get_release_file of src/src/server.rs); the   *)
(* installed update is restarted at once (Updater has the delay, Installer *)
(* the ways in which installing fails).  The application itself is the one *)
(* of src/examples and src/testbins: the version it says it is was         *)
(* compiled into it, and its configuration tells when it checks.           *)
(*                                                                         *)
(* A definition whose name ends in Bug is the definition below it with a   *)
(* plausible mistake; no specification uses it.                            *)
(***************************************************************************)
EXTENDS Server

CONSTANTS
    Built,              \* Built[c]: the version that content c, when run, says it is
    Updating,           \* the contents that, when run, have an updater
    First               \* the content the application starts with

ASSUME BuiltAssumption == Built \in [Contents -> Nat \ {0}]
ASSUME UpdatingAssumption == Updating \subseteq Contents
ASSUME FirstAssumption == First \in Contents

VARIABLES
    setting,            \* which operator and which network there are (external)
    checks,             \* the configuration: when the application checks
    vouched,            \* every <<version, content>> on disk when a trusted server was
                        \* started that lists the version
    content,            \* what the executable consists of
    label,              \* the version it was downloaded as
    step,               \* how far check_for_updates has come
    target,             \* the version it downloads
    data,               \* what the file opened for it reads as, then what it received
    announced           \* the Content-Length the client has read

installed == <<content, label>>
download == <<target, data, announced>>
client == <<step, installed, download>>
outside == <<setting, checks>>
vars == <<server, outside, vouched, client>>

\* An orderly operator only ever adds.  A careless one does anything, and lists
\* releases as versions they are not.  A faulty network loses, alters and repeats
\* responses, and any operator but the one who confuses versions is behind it.
Settings == {"orderly", "careless", "faulty"}

running == Built[content]

NoDownload == target' = 0 /\ data' = Torn /\ announced' = 0

\* The last of the test applications has no updater.
NeverChecks(c) == c \notin Updating

\* A process has its startup check before it, if it makes one.
Started(c) ==
    IF NeverChecks(c) THEN "off" ELSE IF "startup" \in checks THEN "startup" ELSE "idle"

Init ==
    /\ DefaultServer
    /\ setting \in Settings
    /\ checks \in SUBSET {"startup", "timer"}
    /\ content = First /\ label = Built[First]
    /\ vouched = {<<label, content>>}
    /\ step = "down"
    /\ target = 0 /\ data = Torn /\ announced = 0

-----------------------------------------------------------------------------
(* The operator (external)                                                 *)

Reading == step \in {"opened", "measured"}

Allowed(v, c) == setting = "careless" \/ Built[c] = v

Files(f) ==
    /\ files' = f
    /\ UNCHANGED <<up, key, versions, latest, outside, vouched, step, installed, target, announced>>

Put(v, c) ==
    /\ v \notin DOMAIN files
    /\ Allowed(v, c)
    /\ Files([u \in DOMAIN files \cup {v} |-> IF u = v THEN c ELSE files[u]])
    /\ UNCHANGED data

\* Written over in place, under a server that may be reading the file.
Overwrite(v, c) ==
    /\ setting # "orderly"
    /\ v \in DOMAIN files
    /\ Allowed(v, c)
    /\ Files([files EXCEPT ![v] = c])
    /\ IF Reading /\ target = v THEN data' \in {c, Torn} ELSE UNCHANGED data

\* A file that is removed, or replaced by rename, stays open for who reads it.
Remove(v) ==
    /\ setting # "orderly"
    /\ v \in DOMAIN files
    /\ Files([u \in DOMAIN files \ {v} |-> files[u]])
    /\ UNCHANGED data

\* The orderly operator keeps the key and extends the list.
InOrder(list, k) ==
    /\ Listed \subseteq DOMAIN list /\ \A v \in Listed : list[v] = versions[v]
    /\ Valid(list) /\ k = Trusted

Served == IF up /\ key = Trusted THEN Listed \cap DOMAIN files ELSE {}

\* The process ends, and with it a download under way.
Stop ==
    /\ up /\ NoCore
    /\ IF Reading THEN step' = "failed" /\ NoDownload ELSE UNCHANGED <<step, download>>
    /\ UNCHANGED <<files, outside, vouched, installed>>

\* It is started with a list and a key, and answers once Core::new has been through
\* the files, all of which it looks at in one step here.
Start(list, k) ==
    /\ ~up
    /\ setting = "orderly" => InOrder(list, k)
    /\ Core(list, k) /\ UNCHANGED files
    /\ vouched' = vouched \cup {<<v, files[v]>> : v \in Served'}
    /\ UNCHANGED <<outside, client>>

-----------------------------------------------------------------------------
(* The application's process (external)                                    *)

Launch ==
    /\ step = "down"
    /\ step' = Started(content)
    /\ UNCHANGED <<server, outside, vouched, installed, download>>

Quit ==
    /\ step # "down"
    /\ step' = "down"
    /\ NoDownload
    /\ UNCHANGED <<server, outside, vouched, installed>>

-----------------------------------------------------------------------------
(* The requests                                                            *)

\* The bodies that a faulty network may put into a response, and the signatures by
\* the trusted key that it may have kept from earlier requests for a hash.
Bodies == {<<v>> : v \in Versions} \cup (Versions \X Contents) \cup vouched
Kept == {Trusted} \X vouched

\* What may reach the client of a response.
Arriving(response) ==
    IF setting # "faulty" THEN {response}
    ELSE {response} \cup Broken(response, Bodies, Keys \ {Trusted}, Kept)

Answers(response) == IF up THEN Arriving(response) ELSE {NoResponse}

Goto(from, to) ==
    /\ step = from
    /\ step' = to
    /\ UNCHANGED <<server, outside, vouched>>

Fail(from) == Goto(from, "failed") /\ NoDownload /\ UNCHANGED installed

\* By the startup task, or by the timer task at a tick.
Due == step \in {"startup"} \cup (IF "timer" \in checks THEN {"idle"} ELSE {})

IsNewer_OtherBug(v) == v # running

IsNewer(v) == v > running

Announces(response) ==
    /\ request(response)
    /\ decode_and_verify(response, 1)
    /\ IsNewer(response.body[1])

\* GET latest
Check ==
    /\ Due
    /\ \E response \in Answers(get_latest_version) :
        /\ Announces(response)
        /\ target' = response.body[1]
    /\ Goto(step, "request")
    /\ UNCHANGED <<installed, data, announced>>

\* No answer, one that is not believed, or no newer version.
NothingNew ==
    /\ Due
    /\ \E response \in Answers(get_latest_version) : ~Announces(response)
    /\ Goto(step, "idle")
    /\ UNCHANGED <<installed, download>>

\* GET releases/:version: the file is opened, and its length is read ...
Request ==
    /\ up /\ HasReleaseFile(target)
    /\ Goto("request", "opened")
    /\ data' = files[target]
    /\ UNCHANGED <<installed, target, announced>>

RequestFails == ~(up /\ HasReleaseFile(target)) /\ Fail("request")

\* A file that is just being overwritten has some length.
Lengths == IF data = Torn THEN {Length[c] : c \in Contents} ELSE {Length[data]}

IsRelease(response) ==
    /\ request(response)
    /\ get_header(response, "Content_Type", "") = "application/octet-stream"

Measure ==
    /\ \E length \in Lengths : \E response \in Answers(Release(length)) :
        /\ IsRelease(response)
        /\ announced' = get_header(response, "Content_Length", 0)
    /\ Goto("opened", "measured")
    /\ UNCHANGED <<installed, target, data>>

MeasureFails ==
    /\ \E length \in Lengths : \E response \in Answers(Release(length)) : ~IsRelease(response)
    /\ Fail("opened")

\* ... before the file itself is, whatever has become of it.  Of a file that has
\* become longer the length announced is sent.
Sent == IF data # Torn /\ Length[data] > announced THEN Torn ELSE data

Received == IF setting = "faulty" THEN Contents \cup {Torn} ELSE {Sent}

Complete(d) == d # Torn => Length[d] = announced

Receive ==
    /\ \E d \in Received : Complete(d) /\ data' = d
    /\ announced' = 0
    /\ Goto("measured", "verify")
    /\ UNCHANGED <<installed, target>>

\* Shorter, or longer, than the Content-Length.
ReceiveFails ==
    /\ \E d \in Received : d = Torn \/ ~Complete(d)
    /\ Fail("measured")

ForVersion_AnyBug(response) == TRUE

ForVersion(response) == response.body[1] = target

Matches(response) ==
    /\ request(response)
    /\ decode_and_verify(response, 2)
    /\ ForVersion(response)
    /\ response.body[2] = data

\* GET hashes/:version; the new process takes the place of the old one.
Verify ==
    /\ \E response \in Answers(get_hash_for_version(target)) : Matches(response)
    /\ Goto("verify", Started(data))
    /\ content' = data /\ label' = target
    /\ NoDownload

VerifyFails ==
    /\ \E response \in Answers(get_hash_for_version(target)) : ~Matches(response)
    /\ Fail("verify")

-----------------------------------------------------------------------------

Publish == \E v \in Versions : Remove(v) \/ \E c \in Contents : Put(v, c) \/ Overwrite(v, c)

Operate ==
    \/ Publish
    \/ Stop
    \/ \E list \in Lists, k \in Keys : Start(list, k)

Update ==
    \/ Check \/ NothingNew \/ Request \/ RequestFails \/ Measure \/ MeasureFails
    \/ Receive \/ ReceiveFails \/ Verify \/ VerifyFails

Next == Operate \/ Launch \/ Quit \/ Update

Spec == Init /\ [][Next]_vars

\* A process that has begun a check goes on with it, and checks at every tick.
FairSpec == Spec /\ WF_vars(Update)

-----------------------------------------------------------------------------
(* Properties                                                              *)

Steps == {"down", "off", "startup", "idle", "request", "opened", "measured", "verify", "failed"}

TypeOK ==
    /\ DOMAIN files \subseteq Versions /\ files \in [DOMAIN files -> Contents]
    /\ up \in BOOLEAN /\ key \in Keys
    /\ versions \in Lists /\ latest \in Versions \cup {0}
    /\ setting \in Settings /\ checks \subseteq {"startup", "timer"}
    /\ vouched \subseteq Nat \X Contents
    /\ content \in Contents /\ label \in Nat
    /\ step \in Steps
    /\ target \in Nat /\ data \in Contents \cup {Torn} /\ announced \in Nat

\* No check passes over an update: if the server the application trusts lists a
\* version newer than the one that runs, whatever lists came before, every answer it
\* gives to a check announces an update (server.rs 271, client.rs 545-566).
NoUpdateMissed ==
    up /\ key = Trusted /\ setting # "faulty" /\ (\E v \in Listed : v > running)
        => \A response \in Answers(get_latest_version) : Announces(response)

\* Whatever becomes of the files, of the list and of the responses between the
\* requests of one update, what is installed is a content that was on disk, for
\* that very version, when a server with the trusted key was started that lists
\* the version.
RunsWhatWasVouched == <<label, content>> \in vouched

\* Every update, the same content installed once more included, is downloaded as a
\* version newer than the one that ran, and brings one: behind any network the
\* application never goes back, nor round in circles.  Only an operator who lists
\* a release as a version that it is not can lead it there.
Updates == step = "verify" /\ step' \in {"off", "startup", "idle"}

EveryUpdateIsNewer ==
    [][Updates => label' > running /\ (setting # "careless" => running' = label')]_vars

\* When releases are only ever added, file first, list next, an update fails half
\* way only for want of a server: while one runs, no update does, whichever
\* requests fall before a change of the list and which after it.
SteadyNeverFails ==
    [][setting = "orderly" /\ step # "failed" /\ step' = "failed" => ~up \/ ~up']_vars

\* In that case an application that still has a check to make comes to run a
\* version as new as any listed, unless its process is ended, it is led to a
\* release that has no updater, or the server does not go on running.
WillCheck ==
    step \notin {"down", "off", "failed"} /\ ("timer" \in checks \/ step = "startup")

SteadyConverges ==
    \A v \in Versions :
        setting = "orderly" /\ up /\ v \in Listed /\ WillCheck
            ~> running >= v \/ step \in {"down", "off"} \/ ~up

=============================================================================
