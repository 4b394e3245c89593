-------------------------------- MODULE Server --------------------------------
(***************************************************************************)
(* The API server of src/src/server.rs: the configuration it is started    *)
(* with, the check of the release files that Core::new makes, and what the *)
(* three endpoints answer.  The release files are on a disk that others    *)
(* write to while the server runs; the server looks at them when it starts *)
(* and again, unchecked, for every download.                               *)
(*                                                                         *)
(* A release is known by its content; the hash of a content stands for the *)
(* content, and Length gives its length.                                   *)
(*                                                                         *)
(* A definition whose name ends in Bug is the definition below it with a   *)
(* plausible mistake; no specification uses it.                            *)
(***************************************************************************)
EXTENDS Responses, FiniteSetsExt

CONSTANTS
    Versions,           \* the versions of the application
    Contents,           \* the contents a release file may have
    Length,             \* Length[c]: how long content c is
    Torn                \* what is read of a file while it is overwritten

\* Whatever versions are listed, one of them is the latest.
ASSUME VersionsAssumption ==
    /\ Versions \subseteq Nat \ {0}
    /\ \A listed \in SUBSET Versions \ {{}} : \E l \in listed : \A v \in listed : l >= v
ASSUME LengthAssumption == Length \in [Contents -> Nat \ {0}] /\ Torn \notin Contents

VARIABLES
    files,              \* the files in Config::releases: their content, by version
    up,                 \* whether the server runs
    key,                \* Config::key of the server that runs, or ran last
    versions,           \* its Config::versions: the hash of every version listed
    latest              \* its Core::latest

server == <<files, up, key, versions, latest>>

Listed == DOMAIN versions

\* The version lists an operator may write: a hash for some of the versions.
Lists == UNION {[listed -> Contents] : listed \in SUBSET Versions}

\* The test servers draw a key of their own at every start.
Keys == {Trusted, "fresh"}

-----------------------------------------------------------------------------
(* Core::new                                                               *)

\* A file that is missing, or has another hash, is an error.
Valid(list) == DOMAIN list \subseteq DOMAIN files /\ \A v \in DOMAIN list : files[v] = list[v]

Newest_FileBug(list) == IF DOMAIN files = {} THEN 0 ELSE Max(DOMAIN files)

\* Version 0.0.0 when the list is empty.
Newest(list) == IF DOMAIN list = {} THEN 0 ELSE Max(DOMAIN list)

\* No server runs.
NoCore == up' = FALSE /\ UNCHANGED <<key, versions, latest>>

Core_StaleBug(list, k) ==
    IF Valid(list)
    THEN up' = TRUE /\ key' = k /\ versions' = list /\ UNCHANGED latest
    ELSE NoCore

Core(list, k) ==
    IF Valid(list)
    THEN up' = TRUE /\ key' = k /\ versions' = list /\ latest' = Newest(list)
    ELSE NoCore

\* By default the example server lists no version.
DefaultServer ==
    /\ files = <<>>
    /\ up = TRUE /\ key = Trusted
    /\ versions = <<>> /\ latest = Newest(versions)

-----------------------------------------------------------------------------
(* The endpoints                                                           *)

get_latest_version == sign_response(key, Json(LatestVersionResponse(latest)))

get_hash_for_version(v) ==
    IF v \in Listed
    THEN sign_response(key, Json(VersionHashResponse(v, versions[v])))
    ELSE Refusal(404)

\* release_file finds the path of a listed version; no other file is served.
HasReleaseFile(v) == v \in Listed /\ v \in DOMAIN files

=============================================================================
