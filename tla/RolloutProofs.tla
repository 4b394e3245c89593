---------------------------- MODULE RolloutProofs ----------------------------
(***************************************************************************)
(* Proofs about Rollout, for every set of versions and contents, every     *)
(* operator and network: what runs was vouched for, every update is to a   *)
(* newer version, and an orderly operator's updates fail only for want of  *)
(* a server.                                                               *)
(***************************************************************************)
EXTENDS Rollout, ResponsesProofs, TLAPS

(***************************************************************************)
(* What arrives                                                            *)
(***************************************************************************)

\* A signature by the trusted key arrives only with what the key has signed: the
\* response, or an earlier answer.
LEMMA ArrivingIsKnown ==
    ASSUME NEW response, NEW r \in Answers(response),
           "X_Signature" \in DOMAIN r.headers,
           r.headers["X_Signature"] = <<Trusted, r.body>>,
           response = Response(response.status, response.headers, response.body)
    PROVE  \/ /\ up
              /\ "X_Signature" \in DOMAIN response.headers
              /\ response.headers["X_Signature"] = <<Trusted, r.body>>
           \/ r.body \in vouched
<1> DEFINE Type == With(response, "Content_Type", "text/html")
           Size == With(response, "Content_Length", response.headers["Content_Length"] + 1)
<1>1. r # NoResponse
  BY DEF NoResponse, Response
<1>2. up /\ r \in Arriving(response)
  BY <1>1 DEF Answers
<1>3. CASE r = response
  BY <1>2, <1>3
<1>4. CASE r \in {[response EXCEPT !.whole = FALSE], [response EXCEPT !.status = 502]}
  BY <1>2, <1>4 DEF Response
<1>5. CASE r \in {Type, Size}
  <2>1. /\ DOMAIN r.headers = DOMAIN response.headers
        /\ r.headers["X_Signature"] = response.headers["X_Signature"]
    BY <1>5 DEF With, Response
  <2> QED
    BY <1>2, <2>1
<1>6. CASE \E header \in DOMAIN response.headers : r = Without(response, header)
  BY <1>2, <1>6 DEF Without, Response
<1>7. CASE r \in Replaced(response, Bodies, Keys \ {Trusted}, Kept)
  <2> DEFINE signature == r.headers["X_Signature"]
  <2>1. \/ \E k \in Keys \ {Trusted} : signature = <<k, r.body>>
        \/ signature \in Kept
        \/ signature = get_header(response, "X_Signature", <<>>)
    <3>1. \E b \in Bodies :
             /\ r = Signed(Json(b), r.headers["X_Signature"]) /\ r.body = b
             /\ \/ \E k \in Keys \ {Trusted} : r.headers["X_Signature"] = <<k, b>>
                \/ r.headers["X_Signature"] \in Kept
                \/ r.headers["X_Signature"] = get_header(response, "X_Signature", <<>>)
      BY ONLY <1>7, ReplacedIsSigned
    <3> QED
      BY <3>1
  <2>2. ASSUME NEW k \in Keys \ {Trusted} PROVE signature # <<k, r.body>>
    <3>1. <<k, r.body>>[1] # <<Trusted, r.body>>[1]
      OBVIOUS
    <3> QED
      BY <3>1
  <2>3. CASE signature \in Kept
    BY <2>3 DEF Kept
  <2>4. CASE signature = get_header(response, "X_Signature", <<>>)
    <3>1. <<Trusted, r.body>> # <<>>
      OBVIOUS
    <3> QED
      BY <1>2, <2>4, <3>1 DEF get_header
  <2> QED
    BY <2>1, <2>2, <2>3, <2>4
<1> QED
  BY <1>1, <1>2, <1>3, <1>4, <1>5, <1>6, <1>7 DEF Arriving, Broken, Damaged

\* A response that the client believes is one that a server with the trusted key
\* has just made, or has made before.
LEMMA BelievedIsVouched ==
    ASSUME NEW v, NEW r \in Answers(get_hash_for_version(v)), NEW fields,
           decode_and_verify(r, fields)
    PROVE  \/ up /\ key = Trusted /\ v \in Listed /\ r.body = <<v, versions[v]>>
           \/ r.body \in vouched
<1> DEFINE answer == get_hash_for_version(v)
<1>1. /\ "X_Signature" \in DOMAIN r.headers
      /\ r.headers["X_Signature"] = <<Trusted, r.body>>
  BY BelievedIsSigned
<1>2. CASE v \in Listed
  <2>1. answer = sign_response(key, Json(<<v, versions[v]>>))
    BY <1>2 DEF get_hash_for_version, VersionHashResponse
  <2>2. answer = Response(answer.status, answer.headers, answer.body)
    BY <2>1 DEF sign_response, Signed, Json, Response
  <2>3. answer.headers["X_Signature"] = <<key, answer.body>> /\ answer.body = <<v, versions[v]>>
    BY <2>1, SignedResponse
  <2> HIDE DEF answer
  <2>4. r \in Answers(answer)
    BY DEF answer
  <2> QED
    BY <1>1, <1>2, <2>2, <2>3, <2>4, ArrivingIsKnown
<1>3. CASE v \notin Listed
  <2>1. answer = Refusal(404)
    BY <1>3 DEF get_hash_for_version
  <2>2. /\ answer = Response(answer.status, answer.headers, answer.body)
        /\ "X_Signature" \notin DOMAIN answer.headers
    BY <2>1 DEF Refusal, Response
  <2> HIDE DEF answer
  <2>3. r \in Answers(answer)
    BY DEF answer
  <2> QED
    BY <1>1, <2>2, <2>3, ArrivingIsKnown
<1> QED
  BY <1>2, <1>3

(***************************************************************************)
(* What runs was vouched for                                               *)
(***************************************************************************)

WellTyped ==
    /\ files \in [DOMAIN files -> Contents]
    /\ DOMAIN files \subseteq Versions
    /\ vouched \subseteq (Nat \X Contents)

\* A server with the trusted key speaks only of what is vouched for.
Vouching == up /\ key = Trusted => \A v \in Listed : <<v, versions[v]>> \in vouched

VouchedInv == WellTyped /\ Vouching /\ RunsWhatWasVouched

LEMMA InitVouched == Init => VouchedInv
<1> SUFFICES ASSUME Init PROVE VouchedInv
  OBVIOUS
<1>1. WellTyped
  BY BuiltAssumption, FirstAssumption DEF Init, DefaultServer, WellTyped
<1>2. Vouching
  BY DEF Init, DefaultServer, Vouching, Listed
<1> QED
  BY <1>1, <1>2 DEF Init, DefaultServer, VouchedInv, RunsWhatWasVouched

\* The files stay those of Contents, by version.
LEMMA FilesStayTyped ==
    ASSUME WellTyped, NEW f, f \in [DOMAIN f -> Contents], DOMAIN f \subseteq Versions, Files(f)
    PROVE  WellTyped'
BY DEF WellTyped, Files

\* What the successful client has in hand was vouched for.
LEMMA MatchIsVouched ==
    ASSUME VouchedInv, NEW r \in Answers(get_hash_for_version(target)), Matches(r)
    PROVE  <<target, data>> \in vouched
<1>1. r.body[1] = target /\ r.body[2] = data
  BY DEF Matches, ForVersion
<1>2. CASE up /\ key = Trusted /\ target \in Listed /\ r.body = <<target, versions[target]>>
  BY <1>1, <1>2 DEF VouchedInv, Vouching
<1>3. CASE r.body \in vouched
  BY <1>1, <1>3 DEF VouchedInv, WellTyped
<1> QED
  BY <1>2, <1>3, BelievedIsVouched DEF Matches

LEMMA NextVouched == VouchedInv /\ [Next]_vars => VouchedInv'
<1> SUFFICES ASSUME VouchedInv, [Next]_vars PROVE VouchedInv'
  OBVIOUS
<1> USE DEF VouchedInv
<1>1. ASSUME NEW v \in Versions, NEW c \in Contents, Put(v, c)
      PROVE  VouchedInv'
  <2> DEFINE f == [u \in DOMAIN files \cup {v} |-> IF u = v THEN c ELSE files[u]]
  <2>1. f \in [DOMAIN f -> Contents] /\ DOMAIN f \subseteq Versions
    BY DEF WellTyped
  <2>2. Files(f)
    BY <1>1 DEF Put
  <2>3. WellTyped'
    BY <2>1, <2>2, FilesStayTyped
  <2> QED
    BY <2>2, <2>3 DEF Files, Vouching, Listed, RunsWhatWasVouched, installed
<1>2. ASSUME NEW v \in Versions, NEW c \in Contents, Overwrite(v, c)
      PROVE  VouchedInv'
  <2> DEFINE f == [files EXCEPT ![v] = c]
  <2>1. f \in [DOMAIN f -> Contents] /\ DOMAIN f \subseteq Versions
    BY DEF WellTyped
  <2>2. Files(f)
    BY <1>2 DEF Overwrite
  <2>3. WellTyped'
    BY <2>1, <2>2, FilesStayTyped
  <2> QED
    BY <2>2, <2>3 DEF Files, Vouching, Listed, RunsWhatWasVouched, installed
<1>3. ASSUME NEW v \in Versions, Remove(v)
      PROVE  VouchedInv'
  <2> DEFINE f == [u \in DOMAIN files \ {v} |-> files[u]]
  <2>1. f \in [DOMAIN f -> Contents] /\ DOMAIN f \subseteq Versions
    BY DEF WellTyped
  <2>2. Files(f)
    BY <1>3 DEF Remove
  <2>3. WellTyped'
    BY <2>1, <2>2, FilesStayTyped
  <2> QED
    BY <2>2, <2>3 DEF Files, Vouching, Listed, RunsWhatWasVouched, installed
<1>4. ASSUME NEW list \in Lists, NEW k \in Keys, Start(list, k)
      PROVE  VouchedInv'
  <2>1. /\ UNCHANGED <<files, installed>>
        /\ vouched' = vouched \cup {<<v, files[v]>> : v \in Served'}
        /\ Core(list, k)
    BY <1>4 DEF Start, client
  <2>2. Served' \subseteq DOMAIN files
    BY <2>1 DEF Served
  <2>3. WellTyped'
    BY <2>1, <2>2, VersionsAssumption DEF WellTyped
  <2>4. Vouching'
    <3> SUFFICES ASSUME up', key' = Trusted, NEW v \in Listed'
                 PROVE  <<v, versions'[v]>> \in vouched'
      BY DEF Vouching
    <3>1. versions' = list /\ Valid(list)
      BY <2>1 DEF Core, NoCore
    <3>2. v \in DOMAIN files /\ files[v] = versions'[v]
      BY <3>1 DEF Valid, Listed
    <3>3. v \in Served'
      BY <2>1, <3>2 DEF Served
    <3> QED
      BY <2>1, <3>2, <3>3
  <2>5. RunsWhatWasVouched'
    BY <2>1 DEF RunsWhatWasVouched, installed
  <2> QED
    BY <2>3, <2>4, <2>5
<1>5. CASE Stop
  BY <1>5 DEF Stop, NoCore, WellTyped, Vouching, Listed, RunsWhatWasVouched, installed
<1>6. CASE Verify
  <2>1. <<target, data>> \in vouched
    BY <1>6, MatchIsVouched DEF Verify
  <2>2. content' = data /\ label' = target /\ UNCHANGED <<server, vouched>>
    BY <1>6 DEF Verify, Goto
  <2> QED
    BY <2>1, <2>2 DEF server, WellTyped, Vouching, Listed, RunsWhatWasVouched
<1>7. ASSUME UNCHANGED <<server, vouched, installed>>
      PROVE  VouchedInv'
  BY <1>7 DEF server, installed, WellTyped, Vouching, Listed, RunsWhatWasVouched
<1>8. CASE Launch \/ Quit \/ (Update /\ ~Verify)
  BY <1>7, <1>8 DEF Launch, Quit, Update, Check, NothingNew, Request, RequestFails, Measure,
    MeasureFails, Receive, ReceiveFails, VerifyFails, Goto, Fail, installed
<1>9. CASE UNCHANGED vars
  BY <1>7, <1>9 DEF vars, client
<1> QED
  BY <1>1, <1>2, <1>3, <1>4, <1>5, <1>6, <1>8, <1>9 DEF Next, Operate, Publish

\* Whatever the operator and the network do between the requests of an update, the
\* content installed was vouched for, for that very version, by a server that
\* Core::new let start with the trusted key.
THEOREM RunsOnlyVouched == Spec => []RunsWhatWasVouched
<1>1. VouchedInv => RunsWhatWasVouched
  BY DEF VouchedInv
<1> QED
  BY <1>1, InitVouched, NextVouched, PTL DEF Spec

\* The latest version of a list is one of the list.
LEMMA NewestIsListed ==
    ASSUME NEW list, DOMAIN list \subseteq Versions
    PROVE  Newest(list) = 0 \/ Newest(list) \in DOMAIN list
<1>1. CASE DOMAIN list # {}
  <2>1. \E l \in DOMAIN list : \A v \in DOMAIN list : l >= v
    BY <1>1, VersionsAssumption
  <2> QED
    BY <1>1, <2>1 DEF Newest, Max
<1> QED
  BY <1>1 DEF Newest

\* None of the list is later.
LEMMA NewestIsNewest ==
    ASSUME NEW list, DOMAIN list \subseteq Versions, NEW v \in DOMAIN list
    PROVE  Newest(list) >= v
<1>1. \E l \in DOMAIN list : \A u \in DOMAIN list : l >= u
  BY VersionsAssumption
<1> QED
  BY <1>1 DEF Newest, Max

(***************************************************************************)
(* Type correctness, and the latest version                                *)
(***************************************************************************)

\* What arrives of the length of a release is a number.
LEMMA LengthArrives ==
    ASSUME NEW length \in Nat, NEW r \in Answers(Release(length)), IsRelease(r)
    PROVE  get_header(r, "Content_Length", 0) \in Nat
<1> DEFINE release == Release(length)
<1>1. /\ release = [status |-> release.status, headers |-> release.headers,
                    body |-> release.body, whole |-> release.whole]
      /\ DOMAIN release.headers = {"Content_Type", "Content_Length"}
      /\ release.headers["Content_Length"] = length
  BY DEF Release, Response
<1>2. r \in Answers(release)
  OBVIOUS
<1> HIDE DEF release
<1>3. CASE r = NoResponse
  BY <1>3 DEF NoResponse, Response, get_header
<1>4. CASE r = release
  BY <1>1, <1>4 DEF get_header
<1>5. CASE r \in {[release EXCEPT !.whole = FALSE], [release EXCEPT !.status = 502]}
  BY <1>1, <1>5 DEF get_header
<1>6. CASE r = With(release, "Content_Type", "text/html")
  <2>1. r.headers["Content_Type"] = "text/html" /\ "Content_Type" \in DOMAIN r.headers
    BY <1>1, <1>6 DEF With
  <2> QED
    BY <2>1 DEF IsRelease, get_header
<1>7. CASE r = With(release, "Content_Length", release.headers["Content_Length"] + 1)
  <2>1. r.headers["Content_Length"] = length + 1
    BY <1>1, <1>7 DEF With
  <2> QED
    BY <2>1 DEF get_header
<1>8. CASE \E header \in DOMAIN release.headers : r = Without(release, header)
  BY <1>1, <1>8 DEF Without, get_header
<1>9. CASE r \in Replaced(release, Bodies, Keys \ {Trusted}, Kept)
  <2>1. PICK body \in Bodies : r = Signed(Json(body), r.headers["X_Signature"])
    BY <1>9, ReplacedIsSigned
  <2>2. r.headers["Content_Type"] = "application/json" /\ "Content_Type" \in DOMAIN r.headers
    BY <2>1 DEF Signed, Json, Response
  <2> QED
    BY <2>2 DEF IsRelease, get_header
<1> QED
  BY <1>2, <1>3, <1>4, <1>5, <1>6, <1>7, <1>8, <1>9 DEF Answers, Arriving, Broken, Damaged

\* What a client takes for the latest version is a version.
LEMMA AnnouncedIsVersion ==
    ASSUME TypeOK, NEW r \in Answers(get_latest_version), Announces(r)
    PROVE  r.body[1] \in Nat
<1> DEFINE answer == get_latest_version
<1>1. /\ "X_Signature" \in DOMAIN r.headers
      /\ r.headers["X_Signature"] = <<Trusted, r.body>>
  BY BelievedIsSigned DEF Announces
<1>2. /\ answer.headers["X_Signature"] = <<key, <<latest>>>>
      /\ answer = Response(answer.status, answer.headers, answer.body)
  <2>1. answer = sign_response(key, Json(<<latest>>))
    BY DEF get_latest_version, LatestVersionResponse
  <2> QED
    BY <2>1, SignedResponse DEF sign_response, Signed, Json, Response
<1>3. r \in Answers(answer)
  OBVIOUS
<1> HIDE DEF answer
<1>4. r.body = <<latest>> \/ r.body \in vouched
  BY <1>1, <1>2, <1>3, ArrivingIsKnown
<1> QED
  BY <1>4, VersionsAssumption DEF TypeOK

\* The latest version is the greatest of the list of the running server, whatever
\* lists the servers before it had.
LatestIsNewest == \A v \in Listed : latest >= v

TypedInv == VouchedInv /\ TypeOK /\ LatestIsNewest

\* The list of a server that lists nothing.
LEMMA EmptyList == <<>> \in Lists /\ DOMAIN <<>> = {}
<1>1. DOMAIN <<>> = {}
  OBVIOUS
<1>2. <<>> \in [{} -> Contents]
  BY <1>1
<1>3. [{} -> Contents] \in {[listed -> Contents] : listed \in SUBSET Versions}
  OBVIOUS
<1> QED
  BY <1>1, <1>2, <1>3 DEF Lists

LEMMA InitTyped == Init => TypedInv
<1> SUFFICES ASSUME Init PROVE TypeOK /\ LatestIsNewest
  BY InitVouched DEF TypedInv
<1>1. up \in BOOLEAN /\ key \in Keys /\ versions \in Lists /\ latest = 0 /\ Listed = {}
  BY EmptyList DEF Init, DefaultServer, Keys, Newest, Listed
<1>2. WellTyped
  BY InitVouched DEF VouchedInv
<1> QED
  BY <1>1, <1>2, BuiltAssumption, FirstAssumption
  DEF Init, TypeOK, LatestIsNewest, Steps, WellTyped

\* The steps of the operator.
LEMMA OperateTyped ==
    ASSUME TypedInv, WellTyped', Operate
    PROVE  TypeOK' /\ LatestIsNewest'
<1> USE DEF TypedInv, TypeOK, LatestIsNewest, Listed, WellTyped
<1>1. CASE Publish
  <2>1. UNCHANGED <<up, key, versions, latest, outside, vouched, step, installed, target, announced>>
    BY <1>1 DEF Publish, Put, Overwrite, Remove, Files
  <2>2. data' \in Contents \cup {Torn}
    BY <1>1 DEF Publish, Put, Overwrite, Remove
  <2> QED
    BY <2>1, <2>2 DEF outside, installed
<1>2. ASSUME NEW list \in Lists, NEW k \in Keys, Core(list, k)
      PROVE  /\ up' \in BOOLEAN /\ key' \in Keys /\ versions' \in Lists
             /\ latest' \in Versions \cup {0} /\ \A v \in DOMAIN versions' : latest' >= v
  <2>1. DOMAIN list \subseteq Versions
    BY DEF Lists
  <2>2. Newest(list) \in Versions \cup {0} /\ \A v \in DOMAIN list : Newest(list) >= v
    BY <2>1, NewestIsListed, NewestIsNewest
  <2> QED
    BY <1>2, <2>2 DEF Core, NoCore
<1>3. ASSUME NEW list \in Lists, NEW k \in Keys, Start(list, k)
      PROVE  TypeOK' /\ LatestIsNewest'
  BY <1>2, <1>3 DEF Start, outside, client, installed, download
<1>4. CASE Stop
  <2>1. UNCHANGED <<files, key, versions, latest, outside, vouched, installed>> /\ up' = FALSE
    BY <1>4 DEF Stop, NoCore
  <2>2. /\ step' \in Steps /\ target' \in Nat
        /\ data' \in Contents \cup {Torn} /\ announced' \in Nat
    BY <1>4 DEF Stop, NoDownload, Steps, download
  <2> QED
    BY <2>1, <2>2 DEF outside, installed
<1> QED
  BY <1>1, <1>3, <1>4 DEF Operate

\* The steps of the application.
LEMMA ApplicationTyped ==
    ASSUME TypedInv, WellTyped', Launch \/ Quit \/ Update
    PROVE  TypeOK' /\ LatestIsNewest'
<1> USE DEF TypedInv, TypeOK, LatestIsNewest, Listed, WellTyped
<1>1. UNCHANGED <<server, outside, vouched>>
  BY DEF Launch, Quit, Update, Check, NothingNew, Request, RequestFails, Measure, MeasureFails,
    Receive, ReceiveFails, Verify, VerifyFails, Fail, Goto
<1>2. /\ step' \in Steps
      /\ content' \in Contents /\ label' \in Nat
      /\ target' \in Nat /\ data' \in Contents \cup {Torn} /\ announced' \in Nat
  <2> USE DEF Steps, Goto, Fail, NoDownload, installed, download, Started, NeverChecks
  <2>1. CASE Launch \/ Quit
    BY <2>1 DEF Launch, Quit
  <2>2. CASE Check
    BY <2>2, AnnouncedIsVersion DEF Check
  <2>3. CASE NothingNew
    BY <2>3 DEF NothingNew
  <2>4. CASE Request
    BY <2>4, VersionsAssumption DEF Request, HasReleaseFile
  <2>5. CASE RequestFails \/ MeasureFails \/ ReceiveFails \/ VerifyFails
    BY <2>5 DEF RequestFails, MeasureFails, ReceiveFails, VerifyFails
  <2>6. CASE Measure
    <3>1. Lengths \subseteq Nat
      BY LengthAssumption DEF Lengths
    <3> QED
      BY <2>6, <3>1, LengthArrives DEF Measure
  <2>7. CASE Receive
    BY <2>7 DEF Receive, Received, Sent
  <2>8. CASE Verify
    <3>1. <<target, data>> \in vouched
      BY <2>8, MatchIsVouched DEF Verify
    <3> QED
      BY <2>8, <3>1 DEF Verify
  <2> QED
    BY <2>1, <2>2, <2>3, <2>4, <2>5, <2>6, <2>7, <2>8 DEF Update
<1> QED
  BY <1>1, <1>2 DEF server, outside

LEMMA TypedInvariant == Spec => []TypedInv
<1>1. TypedInv /\ [Next]_vars => TypedInv'
  <2> SUFFICES ASSUME TypedInv, [Next]_vars PROVE TypeOK' /\ LatestIsNewest'
    BY NextVouched DEF TypedInv
  <2>1. WellTyped'
    BY NextVouched DEF TypedInv, VouchedInv
  <2>2. CASE UNCHANGED vars
    BY <2>2 DEF vars, server, outside, client, installed, download, TypedInv, TypeOK,
      LatestIsNewest, Listed
  <2> QED
    BY <2>1, <2>2, OperateTyped, ApplicationTyped DEF Next
<1> QED
  BY <1>1, InitTyped, PTL DEF Spec

\* Whatever operator, network and application do, the variables keep their types.
THEOREM TypeCorrect == Spec => []TypeOK
<1>1. TypedInv => TypeOK
  BY DEF TypedInv
<1> QED
  BY <1>1, TypedInvariant, PTL

\* No check passes over a newer version that the trusted server lists.
THEOREM NewerIsAnnounced == Spec => []NoUpdateMissed
<1>1. TypedInv => NoUpdateMissed
  <2> SUFFICES ASSUME TypedInv, up, key = Trusted, setting # "faulty",
                      NEW v \in Listed, v > running, NEW r \in Answers(get_latest_version)
               PROVE  Announces(r)
    BY DEF NoUpdateMissed
  <2> DEFINE body == <<latest>>
  <2>1. r = sign_response(Trusted, Json(body))
    BY DEF Answers, Arriving, get_latest_version, LatestVersionResponse
  <2>2. latest \in Nat /\ v \in Nat /\ running \in Nat /\ latest >= v
    BY VersionsAssumption, BuiltAssumption
    DEF TypedInv, TypeOK, LatestIsNewest, running, Listed, Lists
  <2>3. body \in Seq(Nat) /\ Len(body) >= 1
    BY <2>2
  <2>4. r.body = body
    BY <2>1, SignedResponse
  <2>5. IsNewer(r.body[1])
    BY <2>2, <2>4 DEF IsNewer
  <2> HIDE DEF body
  <2>6. request(r) /\ decode_and_verify(r, 1)
    BY <2>1, <2>3, SignedIsBelieved
  <2> QED
    BY <2>5, <2>6 DEF Announces
<1> QED
  BY <1>1, TypedInvariant, PTL

(***************************************************************************)
(* Every update is one to a newer version                                  *)
(***************************************************************************)

\* A client past its first request has a newer version to download.
Ahead == step \in {"request", "opened", "measured", "verify"} => target > running

\* Nobody but the careless operator takes a content for a version that it is not.
Truthful ==
    setting # "careless" =>
        /\ \A v \in DOMAIN files : Built[files[v]] = v
        /\ \A p \in vouched : Built[p[2]] = p[1]

NewerInv == VouchedInv /\ Ahead /\ Truthful

LEMMA InitNewer == Init => NewerInv
<1> SUFFICES ASSUME Init PROVE NewerInv
  OBVIOUS
<1>1. Ahead /\ Truthful
  BY DEF Init, DefaultServer, Ahead, Truthful
<1> QED
  BY <1>1, InitVouched DEF NewerInv

LEMMA AheadStays == Ahead /\ [Next]_vars => Ahead'
<1> SUFFICES ASSUME Ahead, [Next]_vars PROVE Ahead'
  OBVIOUS
<1> USE DEF Ahead, running
<1>1. CASE Check
  BY <1>1 DEF Check, Announces, IsNewer, Goto, installed
<1>2. CASE NothingNew \/ RequestFails \/ MeasureFails \/ ReceiveFails \/ VerifyFails \/ Verify
  BY <1>2 DEF NothingNew, RequestFails, MeasureFails, ReceiveFails, VerifyFails, Verify, Fail,
    Goto, Started, NeverChecks
<1>3. CASE Request \/ Measure \/ Receive
  BY <1>3 DEF Request, Measure, Receive, Goto, installed
<1>4. CASE Launch \/ Quit
  BY <1>4 DEF Launch, Quit, Started, NeverChecks
<1>5. CASE Operate
  <2>1. ASSUME UNCHANGED <<step, target, installed>> PROVE Ahead'
    BY <2>1 DEF installed
  <2>2. CASE \E v \in Versions : Remove(v) \/ \E c \in Contents : Put(v, c) \/ Overwrite(v, c)
    BY <2>1, <2>2 DEF Remove, Put, Overwrite, Files
  <2>3. CASE \E list \in Lists, k \in Keys : Start(list, k)
    BY <2>1, <2>3 DEF Start, client, download
  <2>4. CASE Stop
    BY <2>4 DEF Stop, installed, download
  <2> QED
    BY <1>5, <2>2, <2>3, <2>4 DEF Operate, Publish
<1>6. CASE UNCHANGED vars
  BY <1>6 DEF vars, client, installed, download
<1> QED
  BY <1>1, <1>2, <1>3, <1>4, <1>5, <1>6 DEF Next, Update

LEMMA TruthfulStays == VouchedInv /\ Truthful /\ [Next]_vars => Truthful'
<1> SUFFICES ASSUME VouchedInv, Truthful, [Next]_vars, setting' # "careless"
             PROVE  /\ (\A v \in DOMAIN files : Built[files[v]] = v)'
                    /\ (\A p \in vouched : Built[p[2]] = p[1])'
  BY DEF Truthful
<1> USE DEF Truthful
<1>1. ASSUME NEW v \in Versions, NEW c \in Contents, Put(v, c) \/ Overwrite(v, c)
      PROVE  (\A u \in DOMAIN files : Built[files[u]] = u)' /\ UNCHANGED vouched
  <2>1. setting = setting' /\ UNCHANGED vouched /\ Built[c] = v
    BY <1>1 DEF Put, Overwrite, Allowed, Files, outside
  <2>2. \A u \in DOMAIN files' : files'[u] = IF u = v THEN c ELSE files[u]
    BY <1>1 DEF Put, Overwrite, Files
  <2>3. DOMAIN files' \subseteq DOMAIN files \cup {v}
    BY <1>1 DEF Put, Overwrite, Files
  <2> QED
    BY <2>1, <2>2, <2>3
<1>2. ASSUME NEW v \in Versions, Remove(v)
      PROVE  (\A u \in DOMAIN files : Built[files[u]] = u)' /\ UNCHANGED vouched
  BY <1>2 DEF Remove, Files, outside
<1>3. ASSUME NEW list \in Lists, NEW k \in Keys, Start(list, k)
      PROVE  Truthful'
  <2>1. /\ UNCHANGED <<files, setting>>
        /\ vouched' = vouched \cup {<<v, files[v]>> : v \in Served'}
    BY <1>3 DEF Start, outside
  <2>2. Served' \subseteq DOMAIN files
    BY <2>1 DEF Served
  <2> QED
    BY <2>1, <2>2
<1>4. ASSUME UNCHANGED <<files, setting, vouched>>
      PROVE  Truthful'
  BY <1>4
<1>5. CASE Stop \/ Launch \/ Quit \/ Update
  BY <1>4, <1>5 DEF Stop, Launch, Quit, Update, Check, NothingNew, Request, RequestFails, Measure,
    MeasureFails, Receive, ReceiveFails, Verify, VerifyFails, Fail, Goto, server, outside
<1>6. CASE UNCHANGED vars
  BY <1>4, <1>6 DEF vars, server, outside
<1>7. ASSUME UNCHANGED <<setting, vouched>> PROVE (\A p \in vouched : Built[p[2]] = p[1])'
  BY <1>7
<1>8. CASE \E v \in Versions : Remove(v) \/ \E c \in Contents : Put(v, c) \/ Overwrite(v, c)
  BY <1>1, <1>2, <1>7, <1>8 DEF Remove, Put, Overwrite, Files, outside
<1> QED
  BY <1>3, <1>5, <1>6, <1>8 DEF Next, Operate, Publish

\* Every update, one that installs the same content again included, is downloaded as
\* a newer version than the one that ran; with an operator who does not confuse
\* versions it brings that version, behind any network.
THEOREM UpdatesAreNewer == Spec => EveryUpdateIsNewer
<1>1. NewerInv /\ [Next]_vars => NewerInv'
  BY NextVouched, AheadStays, TruthfulStays DEF NewerInv
<1>2. NewerInv /\ [Next]_vars =>
        [Updates => label' > running /\ (setting # "careless" => running' = label')]_vars
  <2> SUFFICES ASSUME NewerInv, Next, Updates
               PROVE  label' > running /\ (setting # "careless" => running' = label')
    BY DEF vars, client
  <2>1. Verify
    BY DEF Updates, Next, Operate, Publish, Update, Put, Overwrite, Remove, Files, Start, client, Stop,
      Reading, Launch, Quit, Check, NothingNew, Due, Request, RequestFails, Measure, MeasureFails,
      Receive, ReceiveFails, VerifyFails, Fail, Goto
  <2>2. content' = data /\ label' = target /\ <<target, data>> \in vouched
    BY <2>1, MatchIsVouched DEF Verify, NewerInv
  <2>3. setting # "careless" => Built[data] = target
    BY <2>2 DEF NewerInv, Truthful
  <2>4. target > running
    BY <2>1 DEF Verify, Goto, NewerInv, Ahead
  <2> QED
    BY <2>2, <2>3, <2>4 DEF running
<1> QED
  BY <1>1, <1>2, InitNewer, PTL DEF Spec, EveryUpdateIsNewer

(***************************************************************************)
(* An orderly operator's updates fail only for want of a server            *)
(***************************************************************************)

\* The server's list and files agree, be it up or down, and what the client has in
\* hand is of them.
Orderly ==
    /\ key = Trusted
    /\ Valid(versions)
    /\ latest = 0 \/ latest \in Listed
    /\ step \in {"request", "opened", "measured", "verify"} => target \in Listed
    /\ step \in {"opened", "measured", "verify"} => data = files[target]
    /\ step = "measured" => announced = Length[data]

SteadyInv == VouchedInv /\ (setting = "orderly" => Orderly)

LEMMA InitSteady == Init => SteadyInv
BY InitVouched DEF Init, DefaultServer, SteadyInv, Orderly, Valid, Newest

\* An orderly operation leaves the files that are there, and the list grows.
LEMMA OperateSteady ==
    ASSUME SteadyInv, setting = "orderly", Operate
    PROVE  Orderly'
<1> USE DEF SteadyInv
<1>1. ASSUME NEW v \in Versions, NEW c \in Contents, Put(v, c)
      PROVE  Orderly'
  <2>1. \A u \in DOMAIN files : u \in DOMAIN files' /\ files'[u] = files[u]
    BY <1>1 DEF Put, Files
  <2>2. Valid(versions) /\ Listed \subseteq DOMAIN files
    BY DEF Orderly, Valid, Listed
  <2>3. Valid(versions)'
    BY <1>1, <2>1, <2>2 DEF Put, Files, Valid
  <2> QED
    BY <1>1, <2>1, <2>2, <2>3 DEF Put, Files, Orderly, Listed
<1>2. ASSUME NEW list \in Lists, NEW k \in Keys, Start(list, k)
      PROVE  Orderly'
  <2>1. /\ UNCHANGED <<files, step, target, data, announced>>
        /\ InOrder(list, k) /\ Core(list, k)
    BY <1>2 DEF Start, client, download
  <2>2. key' = Trusted /\ versions' = list /\ latest' = Newest(list)
    BY <2>1 DEF InOrder, Core
  <2>3. Valid(versions)' /\ Listed \subseteq Listed'
    BY <2>1, <2>2 DEF InOrder, Valid, Listed
  <2>4. DOMAIN list \subseteq Versions
    BY DEF Lists
  <2>5. latest' = 0 \/ latest' \in Listed'
    BY <2>2, <2>4, NewestIsListed DEF Listed
  <2> QED
    BY <2>1, <2>2, <2>3, <2>5 DEF Orderly
<1>3. CASE Stop
  <2>1. UNCHANGED <<files, key, versions, latest>>
    BY <1>3 DEF Stop, NoCore
  <2>2. step' = "failed" \/ UNCHANGED <<step, target, data, announced>>
    BY <1>3 DEF Stop, download
  <2> QED
    BY <2>1, <2>2 DEF Orderly, Valid, Listed
<1> QED
  BY <1>1, <1>2, <1>3 DEF Operate, Publish, Overwrite, Remove

\* Without a fault the client gets the answer itself, or none.
LEMMA FaultlessAnswers ==
    ASSUME setting = "orderly"
    PROVE  /\ \A r : Answers(r) = IF up THEN {r} ELSE {NoResponse}
           /\ ~request(NoResponse)
BY DEF Answers, Arriving, NoResponse, Response, request

\* What the client has in hand is a content, and all of it.
LEMMA InHand ==
    ASSUME SteadyInv, setting = "orderly"
    PROVE  /\ Listed \subseteq DOMAIN files
           /\ step \in {"opened", "measured", "verify"} => data \in Contents /\ data # Torn
           /\ step = "measured" => Sent = data /\ Complete(data) /\ Received = {data}
<1>1. Orderly /\ Listed \subseteq DOMAIN files
  BY DEF SteadyInv, Orderly, Valid, Listed
<1>2. step \in {"opened", "measured", "verify"} => data \in Contents /\ data # Torn
  BY <1>1, LengthAssumption DEF SteadyInv, Orderly, VouchedInv, WellTyped
<1>3. step = "measured" => Sent = data /\ Complete(data) /\ Received = {data}
  <2> SUFFICES ASSUME step = "measured" PROVE Sent = data /\ Complete(data) /\ Received = {data}
    OBVIOUS
  <2>1. announced = Length[data] /\ Length[data] \in Nat
    BY <1>1, <1>2, LengthAssumption DEF Orderly
  <2> QED
    BY <2>1 DEF Sent, Complete, Received
<1> QED
  BY <1>1, <1>2, <1>3

LEMMA UpdateSteady ==
    ASSUME SteadyInv, setting = "orderly", Update
    PROVE  Orderly'
<1> USE DEF SteadyInv
<1>1. Orderly
  OBVIOUS
<1>2. CASE Check
  <2>1. PICK r \in Answers(get_latest_version) : Announces(r) /\ target' = r.body[1]
    BY <1>2 DEF Check
  <2>2. r = get_latest_version
    BY <2>1, FaultlessAnswers DEF Announces
  <2>3. get_latest_version.body = <<latest>>
    BY SignedResponse DEF get_latest_version, LatestVersionResponse
  <2>4. target' = latest /\ latest > running
    BY <2>1, <2>2, <2>3 DEF Announces, IsNewer
  <2>5. running \in Nat \ {0}
    BY BuiltAssumption DEF VouchedInv, RunsWhatWasVouched, WellTyped, running
  <2>6. latest \in Listed
    BY <1>1, <2>4, <2>5 DEF Orderly
  <2> QED
    BY <1>1, <1>2, <2>4, <2>6 DEF Check, Goto, server, Orderly, Listed, Valid
<1>3. CASE NothingNew
  BY <1>1, <1>3 DEF NothingNew, Goto, server, download, Orderly, Listed, Valid
<1>4. CASE Request
  BY <1>1, <1>4 DEF Request, Goto, server, Orderly, Listed, Valid
<1>5. CASE RequestFails \/ MeasureFails \/ ReceiveFails \/ VerifyFails
  <2>1. step' = "failed" /\ UNCHANGED server
    BY <1>5 DEF RequestFails, MeasureFails, ReceiveFails, VerifyFails, Fail, Goto
  <2> QED
    BY <1>1, <2>1 DEF server, Orderly, Listed, Valid
<1>6. CASE Measure
  <2>0. PICK length \in Lengths : \E response \in Answers(Release(length)) :
          IsRelease(response) /\ announced' = get_header(response, "Content_Length", 0)
    BY <1>6 DEF Measure
  <2>1. PICK r \in Answers(Release(length)) :
          IsRelease(r) /\ announced' = get_header(r, "Content_Length", 0)
    BY <2>0
  <2>2. r = Release(length)
    BY <2>1, FaultlessAnswers DEF IsRelease
  <2>3. length = Length[data]
    BY <1>6, InHand DEF Measure, Goto, Lengths
  <2>4. announced' = Length[data]
    BY <2>1, <2>2, <2>3 DEF get_header, Release, Response
  <2> QED
    BY <1>1, <1>6, <2>4 DEF Measure, Goto, server, Orderly, Listed, Valid
<1>7. CASE Receive
  <2>1. data' = data
    BY <1>7, InHand DEF Receive, Goto
  <2> QED
    BY <1>1, <1>7, <2>1 DEF Receive, Goto, server, Orderly, Listed, Valid
<1>8. CASE Verify
  BY <1>1, <1>8 DEF Verify, Goto, Started, NeverChecks, server, Orderly, Listed, Valid
<1> QED
  BY <1>2, <1>3, <1>4, <1>5, <1>6, <1>7, <1>8 DEF Update

LEMMA NextSteady == SteadyInv /\ [Next]_vars => SteadyInv'
<1> SUFFICES ASSUME SteadyInv, [Next]_vars, setting' = "orderly" PROVE Orderly'
  BY NextVouched DEF SteadyInv
<1>1. setting = "orderly"
  BY DEF Next, Operate, Publish, Put, Overwrite, Remove, Files, Start, Stop, Launch, Quit, Update, Check,
    NothingNew, Request, RequestFails, Measure, MeasureFails, Receive, ReceiveFails, Verify,
    VerifyFails, Fail, Goto, outside, vars
<1>2. CASE Launch \/ Quit
  BY <1>1, <1>2 DEF Launch, Quit, Started, NeverChecks, SteadyInv, Orderly, server, download, Listed, Valid
<1>3. CASE UNCHANGED vars
  BY <1>1, <1>3 DEF vars, client, download, server, SteadyInv, Orderly, Listed, Valid
<1> QED
  BY <1>1, <1>2, <1>3, OperateSteady, UpdateSteady DEF Next

\* While the server runs, each of the requests of an update is answered as it wants.
LEMMA UpdateSucceeds ==
    ASSUME SteadyInv, setting = "orderly", up, Update
    PROVE  step' # "failed"
<1>1. Orderly
  BY DEF SteadyInv
<1>2. ~RequestFails
  BY <1>1, InHand DEF RequestFails, Fail, Goto, HasReleaseFile, Orderly
<1>3. ~MeasureFails
  <2> SUFFICES ASSUME MeasureFails PROVE FALSE
    OBVIOUS
  <2>1. PICK length \in Lengths : ~IsRelease(Release(length))
    BY FaultlessAnswers DEF MeasureFails
  <2> QED
    BY <2>1 DEF IsRelease, request, get_header, Release, Response
<1>4. ~ReceiveFails
  BY InHand DEF ReceiveFails, Fail, Goto
<1>5. step = "verify" => Matches(get_hash_for_version(target))
  <2> SUFFICES ASSUME step = "verify" PROVE Matches(get_hash_for_version(target))
    OBVIOUS
  <2> DEFINE body == <<target, versions[target]>>
  <2>1. target \in Listed /\ versions[target] = data /\ key = Trusted
    BY <1>1 DEF Orderly, Valid, Listed
  <2>2. target \in Nat /\ data \in Contents
    BY <2>1, InHand, VersionsAssumption DEF SteadyInv, VouchedInv, WellTyped
  <2>3. body \in Seq(Nat \cup Contents) /\ Len(body) >= 2
    BY <2>1, <2>2
  <2>4. get_hash_for_version(target) = sign_response(Trusted, Json(body))
    BY <2>1 DEF get_hash_for_version, VersionHashResponse
  <2>5. sign_response(Trusted, Json(body)).body = body
    BY SignedResponse
  <2> HIDE DEF body
  <2>6. /\ request(sign_response(Trusted, Json(body)))
        /\ decode_and_verify(sign_response(Trusted, Json(body)), 2)
    BY <2>3, SignedIsBelieved
  <2> QED
    BY <2>1, <2>4, <2>5, <2>6 DEF Matches, ForVersion, body
<1>6. ~VerifyFails
  BY <1>5, FaultlessAnswers DEF VerifyFails, Fail, Goto
<1>7. CASE Check \/ NothingNew \/ Request \/ Measure \/ Receive \/ Verify
  BY <1>7 DEF Check, NothingNew, Request, Measure, Receive, Verify, Goto, Started, NeverChecks
<1> QED
  BY <1>2, <1>3, <1>4, <1>6, <1>7 DEF Update

\* With an operator who only adds, files first and the list next, an update that the
\* application has begun fails at no step that finds the server running, however
\* often the server is stopped and started with a longer list in between.
THEOREM SteadyUpdatesSucceed == Spec => SteadyNeverFails
<1>1. SteadyInv /\ [Next]_vars =>
        [setting = "orderly" /\ step # "failed" /\ step' = "failed" => ~up \/ ~up']_vars
  <2> SUFFICES ASSUME SteadyInv, Next, setting = "orderly", step # "failed", step' = "failed", up
               PROVE  ~up'
    BY DEF vars
  <2>1. ~Update
    BY UpdateSucceeds
  <2>2. CASE Publish \/ Launch \/ Quit
    BY <2>2 DEF Publish, Put, Overwrite, Remove, Files, Launch, Quit, Started, NeverChecks
  <2>3. CASE \E list \in Lists, k \in Keys : Start(list, k)
    BY <2>3 DEF Start
  <2>4. CASE Stop
    BY <2>4 DEF Stop, NoCore
  <2> QED
    BY <2>1, <2>2, <2>3, <2>4 DEF Next, Operate
<1> QED
  BY <1>1, InitSteady, NextSteady, PTL DEF Spec, SteadyNeverFails

=============================================================================
