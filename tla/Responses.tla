------------------------------ MODULE Responses ------------------------------
(***************************************************************************)
(* The responses that pass between server and client: what the server puts *)
(* into one (src/src/responses.rs, sign_response of src/src/server.rs) and *)
(* what the client asks of one before it believes it (request,             *)
(* decode_and_verify and get_header of src/src/client.rs).                 *)
(*                                                                         *)
(* A body is the sequence of its fields, and its length their number; the  *)
(* body of a release is a single field, the content.  A signature is the   *)
(* pair of the key and the body that it was made with and for.             *)
(*                                                                         *)
(* A definition whose name ends in Bug is the definition below it with a   *)
(* plausible mistake; no specification uses it.                            *)
(***************************************************************************)
EXTENDS Naturals, Sequences

\* The key whose public half the client was configured with.
Trusted == "trusted"

LatestVersionResponse(version) == <<version>>

VersionHashResponse(version, hash) == <<version, hash>>

\* What serde reads the fields of a struct from: it passes over fields that the
\* struct does not have, and so reads a hash response as a latest response too.
ReadsAs(body, fields) == Len(body) >= fields

-----------------------------------------------------------------------------
(* The server's side                                                       *)

\* headers holds the headers that are there; whole is whether the body is all there.
Response(status, headers, body) ==
    [status |-> status, headers |-> headers, body |-> body, whole |-> TRUE]

\* The HTTP library adds the length of a body that it is given in one piece.
Json(body) ==
    Response(200, [Content_Type |-> "application/json", Content_Length |-> Len(body)], body)

\* Its message is left out.
Refusal(status) ==
    Response(status, [Content_Type |-> "text/plain", Content_Length |-> 0], <<>>)

\* The headers of a release; the length is read from the file's metadata.
Release(length) ==
    Response(200, [Content_Type |-> "application/octet-stream", Content_Length |-> length], <<>>)

Signed(response, signature) ==
    [response EXCEPT !.headers =
        [h \in DOMAIN @ \cup {"X_Signature"} |-> IF h = "X_Signature" THEN signature ELSE @[h]]]

sign_response(key, response) == Signed(response, <<key, response.body>>)

-----------------------------------------------------------------------------
\* A header that is missing, or cannot be read as what it should be, has the
\* default value.
get_header(response, header, default) ==
    IF header \in DOMAIN response.headers THEN response.headers[header] ELSE default

-----------------------------------------------------------------------------
(* On the way                                                              *)

\* What a client sees of a request that fails.
NoResponse == Response(0, [h \in {} |-> 0], <<>>)

Without(response, header) ==
    [response EXCEPT !.headers = [h \in DOMAIN @ \ {header} |-> @[h]]]

With(response, header, value) == [response EXCEPT !.headers[header] = value]

\* The request may fail, the body break off, a proxy answer with an error, take away
\* a header (or make it unreadable), or change the type or the length it states ...
Damaged(response) ==
    {NoResponse, [response EXCEPT !.whole = FALSE], [response EXCEPT !.status = 502],
     With(response, "Content_Type", "text/html"),
     With(response, "Content_Length", response.headers["Content_Length"] + 1)}
        \cup {Without(response, header) : header \in DOMAIN response.headers}

\* ... and any of the bodies may take the place of the body, with headers that fit
\* it: signed with one of the keys of who does that, or with the signature of the
\* response itself or one kept of another.
Replaced(response, bodies, keys, kept) ==
    LET own == get_header(response, "X_Signature", <<>>)
    IN  {sign_response(k, Json(body)) : k \in keys, body \in bodies}
            \cup {Signed(Json(body), signature) : signature \in kept \cup {own}, body \in bodies}

Broken(response, bodies, keys, kept) ==
    Damaged(response) \cup Replaced(response, bodies, keys, kept)

-----------------------------------------------------------------------------
(* The client's side                                                       *)

\* Whether request returns the response: the status is a success.
request(response) == response.status \in 200..299

Genuine_PresentBug(response) == "X_Signature" \in DOMAIN response.headers

\* A missing signature is an error of its own.
Genuine(response) ==
    get_header(response, "X_Signature", <<>>) = <<Trusted, response.body>>

\* Whether the response is decoded as a struct of so many fields.
decode_and_verify(response, fields) ==
    /\ response.whole
    /\ get_header(response, "Content_Type", "") = "application/json"
    /\ get_header(response, "Content_Length", 0) = Len(response.body)
    /\ Genuine(response)
    /\ ReadsAs(response.body, fields)

=============================================================================
