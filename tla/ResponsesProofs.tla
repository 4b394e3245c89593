--------------------------- MODULE ResponsesProofs ---------------------------
(***************************************************************************)
(* Proofs about Responses: which of the responses that may come of a       *)
(* signed one the client believes, for bodies of any fields.               *)
(***************************************************************************)
EXTENDS Responses, TLAPS

\* The client believes a response only if it has the trusted key's signature of
\* its own body.
LEMMA BelievedIsSigned ==
    ASSUME NEW response, NEW fields, decode_and_verify(response, fields)
    PROVE  /\ "X_Signature" \in DOMAIN response.headers
           /\ response.headers["X_Signature"] = <<Trusted, response.body>>
<1>1. get_header(response, "X_Signature", <<>>) = <<Trusted, response.body>>
  BY DEF decode_and_verify, Genuine
<1>2. <<>> # <<Trusted, response.body>>
  OBVIOUS
<1> QED
  BY <1>1, <1>2 DEF get_header

\* What sign_response puts into a response.
LEMMA SignedResponse ==
    ASSUME NEW k, NEW body
    PROVE  /\ sign_response(k, Json(body)).headers["X_Signature"] = <<k, body>>
           /\ sign_response(k, Json(body)).body = body
BY DEF sign_response, Signed, Json, Response

\* A whole answer with the trusted key's signature is believed.
LEMMA SignedIsBelieved ==
    ASSUME NEW Field, NEW body \in Seq(Field), NEW fields \in Nat, Len(body) >= fields
    PROVE  /\ request(sign_response(Trusted, Json(body)))
           /\ decode_and_verify(sign_response(Trusted, Json(body)), fields)
<1>0. PICK r : r = sign_response(Trusted, Json(body))
  OBVIOUS
<1>1. /\ r.status = 200 /\ r.whole = TRUE /\ r.body = body
      /\ DOMAIN r.headers = {"Content_Type", "Content_Length", "X_Signature"}
      /\ r.headers["X_Signature"] = <<Trusted, body>>
      /\ r.headers["Content_Type"] = "application/json"
      /\ r.headers["Content_Length"] = Len(body)
  BY <1>0 DEF sign_response, Signed, Json, Response
<1>2. request(r)
  BY <1>1 DEF request
<1>3. decode_and_verify(r, fields)
  BY <1>1 DEF decode_and_verify, get_header, Genuine, ReadsAs
<1> QED
  BY <1>0, <1>2, <1>3

\* Of what becomes of a signed response on its way, only what keeps all its headers
\* and has another body and signature put in can be believed.
LEMMA DamagedIsRefused ==
    ASSUME NEW Field, NEW body \in Seq(Field), Len(body) > 0, NEW k, NEW fields,
           NEW r \in Damaged(sign_response(k, Json(body)))
    PROVE  ~(request(r) /\ decode_and_verify(r, fields))
<1>0. PICK signed : signed = sign_response(k, Json(body))
  OBVIOUS
<1>1. /\ signed.body = body
      /\ DOMAIN signed.headers = {"Content_Type", "Content_Length", "X_Signature"}
      /\ signed.headers["Content_Length"] = Len(body)
  BY <1>0 DEF sign_response, Signed, Json, Response
<1>2. signed = [status |-> signed.status, headers |-> signed.headers, body |-> signed.body,
                whole |-> signed.whole]
  BY <1>0 DEF sign_response, Signed, Json, Response
<1>3. r \in Damaged(signed)
  BY <1>0
<1>4. CASE r = NoResponse
  BY <1>4 DEF NoResponse, Response, request
<1>5. CASE r = [signed EXCEPT !.whole = FALSE]
  BY <1>2, <1>5 DEF decode_and_verify
<1>6. CASE r = [signed EXCEPT !.status = 502]
  BY <1>2, <1>6 DEF request
<1>7. CASE r = With(signed, "Content_Type", "text/html")
  <2>1. r.headers["Content_Type"] = "text/html" /\ "Content_Type" \in DOMAIN r.headers
    BY <1>1, <1>2, <1>7 DEF With
  <2> QED
    BY <2>1 DEF decode_and_verify, get_header
<1>8. CASE r = With(signed, "Content_Length", signed.headers["Content_Length"] + 1)
  <2>1. /\ r.headers["Content_Length"] = Len(body) + 1 /\ "Content_Length" \in DOMAIN r.headers
        /\ r.body = body
    BY <1>1, <1>2, <1>8 DEF With
  <2> QED
    BY <2>1 DEF decode_and_verify, get_header
<1>9. ASSUME NEW header \in DOMAIN signed.headers, r = Without(signed, header)
      PROVE  ~decode_and_verify(r, fields)
  <2>1. header \notin DOMAIN r.headers /\ r.body = body
    BY <1>1, <1>2, <1>9 DEF Without
  <2>2. CASE header = "Content_Type"
    BY <2>1, <2>2 DEF decode_and_verify, get_header
  <2>3. CASE header = "Content_Length"
    BY <2>1, <2>3 DEF decode_and_verify, get_header
  <2>4. CASE header = "X_Signature"
    BY <2>1, <2>4, BelievedIsSigned
  <2> QED
    BY <1>1, <2>2, <2>3, <2>4
<1> QED
  BY <1>3, <1>4, <1>5, <1>6, <1>7, <1>8, <1>9 DEF Damaged

\* What is put into a response in place of its body.
LEMMA ReplacedIsSigned ==
    ASSUME NEW response, NEW bodies, NEW keys, NEW kept,
           NEW r \in Replaced(response, bodies, keys, kept)
    PROVE  \E b \in bodies :
             /\ r = Signed(Json(b), r.headers["X_Signature"]) /\ r.body = b
             /\ \/ \E k \in keys : r.headers["X_Signature"] = <<k, b>>
                \/ r.headers["X_Signature"] \in kept
                \/ r.headers["X_Signature"] = get_header(response, "X_Signature", <<>>)
<1> DEFINE own == get_header(response, "X_Signature", <<>>)
<1>1. ASSUME NEW b, NEW signature, r = Signed(Json(b), signature)
      PROVE  r.headers["X_Signature"] = signature /\ r.body = b
  BY <1>1 DEF Signed, Json, Response
<1>2. CASE \E k \in keys, b \in bodies : r = sign_response(k, Json(b))
  <2>1. PICK k \in keys, b \in bodies : r = Signed(Json(b), <<k, b>>)
    BY <1>2 DEF sign_response, Json, Response
  <2> QED
    BY <1>1, <2>1
<1>3. CASE \E signature \in kept \cup {own}, b \in bodies : r = Signed(Json(b), signature)
  BY <1>1, <1>3
<1> QED
  BY <1>2, <1>3 DEF Replaced

\* Whatever the network makes of an answer, with any bodies, keys of its own and
\* signatures kept of other answers, the client believes of it, to the last header,
\* only what the trusted key has made: the answer itself, if that key has signed it,
\* or another whose signature the network has; and those it does believe.
THEOREM BelievesTheAnswerItself ==
    ASSUME NEW Field, NEW body \in Seq(Field), Len(body) > 0, NEW fields \in Nat,
           NEW bodies \in SUBSET Seq(Field), NEW keys, Trusted \notin keys, NEW kept, NEW k,
           NEW r \in {sign_response(k, Json(body))}
                        \cup Broken(sign_response(k, Json(body)), bodies, keys, kept)
    PROVE  request(r) /\ decode_and_verify(r, fields)
             <=> \E b \in {body} \cup bodies :
                    /\ Len(b) >= fields
                    /\ <<Trusted, b>> \in {<<k, body>>} \cup kept
                    /\ r = sign_response(Trusted, Json(b))
<1> DEFINE signed == sign_response(k, Json(body))
           Made(b) == /\ Len(b) >= fields
                      /\ <<Trusted, b>> \in {<<k, body>>} \cup kept
                      /\ r = sign_response(Trusted, Json(b))
<1>1. ASSUME NEW b \in {body} \cup bodies, Made(b)
      PROVE  request(r) /\ decode_and_verify(r, fields)
  BY <1>1, SignedIsBelieved
<1>2. ASSUME request(r), decode_and_verify(r, fields)
      PROVE  \E b \in {body} \cup bodies : Made(b)
  <2>1. r.headers["X_Signature"] = <<Trusted, r.body>> /\ Len(r.body) >= fields
    BY <1>2, BelievedIsSigned DEF decode_and_verify, ReadsAs
  <2>2. CASE r = signed
    <3>1. r.headers["X_Signature"] = <<k, body>> /\ r.body = body
      BY <2>2, SignedResponse
    <3>2. k = Trusted
      BY <2>1, <3>1
    <3>3. Made(body)
      BY <2>1, <2>2, <3>1, <3>2
    <3> QED
      BY <3>3
  <2>3. CASE r \in Replaced(signed, bodies, keys, kept)
    <3>1. PICK b \in bodies :
             /\ r = Signed(Json(b), r.headers["X_Signature"]) /\ r.body = b
             /\ \/ \E key \in keys : r.headers["X_Signature"] = <<key, b>>
                \/ r.headers["X_Signature"] \in kept
                \/ r.headers["X_Signature"] = get_header(signed, "X_Signature", <<>>)
      <4> HIDE DEF signed
      <4> QED
        BY <2>3, ReplacedIsSigned
    <3>2. get_header(signed, "X_Signature", <<>>) = <<k, body>>
      BY DEF get_header, sign_response, Signed, Json, Response
    <3>3. r = sign_response(Trusted, Json(b))
      BY <2>1, <3>1 DEF sign_response, Json, Response
    <3>4. <<Trusted, b>> \in {<<k, body>>} \cup kept
      <4>1. r.headers["X_Signature"] = <<Trusted, b>>
        BY <2>1, <3>1
      <4>2. ASSUME NEW key \in keys, r.headers["X_Signature"] = <<key, b>> PROVE FALSE
        <5>1. <<Trusted, b>>[1] = <<key, b>>[1]
          BY <4>1, <4>2
        <5>2. Trusted = key
          BY <5>1
        <5> QED
          BY <5>2
      <4> HIDE DEF signed
      <4> QED
        BY <3>1, <3>2, <4>1, <4>2
    <3> QED
      BY <2>1, <3>1, <3>3, <3>4
  <2>4. r \notin Damaged(signed)
    BY <1>2, DamagedIsRefused
  <2> QED
    BY <2>2, <2>3, <2>4 DEF Broken
<1> QED
  BY <1>1, <1>2

=============================================================================
