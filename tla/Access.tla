------------------------------- MODULE Access -------------------------------
(***************************************************************************)
(* The two guarded HTTP services: http/jwt, whose tokens expire, and       *)
(* http/signature, whose requests carry a signature over a timestamp.      *)
(* go-zero's token and signature checks are external.                      *)
(***************************************************************************)
EXTENDS Integers, Sequences

CONSTANTS AccessExpire,   \* JwtAuth.AccessExpire
          Delay,          \* how long a request may be on its way
          Tolerance,      \* how old a signed request may be
          MaxNow          \* bound on the clock

ASSUME AccessAssumption ==
  /\ AccessExpire \in Nat \ {0} /\ Tolerance \in Nat /\ MaxNow \in Nat
  /\ Delay \in 0 .. ((AccessExpire + 1) \div 2 - 1)

VARIABLES now,
          token,    \* http/jwt: the token the client holds
          keyFile,  \* http/signature: the server's start
          post,     \* the request under way
          verdict   \* its answer
accessVars == <<now, token, keyFile, post, verdict>>
NoToken == [exp |-> -1, told |-> -1, refresh |-> -1]
NoPost == [phase |-> "none", at |-> 0, prompt |-> FALSE, userId |-> FALSE, request |-> <<>>]

-----------------------------------------------------------------------------
(* http/jwt. *)
GenToken(iat, seconds) == iat + seconds          \* the claim exp
\* Defect: refresh_after is the whole life of the token.
JwtFull(t) == [exp |-> GenToken(t, AccessExpire), told |-> t + AccessExpire, refresh |-> t + AccessExpire]
Jwt(t) == [exp |-> GenToken(t, AccessExpire),
           told |-> t + AccessExpire,
           refresh |-> t + AccessExpire \div 2]

\* POST /user/token, which needs no token.
JwtHandler ==
  /\ post.phase = "none"
  /\ token' = Jwt(now)
  /\ UNCHANGED <<now, keyFile, post, verdict>>

\* POST /user/info.  A prompt client first asks for a new token once
\* RefreshAfter has gone by; another keeps its token, or forgets the user.
SendInfo ==
  /\ post.phase = "none" /\ token # NoToken
  /\ \E prompt, userId \in BOOLEAN :
       /\ prompt => userId /\ now <= token.refresh
       /\ post' = [NoPost EXCEPT !.phase = "sent", !.at = now, !.prompt = prompt, !.userId = userId]
  /\ UNCHANGED <<now, token, keyFile, verdict>>

\* WithJwt checks the token before the handler parses the body; it is good
\* before exp, and no longer at exp itself.
GetUserHandler ==
  /\ post.phase = "sent"
  /\ verdict' = IF now >= token.exp THEN "unauthorized"
                ELSE IF ~post.userId THEN "bad request" ELSE "frank_test"
  /\ post' = [post EXCEPT !.phase = "answered"]
  /\ UNCHANGED <<now, token, keyFile>>
ReadAnswer ==
  /\ post.phase = "answered"
  /\ post' = NoPost /\ verdict' = "none"
  /\ UNCHANGED <<now, token, keyFile>>

-----------------------------------------------------------------------------
(* http/signature: secret is what the server's private key opens, a body is *)
(* clear text or what EcbEncrypt and base64 make of it.                     *)
Encrypt == [clear |-> "cipher"]
Decrypt == [cipher |-> "clear"]
Signature(key, t, body) == <<key, t, "POST", "/a/b", "c=first&d=second", <<"sha256", body>>>>
Request(crypt, t, body, signature) ==
  [body |-> body, signature |-> signature, fingerprint |-> "12345",
   secret |-> [type |-> IF crypt THEN "1" ELSE "0", key |-> "Key", time |-> t]]
Sign(crypt, t) ==
  LET body == IF crypt THEN Encrypt["clear"] ELSE "clear"
  IN  Request(crypt, t, body, Signature("Key", t, body))
SendSigned ==
  /\ post.phase = "none"
  /\ \E crypt \in BOOLEAN :
       post' = [NoPost EXCEPT !.phase = "sent", !.at = now, !.request = Sign(crypt, now)]
  /\ UNCHANGED <<now, token, keyFile, verdict>>

\* The server needs its private key in a temporary file before it listens.
CreateTempFile ==
  /\ keyFile = "none"
  /\ \E made \in BOOLEAN : keyFile' = IF made THEN "written" ELSE "panic"
  /\ UNCHANGED <<now, token, post, verdict>>

\* Strict signatures: the request's own parts must give the signature it has.
Verified(q) ==
  /\ q.fingerprint = "12345"
  /\ now - q.secret.time <= Tolerance
  /\ q.signature = Signature(q.secret.key, q.secret.time, q.body)
\* The handler copies the body back; an encrypted one is decrypted in front of
\* it and its answer encrypted behind it.
SignHandle(q) == LET body == IF q.secret.type = "1" THEN Decrypt[q.body] ELSE q.body
                 IN  IF q.secret.type = "1" THEN Encrypt[body] ELSE body
SignServe ==
  /\ post.phase = "sent"
  /\ verdict' = IF keyFile # "written" THEN "refused"    \* the client's log.Fatal
                ELSE IF Verified(post.request) THEN SignHandle(post.request) ELSE "forbidden"
  /\ post' = [post EXCEPT !.phase = "answered"]
  /\ UNCHANGED <<now, token, keyFile>>

-----------------------------------------------------------------------------
\* The clock; a prompt client's request is at most Delay on its way.
Clock ==
  /\ now < MaxNow
  /\ post.phase = "sent" /\ post.prompt => now < post.at + Delay
  /\ now' = now + 1
  /\ UNCHANGED <<token, keyFile, post, verdict>>

AccessInit == now = 0 /\ token = NoToken /\ keyFile = "none" /\ post = NoPost /\ verdict = "none"
JwtNext == JwtHandler \/ SendInfo \/ GetUserHandler \/ ReadAnswer \/ Clock
SignNext == SendSigned \/ CreateTempFile \/ SignServe \/ Clock

-----------------------------------------------------------------------------
\* A client that asks for a new token after RefreshAfter is never turned away,
\* however long (up to Delay) its requests are on their way: refresh_after
\* leaves half of the token's life for that, and Delay is less than that half,
\* for a request that arrives in the very second of exp is too late.
RefreshedInTime == post.phase = "answered" /\ post.prompt => verdict = "frank_test"
=============================================================================
