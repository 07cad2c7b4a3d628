----------------------------- MODULE MCShortUrl -----------------------------
(* ShortUrl for TLC: three URLs, two of which share their key. *)
EXTENDS ShortUrl, TLC

CONSTANTS s1, s2, k1, k2, u1, u2, u3

CollidingKey == (u1 :> k1) @@ (u2 :> k1) @@ (u3 :> k2)

\* The two processes are alike, and so are the two URLs that share a key.
Alike == Permutations({s1, s2}) \cup Permutations({u1, u2})
=============================================================================
