----------------------------- MODULE MCJwksAuth -----------------------------
(***************************************************************************)
(* Three keys, one of a kind the server cannot parse, and one token for    *)
(* each way a validation can end.                                          *)
(***************************************************************************)
EXTENDS JwksAuth

CONSTANTS k1, k2, k3

T(kid, alg, signature, claims) ==
    [kid |-> kid, alg |-> alg, signature |-> signature, claims |-> claims]

\* Rotations between k1 and k2, and documents without a usable key.
MCKeySets == {{k1}, {k2, k3}, {k3}}

\* A good token under each key, and one for each way a validation goes wrong.
MCTokens ==
    {T(k1, "allowed", "good", "good"), T(k2, "allowed", "good", "good"),
     T(k2, "allowed", "bad", "good"), T(k1, "other", "good", "good"),
     T(k2, "allowed", "good", "bad"), T(k2, "allowed", "good", "no iat")}

=============================================================================
