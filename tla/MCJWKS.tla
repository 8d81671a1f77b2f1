------------------------------- MODULE MCJWKS -------------------------------
(* Instances of JWKSSource for TLC: two rotations of the signing key, with      *)
(* entries that are not usable and with a kid that is listed twice.             *)
EXTENDS JWKSSource

CONSTANTS p1, p2, a, b, kA, kB, kEnc

Entry(kid, key) == [kid |-> kid, use |-> "sig", kty |-> "RSA", crv |-> "", ok |-> TRUE, key |-> key]

\* kid "a" is replaced by "b"; "b" is listed twice, and once for encryption.
Doc1 == <<Entry(a, kA), [Entry(b, kEnc) EXCEPT !.use = "enc"]>>
Doc2 == <<[Entry(b, kEnc) EXCEPT !.use = "", !.kty = "EC", !.crv = "P-384"],
          Entry(b, kB),
          [Entry(b, kEnc) EXCEPT !.kty = "EC", !.crv = "secp256k1"],
          [Entry(a, kEnc) EXCEPT !.ok = FALSE]>>

TwoDocs == <<Doc1, Doc2>>
=============================================================================
