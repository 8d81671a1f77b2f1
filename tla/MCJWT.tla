-------------------------------- MODULE MCJWT --------------------------------
(* Instances of JWTService for TLC.  One second is two ticks, so that two      *)
(* calls can fall into the same second or into different ones.                 *)
EXTENDS JWTService

CONSTANTS p1, p2, k1, k2, alice, n1, n2, n3

ES == New(<<WithECDSA("P-256", k1, k1), WithBlacklist, WithExpiry(2)>>)
HS == New(<<WithHMAC(k1), WithExpiry(2), WithBlacklist>>)
RSNoBlacklist == New(<<WithRSA(k1, k1), WithIssuer("iss"), WithExpiry(2)>>)
Unconfigured  == New(<<WithExpiry(2)>>)

LocalServices == {ES, RSNoBlacklist, Unconfigured}
OnlyHS == {HS}

ForeignToken(alg, key, nbf, exp) ==
  [alg |-> alg, key |-> key, iss |-> "", sub |-> alice, nbf |-> nbf, exp |-> exp,
   sig |-> NoNonce]

\* A token of another issuer's key that is not valid yet, one with another algorithm,
\* a string that is no JWT, and a token of the identity provider.
Strangers == {ForeignToken("HS256", k2, 2, 4), ForeignToken("HS512", k1, 0, 4),
              ForeignToken("malformed", k1, 0, 0), ForeignToken("RS256", k2, 0, 2)}
OneStranger == {ForeignToken("RS256", k1, 2, 4)}
=============================================================================
