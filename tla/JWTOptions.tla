----------------------------- MODULE JWTOptions -----------------------------
(***************************************************************************)
(* The functional options of auth/jwt (options.go) and the constructor New *)
(* that applies them.  An option is a Go closure that assigns some fields  *)
(* of the options struct; here it is the record of exactly the fields it   *)
(* assigns, and applying it overrides those fields.                        *)
(*                                                                         *)
(* Keys are opaque: a key pair is named by the same value on both sides, so*)
(* WithRSA(k, k) is a matching pair.  Times are in clock ticks.            *)
(***************************************************************************)
EXTENDS Integers, Sequences, SequencesExt

CONSTANTS
  NoKey,          \* the nil signingKey / verifyKey
  DefaultExpiry   \* defaultExpiry, one hour, in ticks

NoMethod == "nil"

\* The struct `options` and defaultOptions(): no algorithm, no blacklist, no keyfunc.
\* `blacklist' and `keyFunc' say whether the field is non-nil.
defaultOptions ==
  [signingMethod |-> NoMethod, signingKey |-> NoKey, verifyKey |-> NoKey,
   expiry |-> DefaultExpiry, issuer |-> "", blacklist |-> FALSE, keyFunc |-> FALSE]

Signer(alg, signKey, verifKey) ==
  [signingMethod |-> alg, signingKey |-> signKey, verifyKey |-> verifKey]

WithHMAC(secret)    == Signer("HS256", secret, secret)
WithHMAC384(secret) == Signer("HS384", secret, secret)
WithHMAC512(secret) == Signer("HS512", secret, secret)
WithRSA(priv, pub)    == Signer("RS256", priv, pub)
WithRSA512(priv, pub) == Signer("RS512", priv, pub)

\* The algorithm follows the curve of the private key; anything that is neither
\* P-384 nor P-521 is taken for P-256.
WithECDSA(curve, priv, pub) ==
  Signer(CASE curve = "P-384" -> "ES384"
           [] curve = "P-521" -> "ES512"
           [] OTHER -> "ES256",
         priv, pub)

WithExpiry(d)      == [expiry |-> d]
WithIssuer(issuer) == [issuer |-> issuer]
WithBlacklist      == [blacklist |-> TRUE]
WithJWKS           == [keyFunc |-> TRUE]

\* opt(&o): the fields the option names are assigned, the others keep their value.
ApplyOption(o, opt) == opt @@ o

\* New(opts...): the options in the order given, so that the last one wins.
New(opts) == FoldLeft(ApplyOption, defaultOptions, opts)

=============================================================================
