--------------------------- MODULE MCRateLimiter ---------------------------
(* Instances of RateLimiter for TLC.                                           *)
EXTENDS RateLimiter, TLC

Config(limit, window) == [limit |-> limit, window |-> window]

\* INTEGRATION.md, `Multiple limits': two limiters on one store.
TwoWindows == {Config(1, 1), Config(1, 2)}

\* Goroutines and bucket addresses are interchangeable.
Interchangeable == Permutations(Procs) \cup Permutations(Buckets)
=============================================================================
