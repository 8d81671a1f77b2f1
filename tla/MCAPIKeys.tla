------------------------------ MODULE MCAPIKeys ------------------------------
(* Instances of APIKeys for TLC, with distinct IDs and with two keys whose      *)
(* hashes share their first 16 digits.                                          *)
EXTENDS APIKeys

CONSTANTS k1, k2, k3, i1, i2, i3

CollidingIds == [x \in Plaintexts |-> IF x \in {k1, k2} THEN i1 ELSE i3]
=============================================================================
