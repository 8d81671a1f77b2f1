--------------------------- MODULE CredentialCheck ---------------------------
(***************************************************************************)
(* What a credential service promises its callers, whatever a credential   *)
(* is: the abstract specification that both the JWT service (JWTService)   *)
(* and the API-key service (APIKeys) are shown to implement.               *)
(*                                                                         *)
(* A check of credential c runs concurrently with issuing, expiry and      *)
(* revocation.  It may accept c only if c was live when the check began,   *)
(* it may reject c only if c is dead when the check answers, and a revoked *)
(* credential is never live again.                                         *)
(***************************************************************************)
CONSTANTS
  Procs,   \* the goroutines that check credentials
  Creds    \* everything that can be presented as a credential

VARIABLES
  live,     \* the credentials that a check made right now should accept
  revoked,  \* the credentials that were revoked
  checks    \* checks[p]: the check goroutine p has under way, or has had answered

vars == <<live, revoked, checks>>

NoCheck == [st |-> "none"]
Pending(c, wasLive) == [st |-> "pending", cred |-> c, wasLive |-> wasLive]
Answered(c, ok)     == [st |-> "answered", cred |-> c, ok |-> ok]

CheckState ==
  {NoCheck} \cup {Pending(c, w) : c \in Creds, w \in BOOLEAN}
            \cup {Answered(c, ok) : c \in Creds, ok \in BOOLEAN}

TypeOK ==
  /\ live \subseteq Creds
  /\ revoked \subseteq Creds
  /\ live \cap revoked = {}
  /\ checks \in [Procs -> CheckState]

Init ==
  /\ live \subseteq Creds
  /\ revoked = {}
  /\ checks = [p \in Procs |-> NoCheck]

Begin(p, c) ==
  /\ checks[p] = NoCheck
  /\ checks' = [checks EXCEPT ![p] = Pending(c, c \in live)]
  /\ UNCHANGED <<live, revoked>>

\* A check that is decided at once: the answer is whether c is live.
CheckAtOnce(p, c) ==
  /\ checks[p] = NoCheck
  /\ checks' = [checks EXCEPT ![p] = Answered(c, c \in live)]
  /\ UNCHANGED <<live, revoked>>

Accept(p) ==
  /\ checks[p].st = "pending"
  /\ checks[p].wasLive
  /\ checks' = [checks EXCEPT ![p] = Answered(checks[p].cred, TRUE)]
  /\ UNCHANGED <<live, revoked>>

Reject(p) ==
  /\ checks[p].st = "pending"
  /\ checks[p].cred \notin live
  /\ checks' = [checks EXCEPT ![p] = Answered(checks[p].cred, FALSE)]
  /\ UNCHANGED <<live, revoked>>

Finish(p) ==
  /\ checks[p].st = "answered"
  /\ checks' = [checks EXCEPT ![p] = NoCheck]
  /\ UNCHANGED <<live, revoked>>

Revoke(c) ==
  /\ revoked' = revoked \cup {c}
  /\ live' = live \ {c}
  /\ UNCHANGED checks

\* Credentials are issued, become valid or expire; what was revoked stays dead.
Drift ==
  /\ live' \subseteq Creds \ revoked
  /\ UNCHANGED <<revoked, checks>>

\* The call that checked a credential may also issue one as it returns.
Next ==
  \/ \E p \in Procs, c \in Creds : Begin(p, c) \/ CheckAtOnce(p, c)
  \/ \E p \in Procs : Accept(p) \/ Reject(p) \/ Finish(p)
  \/ \E c \in Creds : Revoke(c)
  \/ Drift

Spec == Init /\ [][Next]_vars

=============================================================================
