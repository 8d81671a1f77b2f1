-------------------------------- MODULE ABAC --------------------------------
(***************************************************************************)
(* abac: an Evaluator that decides requests by the first matching policy of*)
(* a MemoryStore, while administrators add and remove policies.            *)
(*                                                                         *)
(* Evaluate copies the policies under the store's lock (Policies) and tests*)
(* the conditions on the copy afterwards.  The copy is built by iterating  *)
(* over a Go map, in an order that differs from call to call, and sorted by*)
(* priority with a stable sort.  Conditions are pure predicates; Applies   *)
(* says for which requests each one holds.                                 *)
(***************************************************************************)
EXTENDS Integers, Sequences, FiniteSets, Functions, SequencesExt

CONSTANTS
  Callers,        \* goroutines that evaluate requests
  PolicyIDs,
  PolicyDefs,     \* the Policy structs administrators add
  Requests,
  Conditions,
  Applies,        \* condition -> the requests it holds for
  NilCondition,   \* the nil Condition: matches every request
  DefaultEffect,  \* Deny, or Allow with WithDefaultAllow
  StoreFails,     \* TRUE: PolicyStore.Policies may return an error
  NoPolicy, NoRequest

Allow == "Allow"
Deny  == "Deny"

Policy == [Effect : {Allow, Deny}, Condition : Conditions \cup {NilCondition}, Priority : Int]

ASSUME ABACAssumption ==
  /\ IsFiniteSet(PolicyIDs)
  /\ PolicyDefs \subseteq [ID : PolicyIDs, Effect : {Allow, Deny},
                           Condition : Conditions \cup {NilCondition}, Priority : Int]
  /\ Applies \in [Conditions -> SUBSET Requests]
  /\ NilCondition \notin Conditions /\ NoPolicy \notin Policy
  /\ DefaultEffect \in {Allow, Deny} /\ StoreFails \in BOOLEAN

VARIABLES
  policies,  \* MemoryStore.policies
  evals      \* evals[p]: the evaluation goroutine p is in

evalVars == <<policies, evals>>

\* `out' is the slice Policies returned, as a sequence of IDs, `snap' the policies in it, and
\* `failed' that Policies returned an error instead.
NoEval == [pc |-> "idle", req |-> NoRequest, out |-> <<>>, failed |-> FALSE,
           snap |-> [id \in PolicyIDs |-> NoPolicy], effect |-> Deny, matched |-> ""]

Present(ps) == {id \in PolicyIDs : ps[id] # NoPolicy}

(***************************************************************************)
(* Types, and what the slice of an evaluation is: every policy of the      *)
(* snapshot exactly once (Policies neither loses nor repeats one).         *)
(***************************************************************************)
Enumerates(o, ids) == /\ DOMAIN o = 1 .. Len(o) /\ IsInjective(o)
                      /\ ToSet(o) = ids

ABACTypeOK ==
  /\ policies \in [PolicyIDs -> Policy \cup {NoPolicy}]
  /\ DOMAIN evals = Callers
  /\ \A p \in Callers : LET e == evals[p] IN
       /\ e.pc \in {"idle", "scan", "done"}
       /\ e.req \in Requests \cup {NoRequest}
       /\ e.snap \in [PolicyIDs -> Policy \cup {NoPolicy}]
       /\ Enumerates(e.out, Present(e.snap))
       /\ e.effect \in {Allow, Deny} /\ e.failed \in BOOLEAN
       /\ e.matched \in PolicyIDs \cup {""}

ABACInit ==
  /\ policies = [id \in PolicyIDs |-> NoPolicy]
  /\ evals = [p \in Callers |-> NoEval]

-----------------------------------------------------------------------------
(* The store.                                                                *)

\* Mutants: without the sort; with a slice one short.
SortedSlicesUnsorted(ps) == Bijection(1 .. Cardinality(Present(ps)), Present(ps))
SortedSlicesShort(ps) ==
  IF Present(ps) = {} THEN {<<>>}
  ELSE UNION {Bijection(1 .. Cardinality(Present(ps)) - 1, Present(ps) \ {id}) : id \in Present(ps)}

\* The slices Policies may return: every policy once, by descending priority; the order of
\* equal priorities is the order of a map iteration.
SortedSlices(ps) ==
  {o \in Bijection(1 .. Cardinality(Present(ps)), Present(ps)) :
     \A i, j \in DOMAIN o : i < j => ps[o[i]].Priority >= ps[o[j]].Priority}

AddPolicy(def) ==
  /\ policies' = [policies EXCEPT ![def.ID] = [Effect |-> def.Effect, Condition |-> def.Condition,
                                               Priority |-> def.Priority]]
  /\ UNCHANGED evals

\* An unknown ID is ErrPolicyNotFound and changes nothing.
RemovePolicy(id) ==
  /\ policies[id] # NoPolicy
  /\ policies' = [policies EXCEPT ![id] = NoPolicy]
  /\ UNCHANGED evals

-----------------------------------------------------------------------------
(* Evaluate.                                                                 *)

PolicyMatches(policy, req) == \/ policy.Condition = NilCondition
                              \/ req \in Applies[policy.Condition]

\* ev.store.Policies()
Snapshot(p, req) ==
  /\ evals[p].pc = "idle"
  /\ \E o \in SortedSlices(policies) :
       evals' = [evals EXCEPT ![p] = [NoEval EXCEPT !.pc = "scan", !.req = req, !.out = o,
                                                    !.snap = policies]]
  /\ UNCHANGED policies

\* An error of the store yields the default effect, with WithDefaultAllow too.
StoreError(p, req) ==
  /\ StoreFails
  /\ evals[p].pc = "idle"
  /\ evals' = [evals EXCEPT ![p] = [NoEval EXCEPT !.pc = "done", !.req = req, !.failed = TRUE,
                                                  !.effect = DefaultEffect]]
  /\ UNCHANGED policies

\* The positions of the matching policies in the slice.
Hits(e) == {i \in DOMAIN e.out : PolicyMatches(e.snap[e.out[i]], e.req)}

\* The loop over the slice: the first match decides.
Scan(p) ==
  /\ evals[p].pc = "scan"
  /\ LET e    == evals[p]
         hits == Hits(e) IN
     \/ /\ hits = {}
        /\ evals' = [evals EXCEPT ![p].pc = "done", ![p].effect = DefaultEffect]
     \/ \E i \in hits :
          /\ \A j \in hits : i <= j
          /\ evals' = [evals EXCEPT ![p].pc = "done", ![p].effect = e.snap[e.out[i]].Effect,
                                    ![p].matched = e.out[i]]
  /\ UNCHANGED policies

EvalReturns(p) ==
  /\ evals[p].pc = "done"
  /\ evals' = [evals EXCEPT ![p] = NoEval]
  /\ UNCHANGED policies

ABACNext ==
  \/ \E p \in Callers : \/ \E req \in Requests : Snapshot(p, req) \/ StoreError(p, req)
                        \/ Scan(p)
                        \/ EvalReturns(p)
  \/ \E def \in PolicyDefs : AddPolicy(def)
  \/ \E id \in PolicyIDs : RemovePolicy(id)

ABACSpec == ABACInit /\ [][ABACNext]_evalVars

-----------------------------------------------------------------------------
(* Properties.                                                               *)

\* The policies of the store that match, and those among them of the highest priority.
Matching(e) == {id \in Present(e.snap) : PolicyMatches(e.snap[id], e.req)}
Top(e) == LET matching == Matching(e) IN
  {id \in matching : \A other \in matching : e.snap[other].Priority <= e.snap[id].Priority}

\* A request that no policy matches gets the default effect.  Among the policies that match,
\* those of the highest priority decide: a single one is the MatchedPolicy, and where they
\* agree the effect is theirs (`The first matching policy determines the outcome').  Nothing
\* is said of an evaluation whose store failed, nor of who wins when policies of equal
\* priority disagree: there the code takes the order of a map iteration, while the comments
\* of types.go and store.go name a winner each.
DecisionFollowsPriority ==
  \A p \in Callers : LET e == evals[p] IN
    e.pc = "done" /\ ~e.failed =>
      /\ Matching(e) = {} => e.effect = DefaultEffect /\ e.matched = ""
      /\ \A id \in Top(e) :
           /\ Top(e) = {id} => e.matched = id
           /\ (\A other \in Top(e) : e.snap[other].Effect = e.snap[id].Effect)
                => e.effect = e.snap[id].Effect
=============================================================================
