---------------------------- MODULE MCReconciler ----------------------------
(* Instances of Reconciler for TLC.  Registration's refusals are covered by *)
(* MCRegistration, so the requests here are well-formed and mostly current. *)
EXTENDS Reconciler, TLC

SeedRow(desired, match) ==
    [desired |-> desired, match |-> match, ttl |-> 60, revision |-> 1,
     entry |-> None, status |-> "pending", error |-> "none"]

\* Every rule is to be present, with selectors of its own or shared.
SeedPresent == [r \in Rules |-> SeedRow("present", "m1")]

\* The rules as a table from before migration 000002 holds them: no parent
\* SPIFFE ID.
SeedLegacy == [r \in Rules |-> SeedRow("present", NoMatch)]

\* Rule 2 is yet to be created by an operator.
SeedTwoMissing == [r \in Rules |->
    IF r = 2 THEN NoRow ELSE SeedRow("present", "m1")]

Replace(r, expected, desired, match, ttl) ==
    [kind |-> "replace", rule |-> r, expected |-> expected,
     desired |-> desired, match |-> match, ttl |-> ttl]

Create(r) ==
    [kind |-> "create", rule |-> r, expected |-> 0, desired |-> "present",
     match |-> "m1", ttl |-> 60]

\* Operators withdraw rule 1, change its selectors, and bring it back.
EditInputs ==
    {Replace(1, 1, "absent", "m1", 60), Replace(1, 1, "present", "m2", 60),
     Replace(1, 2, "present", "m1", 60)}

\* Operators withdraw rule 1 or change its TTL.
TTLInputs ==
    {Replace(1, 1, "absent", "m1", 60), Replace(1, 1, "present", "m1", 120)}

NewRuleInputs == {Create(2)} \cup EditInputs

Interchangeable == Permutations(Runners) \cup Permutations(Requests)
=============================================================================
