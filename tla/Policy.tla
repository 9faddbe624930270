------------------------------- MODULE Policy -------------------------------
(***************************************************************************)
(* The policy manager: access_policies is the mutable envelope of a policy *)
(* (status, revision, active version), access_policy_versions its append-  *)
(* only history.  Create, AppendVersion and Activate are each one          *)
(* PostgreSQL transaction of several statements; the row lock taken by     *)
(* SELECT ... FOR UPDATE and the optimistic revision are all that orders   *)
(* concurrent ones.                                                        *)
(*                                                                         *)
(* A policy is named by its organization and name, which are UNIQUE        *)
(* together; a version's generated UUID is the request that inserts it.    *)
(***************************************************************************)
EXTENDS Naturals

CONSTANTS
    Policies,      \* (organization, name) pairs
    Known,         \* the ones whose organization exists
    Requests,      \* HTTP mutation requests
    Stored,        \* IDs of the versions that direct SQL has stored
    Inputs,        \* the request bodies operators may send
    SeedPolicies,  \* the tables as direct SQL leaves them
    SeedVersions,
    None,          \* SQL NULL, and "nobody" as a lock holder
    NoRow          \* no row in the table, or none written yet

VARIABLES
    policies,      \* the committed table access_policies
    versions,      \* the committed table access_policy_versions
    audit,         \* the committed audit rows of policy mutations
    lock,          \* row lock: the request whose transaction holds it
    phase,         \* where each request is, or the answer it got
    input,         \* the body of each request
    seen,          \* the revision its SELECT ... FOR UPDATE read
    number,        \* the version number it read or computed
    row,           \* the policy row it has written and not committed
    version        \* the version row it has written and not committed

polVars == <<policies, versions, audit, lock, phase, input, seen, number,
             row, version>>

VersionIds == Requests \cup Stored

\* The rule of a version, as far as validateRuleInput tells rules apart: it is
\* accepted as it is, or once action, effect and reason are trimmed and
\* lowered, or not at all.
Contents == {"wellformed", "untidy", "malformed"}

\* The third migration's CHECK keeps revisions positive.
PolicyRow == [status : {"draft", "active", "disabled"}, revision : Nat \ {0},
              active : VersionIds \cup {None}]

Version == [id : VersionIds, policy : Policies, number : Nat,
            content : Contents]

\* expected and version are meaningless for a create, version for an append
\* and content for an activation.
Input == [kind : {"create", "append", "activate"}, policy : Policies,
          expected : Nat, content : Contents, version : VersionIds]

Event == [by : Requests, policy : Policies, revision : Nat,
          kind : {"create", "append", "activate"}, number : Nat]

Working == {"begin", "max", "load", "version", "update", "audit", "commit"}
Answers == {"ok", "invalid", "notfound", "conflict", "error"}

\* What direct SQL leaves obeys the tables' constraints: a version belongs to
\* a policy, UNIQUE (policy_id, version), and a history, being finite, has a
\* last number.
ASSUME PolicyAssumption ==
    /\ Known \subseteq Policies
    /\ Requests \cap Stored = {}
    /\ None \notin VersionIds
    /\ None \notin Input /\ None \notin [object : Policies, expected : Nat]
    /\ NoRow \notin PolicyRow /\ NoRow \notin Version
    /\ Inputs \subseteq Input
    /\ SeedPolicies \in [Policies -> PolicyRow \cup {NoRow}]
    /\ SeedVersions \subseteq Version
    /\ \A v \in SeedVersions : v.id \in Stored /\ SeedPolicies[v.policy] # NoRow
    /\ \A v, w \in SeedVersions :
          v.policy = w.policy /\ v.number = w.number => v = w
    /\ \A p \in Policies :
          LET numbers == {v.number : v \in {w \in SeedVersions : w.policy = p}}
          IN  \E n \in numbers \cup {0} : \A k \in numbers : k <= n

Target(c) == input[c].policy
RevisionOf(r) == IF r = NoRow THEN 0 ELSE r.revision
-----------------------------------------------------------------------------
PolInit ==
    /\ policies = SeedPolicies
    /\ versions = SeedVersions
    /\ audit = {}
    /\ lock = [p \in Policies |-> None]
    /\ phase = [c \in Requests |-> "new"]
    /\ input = [c \in Requests |-> None]
    /\ seen = [c \in Requests |-> 0]
    /\ number = [c \in Requests |-> 0]
    /\ row = [c \in Requests |-> NoRow]
    /\ version = [c \in Requests |-> NoRow]

\* normalizeRuleInput.
Normalized(k) == IF k = "untidy" THEN "wellformed" ELSE k

\* validateCreateInput and validateAppendInput, which see the normalized rule,
\* and validateActivateInput.
ValidInput(i) ==
    /\ i.kind # "create" => i.expected >= 1
    /\ i.kind # "activate" => Normalized(i.content) = "wellformed"

Submit(c) ==
    /\ phase[c] = "new"
    /\ \E i \in Inputs :
          /\ input' = [input EXCEPT ![c] = i]
          /\ phase' = [phase EXCEPT ![c] =
                          IF ValidInput(i) THEN "begin" ELSE "invalid"]
    /\ UNCHANGED <<policies, versions, audit, lock, seen, number, row, version>>

Goto(c, l) == phase' = [phase EXCEPT ![c] = l]
Free(p) == lock[p] = None
Acquire(p, c) == lock' = [lock EXCEPT ![p] = c]

\* Fault: an early return leaves the transaction, and its lock, open.
RollbackForgotten(c, a) ==
    /\ lock' = IF a = "ok" THEN [p \in Policies |->
                  IF lock[p] = c THEN None ELSE lock[p]] ELSE lock
    /\ row' = [row EXCEPT ![c] = NoRow]
    /\ version' = [version EXCEPT ![c] = NoRow]
    /\ phase' = [phase EXCEPT ![c] = a]

\* The transaction ends without effect and the caller gets answer a.
Rollback(c, a) ==
    /\ lock' = [p \in Policies |-> IF lock[p] = c THEN None ELSE lock[p]]
    /\ row' = [row EXCEPT ![c] = NoRow]
    /\ version' = [version EXCEPT ![c] = NoRow]
    /\ Goto(c, a)

\* A statement takes or keeps the row lock and the transaction goes on to l,
\* or a constraint refuses it and the transaction ends as a conflict.
Proceed(c, done, l) ==
    /\ lock' = [lock EXCEPT ![Target(c)] = IF done THEN c ELSE None]
    /\ Goto(c, IF done THEN l ELSE "conflict")

\* Create: the organization is looked up, the envelope inserted as a draft at
\* revision 1.  The unique index makes a second insert of the same name wait
\* for the first transaction, and fail as a conflict once it has committed.
CreatePolicy(c) ==
    LET p == Target(c) IN
    /\ phase[c] = "begin" /\ input[c].kind = "create"
    /\ \/ p \notin Known /\ Rollback(c, "notfound") /\ UNCHANGED number
       \/ /\ p \in Known /\ Free(p) /\ policies[p] # NoRow
          /\ Rollback(c, "conflict") /\ UNCHANGED number
       \/ /\ p \in Known /\ Free(p) /\ policies[p] = NoRow
          /\ Acquire(p, c)
          /\ row' = [row EXCEPT ![c] =
                 [status |-> "draft", revision |-> 1, active |-> None]]
          /\ number' = [number EXCEPT ![c] = 1]
          /\ Goto(c, "version")
          /\ UNCHANGED version
    /\ UNCHANGED <<policies, versions, audit, input, seen>>

\* AppendVersion and Activate: SELECT ... FOR UPDATE waits for the row lock;
\* the revision it reads must be the expected one.
SelectForUpdate(c) ==
    LET p == Target(c) IN
    /\ phase[c] = "begin" /\ input[c].kind # "create"
    /\ \/ policies[p] = NoRow /\ Rollback(c, "notfound") /\ UNCHANGED seen
       \/ /\ policies[p] # NoRow /\ Free(p)
          /\ policies[p].revision # input[c].expected
          /\ Rollback(c, "conflict") /\ UNCHANGED seen
       \/ /\ policies[p] # NoRow /\ Free(p)
          /\ policies[p].revision = input[c].expected
          /\ Acquire(p, c)
          /\ seen' = [seen EXCEPT ![c] = policies[p].revision]
          /\ Goto(c, IF input[c].kind = "append" THEN "max" ELSE "load")
          /\ UNCHANGED <<row, version>>
    /\ UNCHANGED <<policies, versions, audit, input, number>>

\* SELECT COALESCE(MAX(version), 0) + 1 over the committed history.
VersionsOf(p) == {v \in versions : v.policy = p}
Numbers(p) == {v.number : v \in VersionsOf(p)}
\* Fault: the MAX lacks WHERE policy_id.
LastNumberOfAll(p) ==
    LET all == {v.number : v \in versions} IN
    CHOOSE n \in all \cup {0} : \A k \in all : k <= n

LastNumber(p) ==
    CHOOSE n \in Numbers(p) \cup {0} : \A k \in Numbers(p) : k <= n

NextVersion(c) ==
    /\ phase[c] = "max"
    /\ number' = [number EXCEPT ![c] = LastNumber(Target(c)) + 1]
    /\ Goto(c, "version")
    /\ UNCHANGED <<policies, versions, audit, lock, input, seen, row, version>>

\* Fault: the rule is stored as it was sent.
StoredRaw(c) == input[c].content

\* Create and AppendVersion continue with the normalized input.
StoredContent(c) == Normalized(input[c].content)

\* INSERT INTO access_policy_versions; the foreign key waits for the row lock,
\* UNIQUE (policy_id, version) waits for an uncommitted duplicate and refuses
\* a committed one (never for a create: a new policy has no history).
InsertVersion(c) ==
    LET p == Target(c) IN
    /\ phase[c] = "version" /\ lock[p] \in {None, c}
    /\ \A d \in Requests \ {c} : version[d] # NoRow =>
          ~(version[d].policy = p /\ version[d].number = number[c])
    /\ version' = [version EXCEPT ![c] =
           IF number[c] \in Numbers(p) THEN NoRow
           ELSE [id |-> c, policy |-> p, number |-> number[c],
                 content |-> StoredContent(c)]]
    /\ Proceed(c, number[c] \notin Numbers(p),
               IF input[c].kind = "create" THEN "audit" ELSE "update")
    /\ row' = [row EXCEPT ![c] =
                  IF number[c] \in Numbers(p) THEN NoRow ELSE @]
    /\ UNCHANGED <<policies, versions, audit, input, seen, number>>

\* Fault: the candidate is looked up without its policy.
LoadVersionOfAny(c) ==
    LET found == {v \in versions : v.id = input[c].version} IN
    /\ phase[c] = "load"
    /\ \/ found = {} /\ Rollback(c, "notfound") /\ UNCHANGED number
       \/ \E v \in found : /\ v.content # "wellformed"
                           /\ Rollback(c, "invalid") /\ UNCHANGED number
       \/ \E v \in found : /\ v.content = "wellformed"
                           /\ number' = [number EXCEPT ![c] = v.number]
                           /\ Goto(c, "update")
                           /\ UNCHANGED <<lock, row, version>>
    /\ UNCHANGED <<policies, versions, audit, input, seen>>

\* Activate loads the candidate, which must belong to the policy, and
\* validates the stored rule again.
LoadVersion(c) ==
    LET found == {v \in VersionsOf(Target(c)) : v.id = input[c].version} IN
    /\ phase[c] = "load"
    /\ \/ found = {} /\ Rollback(c, "notfound") /\ UNCHANGED number
       \/ \E v \in found : /\ v.content # "wellformed"
                           /\ Rollback(c, "invalid") /\ UNCHANGED number
       \/ \E v \in found : /\ v.content = "wellformed"
                           /\ number' = [number EXCEPT ![c] = v.number]
                           /\ Goto(c, "update")
                           /\ UNCHANGED <<lock, row, version>>
    /\ UNCHANGED <<policies, versions, audit, input, seen>>

\* The envelope as AppendVersion and as Activate update it.
Extended(r) == [status |-> r.status, revision |-> r.revision + 1,
                active |-> r.active]
Activated(r, v) == [status |-> "active", revision |-> r.revision + 1,
                    active |-> v]

\* Fault: active_version_id gets the policy's ID, an argument out of place.
UpdatePolicyMisplaced(c) ==
    LET p == Target(c) IN
    /\ phase[c] = "update" /\ lock[p] \in {None, c}
    /\ row' = [row EXCEPT ![c] = Activated(policies[p], p)]
    /\ Proceed(c, TRUE, "audit")
    /\ UNCHANGED <<policies, versions, audit, input, seen, number, version>>

\* Fault: an activation keeps the revision.
UpdatePolicySameRevision(c) ==
    LET p == Target(c) IN
    /\ phase[c] = "update" /\ lock[p] \in {None, c}
    /\ row' = [row EXCEPT ![c] =
           IF input[c].kind = "append"
             THEN Extended(policies[p])
             ELSE [policies[p] EXCEPT !.status = "active",
                                      !.active = input[c].version]]
    /\ Proceed(c, TRUE, "audit")
    /\ UNCHANGED <<policies, versions, audit, input, seen, number, version>>

\* UPDATE access_policies ... WHERE id = $1 AND revision = $2; no row updated
\* is a conflict.
UpdatePolicy(c) ==
    LET p == Target(c)
        hit == policies[p].revision = input[c].expected IN
    /\ phase[c] = "update" /\ lock[p] \in {None, c}
    /\ row' = [row EXCEPT ![c] =
           IF ~hit THEN NoRow
           ELSE IF input[c].kind = "append" THEN Extended(policies[p])
           ELSE Activated(policies[p], input[c].version)]
    /\ Proceed(c, hit, "audit")
    /\ version' = [version EXCEPT ![c] = IF hit THEN @ ELSE NoRow]
    /\ UNCHANGED <<policies, versions, audit, input, seen, number>>

\* appendAudit, inside the transaction.
AuditInsert(c) ==
    /\ phase[c] = "audit"
    /\ Goto(c, "commit")
    /\ UNCHANGED <<policies, versions, audit, lock, input, seen, number, row,
                   version>>

\* COMMIT shows envelope, version and audit row together.  The audited
\* revision is the one Go computed from what it read.  When the
\* acknowledgement is lost the caller is told "error" all the same.
Commit(c) ==
    /\ phase[c] = "commit"
    /\ policies' = [policies EXCEPT ![Target(c)] = row[c]]
    /\ versions' = versions \cup {v \in {version[c]} : v # NoRow}
    /\ audit' = audit \cup
           {[by |-> c, policy |-> Target(c), revision |-> seen[c] + 1,
             kind |-> input[c].kind, number |-> number[c]]}
    /\ \E a \in {"ok", "error"} : Rollback(c, a)
    /\ UNCHANGED <<input, seen, number>>

\* Fault: the error of COMMIT is dropped and the caller is told "ok".
AbortUnnoticed(c) ==
    /\ phase[c] \in Working
    /\ Rollback(c, IF phase[c] = "commit" THEN "ok" ELSE "error")
    /\ UNCHANGED <<policies, versions, audit, input, seen, number>>

\* A statement fails, the 5 s context expires or the process dies.
Abort(c) ==
    /\ phase[c] \in Working
    /\ Rollback(c, "error")
    /\ UNCHANGED <<policies, versions, audit, input, seen, number>>
-----------------------------------------------------------------------------
PolicyStep(c) ==
    \/ CreatePolicy(c) \/ SelectForUpdate(c) \/ NextVersion(c)
    \/ InsertVersion(c) \/ LoadVersion(c) \/ UpdatePolicy(c)
    \/ AuditInsert(c) \/ Commit(c)

PolNext == \E c \in Requests : Submit(c) \/ PolicyStep(c) \/ Abort(c)

PolSpec == PolInit /\ [][PolNext]_polVars

\* Every statement of a request is eventually executed, or fails: the row
\* lock it may wait for is held by a transaction that makes progress too.
PolFairSpec == PolSpec /\ \A c \in Requests : WF_polVars(PolicyStep(c))
-----------------------------------------------------------------------------
\* Types: what access_policies, access_policy_versions and the Go variables
\* of a policy mutation can hold.
PolTypeOK ==
    /\ policies \in [Policies -> PolicyRow \cup {NoRow}]
    /\ versions \subseteq Version
    /\ audit \subseteq Event
    /\ lock \in [Policies -> Requests \cup {None}]
    /\ phase \in [Requests -> {"new"} \cup Working \cup Answers]
    /\ input \in [Requests -> Input \cup {None}]
    /\ seen \in [Requests -> Nat]
    /\ number \in [Requests -> Nat]
    /\ row \in [Requests -> PolicyRow \cup {NoRow}]
    /\ version \in [Requests -> Version \cup {NoRow}]

(***************************************************************************)
(* History without gaps or forks (ADR-0010, "appending policy content      *)
(* always creates a new immutable version"): no two versions of a policy   *)
(* share a number, every version an operator added continues the numbers   *)
(* of its policy, and it is on the audit record under its number.          *)
(***************************************************************************)
HistoryUnbroken ==
    /\ \A v, w \in versions :
          v.policy = w.policy /\ v.number = w.number => v = w
    /\ \A v \in versions : v.id \in Requests =>
          /\ v.number > 1 => v.number - 1 \in Numbers(v.policy)
          /\ \E a \in audit : /\ a.by = v.id /\ a.policy = v.policy
                              /\ a.number = v.number /\ a.kind # "activate"

(***************************************************************************)
(* Accountability of policies: exactly one audit row for each revision a   *)
(* policy went through since it was seeded.                                *)
(***************************************************************************)
PolicyAuditPerRevision ==
    \A p \in Policies :
       LET since == RevisionOf(SeedPolicies[p]) + 1 .. RevisionOf(policies[p])
           rows == {a \in audit : a.policy = p} IN
       /\ {a.revision : a \in rows} = since
       /\ \A a, b \in rows : a.revision = b.revision => a = b

(***************************************************************************)
(* The active version is the one the record says (ADR-0010, "malformed     *)
(* policy must not become active", "the version belongs to another         *)
(* policy"): it is a well-formed stored version of this very policy, and   *)
(* the activation with the highest audited revision selected it.  Until    *)
(* the first activation the seeded selection stands.                       *)
(***************************************************************************)
ActiveIsLastActivation ==
    \A p \in Policies : policies[p] # NoRow =>
       LET acts == {a \in audit : a.policy = p /\ a.kind = "activate"} IN
       IF acts = {}
         THEN policies[p].active =
                 IF SeedPolicies[p] = NoRow THEN None
                                            ELSE SeedPolicies[p].active
         ELSE /\ policies[p].status = "active"
              /\ \E v \in VersionsOf(p), a \in acts :
                    /\ v.id = policies[p].active /\ v.content = "wellformed"
                    /\ \A b \in acts : b.revision <= a.revision
                    /\ v.number = a.number

(***************************************************************************)
(* What the API has accepted can be activated: Activate validates the      *)
(* stored rule again, without normalizing it, so the rule must have been   *)
(* normalized before it was stored and not only before it was validated.   *)
(***************************************************************************)
ActivatableHistory ==
    \A v \in versions : v.id \in Requests => v.content = "wellformed"

(***************************************************************************)
(* What an operator may conclude from an answer of the policy API: 200/201 *)
(* means the change was built on the revision the operator named and is on *)
(* record; 400, 404 and 409 mean that the request left no version and no   *)
(* audit row (ADR-0010, "does not add policy/audit state").                *)
(***************************************************************************)
PolicyAnswerMatchesRecord ==
    \A c \in Requests :
       /\ phase[c] = "ok" => \E a \in audit : a.by = c
       /\ phase[c] \in {"invalid", "notfound", "conflict"} =>
             /\ \A a \in audit : a.by # c
             /\ \A v \in versions : v.id # c
       /\ \A a \in audit : a.by = c /\ a.kind # "create" =>
             a.revision = input[c].expected + 1

\* How the abstract store sees a mutation body and an answer.
AskOf(i) == [object |-> i.policy,
             expected |-> IF i.kind = "create" THEN 0 ELSE i.expected]

OutcomeOf(a) ==
    CASE a \in {"new"} \cup Working -> "pending"
      [] a \in {"invalid", "notfound"} -> "refused"
      [] a = "conflict" -> "stale"
      [] OTHER -> a

storeRevision == [p \in Policies |-> RevisionOf(policies[p])]
storeLog == {[by |-> a.by, object |-> a.policy, revision |-> a.revision] :
                a \in audit}
storeAsked == [c \in Requests |->
                  IF input[c] = None THEN None ELSE AskOf(input[c])]
storeAnswer == [c \in Requests |-> OutcomeOf(phase[c])]

Store == INSTANCE RevisionedStore WITH
    Objects  <- Policies,
    Asks     <- {AskOf(i) : i \in Inputs},
    Start    <- [p \in Policies |-> RevisionOf(SeedPolicies[p])],
    revision <- storeRevision,
    log      <- storeLog,
    asked    <- storeAsked,
    answer   <- storeAnswer

(***************************************************************************)
(* The policy manager is linearizable: creating, appending and activating, *)
(* up to seven statements each, are atomic changes of the revision the     *)
(* operator named, logged as they happen; a 409 is only given while the    *)
(* policy is at another revision, or exists although it was to be created. *)
(***************************************************************************)
PolImplementsStore == Store!Spec

\* Every policy request that reached the server is answered: no transaction
\* keeps the row lock of a policy and makes the others wait for ever.
EveryPolicyRequestAnswered ==
    \A c \in Requests : phase[c] = "begin" ~> phase[c] \in Answers
=============================================================================
