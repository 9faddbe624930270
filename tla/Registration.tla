---------------------------- MODULE Registration ----------------------------
(***************************************************************************)
(* The registration store: the PostgreSQL table registration_rules, the    *)
(* operator mutations that change desired state in it (one transaction per *)
(* HTTP request, with a row lock, an optimistic revision and an audit row  *)
(* in the same transaction), and the status statements MarkConverged and   *)
(* MarkError that the reconciler issues outside any transaction.           *)
(*                                                                         *)
(* A rule is named by its workload: registration_rules.workload_id is      *)
(* UNIQUE and no code deletes a rule.  Each member of Requests is one HTTP *)
(* request; its identity stands for the generated correlation ID.          *)
(***************************************************************************)
EXTENDS Naturals

CONSTANTS
    Rules,       \* rule identities, numbered in the order List returns them
    Workloads,   \* the rules whose workload row exists
    Matches,     \* usable (parent SPIFFE ID, selectors) pairs
    NoMatch,     \* an unusable pair: NULL parent or no selector
    TTLs,        \* X.509-SVID TTLs in the supported range
    Ids,         \* SPIRE entry IDs
    Requests,    \* HTTP mutation requests
    Inputs,      \* the request bodies operators may send
    Seed,        \* the table as migrations and direct SQL leave it
    None,        \* SQL NULL, and "nobody" as a lock holder
    NoRow        \* the value of rules[r] while r has no row

VARIABLES
    rules,       \* the committed table registration_rules
    audit,       \* the committed operator rows of audit_events
    lock,        \* row lock: the request whose transaction holds it
    phase,       \* where each request is, or the answer it got
    input,       \* the body of each request
    before,      \* the revision its SELECT ... FOR UPDATE read
    draft        \* the row its transaction has written and not committed

regVars == <<rules, audit, lock, phase, input, before, draft>>
requestVars == <<audit, lock, phase, input, before, draft>>

DesiredStates == {"present", "absent"}
Statuses == {"pending", "converged", "error"}
Codes == {"none", "invalid_desired_state", "spire_unavailable",
          "spire_create_failed", "spire_update_failed", "spire_update_race",
          "spire_delete_failed", "ownership_mismatch"}

\* A row of registration_rules; error "none" is a NULL last_error_code.
Row == [desired  : DesiredStates,
        match    : Matches \cup {NoMatch},
        ttl      : TTLs,
        revision : Nat,
        entry    : Ids \cup {None},
        status   : Statuses,
        error    : Codes]

\* A mutation body.  NoMatch stands for any field that validateDesiredFields
\* refuses; expected is meaningless for a create.
Input == [kind     : {"create", "replace"},
          rule     : Rules,
          expected : Nat,
          desired  : DesiredStates,
          match    : Matches \cup {NoMatch},
          ttl      : TTLs]

Event == [by : Requests, rule : Rules, revision : Nat]

Working == {"begin", "write", "audit", "commit"}
Answers == {"ok", "invalid", "notfound", "conflict", "error"}

ASSUME RegistrationAssumption ==
    /\ Rules \subseteq Nat
    /\ Workloads \subseteq Rules
    /\ NoMatch \notin Matches
    /\ None \notin Ids /\ None \notin Requests
    /\ None \notin Input /\ None \notin [object : Rules, expected : Nat]
    /\ NoRow \notin Row
    /\ Inputs \subseteq Input
    /\ Seed \in [Rules -> Row \cup {NoRow}]

Target(c) == input[c].rule

\* Revision 0 stands for the absence of a row.
RevisionOf(row) == IF row = NoRow THEN 0 ELSE row.revision
-----------------------------------------------------------------------------
RegInit ==
    /\ rules = Seed
    /\ audit = {}
    /\ lock = [r \in Rules |-> None]
    /\ phase = [c \in Requests |-> "new"]
    /\ input = [c \in Requests |-> None]
    /\ before = [c \in Requests |-> 0]
    /\ draft = [c \in Requests |-> NoRow]

\* validateCreateInput and validateReplaceInput.
ValidInput(i) ==
    /\ i.match # NoMatch
    /\ i.kind = "replace" => i.expected >= 1

\* A request arrives; an invalid body is answered before any transaction.
Submit(c) ==
    /\ phase[c] = "new"
    /\ \E i \in Inputs :
          /\ input' = [input EXCEPT ![c] = i]
          /\ phase' = [phase EXCEPT ![c] =
                          IF ValidInput(i) THEN "begin" ELSE "invalid"]
    /\ UNCHANGED <<rules, audit, lock, before, draft>>

Answer(c, a) == phase' = [phase EXCEPT ![c] = a]
Free(r) == lock[r] = None
Acquire(r, c) == lock' = [lock EXCEPT ![r] = c]

\* The end of a transaction without effect: its locks go with it.
Release(c) == lock' = [r \in Rules |-> IF lock[r] = c THEN None ELSE lock[r]]

\* The row that the INSERT of CreateDesired writes.
Created(i) ==
    [desired |-> "present", match |-> i.match, ttl |-> i.ttl,
     revision |-> 1, entry |-> None, status |-> "pending", error |-> "none"]

\* Fault: the SET list lacks revision = revision + 1.
ReplacedSameRevision(row, i) ==
    [desired |-> i.desired, match |-> i.match, ttl |-> i.ttl,
     revision |-> row.revision, entry |-> row.entry,
     status |-> "pending", error |-> "none"]

\* Fault: the SET list lacks reconcile_status = 'pending'.
ReplacedSameStatus(row, i) ==
    [desired |-> i.desired, match |-> i.match, ttl |-> i.ttl,
     revision |-> row.revision + 1, entry |-> row.entry,
     status |-> row.status, error |-> row.error]

\* The row that the UPDATE of ReplaceDesired writes: the binding is kept.
Replaced(row, i) ==
    [desired |-> i.desired, match |-> i.match, ttl |-> i.ttl,
     revision |-> row.revision + 1, entry |-> row.entry,
     status |-> "pending", error |-> "none"]

\* CreateDesired: resolve the workload, then INSERT at revision 1.  The
\* unique index makes a second insert wait for the first to end, and fail
\* with a plain error once the row is there.
CreateInsert(c) ==
    LET i == input[c] IN
    /\ phase[c] = "begin" /\ i.kind = "create"
    /\ \/ /\ Target(c) \notin Workloads
          /\ Answer(c, "notfound")
          /\ UNCHANGED <<lock, draft>>
       \/ /\ Target(c) \in Workloads /\ Free(Target(c))
          /\ rules[Target(c)] # NoRow
          /\ Answer(c, "error")
          /\ UNCHANGED <<lock, draft>>
       \/ /\ Target(c) \in Workloads /\ Free(Target(c))
          /\ rules[Target(c)] = NoRow
          /\ Acquire(Target(c), c)
          /\ draft' = [draft EXCEPT ![c] = Created(i)]
          /\ phase' = [phase EXCEPT ![c] = "audit"]
    /\ UNCHANGED <<rules, audit, input, before>>

\* Fault: the SELECT lacks FOR UPDATE.
ReplaceSelectUnlocked(c) ==
    LET row == rules[Target(c)] IN
    /\ phase[c] = "begin" /\ input[c].kind = "replace"
    /\ \/ row = NoRow /\ Answer(c, "notfound") /\ UNCHANGED before
       \/ /\ row # NoRow
          /\ before' = [before EXCEPT ![c] = row.revision]
          /\ phase' = [phase EXCEPT ![c] =
                 IF row.revision = input[c].expected
                   THEN "write" ELSE "conflict"]
    /\ UNCHANGED <<rules, audit, lock, input, draft>>

\* ReplaceDesired: SELECT ... FOR UPDATE waits for the row lock, then the
\* revision it reads is compared with the one the operator expects.  A row
\* that is not committed yet is invisible and is not waited for.
ReplaceSelect(c) ==
    LET row == rules[Target(c)] IN
    /\ phase[c] = "begin" /\ input[c].kind = "replace"
    /\ \/ /\ row = NoRow
          /\ Answer(c, "notfound")
          /\ UNCHANGED <<lock, before>>
       \/ /\ row # NoRow /\ Free(Target(c))
          /\ row.revision # input[c].expected
          /\ Answer(c, "conflict")
          /\ UNCHANGED <<lock, before>>
       \/ /\ row # NoRow /\ Free(Target(c))
          /\ row.revision = input[c].expected
          /\ Acquire(Target(c), c)
          /\ before' = [before EXCEPT ![c] = row.revision]
          /\ phase' = [phase EXCEPT ![c] = "write"]
    /\ UNCHANGED <<rules, audit, input, draft>>

\* UPDATE ... WHERE id = $1 AND revision = $2; no row updated is a conflict.
ReplaceUpdate(c) ==
    LET row == rules[Target(c)]
        hit == row.revision = input[c].expected IN
    /\ phase[c] = "write"
    /\ lock[Target(c)] \in {None, c}
    /\ lock' = [lock EXCEPT ![Target(c)] = IF hit THEN c ELSE None]
    /\ draft' = [draft EXCEPT ![c] =
           IF hit THEN Replaced(row, input[c]) ELSE NoRow]
    /\ phase' = [phase EXCEPT ![c] = IF hit THEN "audit" ELSE "conflict"]
    /\ UNCHANGED <<rules, audit, input, before>>

\* Fault: the audit row goes through the pool, outside the transaction.
AuditInsertOutside(c) ==
    /\ phase[c] = "audit"
    /\ audit' = audit \cup
           {[by |-> c, rule |-> Target(c), revision |-> before[c] + 1]}
    /\ phase' = [phase EXCEPT ![c] = "commit"]
    /\ UNCHANGED <<rules, lock, input, before, draft>>

\* The audit row is written inside the transaction; nothing is visible yet.
AuditInsert(c) ==
    /\ phase[c] = "audit"
    /\ phase' = [phase EXCEPT ![c] = "commit"]
    /\ UNCHANGED <<rules, audit, lock, input, before, draft>>

\* COMMIT makes row and audit row visible together.  The metadata's revision
\* is the one Go computed from what it read, not the one SQL stored.  When
\* the acknowledgement is lost the caller is told "error" all the same.
Commit(c) ==
    /\ phase[c] = "commit"
    /\ rules' = [rules EXCEPT ![Target(c)] = draft[c]]
    /\ audit' = audit \cup
           {[by |-> c, rule |-> Target(c), revision |-> before[c] + 1]}
    /\ Release(c)
    /\ draft' = [draft EXCEPT ![c] = NoRow]
    /\ \E a \in {"ok", "error"} : Answer(c, a)
    /\ UNCHANGED <<input, before>>

\* Fault: the error of COMMIT is dropped and the caller is told "ok".
AbortUnnoticed(c) ==
    /\ phase[c] \in Working
    /\ Release(c)
    /\ draft' = [draft EXCEPT ![c] = NoRow]
    /\ Answer(c, IF phase[c] = "commit" THEN "ok" ELSE "error")
    /\ UNCHANGED <<rules, audit, input, before>>

\* Fault: no deferred Rollback, the transaction stays open.
AbortWithoutRollback(c) ==
    /\ phase[c] \in Working
    /\ Answer(c, "error")
    /\ UNCHANGED <<rules, audit, lock, input, before, draft>>

\* Any statement fails, the 5 s context expires or the process dies: the
\* deferred Rollback, or PostgreSQL, undoes the transaction.
Abort(c) ==
    /\ phase[c] \in Working
    /\ Release(c)
    /\ draft' = [draft EXCEPT ![c] = NoRow]
    /\ Answer(c, "error")
    /\ UNCHANGED <<rules, audit, input, before>>
-----------------------------------------------------------------------------
\* Fault: the index is missing.
EntryNotUnique(r, e) == TRUE

\* The partial unique index registration_rules_spire_entry_unique.
EntryUnique(r, e) ==
    e # None => \A q \in Rules \ {r} : rules[q] # NoRow => rules[q].entry # e

\* The row with what a status statement sets.
WithStatus(row, e, status, code) ==
    [desired |-> row.desired, match |-> row.match, ttl |-> row.ttl,
     revision |-> row.revision, entry |-> e, status |-> status,
     error |-> code]

\* UPDATE ... SET spire_entry_id, reconcile_status = 'converged' WHERE id:
\* it waits for the row lock and does not look at the revision.
MarkConverged(r, e) ==
    /\ rules[r] # NoRow /\ Free(r) /\ EntryUnique(r, e)
    /\ rules' = [rules EXCEPT ![r] = WithStatus(@, e, "converged", "none")]
    /\ UNCHANGED requestVars

\* UPDATE ... SET reconcile_status = 'error', last_error_code WHERE id.
MarkError(r, code) ==
    /\ rules[r] # NoRow /\ Free(r)
    /\ rules' = [rules EXCEPT ![r] = WithStatus(@, @.entry, "error", code)]
    /\ UNCHANGED requestVars
-----------------------------------------------------------------------------
RequestStep(c) ==
    \/ CreateInsert(c) \/ ReplaceSelect(c) \/ ReplaceUpdate(c)
    \/ AuditInsert(c) \/ Commit(c)

OperatorStep == \E c \in Requests : Submit(c) \/ RequestStep(c) \/ Abort(c)

StatusStep ==
    \E r \in Rules :
       \/ \E e \in Ids \cup {None} : MarkConverged(r, e)
       \/ \E code \in Codes \ {"none"} : MarkError(r, code)

RegNext == OperatorStep \/ StatusStep

RegSpec == RegInit /\ [][RegNext]_regVars

\* Every statement of a request is eventually executed: PostgreSQL serves
\* the pool's connections and grants row locks; failures are not promised.
RegFairSpec == RegSpec /\ \A c \in Requests : WF_regVars(RequestStep(c))
-----------------------------------------------------------------------------
\* Types: what the columns of registration_rules and the Go variables of a
\* mutation can hold, whatever statements interleave.
RegTypeOK ==
    /\ rules \in [Rules -> Row \cup {NoRow}]
    /\ audit \subseteq Event
    /\ lock \in [Rules -> Requests \cup {None}]
    /\ phase \in [Requests -> {"new"} \cup Working \cup Answers]
    /\ input \in [Requests -> Input \cup {None}]
    /\ before \in [Requests -> Nat]
    /\ draft \in [Requests -> Row \cup {NoRow}]

(***************************************************************************)
(* Accountability of desired state (ADR-0009, "committed in the same       *)
(* PostgreSQL transaction"): the operator audit rows of a rule are exactly *)
(* one for each revision the rule went through since it was seeded.  A     *)
(* lost update, an unaudited change or an audit row of a change that was   *)
(* rolled back would each break it.                                        *)
(***************************************************************************)
AuditPerRevision ==
    \A r \in Rules :
       /\ \A n \in RevisionOf(Seed[r]) + 1 .. RevisionOf(rules[r]) :
             \E e \in audit : e.rule = r /\ e.revision = n
       /\ \A e \in audit : e.rule = r =>
             e.revision \in RevisionOf(Seed[r]) + 1 .. RevisionOf(rules[r])
       /\ \A e, f \in audit :
             e.rule = r /\ f.rule = r /\ e.revision = f.revision => e = f

(***************************************************************************)
(* What an operator may conclude from an answer: success means that the    *)
(* change was built on the revision the operator named and is on record;   *)
(* 400, 404 and 409 mean that the request left no trace ("stale            *)
(* replacement -> 409 with no revision/audit change", ADR-0009).           *)
(***************************************************************************)
AnswerMatchesRecord ==
    \A c \in Requests :
       /\ phase[c] = "ok" => \E e \in audit : e.by = c
       /\ phase[c] \in {"invalid", "notfound", "conflict"} =>
             \A e \in audit : e.by # c
       /\ \A e \in audit : e.by = c =>
             /\ e.rule = Target(c)
             /\ e.revision = IF input[c].kind = "create"
                               THEN 1 ELSE input[c].expected + 1

\* The transaction of c against the committed row it works on.
TxnCurrent(c) ==
    LET row == rules[Target(c)] IN
    /\ phase[c] \in {"write", "audit", "commit"} =>
          /\ lock[Target(c)] = c
          /\ before[c] = RevisionOf(row)
          /\ input[c].kind = "replace" =>
                row # NoRow /\ before[c] = input[c].expected
          /\ input[c].kind = "create" => row = NoRow
    /\ phase[c] \in {"audit", "commit"} =>
          /\ draft[c] # NoRow
          /\ draft[c].revision = before[c] + 1
          /\ draft[c].entry = IF row = NoRow THEN None ELSE row.entry

(***************************************************************************)
(* The row lock at work: from its SELECT ... FOR UPDATE to its end a       *)
(* transaction holds the lock of its row, the row is still the one it      *)
(* read, and what it will commit is the next revision of it with the       *)
(* binding to SPIRE that is committed now.  In particular the UPDATE never *)
(* misses, and a commit never undoes a concurrent MarkConverged.           *)
(***************************************************************************)
LockedRowIsCurrent == \A c \in Requests : TxnCurrent(c)

\* How the abstract store sees a mutation body and an answer.
AskOf(i) == [object |-> i.rule,
             expected |-> IF i.kind = "create" THEN 0 ELSE i.expected]

OutcomeOf(a) ==
    CASE a \in {"new"} \cup Working -> "pending"
      [] a \in {"invalid", "notfound"} -> "refused"
      [] a = "conflict" -> "stale"
      [] OTHER -> a

\* The abstract store's variables.
storeRevision == [r \in Rules |-> RevisionOf(rules[r])]
storeLog == {[by |-> e.by, object |-> e.rule, revision |-> e.revision] :
                e \in audit}
storeAsked == [c \in Requests |->
                  IF input[c] = None THEN None ELSE AskOf(input[c])]
storeAnswer == [c \in Requests |-> OutcomeOf(phase[c])]

Store == INSTANCE RevisionedStore WITH
    Objects  <- Rules,
    Asks     <- {AskOf(i) : i \in Inputs},
    Start    <- [r \in Rules |-> RevisionOf(Seed[r])],
    revision <- storeRevision,
    log      <- storeLog,
    asked    <- storeAsked,
    answer   <- storeAnswer

(***************************************************************************)
(* The mutation service is linearizable: seen from outside, a transaction  *)
(* of five statements under a row lock is one atomic change of the named   *)
(* revision, logged as it happens, and a 409 is only given while the rule  *)
(* is at another revision than the operator named.                         *)
(***************************************************************************)
ImplementsRevisionedStore == Store!Spec

\* Every request that reached the server is answered: no chain of row locks
\* keeps one waiting for ever.
EveryRequestAnswered ==
    \A c \in Requests : phase[c] = "begin" ~> phase[c] \in Answers
=============================================================================
