# TLA+ verification of the Workload Trust Platform

The platform keeps desired state (which workload gets which SPIFFE identity,
which policy version is active) in PostgreSQL, lets operators change it through
an HTTP API, and brings a SPIRE server in line with it by a one-shot reconciler.
This directory models those parts in TLA+, checks them with TLC on small
instances, and proves the main results with TLAPS for instances of any size.

    tlc -workers 2 -config MCOverlap.cfg MCReconciler     # one run
    tlapm ReconcilerProofs.tla                            # proofs of a module

`PROJECT.json` lists the runs, which source lines every definition stands for,
the fault each property is shown to catch, and the findings.

## 1. Inventory

| Component | State | Operations | What makes it correct |
|---|---|---|---|
| Registration mutations (`internal/registration/postgres_mutation.go`, `mutation.go`) | a transaction with its row lock, the revision read, the row written | `CreateDesired`, `ReplaceDesired` | no lost update; one audit row per revision; answers agree with what was recorded; locks are always given up |
| Registration store (`internal/registration/postgres.go`) | table `registration_rules` | `List`, `MarkConverged`, `MarkError` | status updates never change desired state; an entry is bound to one rule |
| Reconciler (`internal/reconcile`, `apps/reconciler`) | a snapshot, a position in it, counts | one run over all rules | only owned entries are touched; bindings are audited; repeated runs converge; entries are lost only to failures |
| SPIRE client (`internal/spiremgmt`) and server (external) | registration entries | get, create, update, delete | results mean what the reconciler takes them for |
| Policy manager (`internal/policy`) | `access_policies`, `access_policy_versions`, a transaction | `Create`, `AppendVersion`, `Activate` | unbroken history; the active version is well formed, of this policy, and the last one activated; one audit row per revision |
| Audit repository (`internal/audit`) | table `audit_events` (append-only by trigger) | `Append`, in a caller's transaction or on the pool | evidence and effect agree |
| HTTP API (`internal/httpapi`) | where each request is, its deadline | routing, authentication, permission, decoding, error mapping | no effect without the token and the role; no refusal after an effect; every request ends |
| Operator authentication (`internal/operatorauth`) | token and role table, constant | `Authenticate`, `Authorize` | fixed role table |
| Control-plane process (`apps/control-plane`), configuration, database pool | environment, listener goroutine and its channel, signal, shutdown timer, connections | load, open, serve, shut down | exit code 0 loses nothing; a dead listener is reported; it ends after a signal |
| Schema and migrations (`db/migrations`, `scripts/db-migrate.sh`) | the schema | up, down | exit 0 means done; order is kept; restartable between any two calls |
| Input validation and SPIRE conversions (`registration/mutation.go`, `spiremgmt/client.go`, `reconcile/service.go`) | none | validate, convert, compare | nothing in an accepted body is refused later; equal entries compare equal |
| Workload inventory (`internal/workload`) | none | `ListByOrganization` | read only with permission, within its deadline |
| Lab and CI scripts | none of interest | - | - |

How they interact. An operator request is one HTTP call that becomes one
PostgreSQL transaction. The reconciler shares only PostgreSQL and SPIRE with the
API: `List` takes a snapshot, and every later call (SPIRE, audit INSERT, status
UPDATE) is separate, under one 30 s context. Operators, other runs, other SPIRE
clients, failures and crashes fall between any two of those calls. Row locks and
the revision order operators among themselves; nothing orders them against a
run, except that its status UPDATE waits for the row lock.

What is hard here: check-then-act across SPIRE calls, marks that are stale by the
time they are stored, effects whose reply or audit row is lost, a commit whose
acknowledgement is lost, overlapping runs, and convergence in spite of all that.
The list, line by line, is under `hazards` in `PROJECT.json`.

## 2. Modules

| Module | Models |
|---|---|
| `Registration` | `registration_rules`, operator transactions statement by statement, `MarkConverged`, `MarkError` |
| `Reconciler` | extends `Registration` with SPIRE, the runs, the reconciler's audit trail and the disturbances |
| `Policy` | the policy manager's tables and transactions |
| `RevisionedStore` | abstract: objects with a revision, changed atomically and logged; implemented by `Registration` and `Policy` |
| `ControlPlane` | the control-plane process: configuration, pool, listener, requests, shutdown |
| `Migrations` | `db-migrate.sh` and which migration needs which |
| `EntryCodec` | a desired entry as text: validation, conversion to SPIRE and back, comparison |
| `MC...` | instances for TLC |
| `RegistrationProofs`, `PolicyProofs`, `ControlPlaneProofs`, `MigrationsProofs`, `EntryCodecProofs` | theorems about one component each |
| `ReconcilerProofs` | theorems about the composed system, overlapping runs included |
| `CleanRunProofs`, `OrphanProofs` | theorems about runs that follow one another: what a clean run has achieved, what a failure costs |

`Registration`. `rules`, `audit` are what is committed; `lock`, `phase`, `input`,
`before`, `draft` are a request's transaction. Each SQL statement is one action
(`CreateInsert`, `ReplaceSelect`, `ReplaceUpdate`, `AuditInsert`, `Commit`);
`Abort` is any failure before the commit (statement error, 5 s timeout, death of
the process), with the deferred `Rollback`. `Commit` may answer "error" although it took effect. A rule
stands for its workload (`workload_id` is UNIQUE, nothing deletes rules). Parent
SPIFFE ID and selectors are one value, `match`, with `NoMatch` for anything the
code refuses. `RevisionOf(NoRow) = 0`.

`Reconciler`. `pc[p]` names the next call of run `p`; `tgt` is the entry it is about,
`note` the operation to audit or the error code to store. `FirstCall` is the
switch of `reconcileRule` with the opening guards of `reconcilePresent` and
`reconcileAbsent`; `GetEntry`, `CreateEntry`, `UpdateEntry`, `RebindEntry` (the
update inside `createOrBind`), `DeleteEntry`, `RecordAudit`, `MarkRule` and
`FailRule` are the calls. Every call may work, fail without effect, or take effect
and lose its reply; after `Deadline` every call fails, because all share one
context. `Crash` forgets the run. An entry is a record of SPIFFE ID, match, TTL
and hint; the hint is the owner. `BatchCreateEntry` answers ALREADY_EXISTS for
equal SPIFFE ID, parent and selectors, which is how SPIRE defines it; this and
the behaviour of the other clients are external. `unaudited` is a history
variable: it is read by one property only. Two branches are left out as
unreachable: `!ownedByRule(updated, ...)` after an update whose mask writes the
hint. The `Changed` counter of the summary is logging.

`Policy`. The same style for the envelope and the version history. A version's ID
is the request that inserts it; its content is reduced to whether
`validateRuleInput` accepts it: as it is, once `normalizeRuleInput` has tidied it
("untidy"), or not at all, which only direct SQL could have stored and is the
case `Activate` validates again for.

`RevisionedStore`. What both mutation APIs promise: a request names an object
and the revision it builds on; the change happens at one instant, on that very
revision, together with its log entry; "stale" (409) is answered only while the
object is at another revision. `Succeed` may answer "error": when the
acknowledgement of COMMIT is lost the operator gets 500 for a change that is in
force, which is how ADR-0010's "No failure becomes an implicit activation" has to
be read. `Registration` and `Policy` instantiate it with
their committed revisions, operator audit rows, request bodies and answers
(`AskOf`, `OutcomeOf`); a create expects revision 0.

`ControlPlane`. `proc` is where `run()` is, `listener` the goroutine of
`ListenAndServe`, `serveErr` the channel of capacity 1; `stage` and `status` are
a request's handler. Settings, credentials and bodies are the classes that
`Load`, `Validate`, `NewStaticBearer`, `Authenticate` and the decoders tell apart.
The middlewares are operators that return a status or pass on to the next one
(`requireOperator`, `requirePermission`, `getOnly`); 0 means on to the database. A
mutation is one step here, its inside is in the other modules. `Timeout` is the
context of a request; the deferred `Rollback(context.Background())` has none, and
`RolledBack` is assumed of nobody. `pool.Close` waits for connections in use.
Accepting, reading and closing connections is `net/http`'s part and external.

`Migrations`. A script's `todo` is the list of files it has still to look at; a
`Probe` and an `Apply` are two psql calls with anything in between. `ProbeFails`
reads as "absent", because `set -e` does not apply inside a condition. `blind` and
`alone` are history variables for the provisos of the properties.

`EntryCodec`. A selector string is the sequence of its parts between colons, a
SPIFFE ID a host class and path segments with the escapes that `url.Parse` treats
differently. A selector type is any part without a control character that is not
empty, as in `selectorTypeExpr`. A rule comes from the API (`validated`) or from
direct SQL. A request's body has selectors, parent and TTL; the workload's SPIFFE
ID is joined to it by `List` from the table `workloads` (`StoredAs`), which has no
constraint on its form and which no code of the platform writes or checks. SPIRE
answers with the selectors in any order. A path with an escaped blank
passes `validateSPIFFEID` and is decoded by `parseSPIFFEID`; SPIRE's own rules
for paths (external) refuse it, so such a rule ends as an error of the rule. A
bare blank makes `url.Parse` set `RawPath`, which validator and client refuse.

Definitions whose comment starts with "Fault:" are not part of the model. Each
is a plausible slip in the definition below it and shows that a property is able
to fail.

## 3. Runs

Passing runs:

| Run | Instance | Checks |
|---|---|---|
| `registration` | 1 rule without a row, 1 without a workload, 3 requests out of 8 bodies | `AuditPerRevision`, `AnswerMatchesRecord`, `LockedRowIsCurrent`, `EveryRequestAnswered`, `ImplementsRevisionedStore` |
| `overlap` | 1 rule, 2 runs at once, 1 operator, 3 entry IDs, 1 disturbance | `Ownership`, `BindingAudited`, `ForeignUntouched`, refinement of `RegSpec` |
| `faults` | 2 rules (one created on the way), 2 operators, 1 run at a time, 2 failures | `CleanRunApplied`, `UnauditedBounded`, `InSyncKept` |
| `settle` | 1 rule from before migration 000002, 2 operators, 2 disturbances of any kind | types, `OrphansBounded`, `BindingKept`, `Idempotent`, `EventuallySettled` |
| `takeover` | 2 rules with equal selectors, hints and SPIFFE IDs rewritten from outside | `UniqueBinding` |
| `policy` | 3 policies, 3 requests, a malformed seeded version | types, `HistoryUnbroken`, `PolicyAuditPerRevision`, `ActiveIsLastActivation`, `ActivatableHistory`, `PolicyAnswerMatchesRecord`, `PolImplementsStore`, `EveryPolicyRequestAnswered` |
| `control_plane` | 10 environments, 2 clients with 8 requests, 1 connection in the pool | types, `AccessControlled`, `CleanExitLosesNothing`, `ListenerFailureReported`, `NoTransactionSevered`, `SignalEnds`, `RequestEnds` |
| `migrations` | 2 scripts at once, 2 faults, 2 rollbacks | types, `ExitZeroMeansDone`, `AppliedInOrder`, `EventuallyMigrated` |
| `entries` | 135 bodies, 9 rows from direct SQL (2 for workloads with an unusable SPIFFE ID), 6 kinds of drift, 2 edits, 2 drifts | `AcceptedIsApplicable`, `EquivalenceExact`, `UpdatesCease` |

The types that `settle` checks include those of `Registration` (`RegTypeOK`).

What the newer runs show:

- `control_plane`: an unset role is the viewer's; a token with a blank inside
  starts the process but authenticates nobody, which is safe. If `Shutdown` times
  out the process ends with code 1 and requests may go unanswered after they
  committed; with code 0 never. `pool.Close` keeps even then a transaction from
  being cut off. The shutdown is bounded (docs/15) unless a ROLLBACK is never
  answered: it has no deadline, and both `Shutdown`'s caller and `pool.Close` would
  wait for it. The proviso is part of `SignalEnds` and `RequestEnds`.
- `migrations`: upward runs may compete, die and be repeated at will. The provisos
  of `ExitZeroMeansDone` are needed: a downward run whose probe fails skips a file
  and still exits 0, and runs in opposite directions undo each other.
- `entries`: nothing in a body that the API accepts is refused by `desiredEntry` or
  by the client's conversion. The same cannot be said of the rule: the client
  also parses the workload's SPIFFE ID, and a rule accepted for a workload whose ID
  has a port, say, fails in every run with `spire_create_failed`. Hence the
  condition in `AcceptedIsApplicable`. Comparing sorted strings is comparing what
  SPIRE holds.

Bounds. Three requests are what it takes for a create and two competing
replacements, or for an append, a competing activation and a third party that
sees the result. Two runs suffice for an overlap; the properties of `overlap` are
also proved for any number. `MaxDisturbances` counts failures, lost replies,
deadlines, crashes and calls of other SPIRE clients together; two allow a crash
followed by a failure of the run that repairs it, or an entry that is lost and a
foreign one in its place. Each operator request is used once, so revisions are
bounded by the number of requests. When the entry IDs are used up creates can
only fail; in `settle` four are enough, or the rule could not settle. The requests
of the reconciler instances are well formed: refusals are the subject of
`registration`. One connection and two clients are the smallest pool that is
exhausted. Two scripts are enough for one to invalidate the other's probe, two
faults for a crash followed by a failed probe. `MaxSelectors` is 2 instead of 32,
so that a list that is too long is among the bodies; lists of three come from
direct SQL. Two edits let a rule be replaced after an update. Processes may be
idle for ever, requests may stop and scripts may end, so deadlock is not checked
except in `entries`; the liveness properties say what must happen instead.

Runs in which a statement of the documentation is refuted by the code:

| Run | Statement | What happens |
|---|---|---|
| `stale_mark` | ADR-0008: compared with the complete desired entry before it is marked converged | an operator replaces the rule between `List` and `MarkConverged`, which does not look at the revision |
| `handover` | ADR-0008: a foreign entry is never adopted, updated or deleted | another SPIRE client makes the entry its own between `GetEntry`, which saw the rule's hint, and `DeleteEntry` or `UpdateEntry`; the latter also puts the rule's hint back |
| `unaudited_update` | docs/16: operations leave audit evidence | drift repaired, audit INSERT fails, rule still converged: no run comes back to it |

`stale_mark` heals: `EventuallySettled` and `CleanRunApplied` say that the next
run looks at converged rules too and repairs them. `unaudited_update` does not
heal, but `UnauditedBounded` limits it: each failure, crash or deadline costs the
evidence of one rule at most. `handover` is the window of one call between the check
that ADR-0008 describes and the write; the ADR leaves out administrators who
forge hints on purpose, but wants accidental changes to another controller's entries
prevented. As long as nobody rewrites hints the statement holds: the run `overlap`
checks the same property without takeovers, and `ForeignSafe` proves it from
`NoTakeover`. What a takeover cannot do is bind one entry to two rules (`takeover`).

An entry that a failed run left behind is not looked for when its rule is
withdrawn: desired `absent` deletes "only a currently bound entry" (ADR-0008), so the
entry of a rule whose create was never marked stays at SPIRE after the rule has
converged as `absent_noop`. That is as documented; `OrphansBounded` counts such
entries, one per disturbance at most.

`OrphansBounded`, `BindingKept`, `Idempotent` and `InSyncKept` are claims about
runs that do not overlap, and TLC refutes each of them with two runners: a second
run may work from a binding that the first has replaced since. Nothing in the
code keeps two reconcilers apart, so this is a condition on whoever schedules
them. `InSyncKept` also needs `NoTakeover`, which TLC confirms too: if another
client gives an entry to a second rule and back while a run is between its read
and its update, the run overwrites an entry that is bound and as desired.

Two more statements hold only with a proviso that the models make explicit.
Unavailable SPIRE marks the rule error (ADR-0008)
unless the run's deadline has passed: `failRule`'s `MarkError` uses the same
context, so the row keeps its status until the next run (`FailRule`, `Deadline`).
And a 500 does not mean that nothing happened (`RevisionedStore!Succeed`).

Fairness. `RegFairSpec` assumes that a request's next statement is eventually
executed, which the PostgreSQL server and the request's own goroutine provide;
nothing is assumed about aborts. `FairSpec` adds that a run takes its next step
and that runs are started again and again. The reconciler is one-shot, so the
latter is an assumption on whoever schedules it, and `EventuallySettled` is a
statement about repeated runs. Weak fairness is enough: no step of a run is
disabled again and again, since row locks are held by finitely many requests.
`PolFairSpec` is to `Policy` what `RegFairSpec` is to `Registration`. `CPFairSpec`
assumes that goroutines that can run do and that timers fire (Go's scheduler);
nothing of the database, clients or signals. `MigFairSpec` assumes that a script
goes on and that somebody runs it again, upwards; `CodecSpec` that runs of the
reconciler follow one another.

## 4. Proofs

TLAPS proves each theorem for every value of the constants. TLC checked every
inductive invariant on an instance first.

### Registration (`RegistrationProofs`)

For any rules, requests, inputs and seed:

- `RegTypeCorrect`, `LockingCorrect`: `RegSpec => []RegTypeOK`, `[]LockedRowIsCurrent`;
- `AuditCorrect`: `RegSpec => []AuditPerRevision`;
- `AnswersCorrect`: `RegSpec => []AnswerMatchesRecord`;
- `StoreImplemented`: `RegSpec => ImplementsRevisionedStore`.

The inductive invariant `StoreInv` is the types, `LockedRowIsCurrent` and
`Bookkeeping` (a request keeps its body, has read nothing before its SELECT and
written nothing before its UPDATE, and is on the audit record only once it has
ended). `LockedRowIsCurrent` carries the argument: the lock makes the revision
read by the SELECT the committed one until the commit, so a commit adds exactly
the next revision together with its audit row (`OnlyCommit`, `StepAudit`). The
same facts give the refinement: a commit maps to `Succeed`, an end without
effect to `Reject` (`Rejected`: a 409 is justified by the revision the locked
row has at that moment), every statement in between to a stutter (`Invisible`).

### The composed system (`ReconcilerProofs`)

For any number of rules, entries, overlapping runs and disturbances:

- `TypeCorrect`: `Spec => []TypeOK`;
- `ImplementsStore`: `Spec => RegSpec`, so the theorems above hold of the whole
  system; `AuditStillCorrect` and `StoreStillImplemented` are instances;
- `OwnershipCorrect`, `ForeignSafe`: if no other client rewrites hints
  (`NoTakeover`), `Spec => []Ownership` and `Spec => ForeignUntouched`;
- `BindingsAudited`: `Spec => []BindingAudited`;
- `BindingsUnique`: `Spec => []UniqueBinding`, whatever other clients do to hints.

`RunInv` adds `Shape` to the types: what a run knows at each call (a rule, a
usable snapshot, a target where the call needs one). `Ownership` speaks of the
table, of uncommitted rows, of snapshots and of targets at once because a
binding travels through all of them: a run reads it, SPIRE loses the entry, an
operator copies the row, a second run stores it. It is inductive because entry
IDs are never reused and hints never change. `TrailInv` extends `BindingAudited`
in the same way to uncommitted rows, snapshots and runs that are about to mark.
`BindingsUnique` needs no invariant of its own: a binding is either kept, also
by the draft of a replacement, whose row is locked, or set by a `MarkConverged`
that checked the index (`BindingComes`).

### Runs one after the other (`CleanRunProofs`, `OrphanProofs`)

- `CleanRunCorrect`: if there is one runner and no other client changes SPIRE
  (`Alone`), `Spec => []CleanRunApplied`. Operators change rules all the time and
  earlier runs may have failed, lost replies or crashed.
- `OrphansCounted`: if runs do not overlap (`OneRunner`),
  `Spec => []OrphansBounded`. Other clients may do anything, takeovers included.
- `LiveBindingsKept`, `RunsIdempotent`: if runs do not overlap, `Spec =>
  BindingKept` and `Spec => Idempotent`, again with takeovers.
- `SyncKept`: if runs do not overlap and hints are left alone, `Spec =>
  InSyncKept`. This is the safety half of convergence, of which
  `EventuallySettled` is the liveness half.
- `EvidenceCounted`: `Spec => []UnauditedBounded`, for any number of overlapping
  runs and any other clients.

`CleanInv` follows one run over its snapshot (`Stands`): a rule still ahead is
as it was listed unless an operator has moved its revision on, and one that was
dealt with is applied, has moved on or is among the failed. `CallKnows` says
what the calls in between may rely on, and entries of applied rules are not
touched by work on others, by `OnlyOwnTouched`. The two hypotheses are needed: a
second run or another client may undo what was applied while the first run still
counts it as clean.

`OrphanInv` is a balance. `Lost` is the set that failures have to answer for:
the orphans and the orphan a run is about to rebind, without the entry that a
run has just created and will bind (`InFlight`). Every step either leaves
nothing new in `Lost` or is a disturbance and adds one element (`Accounted`),
which bounds the cardinality without any bound on the entry IDs. Two facts make
the calls balance: a binding that `MarkConverged` replaces is NULL or leads
to a deleted entry (`Fits`, `Dead`), and a created entry is bound to nobody, so the
unique index cannot refuse it. An entry stops being in flight when the deadline
passes, since every later call fails without being counted again. `BindingKept`
follows: only a mark changes a binding, and the one it replaces is `Dead`.

`SyncInv` adds what a run may conclude from its snapshot. A rule it is at or has
still ahead is as it was listed or has moved on, and then it is not converged
(`SameOrMoved`), because operators leave rows pending (`DraftsPending`) and a row
is marked converged only by the run that leaves it behind; and each call belongs
to the branch that the listed row asks for (`MayAsk`). So a rule that is in sync is the listed
one, and its entry is alive: there is nothing to create, rebind or delete, an
update writes what is there (`OutOfSync`), and a mark stores the binding that the
row has (`MarkInSync`). What a run does for other rules leaves its entry
alone, by `OnlyOwnTouched`, and that is where `NoTakeover` comes in.

`EvidenceInv` is a balance like `OrphanInv`, for audit rows: `Missing` are the
rules with an unaudited mutation for which no run `Owes` a row. A run owes it from
the mutation to the INSERT, and every way to stop owing it without the row (a
lost reply, a failed INSERT, the deadline, a crash) is a disturbance of one run
at one rule, so runs may overlap.

### Policy (`PolicyProofs`)

For any number of policies, versions and requests: `PolTypeCorrect`,
`PolicyAuditCorrect`, `HistoryCorrect`, `ActivatableCorrect`,
`PolicyAnswersCorrect`, `ActiveVersionCorrect` prove the six invariants of the
run `policy`, and `PolicyStoreImplemented` the refinement of `RevisionedStore`.

`PolInv` is the types, `Bookkeeping` (as for registrations), `Tables` (a version
belongs to a policy, a history has a last number, revisions only grow and no
policy disappears) and `TxnCurrent` of every request: while a transaction holds
its row lock, the revision it read is the committed one (`LockHeld`), the row it
has written differs from the committed one as its statement says (`RowWritten`),
and the number it computed is still the next one (`NumberIsNext`). On it the
other invariants are proved one at a time: a commit adds a version, an audit row
and a revision at once, so a history is continued and a revision is on record
exactly when the lock is given up; and an activation gets the highest revision
on the record, while an append leaves `active_version_id` alone.

### Control plane (`ControlPlaneProofs`)

For any number of clients, connections and environments: `CPTypeCorrect`,
`AccessCorrect`, `CleanExitCorrect`, `ListenerFailureCorrect`,
`TransactionsFinish` prove the five invariants of the run `control_plane`.

`CPInv` adds four parts. `Startup`: the process gets past loading only with an
accepted environment, and no request is there before the listener. `Channel`:
what is in `serveErr`, and what `run()` made of it, is what the listener did, so
a failure that the select did not choose is still in the channel after
`Shutdown`. `Handlers`: requests are cut off only by the end of the process, and
none is left when `Shutdown` has returned nil. `Gate`: the database is used only
by requests that the middlewares let through. The muxes are unfolded once for
all routes (`MuxCases`, `MuxFacts`); after that each action disturbs one part.

### Migrations (`MigrationsProofs`)

For any number of scripts, faults and rollbacks: `MigTypeCorrect`,
`ExitZeroCorrect` (`MigSpec => ExitZeroMeansDone`), `OrderCorrect` (`MigSpec =>
AppliedInOrder`).

`MigInv` says that a script's `todo` is one of the remaining parts of its list,
and `Progress` that the files it has passed are done for as long as nobody went
the other way and, downwards, none of its probes failed. `Overlaps` ties the
history variable `alone` to the scripts under way, which is what lets one
script's progress survive the steps of the others.

### Entries (`EntryCodecProofs`)

- `AcceptedApplicable`: `CodecSpec => []AcceptedIsApplicable`: whatever selectors,
  TTL and parent the API stores, `desiredEntry` accepts them and the conversion
  takes them apart, if it also takes the workload's SPIFFE ID;
- `EquivalenceIsExact`: `CodecSpec => []EquivalenceExact`, for lists of any
  length: comparing sorted selector strings is comparing multisets of selectors;
- `WrittenIsEquivalent`: a desired entry that SPIRE has accepted compares equal
  to what it answers, whatever order the selectors come back in;
- `RoundTrip`: a desired entry that converts and has no escaped path segment in
  either SPIFFE ID comes back from `fromProtoEntry(toProtoEntry(d))` as it was. The proviso is
  needed: `parseSPIFFEID` decodes an escaped blank and `formatSPIFFEID` does not
  escape it again.

`Sorted` is any rearrangement of a list that is in order. Strings are compared
part by part (`Less`, a strict total order), and two facts about lists carry the
theorems, neither with an induction. A sorted rearrangement exists: send each
position to the number of those that precede it, counting positions among equal
elements; no two positions get the same number, so this is a bijection. And it
is unique: if two differed at some place, the one with the smaller string there
would have more strings below the larger than the other has places for.

### Assumptions

They are the `ASSUME`s of the modules, and each is evaluated by TLC. Those that
restrict the system: seeded rules are not bound to an entry (the column is added
empty by migration 000002); seeded policy versions are unique per policy and
number (a UNIQUE constraint), bodies, seeded desired entries and drifted entries
are made of the given parts and path segments (`SpellingAssumption`), every seeded history has a last number, and
revisions start at 1 (migration 000003). `Reconciler` also takes it that the client
can convert every workload's SPIFFE ID, which nothing enforces (`EntryCodec`).
The bounds `MaxDisturbances`,
`MaxFaults` and `MaxDowns` may be any natural numbers. `NoTakeover`, `Alone` and
`OneRunner` are hypotheses of the theorems that name them.

### Only model-checked

- The liveness properties `EveryRequestAnswered`, `EveryPolicyRequestAnswered`,
  `EventuallySettled`, `SignalEnds`, `RequestEnds`, `EventuallyMigrated`, `UpdatesCease`:
  fairness and ENABLED are out of the prover's reach.
- The three refuted statements of section 3 (`ForeignUntouched`, refuted with takeovers,
  is proved without them).

## 5. Not modelled

- Lab and CI scripts: they drive external programs (SPIRE, Docker, curl).
- `LoadReconciler`: two string checks without state.
- Length limits and the UUID and name patterns of the validators: their verdict is
  an input class; a model of the patterns would repeat them.
- What rolling back a migration does to rows. In particular the third one,
  rolled back and applied again, restarts policies at revision 1, and an old
  `expected_revision` matches again.
- Response headers, request IDs, JSON and logging. `updated_at` and
  `last_reconciled_at` are read by nobody.

## 6. Plan

Every safety invariant, action property and refinement of the passing runs is
stated by a theorem. What is left to do:

- what a rollback of migration 000003 does to stored policies (section 5), as part of
  `Migrations` or of `Policy`;
- a refinement of the reconciler to an abstract one that applies a rule in one
  step, for runs that do not overlap.
