---------------------------- MODULE PolicyProofs ----------------------------
(***************************************************************************)
(* Proofs about the policy manager, for any number of policies, requests   *)
(* and bodies and any tables that direct SQL may have left.  The inductive *)
(* invariant says what a transaction that holds a policy's row lock may    *)
(* rely on: the row is the one it read, nobody extends the history it read *)
(* the last number of, and what it has written so far is what it will      *)
(* commit.                                                                 *)
(***************************************************************************)
EXTENDS Policy, TLAPS

Holding == {"max", "load", "version", "update", "audit", "commit"}

\* A request keeps its body and has read or written nothing before its turn;
\* only requests that ended have left something in the tables.
Bookkeeping ==
    /\ \A c \in Requests : phase[c] = "new" => input[c] = None
    /\ \A c \in Requests : phase[c] # "new" => input[c] \in Input
    /\ \A c \in Requests : phase[c] \in Working => ValidInput(input[c])
    /\ \A c \in Requests : phase[c] \in {"new", "begin"} => seen[c] = 0
    /\ \A c \in Requests : phase[c] \notin Holding =>
          row[c] = NoRow /\ version[c] = NoRow
    /\ \A a \in audit : phase[a.by] \in {"ok", "error"}
    /\ \A v \in versions : v.id \in Requests => phase[v.id] \in {"ok", "error"}

\* The tables: a history belongs to a policy and has a last number, revisions
\* only grow and no policy disappears.
Tables ==
    /\ \A v \in versions : policies[v.policy] # NoRow
    /\ \A p \in Policies : \E n \in Numbers(p) \cup {0} :
          \A k \in Numbers(p) : k <= n
    /\ \A p \in Policies : RevisionOf(SeedPolicies[p]) <= RevisionOf(policies[p])
    /\ \A p \in Policies : policies[p] = NoRow => SeedPolicies[p] = NoRow

\* The phases each kind of mutation goes through.
KindOfPhase(c) ==
    /\ phase[c] = "max" => input[c].kind = "append"
    /\ phase[c] = "load" => input[c].kind = "activate"
    /\ phase[c] = "version" => input[c].kind # "activate"
    /\ phase[c] = "update" => input[c].kind # "create"

\* The row lock: the revision read is still the revision of the row.
LockHeld(c) ==
    /\ lock[Target(c)] = c
    /\ seen[c] = RevisionOf(policies[Target(c)])
    /\ input[c].kind = "create" => policies[Target(c)] = NoRow
    /\ input[c].kind # "create" =>
          policies[Target(c)] # NoRow /\ seen[c] = input[c].expected

\* The envelope as the statement that wrote it left it.
RowWritten(c) ==
    /\ input[c].kind = "create" /\ phase[c] \in {"version", "audit", "commit"}
       => row[c] = [status |-> "draft", revision |-> 1, active |-> None]
    /\ input[c].kind = "append" /\ phase[c] \in {"audit", "commit"}
       => row[c] = Extended(policies[Target(c)])
    /\ input[c].kind = "activate" /\ phase[c] \in {"audit", "commit"}
       => row[c] = Activated(policies[Target(c)], input[c].version)

\* The number computed is still the next one of the policy's history.
NumberIsNext(c) ==
    input[c].kind # "activate"
    /\ phase[c] \in {"version", "update", "audit", "commit"}
    => /\ \A k \in Numbers(Target(c)) : k < number[c]
       /\ number[c] > 1 => number[c] - 1 \in Numbers(Target(c))

\* The version row: a new one, well-formed and under that number, or for an
\* activation none, the candidate being stored already.
VersionWritten(c) ==
    /\ phase[c] \in {"max", "load", "version"} => version[c] = NoRow
    /\ input[c].kind # "activate" /\ phase[c] \in {"update", "audit", "commit"}
       => version[c] = [id |-> c, policy |-> Target(c), number |-> number[c],
                        content |-> "wellformed"]
    /\ input[c].kind = "activate" /\ phase[c] \in {"update", "audit", "commit"}
       => /\ version[c] = NoRow
          /\ \E v \in VersionsOf(Target(c)) :
                /\ v.id = input[c].version /\ v.content = "wellformed"
                /\ v.number = number[c]

TxnCurrent(c) ==
    phase[c] \in Holding =>
       /\ KindOfPhase(c) /\ LockHeld(c) /\ RowWritten(c)
       /\ NumberIsNext(c) /\ VersionWritten(c)

PolInv == PolTypeOK /\ Bookkeeping /\ Tables /\ \A c \in Requests : TxnCurrent(c)

\* A row is a row, with a positive revision.
LEMMA RowFacts ==
    ASSUME NEW r \in PolicyRow
    PROVE  /\ r # NoRow
           /\ r.revision \in Nat \ {0}
           /\ RevisionOf(r) = r.revision
BY PolicyAssumption DEF PolicyRow, RevisionOf

\* The revision of a row, or of no row, is a natural number.
LEMMA RevisionIsNat ==
    ASSUME NEW r \in PolicyRow \cup {NoRow}
    PROVE  RevisionOf(r) \in Nat
BY RowFacts DEF RevisionOf

\* A request that was sent has a body and names a policy.
LEMMA BodyFacts ==
    ASSUME PolInv, NEW c \in Requests, phase[c] # "new"
    PROVE  /\ input[c] \in Input /\ Target(c) \in Policies
           /\ input[c].kind \in {"create", "append", "activate"}
           /\ input[c].expected \in Nat
           /\ input[c].version \in VersionIds
BY DEF PolInv, Bookkeeping, Input, Target

\* The numbers of a history are natural.
LEMMA NumbersAreNat ==
    ASSUME PolTypeOK, NEW p
    PROVE  /\ VersionsOf(p) \subseteq Version
           /\ Numbers(p) \subseteq Nat
BY DEF PolTypeOK, Version, VersionsOf, Numbers

\* COALESCE(MAX(version), 0) is the last number of the history.
LEMMA LastNumberFacts ==
    ASSUME PolTypeOK, Tables, NEW p \in Policies
    PROVE  /\ LastNumber(p) \in Numbers(p) \cup {0}
           /\ \A k \in Numbers(p) : k <= LastNumber(p)
<1>1. \E n \in Numbers(p) \cup {0} : \A k \in Numbers(p) : k <= n
  BY DEF Tables
<1> QED
  BY <1>1, Zenon DEF LastNumber

\* What the tables start from.
LEMMA InitPol == PolInit => PolInv
<1> SUFFICES ASSUME PolInit PROVE PolInv
  OBVIOUS
<1>1. PolTypeOK
  BY PolicyAssumption DEF PolInit, PolTypeOK
<1>2. Bookkeeping
  BY PolicyAssumption DEF PolInit, Bookkeeping, Working, Holding
<1>3. Tables
  <2>1. \A v \in versions : policies[v.policy] # NoRow
    BY PolicyAssumption DEF PolInit
  <2>2. ASSUME NEW p \in Policies
        PROVE  \E n \in Numbers(p) \cup {0} : \A k \in Numbers(p) : k <= n
    <3>1. Numbers(p) = {v.number : v \in {w \in SeedVersions : w.policy = p}}
      BY DEF PolInit, Numbers, VersionsOf
    <3> QED
      BY <3>1, PolicyAssumption
  <2>3. \A p \in Policies :
           RevisionOf(SeedPolicies[p]) <= RevisionOf(policies[p])
    <3> TAKE p \in Policies
    <3>1. RevisionOf(SeedPolicies[p]) \in Nat
      BY RevisionIsNat, PolicyAssumption
    <3>2. policies[p] = SeedPolicies[p]
      BY DEF PolInit
    <3> QED
      BY <3>1, <3>2
  <2> QED
    BY <2>1, <2>2, <2>3 DEF Tables, PolInit
<1>4. \A c \in Requests : TxnCurrent(c)
  BY DEF PolInit, TxnCurrent, Holding
<1> QED
  BY <1>1, <1>2, <1>3, <1>4 DEF PolInv

\* A transaction that holds the lock has it, by name.
LEMMA HoldingFacts ==
    ASSUME PolInv, NEW c \in Requests, phase[c] \in Holding
    PROVE  /\ KindOfPhase(c) /\ LockHeld(c) /\ RowWritten(c)
           /\ NumberIsNext(c) /\ VersionWritten(c)
           /\ Target(c) \in Policies /\ lock[Target(c)] = c
           /\ policies[Target(c)] \in PolicyRow \cup {NoRow}
<1>1. phase[c] # "new"
  BY DEF Holding
<1>2. TxnCurrent(c) /\ Target(c) \in Policies
  BY <1>1, BodyFacts DEF PolInv
<1> QED
  BY <1>2 DEF TxnCurrent, LockHeld, PolInv, PolTypeOK

\* What a commit does to the tables.
LEMMA CommitFacts ==
    ASSUME PolInv, NEW c \in Requests, Commit(c)
    PROVE  /\ row[c] \in PolicyRow
           /\ RevisionOf(row[c]) = seen[c] + 1
           /\ seen[c] = RevisionOf(policies[Target(c)])
           /\ input[c].kind = "activate" => version[c] = NoRow
           /\ input[c].kind # "activate" =>
                 version[c] = [id |-> c, policy |-> Target(c),
                               number |-> number[c], content |-> "wellformed"]
           /\ version[c] \in Version \cup {NoRow}
           /\ \A v \in versions' \ versions :
                 v = version[c] /\ v \in Version /\ v.policy = Target(c)
           /\ versions \subseteq versions'
           /\ input[c].kind # "activate" => version[c] \in versions'
<1>1. phase[c] = "commit" /\ phase[c] \in Holding /\ phase[c] # "new"
  BY DEF Commit, Holding
<1>2. /\ KindOfPhase(c) /\ LockHeld(c) /\ RowWritten(c)
      /\ NumberIsNext(c) /\ VersionWritten(c) /\ Target(c) \in Policies
      /\ policies[Target(c)] \in PolicyRow \cup {NoRow}
  BY <1>1, HoldingFacts
<1>3. /\ input[c].kind \in {"create", "append", "activate"}
      /\ input[c].version \in VersionIds
  BY <1>1, BodyFacts
<1>4. row[c] \in PolicyRow /\ RevisionOf(row[c]) = seen[c] + 1
  <2>1. CASE input[c].kind = "create"
    <3>1. row[c] = [status |-> "draft", revision |-> 1, active |-> None]
      BY <1>1, <1>2, <2>1 DEF RowWritten
    <3>2. row[c] \in PolicyRow /\ row[c].revision = 1
      BY <3>1 DEF PolicyRow
    <3>3. seen[c] = 0
      BY <1>2, <2>1 DEF LockHeld, RevisionOf
    <3> QED
      BY <3>2, <3>3, RowFacts
  <2>2. CASE input[c].kind # "create"
    <3> DEFINE old == policies[Target(c)]
    <3>1. old \in PolicyRow /\ seen[c] = old.revision
      BY <1>2, <2>2, RowFacts DEF LockHeld
    <3>2. \/ row[c] = Extended(old)
          \/ row[c] = Activated(old, input[c].version)
      BY <1>1, <1>2, <1>3, <2>2 DEF RowWritten
    <3> HIDE DEF old
    <3>3. row[c] \in PolicyRow /\ row[c].revision = old.revision + 1
      BY <1>3, <3>1, <3>2 DEF PolicyRow, Extended, Activated
    <3> QED
      BY <3>1, <3>3, RowFacts
  <2> QED
    BY <2>1, <2>2
<1>5. /\ input[c].kind = "activate" => version[c] = NoRow
      /\ input[c].kind # "activate" =>
            version[c] = [id |-> c, policy |-> Target(c),
                          number |-> number[c], content |-> "wellformed"]
  BY <1>1, <1>2 DEF VersionWritten
<1>6. version[c] \in Version \cup {NoRow}
  BY DEF PolInv, PolTypeOK
<1>7. versions' = versions \cup {v \in {version[c]} : v # NoRow}
  BY DEF Commit
<1>8. seen[c] = RevisionOf(policies[Target(c)])
  BY <1>2 DEF LockHeld
<1>9. input[c].kind # "activate" =>
         version[c].policy = Target(c) /\ version[c] # NoRow
  <2>1. ASSUME input[c].kind # "activate" PROVE version[c] \in Version
    BY <1>2, <1>5, <2>1 DEF Version, VersionIds, Contents, PolInv, PolTypeOK
  <2> QED
    BY <1>5, <2>1, PolicyAssumption
<1>10. \A v \in versions' \ versions :
          v = version[c] /\ v \in Version /\ v.policy = Target(c)
  BY <1>5, <1>6, <1>7, <1>9
<1> QED
  BY <1>4, <1>5, <1>6, <1>7, <1>8, <1>9, <1>10

\* One request's step leaves every other transaction alone, with the locks it
\* holds and the row and the history it has read.
LEMMA OtherTransactions ==
    ASSUME PolInv, NEW c \in Requests, NEW d \in Requests \ {c},
           Submit(c) \/ PolicyStep(c) \/ Abort(c)
    PROVE  /\ phase'[d] = phase[d] /\ input'[d] = input[d]
           /\ seen'[d] = seen[d] /\ number'[d] = number[d]
           /\ row'[d] = row[d] /\ version'[d] = version[d]
           /\ phase[d] \in Holding =>
                 /\ lock'[Target(d)] = lock[Target(d)]
                 /\ policies'[Target(d)] = policies[Target(d)]
                 /\ VersionsOf(Target(d))' = VersionsOf(Target(d))
<1>0. None # d
  BY PolicyAssumption DEF VersionIds
<1>1. phase[d] \in Holding => Target(d) \in Policies /\ lock[Target(d)] = d
  BY HoldingFacts
<1>t. PolTypeOK
  BY DEF PolInv
<1>2. CASE Submit(c)
  BY <1>2, <1>t DEF Submit, PolTypeOK, VersionsOf, Target
<1>3. CASE CreatePolicy(c)
  BY <1>0, <1>1, <1>3, <1>t
  DEF CreatePolicy, PolTypeOK, Rollback, Goto, Free, Acquire, VersionsOf, Target
<1>4. CASE SelectForUpdate(c)
  BY <1>0, <1>1, <1>4, <1>t
  DEF SelectForUpdate, PolTypeOK, Rollback, Goto, Free, Acquire, VersionsOf,
      Target
<1>5. CASE NextVersion(c)
  BY <1>5, <1>t DEF NextVersion, PolTypeOK, Goto, VersionsOf, Target
<1>6. CASE InsertVersion(c)
  BY <1>0, <1>1, <1>6, <1>t
  DEF InsertVersion, PolTypeOK, Proceed, Goto, VersionsOf, Target
<1>7. CASE LoadVersion(c)
  BY <1>0, <1>1, <1>7, <1>t
  DEF LoadVersion, PolTypeOK, Rollback, Goto, VersionsOf, Target
<1>8. CASE UpdatePolicy(c)
  BY <1>0, <1>1, <1>8, <1>t
  DEF UpdatePolicy, PolTypeOK, Proceed, Goto, VersionsOf, Target
<1>9. CASE AuditInsert(c)
  BY <1>9, <1>t DEF AuditInsert, PolTypeOK, Goto, VersionsOf, Target
<1>10. CASE Commit(c)
  <2>1. lock[Target(c)] = c /\ Target(c) \in Policies
    BY <1>10, HoldingFacts DEF Commit, Holding
  <2>2. /\ phase'[d] = phase[d] /\ input'[d] = input[d]
        /\ seen'[d] = seen[d] /\ number'[d] = number[d]
        /\ row'[d] = row[d] /\ version'[d] = version[d]
        /\ phase[d] \in Holding =>
              /\ lock'[Target(d)] = lock[Target(d)]
              /\ policies'[Target(d)] = policies[Target(d)]
    BY <1>0, <1>1, <1>10, <1>t, <2>1 DEF Commit, PolTypeOK, Rollback, Goto
  <2>3. ASSUME phase[d] \in Holding
        PROVE  VersionsOf(Target(d))' = VersionsOf(Target(d))
    <3>1. Target(d) # Target(c)
      BY <1>1, <2>1, <2>3
    <3>2. Target(d)' = Target(d)
      BY <2>2 DEF Target
    <3>3. /\ \A v \in versions' \ versions : v.policy = Target(c)
          /\ versions \subseteq versions'
      BY <1>10, CommitFacts
    <3> QED
      BY <3>1, <3>2, <3>3 DEF VersionsOf
  <2> QED
    BY <2>2, <2>3
<1>11. CASE Abort(c)
  BY <1>0, <1>1, <1>11, <1>t DEF Abort, PolTypeOK, Rollback, Goto, VersionsOf,
                                 Target
<1> QED
  BY <1>2, <1>3, <1>4, <1>5, <1>6, <1>7, <1>8, <1>9, <1>10, <1>11
  DEF PolicyStep

\* What a transaction relies on stands while another request takes a step.
LEMMA OthersStayCurrent ==
    ASSUME PolInv, NEW c \in Requests, NEW d \in Requests \ {c},
           Submit(c) \/ PolicyStep(c) \/ Abort(c)
    PROVE  TxnCurrent(d)'
<1> SUFFICES ASSUME phase'[d] \in Holding PROVE TxnCurrent(d)'
  BY DEF TxnCurrent
<1>1. /\ phase'[d] = phase[d] /\ input'[d] = input[d]
      /\ seen'[d] = seen[d] /\ number'[d] = number[d]
      /\ row'[d] = row[d] /\ version'[d] = version[d]
      /\ Target(d)' = Target(d)
  BY OtherTransactions DEF Target
<1>2. /\ lock'[Target(d)] = lock[Target(d)]
      /\ policies'[Target(d)] = policies[Target(d)]
      /\ VersionsOf(Target(d))' = VersionsOf(Target(d))
  BY <1>1, OtherTransactions
<1>3. /\ KindOfPhase(d) /\ LockHeld(d) /\ RowWritten(d)
      /\ NumberIsNext(d) /\ VersionWritten(d)
  BY <1>1, HoldingFacts
<1>4. KindOfPhase(d)'
  BY <1>1, <1>3 DEF KindOfPhase
<1>5. LockHeld(d)'
  BY <1>1, <1>2, <1>3 DEF LockHeld, RevisionOf
<1>6. RowWritten(d)'
  BY <1>1, <1>2, <1>3 DEF RowWritten, Extended, Activated
<1>7. NumberIsNext(d)'
  <2>1. Numbers(Target(d))' = Numbers(Target(d))
    BY <1>2 DEF Numbers
  <2> QED
    BY <1>1, <1>3, <2>1 DEF NumberIsNext
<1>8. VersionWritten(d)'
  BY <1>1, <1>2, <1>3 DEF VersionWritten
<1> QED
  BY <1>4, <1>5, <1>6, <1>7, <1>8 DEF TxnCurrent

\* A step that leaves both tables alone keeps what is said of them.
LEMMA TablesStand ==
    ASSUME PolInv, UNCHANGED <<policies, versions>>
    PROVE  Tables'
BY DEF PolInv, Tables, Numbers, VersionsOf, RevisionOf

\* Ending a transaction without effect keeps the books, whatever the answer.
LEMMA RollbackKeeps ==
    ASSUME PolInv, NEW c \in Requests, phase[c] \in Working,
           NEW a \in Answers, Rollback(c, a),
           UNCHANGED <<policies, versions, audit, input, seen, number>>
    PROVE  PolTypeOK' /\ Bookkeeping' /\ TxnCurrent(c)'
<1>0. PolTypeOK /\ Bookkeeping
  BY DEF PolInv
<1>1. /\ \A e \in audit : e.by \in Requests
      /\ \A v \in versions : v \in Version
  BY <1>0 DEF PolTypeOK, Event
<1>2. PolTypeOK'
  BY <1>0 DEF PolTypeOK, Rollback, Goto
<1>3. phase'[c] = a /\ \A d \in Requests \ {c} : phase'[d] = phase[d]
  BY <1>0 DEF PolTypeOK, Rollback, Goto
<1>4. Bookkeeping'
  <2>1. ASSUME NEW d \in Requests
        PROVE  /\ phase'[d] = "new" => input'[d] = None
               /\ phase'[d] # "new" => input'[d] \in Input
               /\ phase'[d] \in Working => ValidInput(input'[d])
               /\ phase'[d] \in {"new", "begin"} => seen'[d] = 0
    BY <1>0, <1>3 DEF Bookkeeping, Working, Answers
  <2>2. ASSUME NEW d \in Requests
        PROVE  phase'[d] \notin Holding => row'[d] = NoRow /\ version'[d] = NoRow
    BY <1>0, <1>3 DEF Bookkeeping, PolTypeOK, Rollback, Holding, Answers
  <2>3. /\ \A e \in audit' : phase'[e.by] \in {"ok", "error"}
        /\ \A v \in versions' : v.id \in Requests =>
              phase'[v.id] \in {"ok", "error"}
    BY <1>0, <1>1, <1>3 DEF Bookkeeping, Working
  <2> QED
    BY <2>1, <2>2, <2>3 DEF Bookkeeping, ValidInput
<1>5. TxnCurrent(c)'
  BY <1>3 DEF TxnCurrent, Holding, Answers
<1> QED
  BY <1>2, <1>4, <1>5

\* The same for a step that only moves a request on within its transaction.
LEMMA AdvanceKeeps ==
    ASSUME PolInv, NEW c \in Requests, phase[c] \in Working,
           NEW l \in Holding, Goto(c, l), PolTypeOK',
           UNCHANGED <<policies, versions, audit, input>>,
           \A d \in Requests \ {c} : /\ seen'[d] = seen[d]
                                     /\ row'[d] = row[d]
                                     /\ version'[d] = version[d]
    PROVE  Bookkeeping'
<1>0. PolTypeOK /\ Bookkeeping
  BY DEF PolInv
<1>1. /\ \A e \in audit : e.by \in Requests
      /\ \A v \in versions : v \in Version
  BY <1>0 DEF PolTypeOK, Event
<1>3. phase'[c] = l /\ \A d \in Requests \ {c} : phase'[d] = phase[d]
  BY <1>0 DEF PolTypeOK, Goto
<1>4. l \in Working /\ l # "begin" /\ l # "new"
  BY DEF Holding, Working
<1>5. ASSUME NEW d \in Requests
      PROVE  /\ phase'[d] = "new" => input'[d] = None
             /\ phase'[d] # "new" => input'[d] \in Input
             /\ phase'[d] \in Working => ValidInput(input'[d])
  BY <1>0, <1>3, <1>4 DEF Bookkeeping, Working
<1>6. ASSUME NEW d \in Requests
      PROVE  /\ phase'[d] \in {"new", "begin"} => seen'[d] = 0
             /\ phase'[d] \notin Holding => row'[d] = NoRow /\ version'[d] = NoRow
  BY <1>0, <1>3, <1>4 DEF Bookkeeping
<1>7. /\ \A e \in audit' : phase'[e.by] \in {"ok", "error"}
      /\ \A v \in versions' : v.id \in Requests =>
            phase'[v.id] \in {"ok", "error"}
  BY <1>0, <1>1, <1>3 DEF Bookkeeping, Working
<1> QED
  BY <1>5, <1>6, <1>7 DEF Bookkeeping, ValidInput

\* INSERT of the envelope.
LEMMA StepCreatePolicy ==
    ASSUME PolInv, NEW c \in Requests, CreatePolicy(c)
    PROVE  PolTypeOK' /\ Bookkeeping' /\ Tables' /\ TxnCurrent(c)'
<1> DEFINE p == Target(c)
<1>0. PolTypeOK /\ phase[c] = "begin" /\ phase[c] \in Working
  BY DEF PolInv, CreatePolicy, Working
<1>1. /\ p \in Policies /\ seen[c] = 0 /\ input[c].kind = "create"
      /\ row[c] = NoRow /\ version[c] = NoRow
  BY <1>0, BodyFacts DEF PolInv, Bookkeeping, Holding, CreatePolicy
<1>2. Tables'
  BY TablesStand DEF CreatePolicy
<1>3. CASE Rollback(c, "notfound") \/ Rollback(c, "conflict")
  <2>1. UNCHANGED <<policies, versions, audit, input, seen>>
    BY DEF CreatePolicy
  <2>2. UNCHANGED number
    BY <1>0, <1>3 DEF CreatePolicy, Rollback, Goto, PolTypeOK
  <2> QED
    BY <1>0, <1>2, <1>3, <2>1, <2>2, RollbackKeeps DEF Answers
<1>4. CASE ~(Rollback(c, "notfound") \/ Rollback(c, "conflict"))
  <2> DEFINE new == [status |-> "draft", revision |-> 1, active |-> None]
  <2>1. /\ Free(p) /\ policies[p] = NoRow /\ Acquire(p, c)
        /\ row' = [row EXCEPT ![c] = new]
        /\ number' = [number EXCEPT ![c] = 1] /\ Goto(c, "version")
        /\ UNCHANGED <<policies, versions, audit, input, seen, version>>
    BY <1>4 DEF CreatePolicy
  <2>2. new \in PolicyRow
    BY DEF PolicyRow
  <2>3. PolTypeOK'
    BY <1>0, <1>1, <2>1, <2>2 DEF PolTypeOK, Goto, Acquire, Working
  <2>4. Bookkeeping'
    BY <1>0, <2>1, <2>3, AdvanceKeeps DEF Holding, PolTypeOK
  <2>5. /\ phase'[c] = "version" /\ Target(c)' = p /\ input'[c] = input[c]
        /\ row'[c] = new /\ version'[c] = NoRow /\ number'[c] = 1
        /\ lock'[p] = c /\ policies'[p] = NoRow /\ seen'[c] = 0
    BY <1>0, <1>1, <2>1 DEF PolTypeOK, Goto, Acquire, Target
  <2>6. Numbers(Target(c))' = {}
    <3>1. VersionsOf(p)' = {}
      BY <2>1, <2>5 DEF PolInv, Tables, VersionsOf
    <3> QED
      BY <3>1, <2>5 DEF Numbers
  <2>7. KindOfPhase(c)' /\ LockHeld(c)' /\ RowWritten(c)' /\ VersionWritten(c)'
    BY <1>1, <2>5
    DEF KindOfPhase, LockHeld, RowWritten, VersionWritten, RevisionOf
  <2>8. NumberIsNext(c)'
    BY <2>5, <2>6 DEF NumberIsNext
  <2> QED
    BY <1>2, <2>3, <2>4, <2>7, <2>8 DEF TxnCurrent
<1> QED
  BY <1>3, <1>4

\* SELECT ... FOR UPDATE.
LEMMA StepSelectForUpdate ==
    ASSUME PolInv, NEW c \in Requests, SelectForUpdate(c)
    PROVE  PolTypeOK' /\ Bookkeeping' /\ Tables' /\ TxnCurrent(c)'
<1> DEFINE p == Target(c)
<1>0. PolTypeOK /\ phase[c] = "begin" /\ phase[c] \in Working
  BY DEF PolInv, SelectForUpdate, Working
<1>1. /\ p \in Policies /\ input[c].kind \in {"append", "activate"}
      /\ row[c] = NoRow /\ version[c] = NoRow
  BY <1>0, BodyFacts DEF PolInv, Bookkeeping, Holding, SelectForUpdate
<1>2. Tables'
  BY TablesStand DEF SelectForUpdate
<1>3. CASE Rollback(c, "notfound") \/ Rollback(c, "conflict")
  <2>1. UNCHANGED <<policies, versions, audit, input, number>>
    BY DEF SelectForUpdate
  <2>2. UNCHANGED seen
    BY <1>0, <1>3 DEF SelectForUpdate, Rollback, Goto, PolTypeOK
  <2> QED
    BY <1>0, <1>2, <1>3, <2>1, <2>2, RollbackKeeps DEF Answers
<1>4. CASE ~(Rollback(c, "notfound") \/ Rollback(c, "conflict"))
  <2> DEFINE l == IF input[c].kind = "append" THEN "max" ELSE "load"
  <2>1. /\ policies[p] # NoRow /\ policies[p].revision = input[c].expected
        /\ Acquire(p, c) /\ seen' = [seen EXCEPT ![c] = policies[p].revision]
        /\ Goto(c, l)
        /\ UNCHANGED <<policies, versions, audit, input, number, row, version>>
    BY <1>4 DEF SelectForUpdate
  <2>2. policies[p] \in PolicyRow
    BY <1>0, <1>1, <2>1 DEF PolTypeOK
  <2>3. RevisionOf(policies[p]) = policies[p].revision
        /\ policies[p].revision \in Nat
    BY <2>2, RowFacts
  <2>4. PolTypeOK'
    BY <1>0, <1>1, <2>1, <2>3 DEF PolTypeOK, Goto, Acquire, Working
  <2>5. Bookkeeping'
    BY <1>0, <2>1, <2>4, AdvanceKeeps DEF Holding, PolTypeOK
  <2>6. /\ phase'[c] = l /\ Target(c)' = p /\ input'[c] = input[c]
        /\ row'[c] = NoRow /\ version'[c] = NoRow
        /\ lock'[p] = c /\ policies' = policies
        /\ seen'[c] = RevisionOf(policies[p])
        /\ seen'[c] = input[c].expected
    BY <1>0, <1>1, <2>1, <2>3 DEF PolTypeOK, Goto, Acquire, Target
  <2>7. LockHeld(c)'
    BY <1>1, <2>1, <2>6 DEF LockHeld, RevisionOf
  <2>8. KindOfPhase(c)' /\ RowWritten(c)' /\ VersionWritten(c)' /\ NumberIsNext(c)'
    BY <1>1, <2>6 DEF KindOfPhase, RowWritten, VersionWritten, NumberIsNext
  <2> QED
    BY <1>2, <2>4, <2>5, <2>7, <2>8 DEF TxnCurrent
<1> QED
  BY <1>3, <1>4

\* A transaction that keeps lock, row and version keeps what it relies on.
LEMMA SameTxn ==
    ASSUME PolInv, NEW c \in Requests, phase[c] \in Holding,
           UNCHANGED <<policies, versions, lock, input, seen>>
    PROVE  /\ LockHeld(c)' /\ Target(c)' = Target(c)
           /\ VersionsOf(Target(c))' = VersionsOf(Target(c))
           /\ Numbers(Target(c))' = Numbers(Target(c))
<1>1. LockHeld(c) /\ Target(c)' = Target(c)
  BY HoldingFacts DEF Target
<1>2. VersionsOf(Target(c))' = VersionsOf(Target(c))
  BY <1>1 DEF VersionsOf
<1> QED
  BY <1>1, <1>2 DEF LockHeld, RevisionOf, Numbers

\* SELECT COALESCE(MAX(version), 0) + 1.
LEMMA StepNextVersion ==
    ASSUME PolInv, NEW c \in Requests, NextVersion(c)
    PROVE  PolTypeOK' /\ Bookkeeping' /\ Tables' /\ TxnCurrent(c)'
<1> DEFINE p == Target(c)
           last == LastNumber(p)
<1>0. /\ PolTypeOK /\ Tables
      /\ phase[c] = "max" /\ phase[c] \in Working /\ phase[c] \in Holding
  BY DEF PolInv, NextVersion, Working, Holding
<1>1. /\ KindOfPhase(c) /\ LockHeld(c) /\ VersionWritten(c) /\ p \in Policies
  BY <1>0, HoldingFacts
<1>2. Tables'
  BY TablesStand DEF NextVersion
<1>3. /\ last \in Numbers(p) \cup {0} /\ \A k \in Numbers(p) : k <= last
      /\ Numbers(p) \subseteq Nat
  BY <1>0, <1>1, LastNumberFacts, NumbersAreNat
<1>4. last \in Nat
  BY <1>3
<1>5. /\ number' = [number EXCEPT ![c] = last + 1] /\ Goto(c, "version")
      /\ UNCHANGED <<policies, versions, audit, lock, input, seen, row, version>>
  BY DEF NextVersion
<1> HIDE DEF last
<1>6. PolTypeOK'
  BY <1>0, <1>4, <1>5 DEF PolTypeOK, Goto, Working
<1>7. Bookkeeping'
  BY <1>0, <1>5, <1>6, AdvanceKeeps DEF Holding
<1>8. /\ phase'[c] = "version" /\ number'[c] = last + 1 /\ Target(c)' = p
      /\ input'[c].kind = "append" /\ version'[c] = NoRow
  BY <1>0, <1>1, <1>5 DEF PolTypeOK, Goto, KindOfPhase, VersionWritten, Target
<1>9. NumberIsNext(c)'
  <2>1. Numbers(Target(c))' = Numbers(p)
    BY <1>0, <1>5, SameTxn
  <2> QED
    BY <1>3, <1>4, <1>8, <2>1 DEF NumberIsNext
<1>10. LockHeld(c)'
  BY <1>0, <1>5, SameTxn
<1>11. KindOfPhase(c)' /\ RowWritten(c)' /\ VersionWritten(c)'
  BY <1>8 DEF KindOfPhase, RowWritten, VersionWritten
<1> QED
  BY <1>2, <1>6, <1>7, <1>9, <1>10, <1>11 DEF TxnCurrent

\* INSERT of the version: the number is free, so no constraint refuses it,
\* and what is stored has passed validation after it was normalized.
LEMMA StepInsertVersion ==
    ASSUME PolInv, NEW c \in Requests, InsertVersion(c)
    PROVE  PolTypeOK' /\ Bookkeeping' /\ Tables' /\ TxnCurrent(c)'
<1> DEFINE p == Target(c)
           l == IF input[c].kind = "create" THEN "audit" ELSE "update"
           new == [id |-> c, policy |-> p, number |-> number[c],
                   content |-> "wellformed"]
<1>0. /\ PolTypeOK /\ Bookkeeping
      /\ phase[c] = "version" /\ phase[c] \in Working /\ phase[c] \in Holding
  BY DEF PolInv, InsertVersion, Working, Holding
<1>1. /\ KindOfPhase(c) /\ LockHeld(c) /\ RowWritten(c) /\ NumberIsNext(c)
      /\ p \in Policies /\ lock[p] = c
  BY <1>0, HoldingFacts
<1>2. Tables'
  BY TablesStand DEF InsertVersion
<1>3. input[c].kind \in {"create", "append"}
  BY <1>0, <1>1, BodyFacts DEF KindOfPhase
<1>4. number[c] \notin Numbers(p) /\ number[c] \in Nat
  BY <1>0, <1>1, <1>3 DEF NumberIsNext, PolTypeOK
<1>5. StoredContent(c) = "wellformed"
  BY <1>0, <1>3 DEF Bookkeeping, ValidInput, StoredContent
<1>6. /\ version' = [version EXCEPT ![c] = new]
      /\ lock' = [lock EXCEPT ![p] = c] /\ Goto(c, l)
      /\ row' = [row EXCEPT ![c] = row[c]]
      /\ UNCHANGED <<policies, versions, audit, input, seen, number>>
  BY <1>4, <1>5 DEF InsertVersion, Proceed
<1>7. row' = row /\ lock' = lock
  BY <1>0, <1>1, <1>6 DEF PolTypeOK
<1>8. new \in Version
  BY <1>1, <1>4 DEF Version, VersionIds, Contents
<1>9. PolTypeOK'
  <2>1. l \in Working
    BY DEF Working
  <2> HIDE DEF l
  <2> QED
    BY <1>0, <1>6, <1>7, <1>8, <2>1 DEF PolTypeOK, Goto
<1>10. l \in Holding
  BY DEF Holding
<1>11. Bookkeeping'
  <2>1. \A d \in Requests \ {c} : version'[d] = version[d]
    BY <1>0, <1>6 DEF PolTypeOK
  <2> HIDE DEF l
  <2> QED
    BY <1>0, <1>6, <1>7, <1>9, <1>10, <2>1, AdvanceKeeps
<1>12. /\ phase'[c] = l /\ number'[c] = number[c] /\ input' = input
       /\ version'[c] = new /\ row'[c] = row[c] /\ policies' = policies
  BY <1>0, <1>6, <1>7 DEF PolTypeOK, Goto
<1>13. /\ LockHeld(c)' /\ Target(c)' = p
       /\ Numbers(Target(c))' = Numbers(p)
  BY <1>0, <1>6, <1>7, SameTxn
<1>14. KindOfPhase(c)'
  BY <1>3, <1>12 DEF KindOfPhase
<1>15. RowWritten(c)'
  BY <1>0, <1>1, <1>3, <1>12, <1>13 DEF RowWritten
<1>16. NumberIsNext(c)'
  BY <1>0, <1>1, <1>3, <1>12, <1>13 DEF NumberIsNext
<1>17. VersionWritten(c)'
  BY <1>3, <1>12, <1>13 DEF VersionWritten
<1> QED
  BY <1>2, <1>9, <1>11, <1>13, <1>14, <1>15, <1>16, <1>17 DEF TxnCurrent

\* The candidate of an activation.
LEMMA StepLoadVersion ==
    ASSUME PolInv, NEW c \in Requests, LoadVersion(c)
    PROVE  PolTypeOK' /\ Bookkeeping' /\ Tables' /\ TxnCurrent(c)'
<1> DEFINE p == Target(c)
<1>0. /\ PolTypeOK
      /\ phase[c] = "load" /\ phase[c] \in Working /\ phase[c] \in Holding
  BY DEF PolInv, LoadVersion, Working, Holding
<1>1. /\ KindOfPhase(c) /\ LockHeld(c) /\ VersionWritten(c) /\ p \in Policies
  BY <1>0, HoldingFacts
<1>2. Tables'
  BY TablesStand DEF LoadVersion
<1>3. CASE Rollback(c, "notfound") \/ Rollback(c, "invalid")
  <2>1. UNCHANGED <<policies, versions, audit, input, seen>>
    BY DEF LoadVersion
  <2>2. UNCHANGED number
    BY <1>0, <1>3 DEF LoadVersion, Rollback, Goto, PolTypeOK
  <2> QED
    BY <1>0, <1>2, <1>3, <2>1, <2>2, RollbackKeeps DEF Answers
<1>4. CASE ~(Rollback(c, "notfound") \/ Rollback(c, "invalid"))
  <2>1. PICK v \in VersionsOf(p) :
           /\ v.id = input[c].version /\ v.content = "wellformed"
           /\ number' = [number EXCEPT ![c] = v.number]
           /\ Goto(c, "update") /\ UNCHANGED <<lock, row, version>>
    BY <1>4 DEF LoadVersion
  <2>2. UNCHANGED <<policies, versions, audit, input, seen>>
    BY DEF LoadVersion
  <2>3. v.number \in Nat
    BY <1>0 DEF PolTypeOK, Version, VersionsOf
  <2>4. PolTypeOK'
    BY <1>0, <2>1, <2>2, <2>3 DEF PolTypeOK, Goto, Working
  <2>5. Bookkeeping'
    BY <1>0, <2>1, <2>2, <2>4, AdvanceKeeps DEF Holding
  <2>6. /\ phase'[c] = "update" /\ number'[c] = v.number /\ Target(c)' = p
        /\ input' = input /\ input'[c].kind = "activate" /\ version'[c] = NoRow
    BY <1>0, <1>1, <2>1, <2>2
    DEF PolTypeOK, Goto, KindOfPhase, VersionWritten, Target
  <2>7. /\ LockHeld(c)' /\ VersionsOf(Target(c))' = VersionsOf(p)
    BY <1>0, <2>1, <2>2, SameTxn
  <2>8. KindOfPhase(c)' /\ RowWritten(c)' /\ NumberIsNext(c)'
    BY <2>6 DEF KindOfPhase, RowWritten, NumberIsNext
  <2>9. VersionWritten(c)'
    BY <2>1, <2>6, <2>7 DEF VersionWritten
  <2> QED
    BY <1>2, <2>4, <2>5, <2>7, <2>8, <2>9 DEF TxnCurrent
<1> QED
  BY <1>3, <1>4

\* UPDATE of the envelope: the revision is still the expected one.
LEMMA StepUpdatePolicy ==
    ASSUME PolInv, NEW c \in Requests, UpdatePolicy(c)
    PROVE  PolTypeOK' /\ Bookkeeping' /\ Tables' /\ TxnCurrent(c)'
<1> DEFINE p == Target(c)
           new == IF input[c].kind = "append" THEN Extended(policies[p])
                  ELSE Activated(policies[p], input[c].version)
<1>0. /\ PolTypeOK
      /\ phase[c] = "update" /\ phase[c] \in Working /\ phase[c] \in Holding
  BY DEF PolInv, UpdatePolicy, Working, Holding
<1>1. /\ KindOfPhase(c) /\ LockHeld(c) /\ NumberIsNext(c) /\ VersionWritten(c)
      /\ p \in Policies /\ lock[p] = c
  BY <1>0, HoldingFacts
<1>2. Tables'
  BY TablesStand DEF UpdatePolicy
<1>3. input[c].kind \in {"append", "activate"} /\ input[c].version \in VersionIds
  BY <1>0, <1>1, BodyFacts DEF KindOfPhase
<1>4. policies[p] \in PolicyRow /\ policies[p].revision = input[c].expected
  <2>1. policies[p] \in PolicyRow
    BY <1>0, <1>1, <1>3 DEF LockHeld, PolTypeOK
  <2> QED
    BY <1>1, <1>3, <2>1, RowFacts DEF LockHeld
<1>5. /\ row' = [row EXCEPT ![c] = new]
      /\ lock' = [lock EXCEPT ![p] = c] /\ Goto(c, "audit")
      /\ version' = [version EXCEPT ![c] = version[c]]
      /\ UNCHANGED <<policies, versions, audit, input, seen, number>>
  BY <1>4 DEF UpdatePolicy, Proceed
<1>6. version' = version /\ lock' = lock
  BY <1>0, <1>1, <1>5 DEF PolTypeOK
<1>7. new \in PolicyRow
  BY <1>3, <1>4 DEF PolicyRow, Extended, Activated
<1>8. row'[c] = new /\ phase'[c] = "audit"
  BY <1>0, <1>5 DEF PolTypeOK, Goto
<1>9. RowWritten(c)'
  <2>1. Target(c)' = p /\ input' = input /\ policies' = policies
    BY <1>5 DEF Target
  <2> QED
    BY <1>3, <1>8, <2>1 DEF RowWritten
<1> HIDE DEF new
<1>10. PolTypeOK'
  BY <1>0, <1>5, <1>6, <1>7 DEF PolTypeOK, Goto, Working
<1>11. Bookkeeping'
  <2>1. \A d \in Requests \ {c} : row'[d] = row[d]
    BY <1>0, <1>5 DEF PolTypeOK
  <2> QED
    BY <1>0, <1>5, <1>6, <1>10, <2>1, AdvanceKeeps DEF Holding
<1>12. /\ LockHeld(c)' /\ Target(c)' = p
       /\ VersionsOf(Target(c))' = VersionsOf(p)
       /\ Numbers(Target(c))' = Numbers(p)
  BY <1>0, <1>5, <1>6, SameTxn
<1>13. KindOfPhase(c)' /\ NumberIsNext(c)'
  BY <1>0, <1>1, <1>5, <1>8, <1>12 DEF KindOfPhase, NumberIsNext
<1>14. VersionWritten(c)'
  BY <1>0, <1>1, <1>5, <1>6, <1>8, <1>12 DEF VersionWritten
<1> QED
  BY <1>2, <1>9, <1>10, <1>11, <1>12, <1>13, <1>14 DEF TxnCurrent

\* The audit row joins the transaction.
LEMMA StepAuditInsert ==
    ASSUME PolInv, NEW c \in Requests, AuditInsert(c)
    PROVE  PolTypeOK' /\ Bookkeeping' /\ Tables' /\ TxnCurrent(c)'
<1>0. /\ PolTypeOK
      /\ phase[c] = "audit" /\ phase[c] \in Working /\ phase[c] \in Holding
  BY DEF PolInv, AuditInsert, Working, Holding
<1>1. /\ KindOfPhase(c) /\ LockHeld(c) /\ RowWritten(c) /\ NumberIsNext(c)
      /\ VersionWritten(c)
  BY <1>0, HoldingFacts
<1>2. /\ Goto(c, "commit")
      /\ UNCHANGED <<policies, versions, audit, lock, input, seen, number, row,
                     version>>
  BY DEF AuditInsert
<1>3. PolTypeOK' /\ Tables'
  BY <1>0, <1>2, TablesStand DEF PolTypeOK, Goto, Working
<1>4. Bookkeeping'
  BY <1>0, <1>2, <1>3, AdvanceKeeps DEF Holding
<1>5. phase'[c] = "commit"
  BY <1>0, <1>2 DEF PolTypeOK, Goto
<1>6. /\ LockHeld(c)' /\ Target(c)' = Target(c)
      /\ VersionsOf(Target(c))' = VersionsOf(Target(c))
      /\ Numbers(Target(c))' = Numbers(Target(c))
  BY <1>0, <1>2, SameTxn
<1>7. KindOfPhase(c)' /\ RowWritten(c)' /\ NumberIsNext(c)'
  BY <1>0, <1>1, <1>2, <1>5, <1>6 DEF KindOfPhase, RowWritten, NumberIsNext
<1>8. VersionWritten(c)'
  BY <1>0, <1>1, <1>2, <1>5, <1>6 DEF VersionWritten
<1> QED
  BY <1>3, <1>4, <1>6, <1>7, <1>8 DEF TxnCurrent

\* COMMIT.
LEMMA StepCommit ==
    ASSUME PolInv, NEW c \in Requests, Commit(c)
    PROVE  PolTypeOK' /\ Bookkeeping' /\ Tables' /\ TxnCurrent(c)'
<1> DEFINE p == Target(c)
           event == [by |-> c, policy |-> p, revision |-> seen[c] + 1,
                     kind |-> input[c].kind, number |-> number[c]]
<1>0. /\ PolTypeOK /\ Bookkeeping /\ Tables /\ phase[c] = "commit"
      /\ phase[c] \in Working /\ phase[c] \in Holding
  BY DEF PolInv, Commit, Working, Holding
<1>1. /\ p \in Policies /\ input[c].kind \in {"create", "append", "activate"}
      /\ NumberIsNext(c)
  BY <1>0, BodyFacts, HoldingFacts
<1>2. PICK a \in {"ok", "error"} : Rollback(c, a)
  BY DEF Commit
<1>3. /\ policies' = [policies EXCEPT ![p] = row[c]]
      /\ audit' = audit \cup {event} /\ UNCHANGED <<input, seen, number>>
  BY DEF Commit
<1>4. /\ row[c] \in PolicyRow /\ RevisionOf(row[c]) = seen[c] + 1
      /\ seen[c] = RevisionOf(policies[p])
      /\ \A v \in versions' \ versions :
            v = version[c] /\ v \in Version /\ v.policy = p
      /\ versions \subseteq versions'
      /\ input[c].kind = "activate" => version[c] = NoRow
      /\ input[c].kind # "activate" =>
            version[c] = [id |-> c, policy |-> p, number |-> number[c],
                          content |-> "wellformed"]
  BY CommitFacts
<1>5. event \in Event /\ event.by = c
  BY <1>0, <1>1 DEF Event, PolTypeOK
<1> HIDE DEF event
<1>6. PolTypeOK'
  <2>1. versions' \subseteq Version
    BY <1>0, <1>4 DEF PolTypeOK
  <2>2. policies' \in [Policies -> PolicyRow \cup {NoRow}]
    BY <1>0, <1>3, <1>4 DEF PolTypeOK
  <2>3. /\ lock' \in [Policies -> Requests \cup {None}]
        /\ phase' \in [Requests -> {"new"} \cup Working \cup Answers]
        /\ row' \in [Requests -> PolicyRow \cup {NoRow}]
        /\ version' \in [Requests -> Version \cup {NoRow}]
    BY <1>0, <1>2 DEF PolTypeOK, Rollback, Goto, Answers
  <2> QED
    BY <1>0, <1>3, <1>5, <2>1, <2>2, <2>3 DEF PolTypeOK
<1>7. phase'[c] = a /\ \A d \in Requests \ {c} : phase'[d] = phase[d]
  BY <1>0, <1>2 DEF PolTypeOK, Rollback, Goto
<1>8. \A v \in versions' \ versions : v.id = c /\ v.number = number[c]
  <2> SUFFICES ASSUME NEW v \in versions' \ versions
               PROVE  v.id = c /\ v.number = number[c]
    OBVIOUS
  <2>1. v = version[c] /\ v # NoRow
    BY <1>4, PolicyAssumption
  <2> QED
    BY <1>4, <2>1
<1>9. Bookkeeping'
  <2>1. ASSUME NEW d \in Requests
        PROVE  /\ phase'[d] = "new" => input'[d] = None
               /\ phase'[d] # "new" => input'[d] \in Input
               /\ phase'[d] \in Working => ValidInput(input'[d])
               /\ phase'[d] \in {"new", "begin"} => seen'[d] = 0
    BY <1>0, <1>3, <1>7 DEF Bookkeeping, Working
  <2>2. ASSUME NEW d \in Requests
        PROVE  phase'[d] \notin Holding => row'[d] = NoRow /\ version'[d] = NoRow
    BY <1>0, <1>2, <1>7 DEF Bookkeeping, PolTypeOK, Rollback, Holding
  <2>3. \A e \in audit' : phase'[e.by] \in {"ok", "error"}
    BY <1>0, <1>3, <1>5, <1>7 DEF Bookkeeping, PolTypeOK, Event
  <2>4. \A v \in versions' : v.id \in Requests =>
           phase'[v.id] \in {"ok", "error"}
    BY <1>0, <1>7, <1>8 DEF Bookkeeping
  <2> QED
    BY <2>1, <2>2, <2>3, <2>4 DEF Bookkeeping, ValidInput
<1>10. Tables'
  <2>1. policies'[p] = row[c] /\ row[c] # NoRow
        /\ \A q \in Policies \ {p} : policies'[q] = policies[q]
    BY <1>0, <1>1, <1>3, <1>4, RowFacts DEF PolTypeOK
  <2>2. \A v \in versions' : policies'[v.policy] # NoRow
    BY <1>0, <1>4, <2>1 DEF Tables, PolTypeOK, Version
  <2>3. ASSUME NEW q \in Policies
        PROVE  /\ RevisionOf(SeedPolicies[q]) <= RevisionOf(policies'[q])
               /\ policies'[q] = NoRow => SeedPolicies[q] = NoRow
    <3>1. RevisionOf(SeedPolicies[q]) \in Nat /\ RevisionOf(policies[q]) \in Nat
      BY <1>0, RevisionIsNat, PolicyAssumption DEF PolTypeOK
    <3>2. CASE q = p
      BY <1>0, <1>4, <2>1, <3>1, <3>2 DEF Tables
    <3>3. CASE q # p
      BY <1>0, <2>1, <3>3 DEF Tables
    <3> QED
      BY <3>2, <3>3
  <2>4. ASSUME NEW q \in Policies
        PROVE  \E n \in Numbers(q)' \cup {0} : \A k \in Numbers(q)' : k <= n
    <3>1. PICK n \in Numbers(q) \cup {0} : \A k \in Numbers(q) : k <= n
      BY <1>0 DEF Tables
    <3>2. Numbers(q) \subseteq Nat /\ number[c] \in Nat
      BY <1>0, NumbersAreNat DEF PolTypeOK
    <3>3. Numbers(q) \subseteq Numbers(q)'
      BY <1>4 DEF Numbers, VersionsOf
    <3>4. CASE \A v \in versions' \ versions : v.policy # q
      <4>1. VersionsOf(q)' = VersionsOf(q)
        BY <1>4, <3>4 DEF VersionsOf
      <4> QED
        BY <3>1, <4>1 DEF Numbers
    <3>5. CASE \E v \in versions' \ versions : v.policy = q
      <4>1. PICK v \in versions' \ versions : v.policy = q
        BY <3>5
      <4>2. q = p /\ v.number = number[c] /\ v # NoRow /\ v = version[c]
        BY <1>4, <1>8, <4>1, PolicyAssumption
      <4>3. input[c].kind # "activate"
        BY <1>4, <4>2
      <4>4. \A k \in Numbers(q) : k < number[c]
        BY <1>0, <1>1, <4>2, <4>3 DEF NumberIsNext
      <4>5. \A k \in Numbers(q)' : k \in Numbers(q) \/ k = number[c]
        BY <1>8 DEF Numbers, VersionsOf
      <4>6. number[c] \in Numbers(q)'
        BY <4>1, <4>2 DEF Numbers, VersionsOf
      <4> QED
        BY <3>2, <4>4, <4>5, <4>6
    <3> QED
      BY <3>4, <3>5
  <2> QED
    BY <2>2, <2>3, <2>4 DEF Tables
<1>11. TxnCurrent(c)'
  BY <1>7 DEF TxnCurrent, Holding
<1> QED
  BY <1>6, <1>9, <1>10, <1>11

\* The arrival of a request.
LEMMA StepSubmit ==
    ASSUME PolInv, NEW c \in Requests, Submit(c)
    PROVE  PolTypeOK' /\ Bookkeeping' /\ Tables' /\ TxnCurrent(c)'
<1>0. PolTypeOK /\ Bookkeeping /\ phase[c] = "new"
  BY DEF PolInv, Submit
<1>1. PICK i \in Inputs :
         /\ input' = [input EXCEPT ![c] = i]
         /\ phase' = [phase EXCEPT ![c] =
                         IF ValidInput(i) THEN "begin" ELSE "invalid"]
  BY DEF Submit
<1>2. UNCHANGED <<policies, versions, audit, lock, seen, number, row, version>>
  BY DEF Submit
<1>3. i \in Input
  BY PolicyAssumption
<1>4. PolTypeOK' /\ Tables'
  BY <1>0, <1>1, <1>2, <1>3, TablesStand DEF PolTypeOK, Working, Answers
<1>5. /\ phase'[c] \in {"begin", "invalid"} /\ input'[c] = i
      /\ phase'[c] = "begin" => ValidInput(i)
      /\ \A d \in Requests \ {c} : phase'[d] = phase[d] /\ input'[d] = input[d]
  BY <1>0, <1>1 DEF PolTypeOK
<1>6. Bookkeeping'
  <2>1. ASSUME NEW d \in Requests
        PROVE  /\ phase'[d] = "new" => input'[d] = None
               /\ phase'[d] # "new" => input'[d] \in Input
               /\ phase'[d] \in Working => ValidInput(input'[d])
    BY <1>0, <1>3, <1>5 DEF Bookkeeping, Working
  <2>2. ASSUME NEW d \in Requests
        PROVE  /\ phase'[d] \in {"new", "begin"} => seen'[d] = 0
               /\ phase'[d] \notin Holding =>
                     row'[d] = NoRow /\ version'[d] = NoRow
    BY <1>0, <1>2, <1>5 DEF Bookkeeping, Holding
  <2>3. /\ \A e \in audit' : phase'[e.by] \in {"ok", "error"}
        /\ \A v \in versions' : v.id \in Requests =>
              phase'[v.id] \in {"ok", "error"}
    BY <1>0, <1>2, <1>5 DEF Bookkeeping, PolTypeOK, Event
  <2> QED
    BY <2>1, <2>2, <2>3 DEF Bookkeeping, ValidInput
<1>7. TxnCurrent(c)'
  BY <1>5 DEF TxnCurrent, Holding
<1> QED
  BY <1>4, <1>6, <1>7

\* The invariant survives every step.
LEMMA StepPol == PolInv /\ [PolNext]_polVars => PolInv'
<1> SUFFICES ASSUME PolInv, [PolNext]_polVars PROVE PolInv'
  OBVIOUS
<1>1. ASSUME NEW c \in Requests, Submit(c) \/ PolicyStep(c) \/ Abort(c)
      PROVE  PolInv'
  <2>1. PolTypeOK' /\ Bookkeeping' /\ Tables' /\ TxnCurrent(c)'
    <3>1. CASE Abort(c)
      BY <3>1, RollbackKeeps, TablesStand DEF Abort, Answers
    <3> QED
      BY <1>1, <3>1, StepSubmit, StepCreatePolicy, StepSelectForUpdate,
         StepNextVersion, StepInsertVersion, StepLoadVersion, StepUpdatePolicy,
         StepAuditInsert, StepCommit
      DEF PolicyStep
  <2>2. \A d \in Requests \ {c} : TxnCurrent(d)'
    BY <1>1, OthersStayCurrent
  <2> QED
    BY <2>1, <2>2 DEF PolInv
<1>2. CASE UNCHANGED polVars
  BY <1>2 DEF polVars, PolInv, PolTypeOK, Bookkeeping, Tables, TxnCurrent,
     KindOfPhase, LockHeld, RowWritten, NumberIsNext, VersionWritten, Target,
     Numbers, VersionsOf, RevisionOf, ValidInput, Extended, Activated
<1> QED
  BY <1>1, <1>2 DEF PolNext

(***************************************************************************)
(* Tables, locks and the Go variables of every policy mutation keep their  *)
(* types.                                                                  *)
(***************************************************************************)
THEOREM PolTypeCorrect == PolSpec => []PolTypeOK
<1>1. PolInv => PolTypeOK
  BY DEF PolInv
<1> QED
  BY <1>1, InitPol, StepPol, PTL DEF PolSpec

-----------------------------------------------------------------------------
(* The record.                                                              *)

\* Only a commit changes the tables or the record.
LEMMA OnlyCommit ==
    ASSUME [PolNext]_polVars, \A c \in Requests : ~Commit(c)
    PROVE  UNCHANGED <<policies, versions, audit>>
<1>1. ASSUME NEW c \in Requests, Submit(c) \/ PolicyStep(c) \/ Abort(c)
      PROVE  UNCHANGED <<policies, versions, audit>>
  BY <1>1 DEF Submit, PolicyStep, CreatePolicy, SelectForUpdate, NextVersion,
              InsertVersion, LoadVersion, UpdatePolicy, AuditInsert, Abort
<1> QED
  BY <1>1 DEF PolNext, polVars

\* The audit row a commit adds: that of the next revision, of the body the
\* operator sent.
LEMMA CommitRecord ==
    ASSUME PolInv, NEW c \in Requests, Commit(c)
    PROVE  \E e \in audit' :
              /\ audit' = audit \cup {e}
              /\ e.by = c /\ e.policy = Target(c) /\ e.number = number[c]
              /\ e.kind = input[c].kind
              /\ e.revision = RevisionOf(policies[Target(c)]) + 1
              /\ e.revision = RevisionOf(policies'[Target(c)])
              /\ e.kind # "create" => e.revision = input[c].expected + 1
              /\ \A a \in audit : a.by # c
<1> DEFINE e == [by |-> c, policy |-> Target(c), revision |-> seen[c] + 1,
                 kind |-> input[c].kind, number |-> number[c]]
<1>0. phase[c] = "commit" /\ phase[c] \in Holding
  BY DEF Commit, Holding
<1>1. audit' = audit \cup {e} /\ e \in audit'
  BY DEF Commit
<1>2. /\ e.by = c /\ e.policy = Target(c) /\ e.number = number[c]
      /\ e.kind = input[c].kind /\ e.revision = seen[c] + 1
  OBVIOUS
<1> HIDE DEF e
<1>3. seen[c] = RevisionOf(policies[Target(c)])
      /\ RevisionOf(row[c]) = seen[c] + 1
  BY CommitFacts
<1>4. policies'[Target(c)] = row[c]
  BY <1>0, HoldingFacts DEF Commit, PolInv, PolTypeOK
<1>5. input[c].kind # "create" => seen[c] = input[c].expected
  BY <1>0, HoldingFacts DEF LockHeld
<1>6. \A a \in audit : a.by # c
  BY <1>0 DEF PolInv, Bookkeeping
<1> QED
  BY <1>1, <1>2, <1>3, <1>4, <1>5, <1>6

\* The conjuncts of PolicyAuditPerRevision, element by element.
Audited(p) ==
    /\ \A n \in RevisionOf(SeedPolicies[p]) + 1 .. RevisionOf(policies[p]) :
          \E a \in audit : a.policy = p /\ a.revision = n
    /\ \A a \in audit : a.policy = p =>
          a.revision \in RevisionOf(SeedPolicies[p]) + 1 ..
                         RevisionOf(policies[p])
    /\ \A a, b \in audit :
          a.policy = p /\ b.policy = p /\ a.revision = b.revision => a = b

\* A set of revisions taken from audit rows, element by element.
LEMMA RevisionsAre ==
    ASSUME NEW A, NEW S, NEW p
    PROVE  {a.revision : a \in {x \in A : x.policy = p}} = S
           <=> /\ \A n \in S : \E a \in A : a.policy = p /\ a.revision = n
               /\ \A a \in A : a.policy = p => a.revision \in S
<1> DEFINE R == {a.revision : a \in {x \in A : x.policy = p}}
<1>1. \A n : n \in R <=> \E a \in A : a.policy = p /\ a.revision = n
  OBVIOUS
<1> HIDE DEF R
<1>2. R = S <=> /\ \A n \in S : \E a \in A : a.policy = p /\ a.revision = n
                /\ \A a \in A : a.policy = p => a.revision \in S
  BY <1>1
<1> QED
  BY <1>2 DEF R

AllAudited == \A p \in Policies : Audited(p)

\* AllAudited is PolicyAuditPerRevision.
LEMMA AuditedEach == AllAudited <=> PolicyAuditPerRevision
<1> DEFINE since(p) == RevisionOf(SeedPolicies[p]) + 1 ..
                       RevisionOf(policies[p])
           rows(p) == {a \in audit : a.policy = p}
           all(p) == {a.revision : a \in rows(p)} = since(p)
           one(p) == \A a, b \in rows(p) : a.revision = b.revision => a = b
<1>1. PolicyAuditPerRevision <=> \A p \in Policies : all(p) /\ one(p)
  BY DEF PolicyAuditPerRevision
<1>2. ASSUME NEW p \in Policies PROVE Audited(p) <=> all(p) /\ one(p)
  <2>1. all(p) <=>
           /\ \A n \in since(p) : \E a \in audit : a.policy = p /\ a.revision = n
           /\ \A a \in audit : a.policy = p => a.revision \in since(p)
    <3> HIDE DEF since
    <3> QED
      BY RevisionsAre
  <2>2. one(p) <=> \A a, b \in audit :
           a.policy = p /\ b.policy = p /\ a.revision = b.revision => a = b
    OBVIOUS
  <2> HIDE DEF all, one
  <2> QED
    BY <2>1, <2>2 DEF Audited
<1> HIDE DEF all, one
<1> QED
  BY <1>1, <1>2 DEF AllAudited

\* A commit adds the audit row of the one revision it adds; nothing else
\* touches either.
LEMMA StepAudit ==
    PolInv /\ AllAudited /\ [PolNext]_polVars => AllAudited'
<1> SUFFICES ASSUME PolInv, AllAudited, [PolNext]_polVars
             PROVE  AllAudited'
  OBVIOUS
<1>1. CASE \A c \in Requests : ~Commit(c)
  BY <1>1, OnlyCommit DEF AllAudited, Audited, RevisionOf
<1>2. ASSUME NEW c \in Requests, Commit(c) PROVE AllAudited'
  <2> DEFINE p == Target(c)
             old(q) == RevisionOf(policies[q])
             new(q) == RevisionOf(policies'[q])
             seed(q) == RevisionOf(SeedPolicies[q])
  <2>1. PICK e \in audit' :
           /\ audit' = audit \cup {e} /\ e.policy = p
           /\ e.revision = old(p) + 1 /\ e.revision = new(p)
    BY <1>2, CommitRecord
  <2>2. \A q \in Policies : q # p => new(q) = old(q)
    BY <1>2 DEF Commit, PolInv, PolTypeOK
  <2>3. \A q \in Policies : /\ old(q) \in Nat /\ seed(q) \in Nat
                            /\ seed(q) <= old(q)
    BY RevisionIsNat, PolicyAssumption DEF PolInv, PolTypeOK, Tables
  <2>4. \A a \in audit : a.revision \in Nat
    BY DEF PolInv, PolTypeOK, Event
  <2>5. ASSUME NEW q \in Policies
        PROVE  /\ \A n \in seed(q) + 1 .. old(q) :
                     \E a \in audit : a.policy = q /\ a.revision = n
               /\ \A a \in audit : a.policy = q =>
                     a.revision \in seed(q) + 1 .. old(q)
               /\ \A a, b \in audit :
                     a.policy = q /\ b.policy = q /\ a.revision = b.revision
                     => a = b
    BY DEF AllAudited, Audited
  <2> HIDE DEF old, new, seed
  <2>6. ASSUME NEW q \in Policies
        PROVE  /\ \A n \in seed(q) + 1 .. new(q) :
                     \E a \in audit' : a.policy = q /\ a.revision = n
               /\ \A a \in audit' : a.policy = q =>
                     a.revision \in seed(q) + 1 .. new(q)
               /\ \A a, b \in audit' :
                     a.policy = q /\ b.policy = q /\ a.revision = b.revision
                     => a = b
    <3>1. CASE q # p
      BY <2>1, <2>2, <2>5, <3>1
    <3>2. CASE q = p
      BY <2>1, <2>3, <2>4, <2>5, <3>2
    <3> QED
      BY <3>1, <3>2
  <2> QED
    BY <2>6 DEF AllAudited, Audited, new, seed, RevisionOf
<1> QED
  BY <1>1, <1>2

\* Nothing has happened yet, and nothing is on record.
LEMMA InitAudit == PolInit => AllAudited
<1> SUFFICES ASSUME PolInit, NEW p \in Policies PROVE Audited(p)
  BY DEF AllAudited
<1>1. RevisionOf(SeedPolicies[p]) \in Nat /\ policies[p] = SeedPolicies[p]
  BY RevisionIsNat, PolicyAssumption DEF PolInit
<1>2. audit = {}
  BY DEF PolInit
<1> QED
  BY <1>1, <1>2 DEF Audited

(***************************************************************************)
(* Create, AppendVersion and Activate audit every revision of every policy *)
(* exactly once.                                                           *)
(***************************************************************************)
THEOREM PolicyAuditCorrect == PolSpec => []PolicyAuditPerRevision
BY InitPol, StepPol, InitAudit, StepAudit, AuditedEach, PTL DEF PolSpec

\* A commit continues the history it read under the row lock.
LEMMA StepHistory ==
    PolInv /\ HistoryUnbroken /\ [PolNext]_polVars => HistoryUnbroken'
<1> SUFFICES ASSUME PolInv, HistoryUnbroken, [PolNext]_polVars
             PROVE  HistoryUnbroken'
  OBVIOUS
<1>1. CASE \A c \in Requests : ~Commit(c)
  BY <1>1, OnlyCommit DEF HistoryUnbroken, Numbers, VersionsOf
<1>2. ASSUME NEW c \in Requests, Commit(c) PROVE HistoryUnbroken'
  <2> DEFINE p == Target(c)
  <2>0. phase[c] = "commit" /\ phase[c] \in Holding
    BY <1>2 DEF Commit, Holding
  <2>1. PICK e \in audit' :
           /\ audit' = audit \cup {e} /\ e.by = c /\ e.policy = p
           /\ e.number = number[c] /\ e.kind = input[c].kind
    BY <1>2, CommitRecord
  <2>2. versions \subseteq versions'
    BY <1>2, CommitFacts
  <2>3. ASSUME NEW v \in versions' \ versions
        PROVE  /\ v = version[c] /\ input[c].kind # "activate"
               /\ v.id = c /\ v.policy = p /\ v.number = number[c]
    <3>1. v = version[c] /\ v # NoRow
      <4>1. v = version[c] /\ v \in Version
        BY <1>2, <2>3, CommitFacts
      <4> QED
        BY <4>1, PolicyAssumption
    <3>2. /\ input[c].kind # "activate"
          /\ version[c] = [id |-> c, policy |-> p, number |-> number[c],
                           content |-> "wellformed"]
      BY <1>2, <3>1, CommitFacts
    <3> QED
      BY <3>1, <3>2
  <2>4. ASSUME NEW v \in versions' \ versions
        PROVE  /\ \A k \in Numbers(p) : k < number[c]
               /\ number[c] > 1 => number[c] - 1 \in Numbers(p)
    BY <2>0, <2>3, <2>4, HoldingFacts DEF NumberIsNext
  <2>5. \A q \in Policies : Numbers(q) \subseteq Numbers(q)'
    BY <2>2 DEF Numbers, VersionsOf
  <2>6. number[c] \in Nat /\ \A v \in versions : v.number \in Nat
    BY DEF PolInv, PolTypeOK, Version
  <2>7. \A v \in versions' : v.policy \in Policies
    BY <1>2, CommitFacts DEF PolInv, PolTypeOK, Version
  <2>8. ASSUME NEW v \in versions', NEW w \in versions',
               v.policy = w.policy, v.number = w.number
        PROVE  v = w
    <3>1. CASE v \in versions /\ w \in versions
      BY <2>8, <3>1 DEF HistoryUnbroken
    <3>2. CASE v \notin versions /\ w \notin versions
      BY <2>3, <3>2
    <3>3. ASSUME NEW x \in versions, NEW y \in versions' \ versions,
                 x.policy = y.policy
          PROVE  x.number # y.number
      <4>1. x.number \in Numbers(p)
        BY <2>3, <3>3 DEF Numbers, VersionsOf
      <4>2. x.number < number[c]
        BY <2>4, <3>3, <4>1
      <4> QED
        BY <2>3, <2>6, <3>3, <4>2
    <3> QED
      BY <2>8, <3>1, <3>2, <3>3
  <2>9. ASSUME NEW v \in versions', v.id \in Requests
        PROVE  /\ v.number > 1 => v.number - 1 \in Numbers(v.policy)'
               /\ \E a \in audit' : /\ a.by = v.id /\ a.policy = v.policy
                                    /\ a.number = v.number
                                    /\ a.kind # "activate"
    <3>1. CASE v \in versions
      <4>1. /\ v.number > 1 => v.number - 1 \in Numbers(v.policy)
            /\ \E a \in audit : /\ a.by = v.id /\ a.policy = v.policy
                                /\ a.number = v.number /\ a.kind # "activate"
        BY <2>9, <3>1 DEF HistoryUnbroken
      <4> QED
        BY <2>1, <2>5, <2>7, <4>1
    <3>2. CASE v \notin versions
      BY <2>1, <2>3, <2>4, <2>5, <2>7, <3>2
    <3> QED
      BY <3>1, <3>2
  <2> QED
    BY <2>8, <2>9 DEF HistoryUnbroken
<1> QED
  BY <1>1, <1>2

(***************************************************************************)
(* Appending always continues the history: no fork, no gap, nothing        *)
(* unrecorded, however many requests race.                                 *)
(***************************************************************************)
THEOREM HistoryCorrect == PolSpec => []HistoryUnbroken
<1>1. PolInit => HistoryUnbroken
  BY PolicyAssumption DEF PolInit, HistoryUnbroken
<1> QED
  BY <1>1, InitPol, StepPol, StepHistory, PTL DEF PolSpec

(***************************************************************************)
(* What Create and AppendVersion accepted can be activated.                *)
(***************************************************************************)
THEOREM ActivatableCorrect == PolSpec => []ActivatableHistory
<1>1. PolInit => ActivatableHistory
  BY PolicyAssumption DEF PolInit, ActivatableHistory
<1>2. ASSUME PolInv, ActivatableHistory, [PolNext]_polVars
      PROVE  ActivatableHistory'
  <2>1. CASE \A c \in Requests : ~Commit(c)
    BY <1>2, <2>1, OnlyCommit DEF ActivatableHistory
  <2>2. ASSUME NEW c \in Requests, Commit(c) PROVE ActivatableHistory'
    <3>1. ASSUME NEW v \in versions' \ versions PROVE v.content = "wellformed"
      <4>1. v = version[c] /\ v \in Version
        BY <1>2, <2>2, <3>1, CommitFacts
      <4>2. version[c] = [id |-> c, policy |-> Target(c), number |-> number[c],
                          content |-> "wellformed"]
        BY <1>2, <2>2, <4>1, CommitFacts, PolicyAssumption
      <4> QED
        BY <4>1, <4>2
    <3> QED
      BY <1>2, <3>1 DEF ActivatableHistory
  <2> QED
    BY <2>1, <2>2
<1> QED
  BY <1>1, <1>2, InitPol, StepPol, PTL DEF PolSpec

\* How a step without a commit moves a request: it never becomes "ok", and
\* one that ended keeps its answer and its body.
LEMMA AnswersStand ==
    ASSUME PolInv, [PolNext]_polVars, \A c \in Requests : ~Commit(c),
           NEW d \in Requests
    PROVE  /\ phase'[d] = "ok" => phase[d] = "ok"
           /\ phase[d] \in {"ok", "error"} =>
                 phase'[d] = phase[d] /\ input'[d] = input[d]
<1>1. ASSUME NEW c \in Requests, Submit(c) \/ PolicyStep(c) \/ Abort(c), c = d
      PROVE  /\ phase'[d] # "ok"
             /\ phase[d] \notin {"ok", "error"}
  <2>1. phase[c] \notin {"ok", "error"}
    BY <1>1 DEF Submit, PolicyStep, CreatePolicy, SelectForUpdate, NextVersion,
       InsertVersion, LoadVersion, UpdatePolicy, AuditInsert, Commit, Abort,
       Working
  <2>2. phase'[c] # "ok"
    BY <1>1 DEF Submit, PolicyStep, CreatePolicy, SelectForUpdate, NextVersion,
       InsertVersion, LoadVersion, UpdatePolicy, AuditInsert, Abort, Rollback,
       Proceed, Goto, PolInv, PolTypeOK
  <2> QED
    BY <1>1, <2>1, <2>2
<1>2. ASSUME NEW c \in Requests, Submit(c) \/ PolicyStep(c) \/ Abort(c), c # d
      PROVE  phase'[d] = phase[d] /\ input'[d] = input[d]
  BY <1>2, OtherTransactions
<1>3. CASE UNCHANGED polVars
  BY <1>3 DEF polVars
<1> QED
  BY <1>1, <1>2, <1>3 DEF PolNext

\* A commit records its request with the answer; a refusal records nothing.
LEMMA StepAnswers ==
    PolInv /\ PolicyAnswerMatchesRecord /\ [PolNext]_polVars
    => PolicyAnswerMatchesRecord'
<1> SUFFICES ASSUME PolInv, PolicyAnswerMatchesRecord, [PolNext]_polVars
             PROVE  PolicyAnswerMatchesRecord'
  OBVIOUS
<1>0. \A a \in audit : a.by \in Requests /\ phase[a.by] \in {"ok", "error"}
  BY DEF PolInv, PolTypeOK, Bookkeeping, Event
<1>1. PolInv'
  BY StepPol
<1>2. ASSUME NEW d \in Requests,
             phase'[d] \in {"invalid", "notfound", "conflict"}
      PROVE  /\ \A a \in audit' : a.by # d
             /\ \A v \in versions' : v.id # d
  BY <1>1, <1>2 DEF PolInv, Bookkeeping
<1>3. ASSUME NEW d \in Requests
      PROVE  /\ phase'[d] = "ok" => \E a \in audit' : a.by = d
             /\ \A a \in audit' : a.by = d /\ a.kind # "create" =>
                   a.revision = input'[d].expected + 1
  <2>1. CASE \A c \in Requests : ~Commit(c)
    <3>1. audit' = audit
      BY <2>1, OnlyCommit
    <3>2. /\ phase'[d] = "ok" => phase[d] = "ok"
          /\ phase[d] \in {"ok", "error"} => input'[d] = input[d]
      BY <2>1, AnswersStand
    <3> QED
      BY <1>0, <3>1, <3>2 DEF PolicyAnswerMatchesRecord
  <2>2. ASSUME NEW c \in Requests, Commit(c)
        PROVE  /\ phase'[d] = "ok" => \E a \in audit' : a.by = d
               /\ \A a \in audit' : a.by = d /\ a.kind # "create" =>
                     a.revision = input'[d].expected + 1
    <3>1. PICK e \in audit' :
             /\ audit' = audit \cup {e} /\ e.by = c
             /\ e.kind # "create" => e.revision = input[c].expected + 1
             /\ \A a \in audit : a.by # c
      BY <2>2, CommitRecord
    <3>2. input' = input
      BY <2>2 DEF Commit
    <3>3. d # c => phase'[d] = phase[d]
      BY <2>2, OtherTransactions DEF PolicyStep
    <3> QED
      BY <3>1, <3>2, <3>3 DEF PolicyAnswerMatchesRecord
  <2> QED
    BY <2>1, <2>2
<1> QED
  BY <1>2, <1>3 DEF PolicyAnswerMatchesRecord

(***************************************************************************)
(* Operators can rely on the answers of the policy API.                    *)
(***************************************************************************)
THEOREM PolicyAnswersCorrect == PolSpec => []PolicyAnswerMatchesRecord
<1>1. PolInit => PolicyAnswerMatchesRecord
  BY DEF PolInit, PolicyAnswerMatchesRecord
<1> QED
  BY <1>1, InitPol, StepPol, StepAnswers, PTL DEF PolSpec

\* The activations of a policy on record.
Activations(p) == {a \in audit : a.policy = p /\ a.kind = "activate"}

\* What the record of activations says of the envelope of one policy.
Selected(p) ==
    policies[p] # NoRow =>
       IF Activations(p) = {}
         THEN policies[p].active =
                 IF SeedPolicies[p] = NoRow THEN None
                                            ELSE SeedPolicies[p].active
         ELSE /\ policies[p].status = "active"
              /\ \E v \in VersionsOf(p), a \in Activations(p) :
                    /\ v.id = policies[p].active /\ v.content = "wellformed"
                    /\ \A b \in Activations(p) : b.revision <= a.revision
                    /\ v.number = a.number

\* The change of one policy by a commit, for each kind of mutation.
LEMMA CommitSelects ==
    ASSUME PolInv, AllAudited, NEW c \in Requests, Commit(c),
           NEW p \in Policies, p = Target(c), Selected(p)
    PROVE  Selected(p)'
<1>0. /\ PolTypeOK /\ phase[c] = "commit"
      /\ phase[c] \in Holding /\ phase[c] # "new"
  BY DEF Commit, Holding, PolInv
<1>1. /\ input[c].kind \in {"create", "append", "activate"}
      /\ LockHeld(c) /\ RowWritten(c) /\ VersionWritten(c)
      /\ policies[p] \in PolicyRow \cup {NoRow}
  BY <1>0, BodyFacts, HoldingFacts
<1>2. PICK e \in audit' :
         /\ audit' = audit \cup {e} /\ e.by = c /\ e.policy = p
         /\ e.number = number[c] /\ e.kind = input[c].kind
         /\ e.revision = RevisionOf(policies[p]) + 1
  BY CommitRecord
<1>3. policies'[p] = row[c]
  BY <1>0, <1>1 DEF Commit, PolTypeOK
<1>4. VersionsOf(p) \subseteq VersionsOf(p)'
  BY CommitFacts DEF VersionsOf
<1>5. /\ \A a \in audit : a.policy = p =>
            a.revision \in Nat /\ a.revision <= RevisionOf(policies[p])
      /\ RevisionOf(policies[p]) \in Nat
      /\ policies[p] = NoRow => \A a \in audit : a.policy # p
  <2>1. RevisionOf(policies[p]) \in Nat /\ RevisionOf(SeedPolicies[p]) \in Nat
    BY <1>0, <1>1, RevisionIsNat, PolicyAssumption DEF PolTypeOK
  <2>2. \A a \in audit : a.policy = p =>
           a.revision \in RevisionOf(SeedPolicies[p]) + 1 ..
                          RevisionOf(policies[p])
    BY <1>1 DEF AllAudited, Audited
  <2>3. policies[p] = NoRow => RevisionOf(policies[p]) = 0
    BY DEF RevisionOf
  <2> QED
    BY <2>1, <2>2, <2>3
<1>6. CASE input[c].kind = "create"
  <2>1. policies[p] = NoRow /\ SeedPolicies[p] = NoRow
    BY <1>1, <1>6 DEF LockHeld, PolInv, Tables
  <2>2. Activations(p)' = {}
    BY <1>2, <1>5, <1>6, <2>1 DEF Activations
  <2>3. row[c].active = None
    BY <1>0, <1>1, <1>6 DEF RowWritten
  <2> QED
    BY <1>1, <1>3, <2>1, <2>2, <2>3 DEF Selected
<1>7. CASE input[c].kind = "append"
  <2>1. policies[p] # NoRow /\ policies[p] \in PolicyRow
    BY <1>1, <1>7 DEF LockHeld
  <2>2. Activations(p)' = Activations(p)
    BY <1>2, <1>7 DEF Activations
  <2>3. row[c].active = policies[p].active /\ row[c].status = policies[p].status
    BY <1>0, <1>1, <1>7 DEF RowWritten, Extended
  <2>4. CASE Activations(p) = {}
    BY <1>1, <1>3, <2>1, <2>2, <2>3, <2>4 DEF Selected
  <2>5. CASE Activations(p) # {}
    <3>1. PICK v \in VersionsOf(p), a \in Activations(p) :
             /\ v.id = policies[p].active /\ v.content = "wellformed"
             /\ \A b \in Activations(p) : b.revision <= a.revision
             /\ v.number = a.number
      BY <2>1, <2>5 DEF Selected
    <3>2. policies[p].status = "active"
      BY <2>1, <2>5 DEF Selected
    <3>3. v \in VersionsOf(p)' /\ a \in Activations(p)'
      BY <1>4, <2>2
    <3> QED
      BY <1>1, <1>3, <2>2, <2>3, <2>5, <3>1, <3>2, <3>3 DEF Selected
  <2> QED
    BY <2>4, <2>5
<1>8. CASE input[c].kind = "activate"
  <2>1. PICK v \in VersionsOf(p) :
           /\ v.id = input[c].version /\ v.content = "wellformed"
           /\ v.number = number[c]
    BY <1>0, <1>1, <1>8 DEF VersionWritten
  <2>2. row[c].active = input[c].version /\ row[c].status = "active"
    BY <1>0, <1>1, <1>8 DEF RowWritten, Activated
  <2>3. e \in Activations(p)' /\ \A b \in Activations(p)' : b.revision <= e.revision
    BY <1>2, <1>5, <1>8 DEF Activations
  <2>4. v \in VersionsOf(p)'
    BY <1>4
  <2> QED
    BY <1>1, <1>2, <1>3, <2>1, <2>2, <2>3, <2>4 DEF Selected
<1> QED
  BY <1>1, <1>6, <1>7, <1>8

\* The active version follows the record.
LEMMA StepSelected ==
    ASSUME PolInv, AllAudited, [PolNext]_polVars,
           \A p \in Policies : Selected(p)
    PROVE  \A p \in Policies : Selected(p)'
<1>1. CASE \A c \in Requests : ~Commit(c)
  BY <1>1, OnlyCommit DEF Selected, Activations, VersionsOf
<1>2. ASSUME NEW c \in Requests, Commit(c), NEW p \in Policies
      PROVE  Selected(p)'
  <2>2. CASE p = Target(c)
    BY <1>2, <2>2, CommitSelects
  <2>3. CASE p # Target(c)
    <3>1. Activations(p)' = Activations(p)
      BY <1>2, <2>3, CommitRecord DEF Activations
    <3>2. VersionsOf(p)' = VersionsOf(p)
      BY <1>2, <2>3, CommitFacts DEF VersionsOf
    <3>3. policies'[p] = policies[p]
      BY <1>2, <2>3 DEF Commit, PolInv, PolTypeOK
    <3> QED
      BY <3>1, <3>2, <3>3 DEF Selected
  <2> QED
    BY <2>2, <2>3
<1> QED
  BY <1>1, <1>2

(***************************************************************************)
(* The active version of a policy is the well-formed version of that very  *)
(* policy which its last recorded activation names.                        *)
(***************************************************************************)
THEOREM ActiveVersionCorrect == PolSpec => []ActiveIsLastActivation
<1>1. ActiveIsLastActivation <=> \A p \in Policies : Selected(p)
  BY DEF ActiveIsLastActivation, Selected, Activations
<1>2. PolInit => ActiveIsLastActivation
  BY DEF PolInit, ActiveIsLastActivation
<1>3. ASSUME PolInv, AllAudited, [PolNext]_polVars, ActiveIsLastActivation
      PROVE  ActiveIsLastActivation'
  <2>1. \A p \in Policies : Selected(p)'
    BY <1>1, <1>3, StepSelected
  <2> QED
    BY <2>1 DEF ActiveIsLastActivation, Selected, Activations
<1> QED
  BY <1>2, <1>3, InitPol, StepPol, InitAudit, StepAudit, PTL DEF PolSpec

-----------------------------------------------------------------------------
(* The refinement of RevisionedStore.                                       *)

\* What the abstract store calls the phases and the answers.
LEMMA OutcomeFacts ==
    /\ \A a \in {"new"} \cup Working : OutcomeOf(a) = "pending"
    /\ OutcomeOf("invalid") = "refused" /\ OutcomeOf("notfound") = "refused"
    /\ OutcomeOf("conflict") = "stale"
    /\ OutcomeOf("ok") = "ok" /\ OutcomeOf("error") = "error"
BY DEF OutcomeOf, Working

\* The seeded tables without requests are the abstract initial state.
LEMMA StoreInitMaps == PolInit => Store!Init
<1> SUFFICES ASSUME PolInit PROVE Store!Init
  OBVIOUS
<1>1. storeRevision = [p \in Policies |-> RevisionOf(SeedPolicies[p])]
  BY DEF PolInit, storeRevision
<1>2. storeLog = {}
  BY DEF PolInit, storeLog
<1>3. storeAsked = [c \in Requests |-> None]
  BY DEF PolInit, storeAsked
<1>4. storeAnswer = [c \in Requests |-> "pending"]
  BY OutcomeFacts DEF PolInit, storeAnswer
<1> QED
  BY <1>1, <1>2, <1>3, <1>4 DEF Store!Init

\* A step that moves one request shows as nothing but its answer.
LEMMA AnswerShows ==
    ASSUME PolInv, NEW c \in Requests, NEW a, input' = input, Goto(c, a)
    PROVE  /\ storeAsked' = storeAsked
           /\ storeAnswer' = [storeAnswer EXCEPT ![c] = OutcomeOf(a)]
<1>1. storeAsked' = storeAsked
  BY DEF storeAsked
<1>2. storeAnswer' = [storeAnswer EXCEPT ![c] = OutcomeOf(a)]
  BY DEF PolInv, PolTypeOK, storeAnswer, Goto
<1> QED
  BY <1>1, <1>2

\* While tables and record stand, so do the abstract revisions and log.
LEMMA RecordStands ==
    ASSUME UNCHANGED <<policies, audit>>
    PROVE  storeRevision' = storeRevision /\ storeLog' = storeLog
BY DEF storeRevision, storeLog, RevisionOf

\* A request in a transaction is pending, and asks for what its body says.
LEMMA WorkingIsPending ==
    ASSUME PolInv, NEW c \in Requests, phase[c] \in Working
    PROVE  /\ Store!Pending(c)
           /\ storeAnswer[c] = "pending"
           /\ storeAsked[c].object = Target(c)
           /\ storeAsked[c].expected =
                 IF input[c].kind = "create" THEN 0 ELSE input[c].expected
           /\ Target(c) \in Policies
<1>1. input[c] \in Input /\ input[c] # None
  BY PolicyAssumption DEF PolInv, Bookkeeping, Working
<1>2. AskOf(input[c]) \in [object : Policies, expected : Nat]
  BY <1>1 DEF AskOf, Input
<1>3. storeAsked[c] = AskOf(input[c]) /\ storeAsked[c] # None
  BY <1>1, <1>2, PolicyAssumption DEF storeAsked
<1>4. storeAnswer[c] = "pending"
  BY OutcomeFacts DEF storeAnswer
<1> QED
  BY <1>1, <1>3, <1>4 DEF Store!Pending, AskOf, Target, Input

\* A step that leaves a request in its transaction is not visible.
LEMMA Invisible ==
    ASSUME PolInv, UNCHANGED <<policies, audit, input>>,
           NEW c \in Requests, phase[c] \in Working,
           NEW a \in Working, Goto(c, a)
    PROVE  UNCHANGED Store!storeVars
<1>1. storeRevision' = storeRevision /\ storeLog' = storeLog
  BY RecordStands
<1>2. /\ storeAsked' = storeAsked
      /\ storeAnswer' = [storeAnswer EXCEPT ![c] = OutcomeOf(a)]
  BY AnswerShows
<1>3. OutcomeOf(a) = storeAnswer[c]
  BY OutcomeFacts, WorkingIsPending
<1>4. storeAnswer' = storeAnswer
  BY <1>2, <1>3 DEF storeAnswer
<1> QED
  BY <1>1, <1>2, <1>4 DEF Store!storeVars

\* A step that ends a request without effect is a rejection; a conflict must
\* be justified by the revision at that moment.
LEMMA Rejected ==
    ASSUME PolInv, UNCHANGED <<policies, audit, input>>,
           NEW c \in Requests, phase[c] \in Working,
           NEW a \in {"invalid", "notfound", "conflict", "error"}, Goto(c, a),
           a = "conflict" =>
              RevisionOf(policies[Target(c)]) # storeAsked[c].expected
    PROVE  Store!Reject(c)
<1>1. storeRevision' = storeRevision /\ storeLog' = storeLog
  BY RecordStands
<1>2. /\ storeAsked' = storeAsked
      /\ storeAnswer' = [storeAnswer EXCEPT ![c] = OutcomeOf(a)]
  BY AnswerShows
<1>3. Store!Pending(c)
  BY WorkingIsPending
<1>4. a = "conflict" =>
         storeRevision[storeAsked[c].object] # storeAsked[c].expected
  BY WorkingIsPending DEF storeRevision
<1> QED
  BY <1>1, <1>2, <1>3, <1>4, OutcomeFacts DEF Store!Reject

\* A commit is the abstract change.
LEMMA CommitSucceeds ==
    ASSUME PolInv, NEW c \in Requests, Commit(c)
    PROVE  Store!Succeed(c)
<1> DEFINE o == Target(c)
           next == RevisionOf(policies[o]) + 1
<1>1. /\ phase[c] = "commit" /\ phase[c] \in Working /\ phase[c] \in Holding
      /\ phase[c] # "new"
  BY DEF Commit, Working, Holding
<1>2. o \in Policies /\ LockHeld(c)
  BY <1>1, HoldingFacts
<1>3. storeAsked[c].object = o /\ storeAsked[c].expected = RevisionOf(policies[o])
  BY <1>1, <1>2, WorkingIsPending DEF LockHeld, RevisionOf
<1>4. storeRevision' = [storeRevision EXCEPT ![o] = next]
  <2>1. RevisionOf(row[c]) = next
    BY CommitFacts
  <2> QED
    BY <1>2, <2>1 DEF Commit, PolInv, PolTypeOK, storeRevision
<1>5. storeLog' = storeLog \cup {[by |-> c, object |-> o, revision |-> next]}
  <2> DEFINE view(a) == [by |-> a.by, object |-> a.policy,
                         revision |-> a.revision]
  <2>1. PICK e \in audit' :
           /\ audit' = audit \cup {e} /\ e.by = c /\ e.policy = o
           /\ e.revision = next
    BY CommitRecord
  <2>2. view(e) = [by |-> c, object |-> o, revision |-> next]
    BY <2>1
  <2>3. storeLog = {view(a) : a \in audit} /\ storeLog' = {view(a) : a \in audit'}
    BY DEF storeLog
  <2> HIDE DEF view
  <2> QED
    BY <2>1, <2>2, <2>3
<1>6. PICK a \in {"ok", "error"} : Goto(c, a)
  BY DEF Commit, Rollback
<1>7. /\ storeAsked' = storeAsked
      /\ storeAnswer' = [storeAnswer EXCEPT ![c] = a]
  <2>1. OutcomeOf(a) = a
    BY OutcomeFacts
  <2>2. input' = input
    BY DEF Commit
  <2> QED
    BY <1>6, <2>1, <2>2, AnswerShows
<1>8. Store!Pending(c)
  BY <1>1, WorkingIsPending
<1>9. storeRevision[o] = RevisionOf(policies[o])
  BY <1>2 DEF storeRevision
<1> HIDE DEF o
<1> QED
  BY <1>3, <1>4, <1>5, <1>7, <1>8, <1>9 DEF Store!Succeed

\* The arrival of a request is an abstract one, refused at once or pending.
LEMMA SubmitSends ==
    ASSUME PolInv, NEW c \in Requests, Submit(c)
    PROVE  Store!Send(c)
<1>1. phase[c] = "new" /\ input[c] = None
  BY DEF Submit, PolInv, Bookkeeping
<1>2. PICK i \in Inputs :
         /\ input' = [input EXCEPT ![c] = i]
         /\ phase' = [phase EXCEPT ![c] =
                         IF ValidInput(i) THEN "begin" ELSE "invalid"]
  BY DEF Submit
<1>3. i # None
  BY PolicyAssumption
<1>4. storeAsked' = [storeAsked EXCEPT ![c] = AskOf(i)]
  BY <1>2, <1>3 DEF PolInv, PolTypeOK, storeAsked
<1>5. PICK a \in {"begin", "invalid"} : phase' = [phase EXCEPT ![c] = a]
  BY <1>2
<1>6. storeAnswer' = [storeAnswer EXCEPT ![c] = OutcomeOf(a)]
  BY <1>5 DEF PolInv, PolTypeOK, storeAnswer
<1>7. OutcomeOf(a) \in {"pending", "refused"}
  BY <1>5, OutcomeFacts DEF Working
<1>8. storeAsked[c] = None
  BY <1>1 DEF storeAsked
<1>9. storeRevision' = storeRevision /\ storeLog' = storeLog
  BY RecordStands DEF Submit
<1> QED
  BY <1>4, <1>6, <1>7, <1>8, <1>9 DEF Store!Send

\* Every step of a request before its commit is invisible or a rejection.
LEMMA StatementMaps ==
    ASSUME PolInv, NEW c \in Requests, PolicyStep(c) \/ Abort(c), ~Commit(c)
    PROVE  Store!Next \/ UNCHANGED Store!storeVars
<1>0. /\ UNCHANGED <<policies, audit, input>> /\ phase[c] \in Working
      /\ PolTypeOK
  BY DEF PolicyStep, CreatePolicy, SelectForUpdate, NextVersion, InsertVersion,
         LoadVersion, UpdatePolicy, AuditInsert, Abort, Working, PolInv
<1>1. /\ storeAsked[c].expected =
            IF input[c].kind = "create" THEN 0 ELSE input[c].expected
      /\ Target(c) \in Policies
      /\ policies[Target(c)] \in PolicyRow \cup {NoRow}
  BY <1>0, WorkingIsPending DEF PolTypeOK
<1>2. ASSUME NEW a \in Working, Goto(c, a)
      PROVE  UNCHANGED Store!storeVars
  BY <1>0, <1>2, Invisible
<1>3. ASSUME NEW a \in {"invalid", "notfound", "error"}, Goto(c, a)
      PROVE  Store!Next
  BY <1>0, <1>3, Rejected DEF Store!Next
<1>4. ASSUME Goto(c, "conflict"),
             RevisionOf(policies[Target(c)]) # storeAsked[c].expected
      PROVE  Store!Next
  BY <1>0, <1>4, Rejected DEF Store!Next
<1>5. CASE CreatePolicy(c)
  <2>1. \/ Goto(c, "notfound") \/ Goto(c, "version")
        \/ policies[Target(c)] # NoRow /\ Goto(c, "conflict")
    BY <1>5 DEF CreatePolicy, Rollback
  <2>2. policies[Target(c)] # NoRow =>
           RevisionOf(policies[Target(c)]) # storeAsked[c].expected
    BY <1>1, <1>5, RowFacts DEF CreatePolicy
  <2> QED
    BY <1>2, <1>3, <1>4, <2>1, <2>2 DEF Working
<1>6. CASE SelectForUpdate(c)
  <2>1. \/ Goto(c, "notfound") \/ Goto(c, "max") \/ Goto(c, "load")
        \/ /\ policies[Target(c)] # NoRow /\ Goto(c, "conflict")
           /\ policies[Target(c)].revision # input[c].expected
    BY <1>6 DEF SelectForUpdate, Rollback
  <2>2. /\ policies[Target(c)] # NoRow
        /\ policies[Target(c)].revision # input[c].expected
        => RevisionOf(policies[Target(c)]) # storeAsked[c].expected
    BY <1>1, <1>6, RowFacts DEF SelectForUpdate
  <2> QED
    BY <1>2, <1>3, <1>4, <2>1, <2>2 DEF Working
<1>7. CASE NextVersion(c) \/ AuditInsert(c)
  BY <1>2, <1>7 DEF NextVersion, AuditInsert, Working
<1>8. CASE InsertVersion(c)
  <2>1. phase[c] = "version" /\ phase[c] \in Holding /\ phase[c] # "new"
    BY <1>8 DEF InsertVersion, Holding
  <2>2. NumberIsNext(c) /\ input[c].kind # "activate"
    BY <2>1, HoldingFacts DEF KindOfPhase
  <2>3. number[c] \notin Numbers(Target(c))
    BY <1>0, <2>1, <2>2 DEF NumberIsNext, PolTypeOK
  <2>4. Goto(c, "audit") \/ Goto(c, "update")
    BY <1>8, <2>3 DEF InsertVersion, Proceed
  <2> QED
    BY <1>2, <2>4 DEF Working
<1>9. CASE LoadVersion(c)
  <2>1. Goto(c, "notfound") \/ Goto(c, "invalid") \/ Goto(c, "update")
    BY <1>9 DEF LoadVersion, Rollback
  <2> QED
    BY <1>2, <1>3, <2>1 DEF Working
<1>10. CASE UpdatePolicy(c)
  <2>1. phase[c] = "update" /\ phase[c] \in Holding
    BY <1>10 DEF UpdatePolicy, Holding
  <2>2. LockHeld(c) /\ input[c].kind # "create"
    BY <2>1, HoldingFacts DEF KindOfPhase
  <2>3. policies[Target(c)].revision = input[c].expected
    BY <1>1, <2>2, RowFacts DEF LockHeld
  <2>4. Goto(c, "audit")
    BY <1>10, <2>3 DEF UpdatePolicy, Proceed
  <2> QED
    BY <1>2, <2>4 DEF Working
<1>11. CASE Abort(c)
  BY <1>3, <1>11 DEF Abort, Rollback
<1> QED
  BY <1>5, <1>6, <1>7, <1>8, <1>9, <1>10, <1>11 DEF PolicyStep

\* Every step of the policy manager is an abstract one or is not visible.
LEMMA StoreStepMaps ==
    PolInv /\ [PolNext]_polVars => [Store!Next]_(Store!storeVars)
<1> SUFFICES ASSUME PolInv, [PolNext]_polVars
             PROVE  Store!Next \/ UNCHANGED Store!storeVars
  OBVIOUS
<1>1. ASSUME NEW c \in Requests, Commit(c) PROVE Store!Next
  BY <1>1, CommitSucceeds DEF Store!Next
<1>2. ASSUME NEW c \in Requests, Submit(c) PROVE Store!Next
  BY <1>2, SubmitSends DEF Store!Next
<1>3. ASSUME NEW c \in Requests, PolicyStep(c) \/ Abort(c), ~Commit(c)
      PROVE  Store!Next \/ UNCHANGED Store!storeVars
  BY <1>3, StatementMaps
<1>4. CASE UNCHANGED polVars
  <2>1. storeAsked' = storeAsked /\ storeAnswer' = storeAnswer
    BY <1>4 DEF polVars, storeAsked, storeAnswer
  <2>2. storeRevision' = storeRevision /\ storeLog' = storeLog
    BY <1>4, RecordStands DEF polVars
  <2> QED
    BY <2>1, <2>2 DEF Store!storeVars
<1> QED
  BY <1>1, <1>2, <1>3, <1>4 DEF PolNext

(***************************************************************************)
(* The policy manager implements the revisioned store for any number of    *)
(* policies and requests: its transactions are atomic changes of the       *)
(* revision the operator named.                                            *)
(***************************************************************************)
THEOREM PolicyStoreImplemented == PolSpec => PolImplementsStore
BY InitPol, StepPol, StoreInitMaps, StoreStepMaps, PTL
DEF PolSpec, PolImplementsStore, Store!Spec
=============================================================================
