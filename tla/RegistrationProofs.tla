------------------------- MODULE RegistrationProofs -------------------------
(***************************************************************************)
(* Proofs about the registration store, for any number of rules, requests, *)
(* inputs and any seed.  The inductive invariant adds to the checked       *)
(* invariants what they lean on: a request keeps its body, has read no     *)
(* revision before its SELECT, has written no row before its INSERT or     *)
(* UPDATE, and has an audit row only once it ended.                        *)
(***************************************************************************)
EXTENDS Registration, TLAPS

Bookkeeping ==
    /\ \A c \in Requests : phase[c] # "new" => input[c] \in Input
    /\ \A c \in Requests : phase[c] = "new" => input[c] = None
    /\ \A c \in Requests : phase[c] = "write" => input[c].kind = "replace"
    /\ \A c \in Requests : phase[c] \in {"new", "begin"} => before[c] = 0
    /\ \A c \in Requests :
          phase[c] \notin {"audit", "commit"} => draft[c] = NoRow
    /\ \A e \in audit : phase[e.by] \in {"ok", "error"}
    /\ \A r \in Rules : RevisionOf(Seed[r]) <= RevisionOf(rules[r])

StoreInv == RegTypeOK /\ Bookkeeping /\ LockedRowIsCurrent

\* A row is a row, with a natural revision.
LEMMA RowFacts ==
    ASSUME NEW row \in Row
    PROVE  /\ row # NoRow
           /\ row.revision \in Nat
           /\ RevisionOf(row) = row.revision
BY RegistrationAssumption DEF Row, RevisionOf

\* The revision of a row, or of no row, is a natural number.
LEMMA RevisionIsNat ==
    ASSUME NEW row \in Row \cup {NoRow}
    PROVE  RevisionOf(row) \in Nat
BY RowFacts DEF RevisionOf

\* The initial table is the seed and nothing is under way.
LEMMA InitStore == RegInit => StoreInv
<1> SUFFICES ASSUME RegInit PROVE StoreInv
  OBVIOUS
<1>1. RegTypeOK
  BY RegistrationAssumption DEF RegInit, RegTypeOK
<1>2. Bookkeeping
  <2>1. \A r \in Rules : RevisionOf(Seed[r]) \in Nat
    BY RevisionIsNat, RegistrationAssumption
  <2> QED
    BY <2>1 DEF RegInit, Bookkeeping
<1>3. LockedRowIsCurrent
  BY DEF RegInit, LockedRowIsCurrent, TxnCurrent
<1> QED
  BY <1>1, <1>2, <1>3 DEF StoreInv

\* What the two mutations write is a row of the next revision.
LEMMA WrittenRows ==
    ASSUME NEW i \in Input
    PROVE  /\ Created(i) \in Row
           /\ Created(i).revision = 1 /\ Created(i).entry = None
           /\ \A row \in Row : /\ Replaced(row, i) \in Row
                               /\ Replaced(row, i).revision = row.revision + 1
                               /\ Replaced(row, i).entry = row.entry
BY DEF Created, Replaced, Input, Row, Statuses, Codes, DesiredStates

\* A transaction with an uncommitted row has one to commit.
LEMMA DraftFacts ==
    ASSUME StoreInv, NEW c \in Requests, phase[c] \in {"audit", "commit"}
    PROVE  /\ draft[c] \in Row /\ Target(c) \in Rules
           /\ RevisionOf(draft[c]) = RevisionOf(rules[Target(c)]) + 1
BY RowFacts DEF StoreInv, RegTypeOK, Bookkeeping, LockedRowIsCurrent,
                TxnCurrent, Target, Input

\* The status statements touch neither revision nor existence of a row.
LEMMA StatusStepFacts ==
    ASSUME RegTypeOK, NEW r \in Rules,
           \/ \E e \in Ids \cup {None} : MarkConverged(r, e)
           \/ \E code \in Codes \ {"none"} : MarkError(r, code)
    PROVE  /\ Free(r)
           /\ rules' \in [Rules -> Row \cup {NoRow}]
           /\ UNCHANGED requestVars
           /\ \A q \in Rules : /\ RevisionOf(rules'[q]) = RevisionOf(rules[q])
                               /\ rules'[q] = NoRow <=> rules[q] = NoRow
                               /\ q # r => rules'[q] = rules[q]
<1>1. rules[r] # NoRow /\ rules[r] \in Row
  BY DEF RegTypeOK, MarkConverged, MarkError
<1>2. PICK e \in Ids \cup {None}, status \in Statuses, code \in Codes :
         rules' = [rules EXCEPT ![r] = WithStatus(rules[r], e, status, code)]
  <2>1. rules[r].entry \in Ids \cup {None}
    BY <1>1 DEF Row
  <2> QED
    BY <2>1 DEF MarkConverged, MarkError, Statuses, Codes
<1> DEFINE new == WithStatus(rules[r], e, status, code)
<1>5. new \in Row /\ new.revision = rules[r].revision
  BY <1>1 DEF WithStatus, Row
<1> HIDE DEF new
<1>3. Free(r) /\ UNCHANGED requestVars
  BY DEF MarkConverged, MarkError
<1>4. RevisionOf(new) = RevisionOf(rules[r]) /\ new # NoRow
  BY <1>1, <1>5, RowFacts
<1>6. rules' = [rules EXCEPT ![r] = new]
  BY <1>2 DEF new
<1> QED
  BY <1>1, <1>3, <1>4, <1>5, <1>6 DEF RegTypeOK

\* One request's step leaves every other transaction, the rows it has locked
\* and its locks alone.
LEMMA OtherTransactions ==
    ASSUME StoreInv, NEW c \in Requests, NEW d \in Requests \ {c},
           Submit(c) \/ RequestStep(c) \/ Abort(c)
    PROVE  /\ phase'[d] = phase[d] /\ input'[d] = input[d]
           /\ before'[d] = before[d] /\ draft'[d] = draft[d]
           /\ phase[d] \in {"write", "audit", "commit"} =>
                 /\ lock'[Target(d)] = lock[Target(d)]
                 /\ rules'[Target(d)] = rules[Target(d)]
<1> USE DEF StoreInv
<1>0. None # d
  BY RegistrationAssumption
<1>1. phase[d] \in {"write", "audit", "commit"} =>
         Target(d) \in Rules /\ lock[Target(d)] = d
  BY DEF LockedRowIsCurrent, TxnCurrent, Bookkeeping, Target, Input
<1>2. CASE Submit(c)
  BY <1>2 DEF Submit, RegTypeOK
<1>3. CASE CreateInsert(c)
  BY <1>0, <1>1, <1>3 DEF CreateInsert, RegTypeOK, Answer, Acquire, Free
<1>4. CASE ReplaceSelect(c)
  BY <1>0, <1>1, <1>4 DEF ReplaceSelect, RegTypeOK, Answer, Acquire, Free
<1>5. CASE ReplaceUpdate(c)
  BY <1>0, <1>1, <1>5 DEF ReplaceUpdate, RegTypeOK
<1>6. CASE AuditInsert(c)
  BY <1>6 DEF AuditInsert, RegTypeOK
<1>7. CASE Commit(c)
  <2>1. lock[Target(c)] = c
    BY <1>7 DEF Commit, LockedRowIsCurrent, TxnCurrent
  <2> QED
    BY <1>0, <1>1, <1>7, <2>1 DEF Commit, RegTypeOK, Answer, Release
<1>8. CASE Abort(c)
  BY <1>0, <1>1, <1>8 DEF Abort, RegTypeOK, Answer, Release
<1> QED
  BY <1>2, <1>3, <1>4, <1>5, <1>6, <1>7, <1>8 DEF RequestStep

\* Locks, drafts and revisions survive every step.
LEMMA StepStore == StoreInv /\ [RegNext]_regVars => StoreInv'
<1> SUFFICES ASSUME StoreInv, [RegNext]_regVars PROVE StoreInv'
  OBVIOUS
<1> USE DEF StoreInv
<1>0. \A e \in audit : e.by \in Requests
  BY DEF RegTypeOK, Event
<1>a. ASSUME NEW c \in Requests, Submit(c) \/ RequestStep(c) \/ Abort(c),
             TxnCurrent(c)'
      PROVE  LockedRowIsCurrent'
  <2>1. ASSUME NEW d \in Requests, d # c
        PROVE  TxnCurrent(d)'
    BY <1>a, <2>1, OtherTransactions DEF LockedRowIsCurrent, TxnCurrent, Target
  <2> QED
    BY <1>a, <2>1 DEF LockedRowIsCurrent
<1>1. ASSUME NEW c \in Requests, Submit(c) PROVE StoreInv'
  <2> USE <1>1
  <2>0. phase[c] # "new" => input[c] \in Input /\ Target(c) \in Rules
    BY DEF Bookkeeping, Target, Input
  <2>1. RegTypeOK'
    BY RegistrationAssumption DEF Submit, RegTypeOK, Working, Answers
  <2>2. Bookkeeping'
    BY <1>0, RegistrationAssumption
    DEF Submit, RegTypeOK, Bookkeeping, RevisionOf
  <2>3. TxnCurrent(c)'
    BY DEF Submit, RegTypeOK, TxnCurrent
  <2> QED
    BY <1>a, <2>1, <2>2, <2>3 DEF RequestStep
<1>2. ASSUME NEW c \in Requests, CreateInsert(c) PROVE StoreInv'
  <2> USE <1>2
  <2>0. phase[c] # "new" => input[c] \in Input /\ Target(c) \in Rules
    BY DEF Bookkeeping, Target, Input
  <2>1. RegTypeOK'
    BY <2>0, WrittenRows
    DEF CreateInsert, RegTypeOK, Working, Answers, Answer, Acquire
  <2>2. Bookkeeping'
    BY <1>0 DEF CreateInsert, RegTypeOK, Bookkeeping, RevisionOf, Answer
  <2>3. TxnCurrent(c)'
    BY <2>0, WrittenRows, RowFacts
    DEF CreateInsert, RegTypeOK, Bookkeeping, TxnCurrent, Target, RevisionOf,
        Answer, Acquire
  <2> QED
    BY <1>a, <2>1, <2>2, <2>3 DEF RequestStep
<1>3. ASSUME NEW c \in Requests, ReplaceSelect(c) PROVE StoreInv'
  <2> USE <1>3
  <2>0. phase[c] # "new" => input[c] \in Input /\ Target(c) \in Rules
    BY DEF Bookkeeping, Target, Input
  <2>1. RegTypeOK'
    BY <2>0, RowFacts
    DEF ReplaceSelect, RegTypeOK, Working, Answers, Answer, Acquire
  <2>2. Bookkeeping'
    BY <1>0 DEF ReplaceSelect, RegTypeOK, Bookkeeping, RevisionOf, Answer
  <2>3. TxnCurrent(c)'
    BY <2>0, RowFacts
    DEF ReplaceSelect, RegTypeOK, TxnCurrent, Target, Answer, Acquire
  <2> QED
    BY <1>a, <2>1, <2>2, <2>3 DEF RequestStep
<1>4. ASSUME NEW c \in Requests, ReplaceUpdate(c) PROVE StoreInv'
  <2> USE <1>4
  <2>0. /\ input[c] \in Input /\ Target(c) \in Rules
        /\ TxnCurrent(c) /\ phase[c] = "write"
    BY DEF Bookkeeping, Target, Input, ReplaceUpdate, LockedRowIsCurrent
  <2>1. /\ input[c].kind = "replace"
        /\ rules[Target(c)] \in Row
        /\ rules[Target(c)].revision = input[c].expected
        /\ draft' = [draft EXCEPT ![c] = Replaced(rules[Target(c)], input[c])]
        /\ phase' = [phase EXCEPT ![c] = "audit"]
        /\ lock' = [lock EXCEPT ![Target(c)] = c]
    BY <2>0, RowFacts DEF ReplaceUpdate, RegTypeOK, TxnCurrent, Bookkeeping
  <2>2. RegTypeOK'
    BY <2>0, <2>1, WrittenRows
    DEF ReplaceUpdate, RegTypeOK, Working, Answers
  <2>3. Bookkeeping'
    BY <1>0, <2>1 DEF ReplaceUpdate, RegTypeOK, Bookkeeping, RevisionOf
  <2>4. TxnCurrent(c)'
    BY <2>0, <2>1, WrittenRows, RowFacts
    DEF ReplaceUpdate, RegTypeOK, TxnCurrent, Target
  <2> QED
    BY <1>a, <2>2, <2>3, <2>4 DEF RequestStep
<1>5. ASSUME NEW c \in Requests, AuditInsert(c) PROVE StoreInv'
  <2> USE <1>5
  <2>0. phase[c] # "new" => input[c] \in Input /\ Target(c) \in Rules
    BY DEF Bookkeeping, Target, Input
  <2>1. RegTypeOK'
    BY DEF AuditInsert, RegTypeOK, Working, Answers
  <2>2. Bookkeeping'
    BY <1>0 DEF AuditInsert, RegTypeOK, Bookkeeping, RevisionOf
  <2>3. TxnCurrent(c)'
    BY DEF AuditInsert, RegTypeOK, LockedRowIsCurrent, TxnCurrent, Target,
           RevisionOf
  <2> QED
    BY <1>a, <2>1, <2>2, <2>3 DEF RequestStep
<1>6. ASSUME NEW c \in Requests, Commit(c) PROVE StoreInv'
  <2> USE <1>6
  <2>0. phase[c] # "new" => input[c] \in Input /\ Target(c) \in Rules
    BY DEF Bookkeeping, Target, Input
  <2>1. RegTypeOK'
    BY <2>0, DraftFacts
    DEF Commit, RegTypeOK, Working, Answers, Answer, Release, Event
  <2>2. Bookkeeping'
    <3>1. \A r \in Rules : RevisionOf(Seed[r]) <= RevisionOf(rules'[r])
      <4>1. \A r \in Rules : /\ RevisionOf(rules[r]) \in Nat
                             /\ RevisionOf(Seed[r]) \in Nat
        BY RevisionIsNat, RegistrationAssumption DEF RegTypeOK
      <4>2. RevisionOf(draft[c]) = RevisionOf(rules[Target(c)]) + 1
        BY DraftFacts DEF Commit
      <4> QED
        BY <2>0, <4>1, <4>2 DEF Commit, RegTypeOK, Bookkeeping
    <3>2. \A e \in audit' : phase'[e.by] \in {"ok", "error"}
      BY <1>0 DEF Commit, RegTypeOK, Bookkeeping, Answer
    <3> QED
      BY <3>1, <3>2 DEF Commit, RegTypeOK, Bookkeeping, RevisionOf, Answer
  <2>3. TxnCurrent(c)'
    BY DEF Commit, RegTypeOK, TxnCurrent, Answer
  <2> QED
    BY <1>a, <2>1, <2>2, <2>3 DEF RequestStep
<1>7. ASSUME NEW c \in Requests, Abort(c) PROVE StoreInv'
  <2> USE <1>7
  <2>0. phase[c] # "new" => input[c] \in Input /\ Target(c) \in Rules
    BY DEF Bookkeeping, Target, Input
  <2>1. RegTypeOK'
    BY DEF Abort, RegTypeOK, Working, Answers, Answer, Release
  <2>2. Bookkeeping'
    BY <1>0 DEF Abort, RegTypeOK, Bookkeeping, RevisionOf, Answer, Working
  <2>3. TxnCurrent(c)'
    BY DEF Abort, RegTypeOK, TxnCurrent, Answer, Working
  <2> QED
    BY <1>a, <2>1, <2>2, <2>3 DEF RequestStep
<1>8. CASE StatusStep
  <2>1. PICK r \in Rules :
           \/ \E e \in Ids \cup {None} : MarkConverged(r, e)
           \/ \E code \in Codes \ {"none"} : MarkError(r, code)
    BY <1>8 DEF StatusStep
  <2>2. /\ Free(r) /\ UNCHANGED requestVars
        /\ rules' \in [Rules -> Row \cup {NoRow}]
        /\ \A q \in Rules : /\ RevisionOf(rules'[q]) = RevisionOf(rules[q])
                            /\ rules'[q] = NoRow <=> rules[q] = NoRow
                            /\ q # r => rules'[q] = rules[q]
    BY <2>1, StatusStepFacts
  <2>3. RegTypeOK'
    BY <2>2 DEF RegTypeOK, requestVars
  <2>4. Bookkeeping'
    BY <2>2 DEF Bookkeeping, requestVars
  <2>5. LockedRowIsCurrent'
    <3> SUFFICES ASSUME NEW d \in Requests PROVE TxnCurrent(d)'
      BY DEF LockedRowIsCurrent
    <3>1. TxnCurrent(d) /\ d # None
      BY RegistrationAssumption DEF LockedRowIsCurrent
    <3>2. phase[d] \in {"write", "audit", "commit"} =>
             Target(d) \in Rules /\ Target(d) # r
      BY <2>2, <3>1 DEF TxnCurrent, Bookkeeping, Target, Input, Free
    <3> QED
      BY <2>2, <3>1, <3>2 DEF TxnCurrent, requestVars, Target
  <2> QED
    BY <2>3, <2>4, <2>5
<1>9. CASE UNCHANGED regVars
  BY <1>9 DEF regVars, RegTypeOK, Bookkeeping, LockedRowIsCurrent,
              TxnCurrent, Target, RevisionOf
<1> QED
  BY <1>1, <1>2, <1>3, <1>4, <1>5, <1>6, <1>7, <1>8, <1>9
  DEF RegNext, OperatorStep, RequestStep

(***************************************************************************)
(* Every table, lock, request and draft keeps its type.                    *)
(***************************************************************************)
THEOREM RegTypeCorrect == RegSpec => []RegTypeOK
<1>1. StoreInv => RegTypeOK
  BY DEF StoreInv
<1> QED
  BY <1>1, InitStore, StepStore, PTL DEF RegSpec

(***************************************************************************)
(* The row lock of CreateDesired and ReplaceDesired makes check and update *)
(* one: see LockedRowIsCurrent.                                            *)
(***************************************************************************)
THEOREM LockingCorrect == RegSpec => []LockedRowIsCurrent
<1>1. StoreInv => LockedRowIsCurrent
  BY DEF StoreInv
<1> QED
  BY <1>1, InitStore, StepStore, PTL DEF RegSpec

\* Only a commit changes a revision or the record.
LEMMA OnlyCommit ==
    ASSUME StoreInv, [RegNext]_regVars,
           \A c \in Requests : ~Commit(c)
    PROVE  /\ audit' = audit
           /\ \A r \in Rules : RevisionOf(rules'[r]) = RevisionOf(rules[r])
<1>1. CASE OperatorStep
  BY <1>1 DEF OperatorStep, Submit, RequestStep, CreateInsert, ReplaceSelect,
              ReplaceUpdate, AuditInsert, Abort
<1>2. CASE StatusStep
  BY <1>2, StatusStepFacts DEF StatusStep, StoreInv, requestVars
<1>3. CASE UNCHANGED regVars
  BY <1>3 DEF regVars
<1> QED
  BY <1>1, <1>2, <1>3 DEF RegNext

\* A commit adds the audit row of the one revision it adds; nothing else
\* touches either (the shared transaction of row and audit row).
LEMMA StepAudit ==
    StoreInv /\ AuditPerRevision /\ [RegNext]_regVars => AuditPerRevision'
<1> SUFFICES ASSUME StoreInv, AuditPerRevision, [RegNext]_regVars
             PROVE  AuditPerRevision'
  OBVIOUS
<1>1. CASE \A c \in Requests : ~Commit(c)
  BY <1>1, OnlyCommit DEF AuditPerRevision
<1>2. ASSUME NEW c \in Requests, Commit(c) PROVE AuditPerRevision'
  <2> DEFINE old(r) == RevisionOf(rules[r])
             new(r) == RevisionOf(rules'[r])
             event == [by |-> c, rule |-> Target(c), revision |-> before[c] + 1]
  <2>1. /\ Target(c) \in Rules
        /\ event.revision = old(Target(c)) + 1
        /\ event.rule = Target(c)
        /\ audit' = audit \cup {event}
        /\ new(Target(c)) = old(Target(c)) + 1
        /\ \A r \in Rules : r # Target(c) => new(r) = old(r)
    <3>1. /\ Target(c) \in Rules /\ phase[c] = "commit"
          /\ RevisionOf(draft[c]) = RevisionOf(rules[Target(c)]) + 1
      BY <1>2, DraftFacts DEF Commit
    <3>2. before[c] = RevisionOf(rules[Target(c)])
      BY <3>1 DEF StoreInv, LockedRowIsCurrent, TxnCurrent
    <3> QED
      BY <1>2, <3>1, <3>2 DEF Commit, StoreInv, RegTypeOK
  <2>2. \A r \in Rules : /\ old(r) \in Nat /\ RevisionOf(Seed[r]) \in Nat
                         /\ RevisionOf(Seed[r]) <= old(r)
    BY RevisionIsNat, RegistrationAssumption
    DEF StoreInv, RegTypeOK, Bookkeeping
  <2>3. \A e \in audit : e.revision \in Nat
    BY DEF StoreInv, RegTypeOK, Event
  <2> HIDE DEF old, new, event
  <2>4. ASSUME NEW r \in Rules
        PROVE  /\ \A n \in RevisionOf(Seed[r]) + 1 .. new(r) :
                     \E e \in audit' : e.rule = r /\ e.revision = n
               /\ \A e \in audit' : e.rule = r =>
                     e.revision \in RevisionOf(Seed[r]) + 1 .. new(r)
               /\ \A e, f \in audit' :
                     e.rule = r /\ f.rule = r /\ e.revision = f.revision
                     => e = f
    <3>1. /\ \A n \in RevisionOf(Seed[r]) + 1 .. old(r) :
                \E e \in audit : e.rule = r /\ e.revision = n
          /\ \A e \in audit : e.rule = r =>
                e.revision \in RevisionOf(Seed[r]) + 1 .. old(r)
          /\ \A e, f \in audit :
                e.rule = r /\ f.rule = r /\ e.revision = f.revision => e = f
      BY DEF AuditPerRevision, old
    <3>2. CASE r # Target(c)
      BY <2>1, <3>1, <3>2
    <3>3. CASE r = Target(c)
      BY <2>1, <2>2, <2>3, <3>1, <3>3
    <3> QED
      BY <3>2, <3>3
  <2> QED
    BY <2>4 DEF AuditPerRevision, new
<1> QED
  BY <1>1, <1>2

(***************************************************************************)
(* CreateDesired and ReplaceDesired audit every revision exactly once.     *)
(***************************************************************************)
THEOREM AuditCorrect == RegSpec => []AuditPerRevision
<1>1. RegInit => AuditPerRevision
  <2> SUFFICES ASSUME RegInit PROVE AuditPerRevision
    OBVIOUS
  <2>1. ASSUME NEW r \in Rules, NEW n \in RevisionOf(Seed[r]) + 1 ..
                                          RevisionOf(rules[r])
        PROVE  FALSE
    <3>1. RevisionOf(Seed[r]) \in Nat /\ rules[r] = Seed[r]
      BY RevisionIsNat, RegistrationAssumption DEF RegInit
    <3> QED
      BY <2>1, <3>1
  <2>2. audit = {}
    BY DEF RegInit
  <2> QED
    BY <2>1, <2>2 DEF AuditPerRevision
<1> QED
  BY <1>1, InitStore, StepStore, StepAudit, PTL DEF RegSpec

\* A commit records its request with the answer; a refusal records nothing.
LEMMA StepAnswers ==
    StoreInv /\ AnswerMatchesRecord /\ [RegNext]_regVars
    => AnswerMatchesRecord'
<1> SUFFICES ASSUME StoreInv, AnswerMatchesRecord, [RegNext]_regVars
             PROVE  AnswerMatchesRecord'
  OBVIOUS
<1>0. \A e \in audit : e.by \in Requests /\ phase[e.by] \in {"ok", "error"}
  BY DEF StoreInv, RegTypeOK, Bookkeeping, Event
<1>1. CASE \E c \in Requests : Commit(c)
  <2>1. PICK c \in Requests : Commit(c)
    BY <1>1
  <2> DEFINE event == [by |-> c, rule |-> Target(c), revision |-> before[c] + 1]
  <2>2. /\ audit' = audit \cup {event} /\ input' = input
        /\ event.by = c /\ event.rule = Target(c)
        /\ phase'[c] \in {"ok", "error"} /\ phase[c] = "commit"
        /\ \A d \in Requests \ {c} : phase'[d] = phase[d]
    BY <2>1 DEF Commit, StoreInv, RegTypeOK, Answer
  <2>3. event.revision = IF input[c].kind = "create"
                           THEN 1 ELSE input[c].expected + 1
    <3>1. TxnCurrent(c) /\ input[c] \in Input
      BY <2>2 DEF StoreInv, LockedRowIsCurrent, Bookkeeping
    <3> QED
      BY <2>2, <3>1 DEF TxnCurrent, RevisionOf, Input
  <2>4. \A e \in audit : e.by # c
    BY <1>0, <2>2
  <2> HIDE DEF event
  <2> QED
    BY <2>2, <2>3, <2>4 DEF AnswerMatchesRecord, Target
<1>2. CASE ~(\E c \in Requests : Commit(c))
  <2>1. audit' = audit
    BY <1>2, OnlyCommit
  <2>2. ASSUME NEW c \in Requests, \E e \in audit : e.by = c
        PROVE  input'[c] = input[c] /\ phase[c] \in {"ok", "error"}
    <3>1. phase[c] \in {"ok", "error"}
      BY <1>0, <2>2
    <3>2. CASE OperatorStep
      BY <3>1, <3>2
      DEF OperatorStep, Submit, RequestStep, CreateInsert, ReplaceSelect,
          ReplaceUpdate, AuditInsert, Commit, Abort, StoreInv, RegTypeOK
    <3>3. CASE StatusStep
      BY <3>1, <3>3, StatusStepFacts DEF StatusStep, StoreInv, requestVars
    <3>4. CASE UNCHANGED regVars
      BY <3>1, <3>4 DEF regVars
    <3> QED
      BY <3>2, <3>3, <3>4 DEF RegNext
  <2>3. ASSUME NEW c \in Requests
        PROVE  /\ phase'[c] = "ok" => phase[c] = "ok"
               /\ phase[c] \in {"ok", "error"} => phase'[c] = phase[c]
    <3>1. CASE OperatorStep
      BY <1>2, <3>1
      DEF OperatorStep, Submit, RequestStep, CreateInsert, ReplaceSelect,
          ReplaceUpdate, AuditInsert, Abort, StoreInv, RegTypeOK, Answer,
          Working
    <3>2. CASE StatusStep \/ UNCHANGED regVars
      BY <3>2 DEF StatusStep, MarkConverged, MarkError, requestVars, regVars
    <3> QED
      BY <3>1, <3>2 DEF RegNext
  <2> QED
    BY <2>1, <2>2, <2>3 DEF AnswerMatchesRecord, Target
<1> QED
  BY <1>1, <1>2

(***************************************************************************)
(* Operators can rely on the answers of the registration API.              *)
(***************************************************************************)
THEOREM AnswersCorrect == RegSpec => []AnswerMatchesRecord
<1>1. RegInit => AnswerMatchesRecord
  BY DEF RegInit, AnswerMatchesRecord
<1> QED
  BY <1>1, InitStore, StepStore, StepAnswers, PTL DEF RegSpec

-----------------------------------------------------------------------------
(* The refinement of RevisionedStore.                                       *)

\* The answer a request has got and what the abstract store calls it.
LEMMA OutcomeFacts ==
    /\ \A a \in {"new"} \cup Working : OutcomeOf(a) = "pending"
    /\ OutcomeOf("invalid") = "refused" /\ OutcomeOf("notfound") = "refused"
    /\ OutcomeOf("conflict") = "stale"
    /\ OutcomeOf("ok") = "ok" /\ OutcomeOf("error") = "error"
BY DEF OutcomeOf, Working

\* An empty table of requests over the seed is the abstract initial state.
LEMMA StoreInitMaps == RegInit => Store!Init
<1> SUFFICES ASSUME RegInit PROVE Store!Init
  OBVIOUS
<1>1. storeRevision = [r \in Rules |-> RevisionOf(Seed[r])]
  BY DEF RegInit, storeRevision
<1>2. storeLog = {}
  BY DEF RegInit, storeLog
<1>3. storeAsked = [c \in Requests |-> None]
  BY DEF RegInit, storeAsked
<1>4. storeAnswer = [c \in Requests |-> "pending"]
  BY OutcomeFacts DEF RegInit, storeAnswer
<1> QED
  BY <1>1, <1>2, <1>3, <1>4 DEF Store!Init

\* A step of one request that neither commits nor submits shows as nothing
\* but its answer.
LEMMA AnswerShows ==
    ASSUME StoreInv, NEW c \in Requests, NEW a, input' = input,
           phase' = [phase EXCEPT ![c] = a]
    PROVE  /\ storeAsked' = storeAsked
           /\ storeAnswer' = [storeAnswer EXCEPT ![c] = OutcomeOf(a)]
<1>1. storeAsked' = storeAsked
  BY DEF storeAsked
<1>2. storeAnswer' = [storeAnswer EXCEPT ![c] = OutcomeOf(a)]
  BY DEF StoreInv, RegTypeOK, storeAnswer
<1> QED
  BY <1>1, <1>2

\* Without a commit the abstract revisions and log stand still.
LEMMA RecordStands ==
    ASSUME StoreInv, [RegNext]_regVars, \A c \in Requests : ~Commit(c)
    PROVE  storeRevision' = storeRevision /\ storeLog' = storeLog
BY OnlyCommit DEF storeRevision, storeLog

\* A request in a transaction is pending, and asks for what its body says.
LEMMA WorkingIsPending ==
    ASSUME StoreInv, NEW c \in Requests, phase[c] \in Working
    PROVE  /\ Store!Pending(c)
           /\ storeAnswer[c] = "pending"
           /\ storeAsked[c].object = Target(c)
           /\ storeAsked[c].expected =
                 IF input[c].kind = "create" THEN 0 ELSE input[c].expected
           /\ Target(c) \in Rules
<1>1. input[c] \in Input /\ input[c] # None
  BY RegistrationAssumption DEF StoreInv, Bookkeeping, Working
<1>2. AskOf(input[c]) \in [object : Rules, expected : Nat]
  BY <1>1 DEF AskOf, Input
<1>3. storeAsked[c] = AskOf(input[c]) /\ storeAsked[c] # None
  BY <1>1, <1>2, RegistrationAssumption DEF storeAsked
<1>4. storeAnswer[c] = "pending"
  BY OutcomeFacts DEF storeAnswer
<1> QED
  BY <1>1, <1>3, <1>4 DEF Store!Pending, AskOf, Target, Input

\* A step that leaves a request in its transaction is not visible.
LEMMA Invisible ==
    ASSUME StoreInv, [RegNext]_regVars, \A d \in Requests : ~Commit(d),
           NEW c \in Requests, phase[c] \in Working, input' = input,
           NEW a \in Working, phase' = [phase EXCEPT ![c] = a]
    PROVE  UNCHANGED Store!storeVars
<1>1. storeRevision' = storeRevision /\ storeLog' = storeLog
  BY RecordStands
<1>2. /\ storeAsked' = storeAsked
      /\ storeAnswer' = [storeAnswer EXCEPT ![c] = OutcomeOf(a)]
  BY AnswerShows
<1>3. OutcomeOf(a) = storeAnswer[c]
  BY OutcomeFacts, WorkingIsPending
<1>4. storeAnswer' = storeAnswer
  BY <1>2, <1>3 DEF storeAnswer
<1> QED
  BY <1>1, <1>2, <1>4 DEF Store!storeVars

\* A step that ends a request without effect is a rejection; a conflict must
\* be justified by the revision at that moment.
LEMMA Rejected ==
    ASSUME StoreInv, [RegNext]_regVars, \A d \in Requests : ~Commit(d),
           NEW c \in Requests, phase[c] \in Working, input' = input,
           NEW a \in {"notfound", "conflict", "error"},
           phase' = [phase EXCEPT ![c] = a],
           a = "conflict" =>
              RevisionOf(rules[Target(c)]) # storeAsked[c].expected
    PROVE  Store!Reject(c)
<1>1. storeRevision' = storeRevision /\ storeLog' = storeLog
  BY RecordStands
<1>2. /\ storeAsked' = storeAsked
      /\ storeAnswer' = [storeAnswer EXCEPT ![c] = OutcomeOf(a)]
  BY AnswerShows
<1>3. Store!Pending(c)
  BY WorkingIsPending
<1>4. a = "conflict" =>
         storeRevision[storeAsked[c].object] # storeAsked[c].expected
  BY WorkingIsPending DEF storeRevision
<1> QED
  BY <1>1, <1>2, <1>3, <1>4, OutcomeFacts DEF Store!Reject

\* A commit is the abstract change.
LEMMA CommitSucceeds ==
    ASSUME StoreInv, NEW c \in Requests, Commit(c)
    PROVE  Store!Succeed(c)
<1> DEFINE o == Target(c)
           next == RevisionOf(rules[o]) + 1
<1>1. /\ phase[c] = "commit" /\ phase[c] \in Working
      /\ draft[c] \in Row /\ o \in Rules /\ RevisionOf(draft[c]) = next
  BY DraftFacts DEF Commit, Working
<1>2. before[c] = RevisionOf(rules[o])
  BY <1>1 DEF StoreInv, LockedRowIsCurrent, TxnCurrent
<1>3. storeAsked[c].object = o /\ storeAsked[c].expected = RevisionOf(rules[o])
  <2>1. input[c].kind \in {"create", "replace"}
    BY <1>1 DEF StoreInv, Bookkeeping, Input
  <2>2. /\ input[c].kind = "replace" => before[c] = input[c].expected
        /\ input[c].kind = "create" => rules[o] = NoRow
    BY <1>1 DEF StoreInv, LockedRowIsCurrent, TxnCurrent
  <2> QED
    BY <1>1, <1>2, <2>1, <2>2, WorkingIsPending DEF RevisionOf
<1>4. storeRevision' = [storeRevision EXCEPT ![o] = next]
  BY <1>1 DEF Commit, StoreInv, RegTypeOK, storeRevision
<1>5. storeLog' = storeLog \cup {[by |-> c, object |-> o, revision |-> next]}
  <2>1. audit' = audit \cup {[by |-> c, rule |-> o, revision |-> next]}
    BY <1>2 DEF Commit
  <2> DEFINE view(e) == [by |-> e.by, object |-> e.rule,
                         revision |-> e.revision]
             row == [by |-> c, rule |-> o, revision |-> next]
  <2>2. view(row) = [by |-> c, object |-> o, revision |-> next]
    OBVIOUS
  <2>3. storeLog = {view(e) : e \in audit} /\ storeLog' = {view(e) : e \in audit'}
    BY DEF storeLog
  <2>4. audit' = audit \cup {row}
    BY <2>1
  <2> HIDE DEF view, row
  <2> QED
    BY <2>2, <2>3, <2>4
<1>6. PICK a \in {"ok", "error"} : phase' = [phase EXCEPT ![c] = a]
  BY DEF Commit, Answer
<1>7. /\ storeAsked' = storeAsked
      /\ storeAnswer' = [storeAnswer EXCEPT ![c] = a]
  <2>1. OutcomeOf(a) = a
    BY OutcomeFacts
  <2>2. input' = input
    BY DEF Commit
  <2> QED
    BY <1>6, <2>1, <2>2, AnswerShows
<1>8. Store!Pending(c)
  BY <1>1, WorkingIsPending
<1>9. storeRevision[o] = RevisionOf(rules[o])
  BY <1>1 DEF storeRevision
<1> HIDE DEF o
<1> QED
  BY <1>3, <1>4, <1>5, <1>7, <1>8, <1>9 DEF Store!Succeed

\* The arrival of a request is an abstract one, refused at once or pending.
LEMMA SubmitSends ==
    ASSUME StoreInv, [RegNext]_regVars, NEW c \in Requests, Submit(c)
    PROVE  Store!Send(c)
<1>1. phase[c] = "new" /\ input[c] = None
  BY DEF Submit, StoreInv, Bookkeeping
<1>2. PICK i \in Inputs :
         /\ input' = [input EXCEPT ![c] = i]
         /\ phase' = [phase EXCEPT ![c] =
                         IF ValidInput(i) THEN "begin" ELSE "invalid"]
  BY DEF Submit
<1>3. i # None
  BY RegistrationAssumption
<1>4. storeAsked' = [storeAsked EXCEPT ![c] = AskOf(i)]
  BY <1>2, <1>3 DEF StoreInv, RegTypeOK, storeAsked
<1>5. PICK a \in {"begin", "invalid"} : phase' = [phase EXCEPT ![c] = a]
  BY <1>2
<1>6. storeAnswer' = [storeAnswer EXCEPT ![c] = OutcomeOf(a)]
  BY <1>5 DEF StoreInv, RegTypeOK, storeAnswer
<1>7. OutcomeOf(a) \in {"pending", "refused"}
  BY <1>5, OutcomeFacts DEF Working
<1>8. storeAsked[c] = None
  BY <1>1 DEF storeAsked
<1>9. storeRevision' = storeRevision /\ storeLog' = storeLog
  BY DEF Submit, storeRevision, storeLog
<1> QED
  BY <1>4, <1>6, <1>7, <1>8, <1>9 DEF Store!Send

\* Every step of the store is an abstract one or is not visible.
LEMMA StoreStepMaps ==
    StoreInv /\ [RegNext]_regVars => [Store!Next]_(Store!storeVars)
<1> SUFFICES ASSUME StoreInv, [RegNext]_regVars
             PROVE  Store!Next \/ UNCHANGED Store!storeVars
  OBVIOUS
<1>1. ASSUME NEW c \in Requests, Commit(c) PROVE Store!Next
  BY <1>1, CommitSucceeds DEF Store!Next
<1>2. ASSUME NEW c \in Requests, Submit(c) PROVE Store!Next
  BY <1>2, SubmitSends DEF Store!Next
<1>3. ASSUME \A d \in Requests : ~Commit(d), NEW c \in Requests,
             CreateInsert(c)
      PROVE  Store!Next \/ UNCHANGED Store!storeVars
  <2>1. phase[c] \in Working /\ input' = input
    BY <1>3 DEF CreateInsert, Working
  <2>2. \E a \in {"notfound", "error", "audit"} :
           phase' = [phase EXCEPT ![c] = a]
    BY <1>3 DEF CreateInsert, Answer
  <2>3. CASE phase' = [phase EXCEPT ![c] = "audit"]
    BY <1>3, <2>1, <2>3, Invisible DEF Working
  <2>4. ASSUME NEW a \in {"notfound", "error"},
               phase' = [phase EXCEPT ![c] = a]
        PROVE  Store!Next
    BY <1>3, <2>1, <2>4, Rejected DEF Store!Next
  <2> QED
    BY <2>2, <2>3, <2>4
<1>4. ASSUME \A d \in Requests : ~Commit(d), NEW c \in Requests,
             ReplaceSelect(c)
      PROVE  Store!Next \/ UNCHANGED Store!storeVars
  <2>1. phase[c] \in Working /\ input' = input /\ input[c].kind = "replace"
    BY <1>4 DEF ReplaceSelect, Working
  <2>2. \/ phase' = [phase EXCEPT ![c] = "notfound"]
        \/ /\ phase' = [phase EXCEPT ![c] = "conflict"]
           /\ rules[Target(c)] # NoRow
           /\ rules[Target(c)].revision # input[c].expected
        \/ phase' = [phase EXCEPT ![c] = "write"]
    BY <1>4 DEF ReplaceSelect, Answer
  <2>3. CASE phase' = [phase EXCEPT ![c] = "write"]
    BY <1>4, <2>1, <2>3, Invisible DEF Working
  <2>4. CASE phase' = [phase EXCEPT ![c] = "notfound"]
    BY <1>4, <2>1, <2>4, Rejected DEF Store!Next
  <2>5. CASE /\ phase' = [phase EXCEPT ![c] = "conflict"]
             /\ rules[Target(c)] # NoRow
             /\ rules[Target(c)].revision # input[c].expected
    <3>1. RevisionOf(rules[Target(c)]) # storeAsked[c].expected
      BY <2>1, <2>5, WorkingIsPending DEF RevisionOf
    <3> QED
      BY <1>4, <2>1, <2>5, <3>1, Rejected DEF Store!Next
  <2> QED
    BY <2>2, <2>3, <2>4, <2>5
<1>5. ASSUME \A d \in Requests : ~Commit(d), NEW c \in Requests,
             ReplaceUpdate(c)
      PROVE  UNCHANGED Store!storeVars
  <2>1. phase[c] = "write" /\ phase[c] \in Working /\ input' = input
    BY <1>5 DEF ReplaceUpdate, Working
  <2>2. rules[Target(c)].revision = input[c].expected
    <3>1. TxnCurrent(c) /\ input[c].kind = "replace"
      BY <2>1 DEF StoreInv, LockedRowIsCurrent, Bookkeeping
    <3> QED
      BY <2>1, <3>1 DEF TxnCurrent, RevisionOf
  <2>3. phase' = [phase EXCEPT ![c] = "audit"]
    BY <1>5, <2>2 DEF ReplaceUpdate
  <2> QED
    BY <1>5, <2>1, <2>3, Invisible DEF Working
<1>6. ASSUME \A d \in Requests : ~Commit(d), NEW c \in Requests,
             AuditInsert(c)
      PROVE  UNCHANGED Store!storeVars
  BY <1>6, Invisible DEF AuditInsert, Working
<1>7. ASSUME \A d \in Requests : ~Commit(d), NEW c \in Requests, Abort(c)
      PROVE  Store!Next
  BY <1>7, Rejected DEF Abort, Answer, Store!Next
<1>8. CASE (\A d \in Requests : ~Commit(d))
           /\ (StatusStep \/ UNCHANGED regVars)
  <2>1. input' = input /\ phase' = phase
    BY <1>8, StatusStepFacts
    DEF StatusStep, StoreInv, requestVars, regVars
  <2>2. storeAsked' = storeAsked /\ storeAnswer' = storeAnswer
    BY <2>1 DEF storeAsked, storeAnswer
  <2> QED
    BY <1>8, <2>2, RecordStands DEF Store!storeVars
<1> QED
  BY <1>1, <1>2, <1>3, <1>4, <1>5, <1>6, <1>7, <1>8
  DEF RegNext, OperatorStep, RequestStep

(***************************************************************************)
(* The mutation service implements the revisioned store for any number of  *)
(* rules and requests: CreateDesired and ReplaceDesired are atomic changes *)
(* of the revision the operator named.                                     *)
(***************************************************************************)
THEOREM StoreImplemented == RegSpec => ImplementsRevisionedStore
BY InitStore, StepStore, StoreInitMaps, StoreStepMaps, PTL
DEF RegSpec, ImplementsRevisionedStore, Store!Spec
=============================================================================
