-------------------------- MODULE ReconcilerProofs --------------------------
(***************************************************************************)
(* Proofs about the reconciler, for any number of rules, entries, requests *)
(* and overlapping runs, and for any failures: it is a well-behaved client *)
(* of the registration store (it implements RegSpec, so everything proved  *)
(* in RegistrationProofs holds of it), it is type correct, and it never    *)
(* binds, updates or deletes an entry of someone else as long as nobody    *)
(* else rewrites the hint of an entry.                                     *)
(***************************************************************************)
EXTENDS Reconciler, RegistrationProofs

\* What a run knows when it is about to make a call.
RunShape(p) ==
    /\ \A r \in todo[p] : snap[p][r] \in Row
    /\ pc[p] \in {"idle", "next"} => tgt[p] = None
    /\ pc[p] \notin {"idle", "next"} =>
          cur[p] \in Rules /\ snap[p][cur[p]] \in Row
    /\ pc[p] = "get" => Snap(p).entry # None
    /\ pc[p] = "get" /\ Snap(p).desired = "present" => Snap(p).match # NoMatch
    /\ pc[p] \in {"create", "update", "rebind"} => Snap(p).match # NoMatch
    /\ pc[p] \in {"update", "rebind", "delete"} => tgt[p] # None
    /\ pc[p] = "audit" => note[p] \in Operations
    /\ pc[p] = "mark" => note[p] \in Bindings \cup Unbindings
    /\ pc[p] \in {"audit", "mark"} /\ note[p] \in Bindings => tgt[p] # None
    /\ pc[p] = "fail" => note[p] \in Codes \ {"none"}

Shape == \A p \in Runners : RunShape(p)

RunInv == StoreInv /\ TypeOK /\ Shape

\* No run is under way at first.
LEMMA InitRun == Init => RunInv
<1> SUFFICES ASSUME Init PROVE RunInv
  OBVIOUS
<1>1. StoreInv
  BY InitStore DEF Init
<1>2. TypeOK
  BY <1>1, ReconcilerAssumption DEF StoreInv, Init, TypeOK, RunTypeOK, PCs,
     Codes
<1>3. Shape
  BY DEF Init, Shape, RunShape
<1> QED
  BY <1>1, <1>2, <1>3 DEF RunInv

\* Every step is a step of the store or leaves the store alone.
LEMMA StepRefines == RunInv /\ [Next]_vars => [RegNext]_regVars
<1> SUFFICES ASSUME RunInv, [Next]_vars PROVE [RegNext]_regVars
  OBVIOUS
<1>1. CASE RequestsStep
  BY <1>1 DEF RequestsStep, RegNext
<1>2. ASSUME NEW p \in Runners, MarkRule(p) PROVE [RegNext]_regVars
  <2>1. cur[p] \in Rules /\ Binding(p) \in Ids \cup {None}
    BY <1>2 DEF MarkRule, RunInv, Shape, RunShape, TypeOK, RunTypeOK, Binding
  <2> QED
    BY <1>2, <2>1 DEF MarkRule, RegNext, StatusStep
<1>3. ASSUME NEW p \in Runners, FailRule(p) PROVE [RegNext]_regVars
  <2>1. cur[p] \in Rules /\ note[p] \in Codes \ {"none"}
    BY <1>3 DEF FailRule, RunInv, Shape, RunShape
  <2> QED
    BY <1>3, <2>1 DEF FailRule, RegNext, StatusStep
<1>4. ASSUME NEW p \in Runners, RunStep(p) \/ Deadline(p) \/ Crash(p),
             ~MarkRule(p), ~FailRule(p)
      PROVE  UNCHANGED regVars
  BY <1>4 DEF RunStep, StartRun, ReconcileRule, EndRun, GetEntry, UpdateEntry,
              CreateEntry, RebindEntry, DeleteEntry, RecordAudit, AppendTrail,
              Deadline, Crash, StoreUnchanged
<1>5. CASE ExternalStep
  BY <1>5 DEF ExternalStep, StoreUnchanged
<1>6. CASE UNCHANGED vars
  BY <1>6 DEF vars
<1> QED
  BY <1>1, <1>2, <1>3, <1>4, <1>5, <1>6 DEF Next

\* The conditions under which a run may go on to call l.
MayCall(p, l, t, n) ==
    /\ l \in PCs \ {"idle", "next", "get"}
    /\ t \in Ids \cup {None} /\ n \in Operations \cup Codes
    /\ l \in {"create", "update", "rebind"} => Snap(p).match # NoMatch
    /\ l \in {"update", "rebind", "delete"} => t # None
    /\ l = "audit" => n \in Operations
    /\ l = "mark" => n \in Bindings \cup Unbindings
    /\ l \in {"audit", "mark"} /\ n \in Bindings => t # None
    /\ l = "fail" => n \in Codes \ {"none"}

Proceeds(p) ==
    \E l \in PCs, t \in Ids \cup {None}, n \in Operations \cup Codes :
       MayCall(p, l, t, n) /\ Goto(p, l, t, n)

\* A run that goes on to a call it may make keeps its shape.
LEMMA GotoShape ==
    ASSUME RunTypeOK, Shape, NEW p \in Runners,
           pc[p] \notin {"idle", "next"}, Proceeds(p)
    PROVE  RunTypeOK' /\ Shape'
<1>0. PICK l, t, n : MayCall(p, l, t, n) /\ Goto(p, l, t, n)
  BY DEF Proceeds
<1>1. RunTypeOK'
  BY <1>0 DEF RunTypeOK, MayCall, Goto
<1>2. RunShape(p)'
  BY <1>0 DEF RunTypeOK, Shape, RunShape, MayCall, Goto, Snap
<1>3. ASSUME NEW q \in Runners, q # p PROVE RunShape(q)'
  BY <1>0, <1>3 DEF RunTypeOK, Shape, RunShape, Goto, Snap
<1> QED
  BY <1>1, <1>2, <1>3 DEF Shape

\* So does a run that is done with its rule.
LEMMA LeaveShape ==
    ASSUME RunTypeOK, Shape, NEW p \in Runners, NEW fails \in SUBSET Rules,
           Leave(p, fails)
    PROVE  RunTypeOK' /\ Shape'
<1>1. RunTypeOK'
  BY DEF RunTypeOK, Leave, PCs, Codes
<1>2. RunShape(p)'
  BY DEF RunTypeOK, Shape, RunShape, Leave, Snap
<1>3. ASSUME NEW q \in Runners, q # p PROVE RunShape(q)'
  BY <1>3 DEF RunTypeOK, Shape, RunShape, Leave, Snap
<1> QED
  BY <1>1, <1>2, <1>3 DEF Shape

\* A run keeps its shape, and the shape of the others.
LEMMA StepShape ==
    ASSUME RunInv, NEW p \in Runners, RunStep(p) \/ Deadline(p) \/ Crash(p)
    PROVE  RunTypeOK' /\ Shape'
<1> USE DEF RunInv
<1>0. /\ RunTypeOK /\ RunShape(p)
      /\ pc[p] \notin {"idle", "next"} =>
            cur[p] \in Rules /\ Snap(p) \in Row
      /\ tgt[p] \in Ids \cup {None}
  BY DEF TypeOK, Shape, RunShape, Snap, RunTypeOK
<1>1. CASE StartRun(p)
  <2>1. RunTypeOK'
    BY <1>0, <1>1 DEF StartRun, RunTypeOK, TypeOK, RegTypeOK, PCs
  <2>2. ASSUME NEW q \in Runners PROVE RunShape(q)'
    BY <1>0, <1>1, <2>2
    DEF StartRun, RunTypeOK, TypeOK, RegTypeOK, Shape, RunShape, Snap
  <2> QED
    BY <2>1, <2>2 DEF Shape
<1>2. CASE ReconcileRule(p)
  <2>1. PICK r \in todo[p] :
           /\ todo' = [todo EXCEPT ![p] = @ \ {r}]
           /\ cur' = [cur EXCEPT ![p] =
                  IF FirstCall(snap[p][r])[1] = "next" THEN None ELSE r]
           /\ pc' = [pc EXCEPT ![p] = FirstCall(snap[p][r])[1]]
           /\ note' = [note EXCEPT ![p] = FirstCall(snap[p][r])[2]]
           /\ UNCHANGED <<snap, tgt, failed, expired>> /\ pc[p] = "next"
    BY <1>2 DEF ReconcileRule
  <2>2. r \in Rules /\ snap[p][r] \in Row
    BY <1>0, <2>1 DEF RunTypeOK, RunShape
  <2> DEFINE row == snap[p][r]
             l == FirstCall(row)[1]
             n == FirstCall(row)[2]
  <2>3. /\ <<l, n>> \in {<<"fail", "invalid_desired_state">>,
               <<"create", "none">>, <<"get", "none">>,
               <<"audit", "absent_noop">>, <<"next", "none">>}
        /\ l = "get" => row.entry # None
        /\ l = "get" /\ row.desired = "present" => row.match # NoMatch
        /\ l = "create" => row.match # NoMatch
    BY DEF FirstCall
  <2>4. /\ l \in PCs \ {"idle", "update", "rebind", "delete", "mark"}
        /\ n \in Operations \cup Codes
        /\ l = "audit" => n = "absent_noop"
        /\ l = "fail" => n = "invalid_desired_state"
    BY <2>3 DEF PCs, Operations, Unbindings, Codes
  <2> HIDE DEF l, n
  <2>5. /\ pc' = [pc EXCEPT ![p] = l] /\ note' = [note EXCEPT ![p] = n]
        /\ cur' = [cur EXCEPT ![p] = IF l = "next" THEN None ELSE r]
    BY <2>1 DEF l, n
  <2>6. RunTypeOK'
    BY <1>0, <2>1, <2>2, <2>4, <2>5 DEF RunTypeOK
  <2>7. RunShape(p)'
    BY <1>0, <2>1, <2>2, <2>3, <2>4, <2>5
    DEF RunTypeOK, RunShape, Snap, Operations, Unbindings, Bindings, Codes
  <2>8. ASSUME NEW q \in Runners, q # p PROVE RunShape(q)'
    BY <1>0, <2>1, <2>5, <2>8 DEF RunTypeOK, Shape, RunShape, Snap
  <2> QED
    BY <2>6, <2>7, <2>8 DEF Shape
<1>3. CASE EndRun(p) \/ Crash(p)
  <2>1. RunTypeOK'
    <3>1. CASE EndRun(p)
      BY <1>0, <3>1 DEF EndRun, RunTypeOK, PCs
    <3>2. CASE Crash(p)
      BY <1>0, <3>2 DEF Crash, RunTypeOK, PCs, Codes
    <3> QED
      BY <1>3, <3>1, <3>2
  <2>2. RunShape(p)'
    BY <1>0, <1>3 DEF EndRun, Crash, RunTypeOK, Shape, RunShape, Snap
  <2>3. ASSUME NEW q \in Runners, q # p PROVE RunShape(q)'
    BY <1>0, <1>3, <2>3 DEF EndRun, Crash, RunTypeOK, Shape, RunShape, Snap
  <2> QED
    BY <2>1, <2>2, <2>3 DEF Shape
<1>4. CASE Deadline(p)
  <2>1. RunTypeOK'
    BY <1>0, <1>4 DEF Deadline, RunTypeOK
  <2>2. ASSUME NEW q \in Runners PROVE RunShape(q)'
    BY <1>4 DEF Deadline, Shape, RunShape, Snap
  <2> QED
    BY <2>1, <2>2 DEF Shape
<1>5. CASE GetEntry(p)
  <2> DEFINE e == Snap(p).entry
  <2>1. pc[p] = "get" /\ e \in Ids
    BY <1>0, <1>5 DEF GetEntry, RunShape, Row
  <2> HIDE DEF e
  <2>2. \/ Converged(p)
        \/ Proceeds(p)
    BY <1>0, <1>5, <2>1 DEF GetEntry, GetMissing, GetForeign, GetOwned,
       GetFails, Proceeds, MayCall, RunShape, PCs, Operations, Bindings,
       Unbindings,
       Codes, Row, DesiredStates, e
  <2> QED
    BY <1>0, <2>1, <2>2, GotoShape, LeaveShape DEF Converged
<1>6. CASE UpdateEntry(p)
  <2>1. pc[p] = "update" /\ Proceeds(p)
    BY <1>0, <1>6 DEF UpdateEntry, ApplyUpdate, UpdateMissing, Proceeds,
       MayCall, RunShape, PCs, Operations,
       Bindings, Unbindings, Codes
  <2> QED
    BY <1>0, <2>1, GotoShape
<1>7. CASE CreateEntry(p)
  <2>0. pc[p] = "create" /\ Snap(p).match # NoMatch
    BY <1>0, <1>7 DEF CreateEntry, RunShape
  <2>1. CASE \E e \in Ids : CreateExisting(p, e)
    <3>1. PICK e \in Ids :
             \/ Goto(p, "audit", e, "ownership_conflict")
             \/ Goto(p, "audit", e, "bind_owned_existing")
             \/ Goto(p, "rebind", e, "none")
      BY <2>1 DEF CreateExisting
    <3>2. e # None
      BY RegistrationAssumption
    <3>3. Proceeds(p)
      BY <2>0, <3>1, <3>2 DEF Proceeds, MayCall, PCs, Operations, Bindings,
         Unbindings, Codes
    <3> QED
      BY <1>0, <2>0, <3>3, GotoShape
  <2>2. CASE ~(\E e \in Ids : CreateExisting(p, e))
    <3>1. \/ \E e \in Ids : Goto(p, "audit", e, "create")
          \/ Goto(p, "fail", None, "spire_create_failed")
      BY <1>7, <2>2 DEF CreateEntry
    <3>2. \A e \in Ids : e # None
      BY RegistrationAssumption
    <3>3. Proceeds(p)
      BY <3>1, <3>2 DEF Proceeds, MayCall, PCs, Operations, Bindings, Codes
    <3> QED
      BY <1>0, <2>0, <3>3, GotoShape
  <2> QED
    BY <2>1, <2>2
<1>8. CASE RebindEntry(p)
  <2>1. pc[p] = "rebind" /\ Proceeds(p)
    BY <1>0, <1>8 DEF RebindEntry, ApplyUpdate, UpdateMissing, Proceeds,
       MayCall, RunShape, PCs, Operations,
       Bindings, Unbindings, Codes
  <2> QED
    BY <1>0, <2>1, GotoShape
<1>9. CASE DeleteEntry(p)
  <2>1. pc[p] = "delete" /\ Proceeds(p)
    BY <1>0, <1>9 DEF DeleteEntry, ApplyDelete, Proceeds, MayCall, RunShape,
       PCs, Operations,
       Bindings, Unbindings, Codes
  <2> QED
    BY <1>0, <2>1, GotoShape
<1>10. CASE RecordAudit(p)
  <2>1. /\ pc[p] = "audit"
        /\ \/ Failed(p)
           \/ Proceeds(p)
    BY <1>0, <1>10 DEF RecordAudit, Proceeds, MayCall, RunShape, PCs,
       Operations,
       Bindings, Unbindings, Codes
  <2> QED
    BY <1>0, <2>1, GotoShape, LeaveShape DEF Failed
<1>11. CASE MarkRule(p) \/ FailRule(p)
  BY <1>0, <1>11, LeaveShape DEF MarkRule, FailRule, Converged, Failed
<1> QED
  BY <1>1, <1>2, <1>3, <1>4, <1>5, <1>6, <1>7, <1>8, <1>9, <1>10, <1>11
  DEF RunStep

\* SPIRE only ever holds entries, the trail only events of rules.
LEMMA StepSpire ==
    ASSUME RunInv, NEW p \in Runners, RunStep(p) \/ Deadline(p) \/ Crash(p)
    PROVE  /\ entries' \in [Ids -> Entry \cup {Unused, Gone}]
           /\ trail' \subseteq TrailEvent
           /\ disturbances' \in 0..MaxDisturbances
           /\ unaudited' \subseteq Rules
<1> USE DEF RunInv, TypeOK
<1>0. disturbances' \in 0..MaxDisturbances
  <2>1. UNCHANGED disturbances \/ Disturb
    BY DEF RunStep, StartRun, ReconcileRule, EndRun, GetEntry, GetMissing,
       GetForeign, GetOwned, GetFails, UpdateEntry, UpdateMissing,
       CreateEntry, CreateExisting, RebindEntry, DeleteEntry, RecordAudit,
       MarkRule, FailRule, Deadline, Crash, Works, Fails, ReplyLost
  <2> QED
    BY <2>1, ReconcilerAssumption DEF Disturb
<1>1. pc[p] \notin {"idle", "next"} =>
         /\ cur[p] \in Rules
         /\ pc[p] \in {"create", "update", "rebind"} => Desired(p) \in Entry
         /\ pc[p] \in {"audit", "mark"} => tgt[p] \in Ids \cup {None}
         /\ pc[p] = "audit" => note[p] \in Operations
  BY DEF Shape, RunShape, RunTypeOK, Desired, DesiredEntry, Snap, Entry, Row
<1>2. CASE RecordAudit(p)
  BY <1>0, <1>1, <1>2
  DEF RecordAudit, AppendTrail, TrailEvent, StoreUnchanged, SpireUnchanged
<1>3. CASE UpdateEntry(p) \/ RebindEntry(p)
  BY <1>0, <1>1, <1>3 DEF UpdateEntry, RebindEntry, UpdateMissing,
     ApplyUpdate, Put, Mutated, StoreUnchanged, SpireUnchanged
<1>4. CASE CreateEntry(p)
  BY <1>0, <1>1, <1>4 DEF CreateEntry, CreateExisting, ApplyCreate, Put,
     Mutated, StoreUnchanged, SpireUnchanged
<1>5. CASE DeleteEntry(p)
  BY <1>0, <1>1, <1>5 DEF DeleteEntry, ApplyDelete, Put, Mutated,
     StoreUnchanged, SpireUnchanged
<1>6. CASE \/ StartRun(p) \/ ReconcileRule(p) \/ EndRun(p) \/ GetEntry(p)
           \/ MarkRule(p) \/ FailRule(p) \/ Deadline(p) \/ Crash(p)
  BY <1>0, <1>6 DEF StartRun, ReconcileRule, EndRun, GetEntry, MarkRule,
     FailRule, Deadline, Crash, StoreUnchanged, SpireUnchanged
<1> QED
  BY <1>2, <1>3, <1>4, <1>5, <1>6 DEF RunStep

\* The store, the types and the shape of all runs survive every step.
LEMMA StepRun == RunInv /\ [Next]_vars => RunInv'
<1> SUFFICES ASSUME RunInv, [Next]_vars PROVE RunInv'
  OBVIOUS
<1>1. StoreInv' /\ RegTypeOK'
  BY StepRefines, StepStore DEF RunInv, StoreInv
<1>2. ASSUME NEW p \in Runners, RunStep(p) \/ Deadline(p) \/ Crash(p)
      PROVE  RunInv'
  BY <1>1, <1>2, StepShape, StepSpire DEF RunInv, TypeOK
<1>3. CASE RequestsStep \/ UNCHANGED vars
  BY <1>1, <1>3 DEF RunInv, TypeOK, RequestsStep, vars, runVars, RunTypeOK,
     Shape, RunShape, Snap
<1>4. CASE ExternalStep
  <2>1. entries' \in [Ids -> Entry \cup {Unused, Gone}]
    <3>1. PICK e \in Ids, x \in Entry \cup {Gone} : Put(e, x)
      <4>1. CASE ExternalCreate
        BY <4>1 DEF ExternalCreate, Entry
      <4>2. CASE ExternalDelete
        BY <4>2 DEF ExternalDelete
      <4>3. CASE ExternalDrift
        BY <4>3 DEF ExternalDrift, Live, Entry
      <4>4. CASE ExternalTakeover
        BY <4>4 DEF ExternalTakeover, Live, Entry
      <4> QED
        BY <1>4, <4>1, <4>2, <4>3, <4>4 DEF ExternalStep
    <3> QED
      BY <3>1 DEF Put, RunInv, TypeOK
  <2>2. disturbances' \in 0..MaxDisturbances
    BY <1>4, ReconcilerAssumption DEF ExternalStep, Disturb, RunInv, TypeOK
  <2> QED
    BY <1>1, <1>4, <2>1, <2>2 DEF ExternalStep, RunInv, TypeOK, runVars,
       StoreUnchanged, RunTypeOK, Shape, RunShape, Snap
<1> QED
  BY <1>2, <1>3, <1>4 DEF Next

(***************************************************************************)
(* The reconciler and its tables are type correct.                         *)
(***************************************************************************)
THEOREM TypeCorrect == Spec => []TypeOK
<1>1. RunInv => TypeOK
  BY DEF RunInv
<1> QED
  BY <1>1, InitRun, StepRun, PTL DEF Spec

(***************************************************************************)
(* MarkConverged and MarkError are the only ways the reconciler writes to  *)
(* the table: the composed system implements the registration store.       *)
(***************************************************************************)
THEOREM ImplementsStore == Spec => RegSpec
<1>1. Init => RegInit
  BY DEF Init
<1> QED
  BY <1>1, InitRun, StepRun, StepRefines, PTL DEF Spec, RegSpec

(***************************************************************************)
(* Whatever runs, crashes and failures the reconciler goes through, the    *)
(* operators' changes stay audited one by one.                             *)
(***************************************************************************)
THEOREM AuditStillCorrect == Spec => []AuditPerRevision
BY ImplementsStore, AuditCorrect, PTL

(***************************************************************************)
(* Operators see an atomic, revisioned store also while any number of      *)
(* reconciler runs mark, fail and crash around their transactions.         *)
(***************************************************************************)
THEOREM StoreStillImplemented == Spec => ImplementsRevisionedStore
BY ImplementsStore, StoreImplemented, PTL
-----------------------------------------------------------------------------
NoTakeover == "takeover" \notin External

\* Ownership is for life: hints change neither by updates of the reconciler,
\* which checked them, nor by other clients.
LEMMA OwnedStays ==
    ASSUME NoTakeover, RunInv, Ownership, [Next]_vars,
           NEW e \in Ids, NEW r \in Rules, OwnedOrGone(e, r)
    PROVE  OwnedOrGone(e, r)'
<1> USE DEF OwnedOrGone, Live, Owned
<1>0. /\ entries \in [Ids -> Entry \cup {Unused, Gone}]
      /\ Unused \notin Entry /\ Gone \notin Entry /\ Unused # Gone
  BY ReconcilerAssumption DEF RunInv, TypeOK
<1>1. ASSUME NEW p \in Runners, ApplyUpdate(p), pc[p] \in {"update", "rebind"}
      PROVE  OwnedOrGone(e, r)'
  <2>1. /\ tgt[p] \in Ids /\ TargetOwned(p) /\ tgt[p] # None
        /\ Desired(p) \in Entry /\ Desired(p).hint = cur[p]
    BY <1>1 DEF RunInv, TypeOK, RunTypeOK, Shape, RunShape, Ownership,
       Desired, DesiredEntry, Snap, Entry, Row
  <2> QED
    BY <1>0, <1>1, <2>1 DEF ApplyUpdate, Put, TargetOwned
<1>2. ASSUME NEW p \in Runners, NEW d \in Ids, ApplyCreate(p, d)
      PROVE  OwnedOrGone(e, r)'
  BY <1>0, <1>2 DEF ApplyCreate, Fresh, Put
<1>3. ASSUME NEW p \in Runners, ApplyDelete(p)
      PROVE  OwnedOrGone(e, r)'
  BY <1>0, <1>3 DEF ApplyDelete, Put
<1>4. ASSUME NEW p \in Runners, RunStep(p) \/ Deadline(p) \/ Crash(p)
      PROVE  \/ UNCHANGED entries
             \/ ApplyUpdate(p) /\ pc[p] \in {"update", "rebind"}
             \/ \E d \in Ids : ApplyCreate(p, d)
             \/ ApplyDelete(p)
  BY <1>4 DEF RunStep, StartRun, ReconcileRule, EndRun, GetEntry, UpdateEntry,
     UpdateMissing, CreateEntry, CreateExisting, RebindEntry, DeleteEntry,
     RecordAudit, AppendTrail, MarkRule, FailRule, Deadline, Crash,
     SpireUnchanged
<1>5. CASE ExternalStep
  <2>1. CASE ExternalCreate
    BY <1>0, <2>1 DEF ExternalCreate, Fresh, Put
  <2>2. CASE ExternalDelete
    BY <1>0, <2>2 DEF ExternalDelete, Put
  <2>3. CASE ExternalDrift
    <3>1. PICK d \in Ids, m \in Matches, t \in TTLs :
             /\ Live(d)
             /\ Put(d, [spiffe |-> entries[d].spiffe, match |-> m, ttl |-> t,
                        hint |-> entries[d].hint])
      BY <2>3 DEF ExternalDrift
    <3> QED
      BY <1>0, <3>1 DEF Put, Entry
  <2> QED
    BY <1>5, <2>1, <2>2, <2>3
    DEF ExternalStep, ExternalTakeover, NoTakeover
<1>6. CASE RequestsStep \/ UNCHANGED vars
  BY <1>6 DEF RequestsStep, vars
<1> QED
  BY <1>1, <1>2, <1>3, <1>4, <1>5, <1>6 DEF Next

\* A row whose binding is owned stays so whatever happens in SPIRE.
LEMMA RowStays ==
    ASSUME NoTakeover, RunInv, Ownership, [Next]_vars,
           NEW r \in Rules, NEW row \in Row \cup {NoRow}, RowOwned(row, r)
    PROVE  RowOwned(row, r)'
<1>1. row # NoRow => row.entry \in Ids \cup {None}
  BY DEF Row
<1> QED
  BY <1>1, OwnedStays DEF RowOwned

\* The rows that a request or a status statement writes are bound to entries
\* that were owned before.
LEMMA WrittenOwned ==
    ASSUME RunInv, Ownership, [Next]_vars
    PROVE  \A r \in Rules : RowOwned(rules'[r], r)
<1> USE DEF RunInv, StoreInv
<1>1. CASE RequestsStep
  <2>1. PICK c \in Requests : Submit(c) \/ RequestStep(c) \/ Abort(c)
    BY <1>1 DEF RequestsStep, OperatorStep
  <2>2. CASE Commit(c)
    BY <2>2, DraftFacts DEF Commit, RegTypeOK, Ownership
  <2>3. CASE ~Commit(c)
    BY <2>1, <2>3 DEF RequestStep, Submit, CreateInsert, ReplaceSelect,
       ReplaceUpdate, AuditInsert, Abort, Ownership
  <2> QED
    BY <2>2, <2>3
<1>2. ASSUME NEW p \in Runners, MarkRule(p)
      PROVE  \A r \in Rules : RowOwned(rules'[r], r)
  <2>1. cur[p] \in Rules /\ TargetOwned(p) /\ pc[p] = "mark"
    BY <1>2 DEF MarkRule, Shape, RunShape, Ownership
  <2>2. CASE MarkConverged(cur[p], Binding(p))
    <3>1. WithStatus(rules[cur[p]], Binding(p), "converged", "none").entry
             = Binding(p)
      BY DEF WithStatus
    <3> QED
      BY <2>1, <2>2, <3>1
      DEF MarkConverged, Binding, TargetOwned, RegTypeOK, Ownership, RowOwned
  <2>3. CASE UNCHANGED regVars
    BY <2>3 DEF regVars, Ownership
  <2> QED
    BY <1>2, <2>2, <2>3 DEF MarkRule
<1>3. ASSUME NEW p \in Runners, FailRule(p)
      PROVE  \A r \in Rules : RowOwned(rules'[r], r)
  <2>1. cur[p] \in Rules
    BY <1>3 DEF FailRule, Shape, RunShape
  <2>2. CASE MarkError(cur[p], note[p])
    <3>1. WithStatus(rules[cur[p]], rules[cur[p]].entry, "error", note[p]).entry
             = rules[cur[p]].entry
      BY DEF WithStatus
    <3> QED
      BY <2>1, <2>2, <3>1 DEF MarkError, RegTypeOK, Ownership, RowOwned
  <2>3. CASE UNCHANGED regVars
    BY <2>3 DEF regVars, Ownership
  <2> QED
    BY <1>3, <2>2, <2>3 DEF FailRule
<1>4. CASE UNCHANGED regVars
  BY <1>4 DEF regVars, Ownership
<1>5. ASSUME NEW p \in Runners, RunStep(p) \/ Deadline(p) \/ Crash(p),
             ~MarkRule(p), ~FailRule(p)
      PROVE  UNCHANGED regVars
  BY <1>5 DEF RunStep, StartRun, ReconcileRule, EndRun, GetEntry, UpdateEntry,
              CreateEntry, RebindEntry, DeleteEntry, RecordAudit, AppendTrail,
              Deadline, Crash, StoreUnchanged
<1> QED
  BY <1>1, <1>2, <1>3, <1>4, <1>5
  DEF Next, ExternalStep, StoreUnchanged, vars

\* An uncommitted replacement is bound to what its committed row is bound to.
LEMMA DraftsOwned ==
    ASSUME RunInv, Ownership, [Next]_vars
    PROVE  \A c \in Requests : /\ RowOwned(draft'[c], Target(c)')
                               /\ draft'[c] # NoRow => Target(c)' \in Rules
<1> USE DEF RunInv, StoreInv
<1>1. CASE RequestsStep
  <2>1. PICK c \in Requests : Submit(c) \/ RequestStep(c) \/ Abort(c)
    BY <1>1 DEF RequestsStep, OperatorStep
  <2>2. /\ RowOwned(draft'[c], Target(c)')
        /\ draft'[c] # NoRow => Target(c)' \in Rules
    <3>1. phase[c] # "new" => input[c] \in Input /\ Target(c) \in Rules
      BY DEF Bookkeeping, Target, Input
    <3>2. CASE Submit(c)
      BY <3>2 DEF Submit, Bookkeeping, RowOwned
    <3>3. CASE CreateInsert(c)
      BY <3>1, <3>3, WrittenRows
      DEF CreateInsert, Bookkeeping, RegTypeOK, RowOwned, Target
    <3>4. CASE ReplaceUpdate(c)
      <4>1. /\ draft'[c] \in {NoRow, Replaced(rules[Target(c)], input[c])}
            /\ rules[Target(c)] # NoRow
        BY <3>4 DEF ReplaceUpdate, RegTypeOK, LockedRowIsCurrent, TxnCurrent,
           Bookkeeping
      <4>2. Replaced(rules[Target(c)], input[c]).entry = rules[Target(c)].entry
        BY DEF Replaced
      <4> QED
        BY <3>1, <3>4, <4>1, <4>2
        DEF ReplaceUpdate, Ownership, RowOwned, Target
    <3>5. CASE ReplaceSelect(c) \/ AuditInsert(c)
      BY <3>1, <3>5
      DEF ReplaceSelect, AuditInsert, Ownership, Target
    <3>6. CASE Commit(c) \/ Abort(c)
      BY <3>6 DEF Commit, Abort, RegTypeOK, RowOwned
    <3> QED
      BY <2>1, <3>2, <3>3, <3>4, <3>5, <3>6 DEF RequestStep
  <2>3. ASSUME NEW d \in Requests, d # c
        PROVE  /\ RowOwned(draft'[d], Target(d)')
               /\ draft'[d] # NoRow => Target(d)' \in Rules
    <3>1. draft'[d] = draft[d] /\ input'[d] = input[d]
      BY <2>1, <2>3, OtherTransactions
    <3> QED
      BY <3>1 DEF Ownership, Target, Bookkeeping, Input
  <2> QED
    BY <2>2, <2>3
<1>2. CASE UNCHANGED <<draft, input, phase>>
  BY <1>2 DEF Ownership, Target, Bookkeeping, Input
<1>3. ASSUME NEW p \in Runners, RunStep(p) \/ Deadline(p) \/ Crash(p)
      PROVE  UNCHANGED <<draft, input, phase>>
  BY <1>3 DEF RunStep, StartRun, ReconcileRule, EndRun, GetEntry, UpdateEntry,
     CreateEntry, RebindEntry, DeleteEntry, RecordAudit, AppendTrail, MarkRule,
     FailRule, MarkConverged, MarkError, requestVars, Deadline, Crash,
     StoreUnchanged, regVars
<1> QED
  BY <1>1, <1>2, <1>3
  DEF Next, ExternalStep, StoreUnchanged, vars, regVars

\* The entry a run turns to next carries the hint of its rule, or is gone.
LEMMA TargetsOwned ==
    ASSUME NoTakeover, RunInv, Ownership, [Next]_vars, NEW p \in Runners,
           RunStep(p) \/ Deadline(p) \/ Crash(p)
    PROVE  TargetOwned(p)'
<1> USE DEF RunInv
<1>0. /\ RunTypeOK /\ RunShape(p) /\ TargetOwned(p)
      /\ pc[p] \notin {"idle", "next"} =>
            cur[p] \in Rules /\ Snap(p) \in Row /\ RowOwned(Snap(p), cur[p])
      /\ entries \in [Ids -> Entry \cup {Unused, Gone}]
      /\ tgt[p] \in Ids \cup {None}
  BY DEF TypeOK, RunTypeOK, Shape, RunShape, Snap, Ownership
<1>1. CASE pc'[p] \in {"idle", "next"}
  BY <1>1 DEF TargetOwned
<1>2. ASSUME NEW l, NEW t \in Ids \cup {None}, NEW n, Goto(p, l, t, n),
             cur[p] \in Rules,
             \/ l \in {"fail", "create"}
             \/ l = "audit" /\ n = "ownership_conflict"
             \/ t # None => OwnedOrGone(t, cur[p])
             \/ t # None => Live(t)' /\ entries'[t].hint = cur[p]
      PROVE  TargetOwned(p)'
  <2>1. pc'[p] = l /\ tgt'[p] = t /\ note'[p] = n /\ cur' = cur
    BY <1>0, <1>2 DEF Goto, RunTypeOK
  <2>2. CASE l \in {"fail", "create"} \/ (l = "audit" /\ n = "ownership_conflict")
    BY <2>1, <2>2 DEF TargetOwned
  <2>3. CASE t # None => OwnedOrGone(t, cur[p])
    <3>1. t # None => OwnedOrGone(t, cur[p])'
      <4>1. ASSUME NEW r \in Rules, r = cur[p], t # None
            PROVE  OwnedOrGone(t, r)'
        BY <2>3, <4>1, OwnedStays
      <4> QED
        BY <1>2, <2>1, <4>1
    <3> QED
      BY <2>1, <3>1 DEF TargetOwned
  <2>4. CASE t # None => Live(t)' /\ entries'[t].hint = cur[p]
    BY <2>1, <2>4 DEF TargetOwned, OwnedOrGone, Owned
  <2> QED
    BY <1>2, <2>2, <2>3, <2>4
<1>3. CASE ReconcileRule(p)
  <2>1. tgt'[p] = None
    BY <1>0, <1>3 DEF ReconcileRule, RunShape
  <2> QED
    BY <2>1 DEF TargetOwned
<1>4. CASE Deadline(p)
  <2>1. UNCHANGED <<pc, cur, tgt, note>>
    BY <1>4 DEF Deadline
  <2>2. ASSUME NEW t \in Ids, NEW r \in Rules, t = tgt[p], r = cur[p],
               OwnedOrGone(t, r)
        PROVE  OwnedOrGone(t, r)'
    BY <2>2, OwnedStays
  <2> QED
    BY <1>0, <2>1, <2>2 DEF TargetOwned
<1>5. CASE GetEntry(p)
  <2> DEFINE e == Snap(p).entry
  <2>1. cur[p] \in Rules /\ e \in Ids /\ OwnedOrGone(e, cur[p])
    BY <1>0, <1>5, RowFacts DEF GetEntry, RunShape, RowOwned, Row
  <2>2. \/ \E n : Goto(p, "audit", e, n) \/ Goto(p, "update", e, n)
                  \/ Goto(p, "delete", e, n) \/ Goto(p, "create", None, n)
                  \/ Goto(p, "fail", None, n)
        \/ Converged(p)
    BY <1>5 DEF GetEntry, GetMissing, GetForeign, GetOwned, GetFails
  <2> HIDE DEF e
  <2>3. CASE Converged(p)
    BY <1>0, <1>1, <2>3 DEF Converged, Leave, RunTypeOK
  <2> QED
    BY <1>2, <2>1, <2>2, <2>3
<1>6. CASE UpdateEntry(p) \/ RebindEntry(p) \/ DeleteEntry(p)
  <2>1. /\ cur[p] \in Rules
        /\ tgt[p] # None => OwnedOrGone(tgt[p], cur[p])
        /\ \E n : Goto(p, "audit", tgt[p], n) \/ Goto(p, "create", None, n)
                  \/ Goto(p, "fail", None, n)
    BY <1>0, <1>6 DEF UpdateEntry, RebindEntry, DeleteEntry, TargetOwned
  <2> QED
    BY <1>0, <1>2, <2>1
<1>7. CASE CreateEntry(p)
  <2>1. cur[p] \in Rules
    BY <1>0, <1>7 DEF CreateEntry
  <2>2. ASSUME NEW e \in Ids, ApplyCreate(p, e), Goto(p, "audit", e, "create")
        PROVE  TargetOwned(p)'
    <3>1. Desired(p) \in Entry /\ Desired(p).hint = cur[p]
      BY <1>0, <1>7, <2>1
      DEF CreateEntry, RunShape, Desired, DesiredEntry, Entry, Row
    <3>2. entries'[e] = Desired(p)
      BY <1>0, <2>2 DEF ApplyCreate, Put
    <3>3. Live(e)' /\ entries'[e].hint = cur[p]
      BY <3>1, <3>2 DEF Live
    <3> QED
      BY <1>2, <2>1, <2>2, <3>3
  <2>3. ASSUME NEW e \in Ids, CreateExisting(p, e)
        PROVE  TargetOwned(p)'
    <3>1. \/ Goto(p, "audit", e, "ownership_conflict")
          \/ /\ Owned(e, cur[p])
             /\ \/ Goto(p, "audit", e, "bind_owned_existing")
                \/ Goto(p, "rebind", e, "none")
      BY <2>3 DEF CreateExisting, Desired, DesiredEntry, Owned
    <3>2. Live(e)
      BY <2>3 DEF CreateExisting, Similar
    <3> QED
      BY <1>2, <2>1, <3>1, <3>2 DEF OwnedOrGone
  <2>4. CASE Goto(p, "fail", None, "spire_create_failed")
    BY <1>2, <2>1, <2>4
  <2> QED
    BY <1>7, <2>2, <2>3, <2>4 DEF CreateEntry
<1>8. CASE RecordAudit(p)
  <2>1. /\ cur[p] \in Rules
        /\ \/ Failed(p)
           \/ Goto(p, "fail", None, "ownership_mismatch")
           \/ /\ Goto(p, "mark", tgt[p], note[p])
              /\ tgt[p] # None => OwnedOrGone(tgt[p], cur[p])
    BY <1>0, <1>8 DEF RecordAudit, TargetOwned
  <2>2. CASE Failed(p)
    BY <1>0, <1>1, <2>2 DEF Failed, Leave, RunTypeOK
  <2> QED
    BY <1>0, <1>2, <2>1, <2>2
<1>9. CASE StartRun(p) \/ EndRun(p) \/ Crash(p) \/ MarkRule(p) \/ FailRule(p)
  BY <1>0, <1>1, <1>9 DEF StartRun, EndRun, Crash, MarkRule, FailRule,
     Converged, Failed, Leave, RunTypeOK
<1> QED
  BY <1>3, <1>4, <1>5, <1>6, <1>7, <1>8, <1>9 DEF RunStep

\* A step of run p leaves the other runs where they are.
LEMMA OtherRuns ==
    ASSUME RunTypeOK, NEW p \in Runners, NEW q \in Runners \ {p},
           RunStep(p) \/ Deadline(p) \/ Crash(p)
    PROVE  /\ pc'[q] = pc[q] /\ snap'[q] = snap[q] /\ cur'[q] = cur[q]
           /\ tgt'[q] = tgt[q] /\ note'[q] = note[q]
           /\ expired'[q] = expired[q]
<1>1. CASE StartRun(p) \/ ReconcileRule(p) \/ EndRun(p) \/ Deadline(p) \/ Crash(p)
  BY <1>1 DEF StartRun, ReconcileRule, EndRun, Deadline, Crash, RunTypeOK
<1>2. CASE GetEntry(p)
  BY <1>2 DEF GetEntry, GetMissing, GetForeign, GetOwned, GetFails, Converged,
     Leave, Goto, RunTypeOK
<1>3. CASE UpdateEntry(p) \/ RebindEntry(p) \/ DeleteEntry(p)
  BY <1>3 DEF UpdateEntry, RebindEntry, DeleteEntry, Goto, RunTypeOK
<1>4. CASE CreateEntry(p)
  BY <1>4 DEF CreateEntry, CreateExisting, Goto, RunTypeOK
<1>5. CASE RecordAudit(p) \/ MarkRule(p) \/ FailRule(p)
  BY <1>5 DEF RecordAudit, MarkRule, FailRule, Goto, Converged, Failed, Leave,
     RunTypeOK
<1> QED
  BY <1>1, <1>2, <1>3, <1>4, <1>5 DEF RunStep

\* List copies owned bindings and a run never changes its snapshot.
LEMMA SnapsOwned ==
    ASSUME RunInv, Ownership, NEW p \in Runners,
           RunStep(p) \/ Deadline(p) \/ Crash(p)
    PROVE  \A r \in Rules : RowOwned(snap'[p][r], r)
<1>0. RunTypeOK
  BY DEF RunInv, TypeOK
<1>1. \/ snap'[p] = snap[p] \/ snap'[p] = rules
      \/ snap'[p] = [r \in Rules |-> NoRow]
  BY <1>0 DEF RunStep, StartRun, ReconcileRule, EndRun, GetEntry, GetMissing,
     GetForeign, GetOwned, GetFails, UpdateEntry, CreateEntry, CreateExisting,
     RebindEntry, DeleteEntry, RecordAudit, MarkRule, FailRule, Deadline,
     Crash, Goto, Converged, Failed, Leave, RunTypeOK
<1> QED
  BY <1>1 DEF Ownership, RowOwned

\* Ownership is inductive together with the shape of the runs.
LEMMA StepOwnership ==
    NoTakeover /\ RunInv /\ Ownership /\ [Next]_vars => Ownership'
<1> SUFFICES ASSUME NoTakeover, RunInv, Ownership, [Next]_vars
             PROVE  Ownership'
  OBVIOUS
<1>0. RegTypeOK' /\ RunTypeOK' /\ RunTypeOK
  BY StepRun DEF RunInv, TypeOK
<1>1. \A r \in Rules : RowOwned(rules[r], r)'
  <2>1. \A r \in Rules : rules'[r] \in Row \cup {NoRow}
    BY <1>0 DEF RegTypeOK
  <2> QED
    BY <2>1, WrittenOwned, RowStays DEF RowOwned
<1>2. \A c \in Requests : RowOwned(draft[c], Target(c))'
  <2>1. ASSUME NEW c \in Requests, NEW row, NEW r, row = draft'[c],
               r = Target(c)', row # NoRow
        PROVE  RowOwned(row, r)'
    <3>1. row \in Row \cup {NoRow} /\ r \in Rules /\ RowOwned(row, r)
      BY <1>0, <2>1, DraftsOwned DEF RegTypeOK
    <3> QED
      BY <3>1, RowStays
  <2> QED
    BY <2>1 DEF RowOwned
<1>3. ASSUME NEW q \in Runners,
             \/ UNCHANGED <<pc[q], snap[q], cur[q], tgt[q], note[q]>>
             \/ RunStep(q) \/ Deadline(q) \/ Crash(q)
      PROVE  /\ \A r \in Rules : RowOwned(snap[q][r], r)'
             /\ TargetOwned(q)'
  <2>1. \A r \in Rules : RowOwned(snap[q][r], r)'
    <3>1. ASSUME NEW r \in Rules, NEW row, row = snap'[q][r]
          PROVE  RowOwned(row, r)'
      <4>1. row \in Row \cup {NoRow}
        BY <1>0, <3>1 DEF RunTypeOK
      <4>2. RowOwned(row, r)
        BY <1>3, <3>1, SnapsOwned DEF Ownership
      <4> QED
        BY <4>1, <4>2, RowStays
    <3> QED
      BY <3>1 DEF RowOwned
  <2>2. CASE UNCHANGED <<pc[q], snap[q], cur[q], tgt[q], note[q]>>
    <3>1. ASSUME NEW t \in Ids, NEW r \in Rules, OwnedOrGone(t, r)
          PROVE  OwnedOrGone(t, r)'
      BY <3>1, OwnedStays
    <3>2. TargetOwned(q) /\ tgt[q] \in Ids \cup {None}
      BY <1>0 DEF Ownership, RunTypeOK
    <3>3. pc[q] \notin {"idle", "next"} => cur[q] \in Rules
      BY DEF RunInv, Shape, RunShape
    <3> QED
      BY <2>1, <2>2, <3>1, <3>2, <3>3 DEF TargetOwned
  <2> QED
    BY <1>3, <2>1, <2>2, TargetsOwned
<1>4. ASSUME NEW q \in Runners
      PROVE  \/ UNCHANGED <<pc[q], snap[q], cur[q], tgt[q], note[q]>>
             \/ RunStep(q) \/ Deadline(q) \/ Crash(q)
  BY <1>0, OtherRuns DEF Next, RequestsStep, ExternalStep, runVars, vars
<1> QED
  BY <1>1, <1>2, <1>3, <1>4 DEF Ownership

\* Seeded rules are bound to nothing.
LEMMA InitOwnership == Init => Ownership
<1> SUFFICES ASSUME Init PROVE Ownership
  OBVIOUS
<1>1. \A r \in Rules : RowOwned(rules[r], r)
  BY ReconcilerAssumption DEF Init, RegInit, RowOwned
<1>2. \A c \in Requests : RowOwned(draft[c], Target(c))
  BY DEF Init, RegInit, RowOwned
<1>3. \A p \in Runners : /\ \A r \in Rules : RowOwned(snap[p][r], r)
                         /\ TargetOwned(p)
  BY DEF Init, RowOwned, TargetOwned
<1> QED
  BY <1>1, <1>2, <1>3 DEF Ownership

(***************************************************************************)
(* As long as no other client rewrites hints, the reconciler binds only    *)
(* entries of its own, however many runs overlap, fail or crash.           *)
(***************************************************************************)
THEOREM OwnershipCorrect == NoTakeover => (Spec => []Ownership)
<1> SUFFICES ASSUME NoTakeover PROVE Spec => []Ownership
  OBVIOUS
<1>1. RunInv /\ Ownership /\ [Next]_vars => Ownership'
  BY StepOwnership
<1> QED
  BY <1>1, InitRun, StepRun, InitOwnership, PTL DEF Spec

\* A run changes only live entries that carry the hint of the rule it is at.
LEMMA OnlyOwnTouched ==
    ASSUME RunInv, Ownership, NEW p \in Runners,
           RunStep(p) \/ Deadline(p) \/ Crash(p),
           NEW e \in Ids, Live(e), entries'[e] # entries[e]
    PROVE  cur[p] \in Rules /\ Owned(e, cur[p])
<1>0. /\ entries \in [Ids -> Entry \cup {Unused, Gone}]
      /\ Unused \notin Entry /\ Gone \notin Entry
      /\ RunShape(p) /\ TargetOwned(p)
  BY ReconcilerAssumption DEF RunInv, TypeOK, Shape, Ownership
<1>1. \/ UNCHANGED entries
      \/ /\ pc[p] \in {"update", "rebind", "delete"}
         /\ \E x : Put(tgt[p], x)
      \/ \E d \in Ids : ApplyCreate(p, d)
  BY DEF RunStep, StartRun, ReconcileRule, EndRun, GetEntry, UpdateEntry,
     UpdateMissing, CreateEntry, CreateExisting, RebindEntry, DeleteEntry,
     RecordAudit, AppendTrail, MarkRule, FailRule, Deadline, Crash,
     SpireUnchanged, ApplyUpdate, ApplyDelete
<1>2. CASE /\ pc[p] \in {"update", "rebind", "delete"}
           /\ \E x : Put(tgt[p], x)
  BY <1>0, <1>2 DEF Put, TargetOwned, RunShape, OwnedOrGone, Live
<1>3. CASE \E d \in Ids : ApplyCreate(p, d)
  BY <1>0, <1>3 DEF ApplyCreate, Fresh, Put, Live
<1> QED
  BY <1>1, <1>2, <1>3

(***************************************************************************)
(* Under the same assumption no step of the platform updates or deletes a  *)
(* foreign entry, although GetEntry and the mutation are separate calls.   *)
(***************************************************************************)
THEOREM ForeignSafe == NoTakeover => (Spec => ForeignUntouched)
<1> SUFFICES ASSUME NoTakeover PROVE Spec => ForeignUntouched
  OBVIOUS
<1> DEFINE Kept == \A e \in Ids : Live(e) /\ entries'[e] # entries[e] =>
                      \E p \in Runners : cur[p] # None /\ Owned(e, cur[p])
<1>1. RunInv /\ Ownership /\ [Next]_vars => [ExternalStep \/ Kept]_vars
  <2> SUFFICES ASSUME RunInv, Ownership, Next PROVE ExternalStep \/ Kept
    OBVIOUS
  <2>1. CASE RequestsStep
    BY <2>1 DEF RequestsStep
  <2>2. ASSUME NEW p \in Runners, RunStep(p) \/ Deadline(p) \/ Crash(p)
        PROVE  Kept
    BY <2>2, OnlyOwnTouched, ReconcilerAssumption
  <2> QED
    BY <2>1, <2>2 DEF Next
<1>2. RunInv /\ Ownership /\ [Next]_vars => Ownership'
  BY StepOwnership
<1> QED
  BY <1>1, <1>2, InitRun, StepRun, InitOwnership, PTL
  DEF Spec, ForeignUntouched
-----------------------------------------------------------------------------
\* An audit row says how rule r came by entry e.
OnTrail(r, e) ==
    \E v \in trail : v.rule = r /\ v.entry = e /\ v.op \in Bindings

RowAudited(row, r) == row # NoRow /\ row.entry # None => OnTrail(r, row.entry)

MarkAudited(p) ==
    pc[p] = "mark" /\ Binding(p) # None => OnTrail(cur[p], tgt[p])

\* BindingAudited holds because a replacement keeps an audited binding and a
\* run audits a binding before it stores it.
TrailInv ==
    /\ \A r \in Rules : RowAudited(rules[r], r)
    /\ \A c \in Requests : RowAudited(draft[c], Target(c))
    /\ \A p \in Runners : MarkAudited(p)

\* Audit rows are only ever added.
LEMMA TrailGrows ==
    ASSUME [Next]_vars
    PROVE  \A r, e : OnTrail(r, e) => OnTrail(r, e)'
<1>1. trail \subseteq trail'
  BY DEF Next, RequestsStep, ExternalStep, StoreUnchanged, vars, RunStep,
     StartRun, ReconcileRule, EndRun, GetEntry, UpdateEntry, CreateEntry,
     RebindEntry, DeleteEntry, RecordAudit, AppendTrail, MarkRule, FailRule,
     Deadline, Crash
<1> QED
  BY <1>1 DEF OnTrail

\* A row that a step writes keeps the binding of a committed row, has none, or
\* gets the binding that a run is about to store.
LEMMA WrittenBinding ==
    ASSUME RunInv, [Next]_vars, NEW r \in Rules, rules'[r] # NoRow,
           rules'[r].entry # None
    PROVE  \/ rules[r] # NoRow /\ rules'[r].entry = rules[r].entry
           \/ \E c \in Requests : /\ draft[c] # NoRow /\ Target(c) = r
                                  /\ rules'[r].entry = draft[c].entry
           \/ \E p \in Runners : /\ pc[p] = "mark" /\ cur[p] = r
                                 /\ rules'[r].entry = Binding(p)
<1> USE DEF RunInv, StoreInv
<1>1. CASE RequestsStep
  <2>1. PICK c \in Requests : Submit(c) \/ RequestStep(c) \/ Abort(c)
    BY <1>1 DEF RequestsStep, OperatorStep
  <2>2. CASE Commit(c)
    BY <2>2, DraftFacts, RowFacts DEF Commit, RegTypeOK
  <2>3. CASE ~Commit(c)
    BY <2>1, <2>3 DEF RequestStep, Submit, CreateInsert, ReplaceSelect,
       ReplaceUpdate, AuditInsert, Abort
  <2> QED
    BY <2>2, <2>3
<1>2. ASSUME NEW p \in Runners, MarkRule(p), MarkConverged(cur[p], Binding(p))
      PROVE  \/ r = cur[p] /\ pc[p] = "mark" /\ rules'[r].entry = Binding(p)
             \/ rules'[r] = rules[r]
  BY <1>2 DEF MarkRule, MarkConverged, WithStatus, RegTypeOK
<1>3. ASSUME NEW p \in Runners, FailRule(p), MarkError(cur[p], note[p])
      PROVE  rules[r] # NoRow /\ rules'[r].entry = rules[r].entry
  BY <1>3 DEF MarkError, WithStatus, RegTypeOK
<1>4. ASSUME NEW p \in Runners, RunStep(p) \/ Deadline(p) \/ Crash(p)
      PROVE  \/ UNCHANGED regVars
             \/ MarkRule(p) /\ MarkConverged(cur[p], Binding(p))
             \/ FailRule(p) /\ MarkError(cur[p], note[p])
  BY <1>4 DEF RunStep, StartRun, ReconcileRule, EndRun, GetEntry, UpdateEntry,
     CreateEntry, RebindEntry, DeleteEntry, RecordAudit, AppendTrail,
     MarkRule, FailRule, Deadline, Crash, StoreUnchanged
<1> QED
  BY <1>1, <1>2, <1>3, <1>4
  DEF Next, ExternalStep, StoreUnchanged, vars, regVars

\* The same for the row a transaction has written and not committed.
LEMMA DraftBinding ==
    ASSUME RunInv, [Next]_vars, NEW c \in Requests, draft'[c] # NoRow,
           draft'[c].entry # None
    PROVE  \/ draft'[c] = draft[c] /\ Target(c)' = Target(c)
           \/ /\ Target(c) \in Rules /\ Target(c)' = Target(c)
              /\ rules[Target(c)] # NoRow
              /\ draft'[c].entry = rules[Target(c)].entry
<1> USE DEF RunInv, StoreInv
<1>1. ASSUME NEW d \in Requests, Submit(d) \/ RequestStep(d) \/ Abort(d)
      PROVE  \/ draft'[c] = draft[c] /\ Target(c)' = Target(c)
             \/ /\ Target(c) \in Rules /\ Target(c)' = Target(c)
                /\ rules[Target(c)] # NoRow
                /\ draft'[c].entry = rules[Target(c)].entry
  <2>1. CASE d # c
    <3>1. draft'[c] = draft[c] /\ input'[c] = input[c]
      BY <1>1, <2>1, OtherTransactions
    <3> QED
      BY <3>1 DEF Target
  <2>2. CASE d = c /\ ReplaceUpdate(c)
    <3>1. /\ draft'[c] \in {NoRow, Replaced(rules[Target(c)], input[c])}
          /\ rules[Target(c)] # NoRow /\ Target(c) \in Rules
          /\ input' = input
      BY <2>2 DEF ReplaceUpdate, RegTypeOK, LockedRowIsCurrent, TxnCurrent,
         Bookkeeping, Target, Input
    <3>2. Replaced(rules[Target(c)], input[c]).entry = rules[Target(c)].entry
      BY DEF Replaced
    <3> QED
      BY <3>1, <3>2 DEF Target
  <2>3. CASE d = c /\ CreateInsert(c)
    <3>1. input[c] \in Input
      BY <2>3 DEF CreateInsert, Bookkeeping
    <3> QED
      BY <2>3, <3>1, WrittenRows DEF CreateInsert, RegTypeOK, Target
  <2>4. CASE d = c /\ ~ReplaceUpdate(c) /\ ~CreateInsert(c)
    BY <1>1, <2>4 DEF RequestStep, Submit, ReplaceSelect, AuditInsert, Commit,
       Abort, RegTypeOK, Bookkeeping, Target
  <2> QED
    BY <2>1, <2>2, <2>3, <2>4
<1>2. ASSUME NEW p \in Runners, RunStep(p) \/ Deadline(p) \/ Crash(p)
      PROVE  UNCHANGED <<draft, input>>
  BY <1>2 DEF RunStep, StartRun, ReconcileRule, EndRun, GetEntry, UpdateEntry,
     CreateEntry, RebindEntry, DeleteEntry, RecordAudit, AppendTrail, MarkRule,
     FailRule, MarkConverged, MarkError, requestVars, Deadline, Crash,
     StoreUnchanged, regVars
<1> QED
  BY <1>1, <1>2 DEF Next, RequestsStep, OperatorStep, ExternalStep,
     StoreUnchanged, vars, regVars, Target

\* A run reaches MarkConverged only through its audit row.
LEMMA StepMark ==
    ASSUME RunInv, TrailInv, [Next]_vars, NEW q \in Runners
    PROVE  MarkAudited(q)'
<1>0. RunTypeOK /\ RunShape(q) /\ RunShape(q)'
  BY StepRun DEF RunInv, TypeOK, Shape
<1>1. CASE UNCHANGED <<pc[q], cur[q], tgt[q], note[q]>>
  BY <1>1, TrailGrows DEF TrailInv, MarkAudited, Binding
<1>2. CASE pc'[q] # "mark"
  BY <1>2 DEF MarkAudited
<1>3. CASE RecordAudit(q) /\ Goto(q, "mark", tgt[q], note[q]) /\ AppendTrail(q)
  <2> DEFINE v == [rule |-> cur[q], op |-> note[q], entry |-> tgt[q]]
  <2>1. /\ v \in trail' /\ cur'[q] = cur[q] /\ tgt'[q] = tgt[q]
        /\ note'[q] = note[q] /\ pc'[q] = "mark"
    BY <1>0, <1>3 DEF AppendTrail, Goto, RunTypeOK
  <2>2. v.rule = cur[q] /\ v.op = note[q] /\ v.entry = tgt[q]
    OBVIOUS
  <2>3. Binding(q)' # None => note[q] \in Bindings
    BY <1>0, <2>1 DEF RunShape, Binding
  <2> HIDE DEF v
  <2> QED
    BY <2>1, <2>2, <2>3 DEF MarkAudited, OnTrail
<1>4. ASSUME RunStep(q) \/ Deadline(q) \/ Crash(q)
      PROVE  \/ UNCHANGED <<pc[q], cur[q], tgt[q], note[q]>>
             \/ pc'[q] # "mark"
             \/ /\ RecordAudit(q) /\ Goto(q, "mark", tgt[q], note[q])
                /\ AppendTrail(q)
  <2>1. CASE ReconcileRule(q)
    BY <1>0, <2>1 DEF ReconcileRule, FirstCall, RunTypeOK
  <2>2. CASE Deadline(q)
    BY <2>2 DEF Deadline
  <2>3. CASE RecordAudit(q)
    BY <1>0, <2>3 DEF RecordAudit, Goto, Failed, Leave, RunTypeOK
  <2>4. CASE StartRun(q) \/ EndRun(q) \/ Crash(q) \/ MarkRule(q) \/ FailRule(q)
    BY <1>0, <2>4 DEF StartRun, EndRun, Crash, MarkRule, FailRule, Converged,
       Failed, Leave, RunTypeOK
  <2>5. CASE GetEntry(q)
    BY <1>0, <2>5 DEF GetEntry, GetMissing, GetForeign, GetOwned, GetFails,
       Converged, Leave, Goto, RunTypeOK
  <2>6. CASE UpdateEntry(q) \/ RebindEntry(q) \/ DeleteEntry(q)
    BY <1>0, <2>6 DEF UpdateEntry, RebindEntry, DeleteEntry, Goto, RunTypeOK
  <2>7. CASE CreateEntry(q)
    BY <1>0, <2>7 DEF CreateEntry, CreateExisting, Goto, RunTypeOK
  <2> QED
    BY <1>4, <2>1, <2>2, <2>3, <2>4, <2>5, <2>6, <2>7 DEF RunStep
<1>5. ASSUME ~(RunStep(q) \/ Deadline(q) \/ Crash(q))
      PROVE  UNCHANGED <<pc[q], cur[q], tgt[q], note[q]>>
  BY <1>0, <1>5, OtherRuns
  DEF Next, RequestsStep, ExternalStep, runVars, vars
<1> QED
  BY <1>1, <1>2, <1>3, <1>4, <1>5

\* Every binding, committed, drafted or about to be stored, is on the trail.
LEMMA StepTrail == RunInv /\ TrailInv /\ [Next]_vars => TrailInv'
<1> SUFFICES ASSUME RunInv, TrailInv, [Next]_vars PROVE TrailInv'
  OBVIOUS
<1>1. ASSUME NEW r \in Rules PROVE RowAudited(rules[r], r)'
  <2> SUFFICES ASSUME rules'[r] # NoRow, rules'[r].entry # None
               PROVE  OnTrail(r, rules'[r].entry)
    BY TrailGrows DEF RowAudited, OnTrail
  <2>1. ASSUME NEW p \in Runners, pc[p] = "mark", Binding(p) # None
        PROVE  OnTrail(cur[p], Binding(p))
    BY <2>1 DEF TrailInv, MarkAudited, Binding
  <2> QED
    BY <2>1, WrittenBinding DEF TrailInv, RowAudited
<1>2. ASSUME NEW c \in Requests PROVE RowAudited(draft[c], Target(c))'
  <2> SUFFICES ASSUME draft'[c] # NoRow, draft'[c].entry # None
               PROVE  OnTrail(Target(c)', draft'[c].entry)
    BY TrailGrows DEF RowAudited, OnTrail
  <2> QED
    BY DraftBinding DEF TrailInv, RowAudited
<1> QED
  BY <1>1, <1>2, StepMark DEF TrailInv

(***************************************************************************)
(* A rule is bound to an entry only if the audit trail says how it came by *)
(* it: recordAudit comes before MarkConverged on every path, and no        *)
(* failure, crash, deadline or overlap gets around it.                     *)
(***************************************************************************)
THEOREM BindingsAudited == Spec => []BindingAudited
<1>1. Init => TrailInv
  BY RegistrationAssumption, ReconcilerAssumption
  DEF Init, RegInit, TrailInv, RowAudited, MarkAudited
<1>2. TrailInv => BindingAudited
  BY DEF TrailInv, RowAudited, OnTrail, BindingAudited
<1> QED
  BY <1>1, <1>2, InitRun, StepRun, StepTrail, PTL DEF Spec

\* Where a binding may come from: a row keeps the one it had, through status
\* updates and through commits alike, or MarkConverged checks the index.
LEMMA BindingComes ==
    ASSUME StoreInv, [RegNext]_regVars, NEW r \in Rules,
           rules'[r] # NoRow, rules'[r].entry # None
    PROVE  \/ rules[r] # NoRow /\ rules'[r].entry = rules[r].entry
           \/ /\ EntryUnique(r, rules'[r].entry)
              /\ \A q \in Rules \ {r} : rules'[q] = rules[q]
<1> USE DEF StoreInv
<1>1. ASSUME NEW c \in Requests, Commit(c)
      PROVE  rules[r] # NoRow /\ rules'[r].entry = rules[r].entry
  <2>1. TxnCurrent(c) /\ phase[c] = "commit"
    BY <1>1 DEF Commit, LockedRowIsCurrent
  <2>2. draft[c].entry = IF rules[Target(c)] = NoRow THEN None
                         ELSE rules[Target(c)].entry
    BY <2>1 DEF TxnCurrent
  <2>3. rules' = [rules EXCEPT ![Target(c)] = draft[c]]
    BY <1>1 DEF Commit
  <2>4. CASE r = Target(c)
    BY <2>2, <2>3, <2>4 DEF RegTypeOK
  <2>5. CASE r # Target(c)
    BY <2>3, <2>5 DEF RegTypeOK
  <2> QED
    BY <2>4, <2>5
<1>2. ASSUME NEW c \in Requests, Submit(c) \/ RequestStep(c) \/ Abort(c),
             ~Commit(c)
      PROVE  rules' = rules
  BY <1>2 DEF Submit, RequestStep, CreateInsert, ReplaceSelect, ReplaceUpdate,
              AuditInsert, Abort
<1>3. ASSUME NEW q \in Rules, NEW e \in Ids \cup {None}, MarkConverged(q, e)
      PROVE  \/ rules[r] # NoRow /\ rules'[r].entry = rules[r].entry
             \/ /\ EntryUnique(r, rules'[r].entry)
                /\ \A s \in Rules \ {r} : rules'[s] = rules[s]
  <2>1. /\ rules' = [rules EXCEPT ![q] =
                        WithStatus(rules[q], e, "converged", "none")]
        /\ EntryUnique(q, e)
    BY <1>3 DEF MarkConverged
  <2>2. WithStatus(rules[q], e, "converged", "none").entry = e
    BY DEF WithStatus
  <2>3. CASE r = q
    BY <2>1, <2>2, <2>3 DEF RegTypeOK
  <2>4. CASE r # q
    BY <2>1, <2>4 DEF RegTypeOK
  <2> QED
    BY <2>3, <2>4
<1>4. ASSUME NEW q \in Rules, NEW code \in Codes, MarkError(q, code)
      PROVE  rules[r] # NoRow /\ rules'[r].entry = rules[r].entry
  <2>1. /\ rules' = [rules EXCEPT ![q] =
                        WithStatus(rules[q], rules[q].entry, "error", code)]
        /\ rules[q] # NoRow
    BY <1>4 DEF MarkError
  <2>2. WithStatus(rules[q], rules[q].entry, "error", code).entry
           = rules[q].entry
    BY DEF WithStatus
  <2> QED
    BY <2>1, <2>2 DEF RegTypeOK
<1>5. CASE UNCHANGED regVars
  BY <1>5 DEF regVars
<1> QED
  BY <1>1, <1>2, <1>3, <1>4, <1>5 DEF RegNext, OperatorStep, StatusStep

\* No step of the store binds an entry a second time.
LEMMA StepUnique ==
    StoreInv /\ UniqueBinding /\ [RegNext]_regVars => UniqueBinding'
<1> SUFFICES ASSUME StoreInv, UniqueBinding, [RegNext]_regVars,
                    NEW q \in Rules, NEW r \in Rules, q # r,
                    rules'[q] # NoRow, rules'[r] # NoRow,
                    rules'[r].entry # None, rules'[q].entry = rules'[r].entry
             PROVE  FALSE
  BY DEF UniqueBinding
<1>1. ASSUME NEW s \in Rules, NEW t \in Rules, s # t,
             rules'[s] # NoRow, rules'[t] # NoRow,
             rules'[s].entry # None, rules'[s].entry = rules'[t].entry,
             EntryUnique(s, rules'[s].entry),
             \A u \in Rules \ {s} : rules'[u] = rules[u]
      PROVE  FALSE
  BY <1>1 DEF EntryUnique
<1>2. \/ rules[q] # NoRow /\ rules'[q].entry = rules[q].entry
      \/ /\ EntryUnique(q, rules'[q].entry)
         /\ \A u \in Rules \ {q} : rules'[u] = rules[u]
  BY BindingComes
<1>3. \/ rules[r] # NoRow /\ rules'[r].entry = rules[r].entry
      \/ /\ EntryUnique(r, rules'[r].entry)
         /\ \A u \in Rules \ {r} : rules'[u] = rules[u]
  BY BindingComes
<1> QED
  BY <1>1, <1>2, <1>3 DEF UniqueBinding

(***************************************************************************)
(* Two rules are never bound to the same SPIRE entry, whatever other SPIRE *)
(* clients do: no assumption on takeovers is needed, because the index is  *)
(* checked by every MarkConverged and the row lock keeps a replacement     *)
(* from bringing an older binding back.                                    *)
(***************************************************************************)
THEOREM BindingsUnique == Spec => []UniqueBinding
<1>1. Init => UniqueBinding
  BY ReconcilerAssumption DEF Init, RegInit, UniqueBinding
<1>2. RunInv => StoreInv
  BY DEF RunInv
<1> QED
  BY <1>1, <1>2, InitRun, StepRun, StepRefines, StepUnique, PTL DEF Spec
=============================================================================
