--------------------------- MODULE CleanRunProofs ---------------------------
(***************************************************************************)
(* What a run of the reconciler that reports no failure has achieved, for  *)
(* any number of rules, entries and operator requests, and after any       *)
(* earlier runs that failed, crashed or were overtaken.  The run is the    *)
(* only one and the only client that changes SPIRE; operators change the   *)
(* rules all the time.                                                     *)
(***************************************************************************)
EXTENDS ReconcilerProofs

\* One reconciler, and no other client that changes entries.
Alone == External = {} /\ \A p, q \in Runners : p = q

\* No operator has changed rule r since List.
Current(p, r) == rules[r].revision = snap[p][r].revision

\* The rule is converged and its entry is there as desired.
Applied(r) ==
    /\ rules[r].status = "converged" /\ AsDesired(r)
    /\ rules[r].desired = "present" => Live(rules[r].entry)

\* What the calls of a run may take for granted.
CallKnows(p) ==
    /\ pc[p] \in {"create", "update", "rebind"} => Snap(p).desired = "present"
    /\ pc[p] = "delete" => Snap(p).desired = "absent"
    /\ pc[p] \in {"audit", "mark"} /\ note[p] \in Unbindings =>
          Snap(p).desired = "absent"
    /\ pc[p] \in {"audit", "mark"} /\ note[p] \in Bindings =>
          /\ Snap(p).desired = "present"
          /\ Live(tgt[p]) /\ entries[tgt[p]] = Desired(p)

\* The run is at no rule, or at one it has taken off its list.
AtRule(p) ==
    /\ pc[p] \in {"idle", "next"} => cur[p] = None
    /\ cur[p] \notin todo[p]

\* How rule r of the snapshot stands: rows only move on; a rule the run has
\* not dealt with is as it was listed, unless an operator has changed it; and
\* one it has dealt with is applied, unless that or it has failed.
Stands(p, r) ==
    snap[p][r] # NoRow =>
       /\ rules[r] # NoRow /\ snap[p][r].revision <= rules[r].revision
       /\ Current(p, r) /\ r \in todo[p] \cup {cur[p]} =>
             rules[r] = snap[p][r]
       /\ Current(p, r) /\ r \notin todo[p] \cup {cur[p]} \cup failed[p] =>
             Applied(r)

RunClean(p) ==
    AtRule(p) /\ CallKnows(p) /\ \A r \in Rules : Stands(p, r)

CleanInv == \A p \in Runners : RunClean(p)

\* A step of an operator's request leaves a row alone or moves it on to a
\* later revision.
LEMMA RowsMoveOn ==
    ASSUME StoreInv, OperatorStep, NEW r \in Rules, rules[r] # NoRow
    PROVE  /\ rules'[r] # NoRow
           /\ \/ rules'[r] = rules[r]
              \/ rules'[r].revision > rules[r].revision
<1>1. PICK c \in Requests : Submit(c) \/ RequestStep(c) \/ Abort(c)
  BY DEF OperatorStep
<1>2. CASE Commit(c)
  <2>1. /\ draft[c] \in Row /\ Target(c) \in Rules
        /\ RevisionOf(draft[c]) = RevisionOf(rules[Target(c)]) + 1
    BY <1>2, DraftFacts DEF Commit
  <2>2. rules \in [Rules -> Row \cup {NoRow}]
    BY DEF StoreInv, RegTypeOK
  <2>3. rules[r] \in Row /\ rules[r].revision \in Nat
    BY <2>2, RowFacts
  <2>4. CASE r = Target(c)
    <3>1. rules'[r] = draft[c]
      BY <1>2, <2>2, <2>4 DEF Commit
    <3>2. draft[c] # NoRow /\ draft[c].revision = rules[r].revision + 1
      BY <2>1, <2>3, <2>4, RowFacts
    <3> QED
      BY <2>3, <3>1, <3>2
  <2>5. CASE r # Target(c)
    BY <1>2, <2>2, <2>5 DEF Commit
  <2> QED
    BY <2>4, <2>5
<1>3. CASE ~Commit(c)
  BY <1>1, <1>3 DEF RequestStep, Submit, CreateInsert, ReplaceSelect,
     ReplaceUpdate, AuditInsert, Abort
<1> QED
  BY <1>2, <1>3

\* The entries of rules that are applied are not those a run works on for
\* another rule.
LEMMA AppliedStays ==
    ASSUME RunInv, Ownership, NEW p \in Runners,
           RunStep(p) \/ Deadline(p) \/ Crash(p),
           NEW r \in Rules, r # cur[p], rules[r] \in Row,
           rules'[r] = rules[r], Applied(r)
    PROVE  Applied(r)'
<1>1. CASE rules[r].desired = "present"
  <2>1. /\ rules[r].entry # None /\ Live(rules[r].entry)
        /\ entries[rules[r].entry] = DesiredEntry(r, rules[r])
    BY <1>1 DEF Applied, AsDesired
  <2>2. rules[r].entry \in Ids
    BY <2>1 DEF Row
  <2>3. entries[rules[r].entry].hint = r
    BY <2>1 DEF DesiredEntry
  <2>4. entries'[rules[r].entry] = entries[rules[r].entry]
    BY <2>1, <2>2, <2>3, OnlyOwnTouched DEF Owned
  <2>5. Live(rules[r].entry)'
    BY <2>1, <2>4 DEF Live
  <2> QED
    BY <1>1, <2>1, <2>4, <2>5 DEF Applied, AsDesired, DesiredEntry
<1>2. CASE rules[r].desired # "present"
  BY <1>2 DEF Applied, AsDesired
<1> QED
  BY <1>1, <1>2

\* Operators at work while a run is under way.
LEMMA OperatorsClean ==
    ASSUME RunInv, NEW p \in Runners, RunClean(p), RequestsStep
    PROVE  RunClean(p)'
<1>1. UNCHANGED <<entries, pc, snap, todo, cur, tgt, note, failed>>
  BY DEF RequestsStep, runVars
<1>2. AtRule(p)' /\ CallKnows(p)'
  BY <1>1 DEF RunClean, AtRule, CallKnows, Snap, Desired, Live
<1>3. ASSUME NEW r \in Rules, snap[p][r] # NoRow PROVE Stands(p, r)'
  <2>1. /\ rules[r] # NoRow /\ rules[r] \in Row
        /\ snap[p][r] \in Row
        /\ snap[p][r].revision <= rules[r].revision
    BY <1>3 DEF RunInv, TypeOK, RegTypeOK, RunTypeOK, RunClean, Stands
  <2>2. rules[r].revision \in Nat /\ snap[p][r].revision \in Nat
    BY <2>1, RowFacts
  <2>3. /\ rules'[r] # NoRow
        /\ \/ rules'[r] = rules[r]
           \/ rules'[r].revision > rules[r].revision
    BY <2>1, RowsMoveOn DEF RunInv, RequestsStep
  <2>4. rules'[r] \in Row
    <3>1. RunInv'
      BY StepRun DEF Next
    <3> QED
      BY <2>3, <3>1 DEF RunInv, TypeOK, RegTypeOK
  <2>5. CASE rules'[r] = rules[r]
    BY <1>1, <1>3, <2>5
    DEF RunClean, Stands, Current, Applied, AsDesired, Live
  <2>6. CASE rules'[r].revision > rules[r].revision
    <3>1. rules'[r].revision \in Nat
      BY <2>4, RowFacts
    <3>2. /\ snap[p][r].revision <= rules'[r].revision
          /\ rules'[r].revision # snap[p][r].revision
      BY <2>1, <2>2, <2>6, <3>1
    <3> QED
      BY <1>1, <2>3, <3>2 DEF Stands, Current
  <2> QED
    BY <2>3, <2>5, <2>6
<1>4. \A r \in Rules : Stands(p, r)'
  BY <1>1, <1>3 DEF Stands
<1> QED
  BY <1>2, <1>4 DEF RunClean

\* A run that goes on to another call about the same rule.
LEMMA GotoClean ==
    ASSUME RunInv, Ownership, NEW p \in Runners, RunClean(p), RunStep(p),
           pc[p] \notin {"idle", "next"},
           NEW l \in PCs \ {"idle", "next"}, NEW t, NEW n, Goto(p, l, t, n),
           UNCHANGED rules, CallKnows(p)'
    PROVE  RunClean(p)'
<1>1. /\ pc'[p] = l
      /\ UNCHANGED <<snap, todo, cur, failed>>
      /\ rules \in [Rules -> Row \cup {NoRow}]
  BY DEF Goto, RunInv, TypeOK, RunTypeOK, RegTypeOK
<1>2. AtRule(p)'
  BY <1>1 DEF RunClean, AtRule
<1>3. ASSUME NEW r \in Rules PROVE Stands(p, r)'
  <2>1. Stands(p, r)
    BY DEF RunClean
  <2>2. r # cur[p] /\ rules[r] # NoRow /\ Applied(r) => Applied(r)'
    BY <1>1, AppliedStays
  <2> QED
    BY <1>1, <2>1, <2>2 DEF Stands, Current
<1> QED
  BY <1>2, <1>3 DEF RunClean

\* A run that is done with its rule: it has counted it as failed, or has
\* applied what it had listed.
LEMMA LeaveClean ==
    ASSUME RunInv, Ownership, NEW p \in Runners, RunClean(p), RunStep(p),
           pc[p] \notin {"idle", "next"},
           NEW k \in Rules, k = cur[p],
           NEW fails \in SUBSET Rules, Leave(p, fails),
           \A q \in Rules \ {k} : rules'[q] = rules[q],
           rules'[k] # NoRow, rules'[k].revision = rules[k].revision,
           k \in fails \/ (Current(p, k) => Applied(k)')
    PROVE  RunClean(p)'
<1>1. /\ pc'[p] = "next" /\ cur'[p] = None
      /\ failed'[p] = failed[p] \cup fails
      /\ UNCHANGED <<snap, todo>>
      /\ rules \in [Rules -> Row \cup {NoRow}]
      /\ todo[p] \subseteq Rules /\ cur[p] \in Rules
      /\ None \notin Rules
  BY ReconcilerAssumption
  DEF Leave, RunInv, TypeOK, RunTypeOK, RegTypeOK, Shape, RunShape
<1>2. AtRule(p)' /\ CallKnows(p)'
  BY <1>1 DEF AtRule, CallKnows
<1>3. ASSUME NEW r \in Rules, r # cur[p] PROVE Stands(p, r)'
  <2>1. Stands(p, r)
    BY DEF RunClean
  <2>2. rules[r] # NoRow /\ Applied(r) => Applied(r)'
    BY <1>1, <1>3, AppliedStays
  <2>3. rules'[r] = rules[r]
    BY <1>3
  <2>4. r # None
    BY <1>1
  <2> QED
    BY <1>1, <1>3, <2>1, <2>2, <2>3, <2>4 DEF Stands, Current
<1>4. ASSUME NEW r \in Rules, r = cur[p] PROVE Stands(p, r)'
  <2>1. Stands(p, r) /\ r \notin todo[p]
    BY <1>4 DEF RunClean, AtRule
  <2>2. r \in fails \/ (Current(p, r) => Applied(r)')
    BY <1>4
  <2>3. Current(p, r)' <=> Current(p, r)
    BY <1>1, <1>4 DEF Current
  <2>4. /\ rules'[r] # NoRow
        /\ rules'[r].revision = rules[r].revision
    BY <1>4
  <2> QED
    BY <1>1, <2>1, <2>2, <2>3, <2>4 DEF Stands
<1> QED
  BY <1>2, <1>3, <1>4 DEF RunClean

\* What the next call may take for granted, from what the last one found.
LEMMA GoesOn ==
    ASSUME RunInv, Ownership, NEW p \in Runners, RunClean(p), RunStep(p),
           pc[p] \notin {"idle", "next"}, UNCHANGED rules,
           NEW l \in PCs \ {"idle", "next"}, NEW t, NEW n, Goto(p, l, t, n),
           l \in {"create", "update", "rebind"} => Snap(p).desired = "present",
           l = "delete" => Snap(p).desired = "absent",
           l \in {"audit", "mark"} /\ n \in Unbindings =>
              Snap(p).desired = "absent",
           l \in {"audit", "mark"} /\ n \in Bindings =>
              /\ Snap(p).desired = "present"
              /\ entries'[t] \in Entry /\ entries'[t] = Desired(p)
    PROVE  RunClean(p)'
<1>1. /\ pc'[p] = l /\ tgt'[p] = t /\ note'[p] = n
      /\ UNCHANGED <<snap, cur>>
  BY DEF Goto, RunInv, TypeOK, RunTypeOK
<1>2. CallKnows(p)'
  BY <1>1 DEF CallKnows, Snap, Desired, Live
<1> QED
  BY <1>2, GotoClean

\* The two kinds of operations have nothing in common, and a conflict and the
\* error codes are of neither kind.
LEMMA Kinds ==
    /\ \A n \in Bindings : n \notin Unbindings
    /\ "ownership_conflict" \notin Bindings \cup Unbindings
    /\ {"clear_stale_binding", "delete", "absent_noop"} \subseteq Unbindings
    /\ {"create", "bind_owned_existing", "update", "update_owned_existing"}
          \subseteq Bindings
BY DEF Bindings, Unbindings

\* What is known of a run at a call.
LEMMA AtCall ==
    ASSUME RunInv, NEW p \in Runners, RunClean(p),
           pc[p] \notin {"idle", "next"}
    PROVE  /\ cur[p] \in Rules /\ Snap(p) \in Row
           /\ Snap(p).desired \in {"present", "absent"}
           /\ rules[cur[p]] \in Row
           /\ Current(p, cur[p]) => rules[cur[p]] = Snap(p)
<1>1. /\ cur[p] \in Rules /\ Snap(p) \in Row
      /\ rules \in [Rules -> Row \cup {NoRow}]
  BY DEF RunInv, TypeOK, RegTypeOK, Shape, RunShape, Snap
<1>2. Snap(p).desired \in {"present", "absent"} /\ Snap(p) # NoRow
  BY <1>1, RowFacts DEF Row, DesiredStates
<1> QED
  BY <1>1, <1>2 DEF RunClean, Stands, Snap

\* A run that has found all as listed may leave its rule without a call.
LEMMA ConvergedClean ==
    ASSUME RunInv, Ownership, NEW p \in Runners, RunClean(p), RunStep(p),
           pc[p] \notin {"idle", "next"}, Leave(p, {}),
           UNCHANGED <<rules, entries>>,
           Snap(p).desired = "present", Snap(p).status = "converged",
           Snap(p).entry # None, Live(Snap(p).entry),
           entries[Snap(p).entry] = Desired(p)
    PROVE  RunClean(p)'
<1> DEFINE k == cur[p]
<1>1. /\ k \in Rules /\ rules[k] \in Row /\ rules[k] # NoRow
      /\ Current(p, k) => rules[k] = Snap(p)
  BY AtCall, RowFacts
<1>2. ASSUME NEW r \in Rules, r = k, Current(p, r) PROVE Applied(r)'
  <2>1. Applied(r)
    BY <1>1, <1>2 DEF Applied, AsDesired, Desired
  <2> QED
    BY <2>1 DEF Applied, AsDesired, Live
<1>3. PICK r \in Rules : r = k
  BY <1>1
<1>4. /\ \A q \in Rules \ {r} : rules'[q] = rules[q]
      /\ rules'[r] # NoRow /\ rules'[r].revision = rules[r].revision
  BY <1>1, <1>3
<1>5. Current(p, r) => Applied(r)'
  BY <1>2, <1>3
<1> QED
  BY <1>3, <1>4, <1>5, LeaveClean

\* A failed call or a failed rule needs no more than that its row is still
\* there, at its revision.
LEMMA FailedClean ==
    ASSUME RunInv, Ownership, NEW p \in Runners, RunClean(p), RunStep(p),
           pc[p] \notin {"idle", "next"}, Failed(p),
           \/ UNCHANGED rules
           \/ \E e \in Ids \cup {None} : MarkConverged(cur[p], e)
           \/ \E code \in Codes \ {"none"} : MarkError(cur[p], code)
    PROVE  RunClean(p)'
<1>1. /\ cur[p] \in Rules /\ rules[cur[p]] \in Row
      /\ rules[cur[p]] # NoRow
  BY AtCall, RowFacts
<1>2. PICK r \in Rules : r = cur[p]
  BY <1>1
<1>3. /\ \A q \in Rules \ {r} : rules'[q] = rules[q]
      /\ rules'[r] # NoRow /\ rules'[r].revision = rules[r].revision
  <2>1. CASE UNCHANGED rules
    BY <1>1, <1>2, <2>1
  <2>2. CASE \/ \E e \in Ids \cup {None} : MarkConverged(r, e)
             \/ \E code \in Codes \ {"none"} : MarkError(r, code)
    <3>1. /\ rules' \in [Rules -> Row \cup {NoRow}]
          /\ \A q \in Rules : /\ RevisionOf(rules'[q]) = RevisionOf(rules[q])
                              /\ rules'[q] = NoRow <=> rules[q] = NoRow
                              /\ q # r => rules'[q] = rules[q]
      BY <2>2, StatusStepFacts DEF RunInv, StoreInv
    <3>2. rules'[r] # NoRow
      BY <1>1, <1>2, <3>1
    <3> QED
      BY <1>1, <1>2, <3>1, <3>2 DEF RevisionOf
  <2> QED
    BY <1>2, <2>1, <2>2
<1>4. Leave(p, {r}) /\ {r} \in SUBSET Rules /\ r \in {r}
  BY <1>2 DEF Failed
<1> QED
  BY <1>2, <1>3, <1>4, LeaveClean

\* The look at a bound entry.
LEMMA GetClean ==
    ASSUME RunInv, Ownership, NEW p \in Runners, RunClean(p), GetEntry(p)
    PROVE  RunClean(p)'
<1> DEFINE e == Snap(p).entry
<1>1. /\ pc[p] = "get" /\ pc[p] \notin {"idle", "next"} /\ RunStep(p)
      /\ UNCHANGED <<rules, entries>>
  BY DEF GetEntry, RunStep, StoreUnchanged, SpireUnchanged, regVars
<1>2. /\ Snap(p).desired \in {"present", "absent"} /\ e # None
  BY <1>1, AtCall DEF RunInv, Shape, RunShape
<1>3. CASE GetMissing(p)
  <2>1. CASE Snap(p).desired = "present" /\ Goto(p, "create", None, "none")
    <3>1. "create" \in PCs \ {"idle", "next"}
      BY DEF PCs
    <3> QED
      BY <1>1, <2>1, <3>1, GoesOn
  <2>2. CASE /\ Snap(p).desired = "absent"
             /\ Goto(p, "audit", e, "clear_stale_binding")
    <3>1. "audit" \in PCs \ {"idle", "next"}
      BY DEF PCs
    <3>2. "clear_stale_binding" \notin Bindings
      BY Kinds
    <3> QED
      BY <1>1, <2>2, <3>1, <3>2, GoesOn
  <2> QED
    BY <1>2, <1>3, <2>1, <2>2 DEF GetMissing
<1>4. CASE GetForeign(p)
  <2>1. Goto(p, "audit", e, "ownership_conflict")
    BY <1>4 DEF GetForeign
  <2>2. "audit" \in PCs \ {"idle", "next"}
    BY DEF PCs
  <2>3. "ownership_conflict" \notin Bindings \cup Unbindings
    BY Kinds
  <2> QED
    BY <1>1, <2>1, <2>2, <2>3, GoesOn
<1>5. CASE GetFails(p)
  <2>1. Goto(p, "fail", None, "spire_unavailable")
    BY <1>5 DEF GetFails
  <2>2. "fail" \in PCs \ {"idle", "next"}
    BY DEF PCs
  <2> QED
    BY <1>1, <2>1, <2>2, GoesOn
<1>6. CASE GetOwned(p)
  <2>1. CASE Snap(p).desired = "absent"
    <3>1. Goto(p, "delete", e, "none")
      BY <1>6, <2>1, Zenon DEF GetOwned
    <3>2. "delete" \in PCs \ {"idle", "next"}
      BY DEF PCs
    <3> QED
      BY <1>1, <2>1, <3>1, <3>2, GoesOn
  <2>2. CASE Snap(p).desired = "present" /\ entries[e] # Desired(p)
    <3>1. Snap(p).desired # "absent"
      BY <2>2
    <3>2. Goto(p, "update", e, "none")
      BY <1>6, <2>2, <3>1, Zenon DEF GetOwned
    <3>3. "update" \in PCs \ {"idle", "next"}
      BY DEF PCs
    <3> QED
      BY <1>1, <2>2, <3>2, <3>3, GoesOn
  <2>3. CASE /\ Snap(p).desired = "present" /\ entries[e] = Desired(p)
             /\ Snap(p).status # "converged"
    <3>1. Snap(p).desired # "absent"
      BY <2>3
    <3>2. Goto(p, "audit", e, "bind_owned_existing")
      BY <1>6, <2>3, <3>1, Zenon DEF GetOwned
    <3>3. "audit" \in PCs \ {"idle", "next"}
      BY DEF PCs
    <3>4. "bind_owned_existing" \notin Unbindings
      BY Kinds
    <3>5. entries[e] \in Entry
      BY <1>6 DEF GetOwned, Live
    <3> HIDE DEF e
    <3> QED
      BY <1>1, <2>3, <3>2, <3>3, <3>4, <3>5, GoesOn
  <2>4. CASE /\ Snap(p).desired = "present" /\ entries[e] = Desired(p)
             /\ Snap(p).status = "converged"
    <3>1. Snap(p).desired # "absent"
      BY <2>4
    <3>2. Converged(p) /\ Live(e)
      BY <1>6, <2>4, <3>1, Zenon DEF GetOwned
    <3> QED
      BY <1>1, <1>2, <2>4, <3>2, ConvergedClean DEF Converged
  <2> QED
    BY <1>2, <2>1, <2>2, <2>3, <2>4
<1> QED
  BY <1>3, <1>4, <1>5, <1>6 DEF GetEntry

\* Update, after which the entry is as desired, or there is no binding.
LEMMA UpdateClean ==
    ASSUME RunInv, Ownership, NEW p \in Runners, RunClean(p),
           UpdateEntry(p) \/ RebindEntry(p)
    PROVE  RunClean(p)'
<1>1. /\ pc[p] \in {"update", "rebind"} /\ pc[p] \notin {"idle", "next"}
      /\ RunStep(p) /\ UNCHANGED rules
  BY DEF UpdateEntry, RebindEntry, RunStep, StoreUnchanged, regVars
<1>2. Snap(p).desired = "present"
  BY <1>1 DEF RunClean, CallKnows
<1>3. {"audit", "create", "fail"} \subseteq PCs \ {"idle", "next"}
  BY DEF PCs
<1>4. ASSUME NEW n \in {"update", "update_owned_existing"}, ApplyUpdate(p),
             Goto(p, "audit", tgt[p], n)
      PROVE  RunClean(p)'
  <2>1. Desired(p) \in Entry /\ tgt[p] \in Ids
    BY <1>1 DEF RunInv, TypeOK, RunTypeOK, Shape, RunShape, Desired,
       DesiredEntry, Snap, Entry, Row
  <2>2. PICK t \in Ids : t = tgt[p]
    BY <2>1
  <2>3. entries'[t] = Desired(p)
    BY <1>4, <2>2 DEF ApplyUpdate, Put, RunInv, TypeOK
  <2>4. n \notin Unbindings
    BY Kinds
  <2> QED
    BY <1>1, <1>2, <1>3, <1>4, <2>1, <2>2, <2>3, <2>4, GoesOn
<1>5. ASSUME NEW l \in {"create", "fail"}, NEW n, Goto(p, l, None, n)
      PROVE  RunClean(p)'
  BY <1>1, <1>2, <1>3, <1>5, GoesOn
<1>6. \/ \E n \in {"update", "update_owned_existing"} :
            ApplyUpdate(p) /\ Goto(p, "audit", tgt[p], n)
      \/ \E l \in {"create", "fail"} : \E n : Goto(p, l, None, n)
  BY DEF UpdateEntry, RebindEntry
<1> QED
  BY <1>4, <1>5, <1>6

\* Create, after which the new entry, or an existing one, is as desired.
LEMMA CreateClean ==
    ASSUME RunInv, Ownership, NEW p \in Runners, RunClean(p), CreateEntry(p)
    PROVE  RunClean(p)'
<1>1. /\ pc[p] = "create" /\ pc[p] \notin {"idle", "next"}
      /\ RunStep(p) /\ UNCHANGED rules
  BY DEF CreateEntry, RunStep, StoreUnchanged, regVars
<1>2. Snap(p).desired = "present"
  BY <1>1 DEF RunClean, CallKnows
<1>3. {"audit", "rebind", "fail"} \subseteq PCs \ {"idle", "next"}
  BY DEF PCs
<1>4. Desired(p) \in Entry
  BY <1>1 DEF RunInv, TypeOK, RunTypeOK, Shape, RunShape, Desired,
     DesiredEntry, Snap, Entry, Row
<1>5. ASSUME NEW e \in Ids, NEW n \in {"create", "bind_owned_existing"},
             entries'[e] = Desired(p), Goto(p, "audit", e, n)
      PROVE  RunClean(p)'
  <2>1. n \notin Unbindings
    BY Kinds
  <2> QED
    BY <1>1, <1>2, <1>3, <1>4, <1>5, <2>1, GoesOn
<1>6. ASSUME NEW e \in Ids, Goto(p, "audit", e, "ownership_conflict")
      PROVE  RunClean(p)'
  BY <1>1, <1>3, <1>6, Kinds, GoesOn
<1>7. ASSUME NEW l \in {"rebind", "fail"}, NEW t, NEW n, Goto(p, l, t, n)
      PROVE  RunClean(p)'
  BY <1>1, <1>2, <1>3, <1>7, GoesOn
<1>8. ASSUME NEW e \in Ids, ApplyCreate(p, e), Goto(p, "audit", e, "create")
      PROVE  RunClean(p)'
  <2>1. entries'[e] = Desired(p)
    BY <1>8 DEF ApplyCreate, Put, RunInv, TypeOK
  <2> QED
    BY <1>5, <1>8, <2>1
<1>9. ASSUME NEW e \in Ids, CreateExisting(p, e)
      PROVE  RunClean(p)'
  <2>1. UNCHANGED entries
    BY <1>9 DEF CreateExisting, SpireUnchanged
  <2>2. CASE ~Owned(e, cur[p])
    <3>1. entries[e] # Desired(p)
      BY <2>2 DEF Owned, Desired, DesiredEntry
    <3>2. Goto(p, "audit", e, "ownership_conflict")
      BY <1>9, <2>2, <3>1, Zenon DEF CreateExisting
    <3> QED
      BY <1>6, <3>2
  <2>3. CASE Owned(e, cur[p]) /\ entries[e] = Desired(p)
    <3>1. Goto(p, "audit", e, "bind_owned_existing")
      BY <1>9, <2>3, Zenon DEF CreateExisting
    <3> QED
      BY <1>5, <2>1, <2>3, <3>1
  <2>4. CASE Owned(e, cur[p]) /\ entries[e] # Desired(p)
    <3>1. Goto(p, "rebind", e, "none")
      BY <1>9, <2>4, Zenon DEF CreateExisting
    <3> QED
      BY <1>7, <3>1
  <2> QED
    BY <2>2, <2>3, <2>4
<1>10. \/ \E e \in Ids : ApplyCreate(p, e) /\ Goto(p, "audit", e, "create")
       \/ \E e \in Ids : CreateExisting(p, e)
       \/ Goto(p, "fail", None, "spire_create_failed")
  BY DEF CreateEntry
<1> QED
  BY <1>7, <1>8, <1>9, <1>10

\* Delete, after which an absent rule is to be unbound.
LEMMA DeleteClean ==
    ASSUME RunInv, Ownership, NEW p \in Runners, RunClean(p), DeleteEntry(p)
    PROVE  RunClean(p)'
<1>1. /\ pc[p] = "delete" /\ pc[p] \notin {"idle", "next"}
      /\ RunStep(p) /\ UNCHANGED rules
  BY DEF DeleteEntry, RunStep, StoreUnchanged, regVars
<1>2. Snap(p).desired = "absent"
  BY <1>1 DEF RunClean, CallKnows
<1>3. {"audit", "fail"} \subseteq PCs \ {"idle", "next"}
  BY DEF PCs
<1>4. "delete" \notin Bindings
  BY Kinds
<1>5. CASE Goto(p, "audit", tgt[p], "delete")
  BY <1>1, <1>2, <1>3, <1>4, <1>5, GoesOn
<1>6. CASE Goto(p, "fail", None, "spire_delete_failed")
  BY <1>1, <1>3, <1>6, GoesOn
<1> QED
  BY <1>5, <1>6 DEF DeleteEntry

\* The audit row changes nothing of what the run knows.
LEMMA AuditClean ==
    ASSUME RunInv, Ownership, NEW p \in Runners, RunClean(p), RecordAudit(p)
    PROVE  RunClean(p)'
<1>1. /\ pc[p] = "audit" /\ pc[p] \notin {"idle", "next"}
      /\ RunStep(p) /\ UNCHANGED <<rules, entries>>
  BY DEF RecordAudit, RunStep, AppendTrail, StoreUnchanged, SpireUnchanged,
         regVars
<1>2. {"mark", "fail"} \subseteq PCs \ {"idle", "next"}
  BY DEF PCs
<1>3. CASE Goto(p, "mark", tgt[p], note[p])
  <2>1. /\ note[p] \in Unbindings => Snap(p).desired = "absent"
        /\ note[p] \in Bindings =>
              /\ Snap(p).desired = "present"
              /\ entries'[tgt[p]] \in Entry /\ entries'[tgt[p]] = Desired(p)
    BY <1>1 DEF RunClean, CallKnows, Live
  <2>2. PICK t, n : t = tgt[p] /\ n = note[p]
    OBVIOUS
  <2> QED
    BY <1>1, <1>2, <1>3, <2>1, <2>2, GoesOn
<1>4. CASE Goto(p, "fail", None, "ownership_mismatch")
  BY <1>1, <1>2, <1>4, GoesOn
<1>5. CASE Failed(p)
  BY <1>1, <1>5, FailedClean
<1> QED
  BY <1>3, <1>4, <1>5 DEF RecordAudit

\* MarkConverged: if no operator came in between, the row now says what the
\* run has brought about.
LEMMA MarkClean ==
    ASSUME RunInv, Ownership, NEW p \in Runners, RunClean(p), MarkRule(p)
    PROVE  RunClean(p)'
<1>1. /\ pc[p] = "mark" /\ pc[p] \notin {"idle", "next"}
      /\ RunStep(p) /\ UNCHANGED entries
      /\ Binding(p) \in Ids \cup {None}
  BY DEF MarkRule, RunStep, SpireUnchanged, Binding, RunInv, TypeOK, RunTypeOK
<1>2. CASE Failed(p)
  BY <1>1, <1>2, FailedClean DEF MarkRule, regVars
<1>3. CASE MarkConverged(cur[p], Binding(p)) /\ Converged(p)
  <2>1. PICK r \in Rules : r = cur[p]
    BY <1>1, AtCall
  <2>2. /\ rules[r] \in Row
        /\ Current(p, r) => rules[r] = Snap(p)
        /\ Snap(p).desired \in {"present", "absent"}
    BY <1>1, <2>1, AtCall
  <2>3. rules' = [rules EXCEPT ![r] =
                     WithStatus(rules[r], Binding(p), "converged", "none")]
    BY <1>3, <2>1 DEF MarkConverged
  <2>4. /\ rules'[r] = WithStatus(rules[r], Binding(p), "converged", "none")
        /\ \A q \in Rules \ {r} : rules'[q] = rules[q]
        /\ rules' \in [Rules -> Row \cup {NoRow}]
        /\ rules'[r] # NoRow
    <3>1. \E e \in Ids \cup {None} : MarkConverged(r, e)
      BY <1>1, <1>3, <2>1
    <3>2. /\ rules' \in [Rules -> Row \cup {NoRow}]
          /\ rules'[r] = NoRow <=> rules[r] = NoRow
      BY <3>1, StatusStepFacts DEF RunInv, StoreInv
    <3>3. rules \in [Rules -> Row \cup {NoRow}]
      BY DEF RunInv, TypeOK, RegTypeOK
    <3>4. rules[r] # NoRow
      BY <2>2, RowFacts
    <3> QED
      BY <2>3, <3>2, <3>3, <3>4
  <2>5. /\ rules'[r].desired = rules[r].desired
        /\ rules'[r].match = rules[r].match /\ rules'[r].ttl = rules[r].ttl
        /\ rules'[r].revision = rules[r].revision
        /\ rules'[r].entry = Binding(p) /\ rules'[r].status = "converged"
    BY <2>4 DEF WithStatus
  <2>6. ASSUME Current(p, r) PROVE Applied(r)'
    <3>1. note[p] \in Bindings \cup Unbindings
      BY <1>1 DEF RunInv, Shape, RunShape
    <3>2. CASE note[p] \in Unbindings
      <4>1. Binding(p) = None /\ Snap(p).desired = "absent"
        BY <1>1, <3>2 DEF Binding, RunClean, CallKnows
      <4> QED
        BY <2>2, <2>5, <2>6, <4>1 DEF Applied, AsDesired
    <3>3. CASE note[p] \in Bindings
      <4>1. /\ Snap(p).desired = "present"
            /\ Live(tgt[p]) /\ entries[tgt[p]] = Desired(p)
        BY <1>1, <3>3 DEF RunClean, CallKnows
      <4>2. Binding(p) = tgt[p] /\ tgt[p] # None
        BY <1>1, <3>3, Kinds DEF Binding, RunInv, Shape, RunShape
      <4>3. DesiredEntry(r, rules'[r]) = Desired(p)
        BY <2>1, <2>2, <2>5, <2>6 DEF DesiredEntry, Desired
      <4>4. entries'[rules'[r].entry] = DesiredEntry(r, rules'[r])
        BY <1>1, <2>5, <4>1, <4>2, <4>3
      <4>5. Live(rules[r].entry)'
        BY <1>1, <2>5, <4>1, <4>2 DEF Live
      <4> QED
        BY <2>2, <2>5, <2>6, <4>1, <4>2, <4>4, <4>5 DEF Applied, AsDesired
    <3> QED
      BY <3>1, <3>2, <3>3
  <2>7. Leave(p, {}) /\ {} \in SUBSET Rules
    BY <1>3 DEF Converged
  <2> QED
    BY <1>1, <2>1, <2>4, <2>5, <2>6, <2>7, LeaveClean
<1> QED
  BY <1>2, <1>3 DEF MarkRule

\* MarkError: the rule is counted as failed.
LEMMA FailClean ==
    ASSUME RunInv, Ownership, NEW p \in Runners, RunClean(p), FailRule(p)
    PROVE  RunClean(p)'
<1>1. /\ pc[p] = "fail" /\ pc[p] \notin {"idle", "next"} /\ RunStep(p)
      /\ Failed(p)
  BY DEF FailRule, RunStep
<1>2. note[p] \in Codes \ {"none"}
  BY <1>1 DEF RunInv, Shape, RunShape
<1>3. UNCHANGED rules \/ MarkError(cur[p], note[p])
  BY DEF FailRule, regVars
<1> QED
  BY <1>1, <1>2, <1>3, FailedClean

\* The start of a run: the snapshot is the table, and all of it is to do.
LEMMA StartClean ==
    ASSUME RunInv, NEW p \in Runners, RunClean(p), StartRun(p)
    PROVE  RunClean(p)'
<1>1. /\ pc'[p] = "next" /\ snap'[p] = rules /\ UNCHANGED <<cur, rules>>
      /\ todo'[p] = {r \in Rules : rules[r] # NoRow} /\ pc[p] = "idle"
  BY DEF StartRun, StoreUnchanged, regVars, RunInv, TypeOK, RunTypeOK
<1>2. cur'[p] = None /\ None \notin Rules
  BY <1>1, ReconcilerAssumption DEF RunClean, AtRule
<1>3. AtRule(p)' /\ CallKnows(p)'
  BY <1>1, <1>2 DEF AtRule, CallKnows
<1>4. ASSUME NEW r \in Rules, rules[r] # NoRow PROVE Stands(p, r)'
  <2>1. rules[r].revision \in Nat
    BY <1>4, RowFacts DEF RunInv, TypeOK, RegTypeOK
  <2> QED
    BY <1>1, <1>4, <2>1 DEF Stands
<1> QED
  BY <1>1, <1>3, <1>4 DEF RunClean, Stands

\* The end of a run and its death: nothing is known any more.
LEMMA EndClean ==
    ASSUME RunInv, NEW p \in Runners, RunClean(p), EndRun(p) \/ Crash(p)
    PROVE  RunClean(p)'
<1>1. /\ pc'[p] = "idle" /\ snap'[p] = [r \in Rules |-> NoRow]
      /\ cur'[p] = None /\ todo'[p] = {}
  BY DEF EndRun, Crash, RunInv, TypeOK, RunTypeOK, RunClean, AtRule
<1> QED
  BY <1>1 DEF RunClean, AtRule, CallKnows, Stands

\* The deadline by itself changes nothing of what the run knows.
LEMMA DeadlineClean ==
    ASSUME NEW p \in Runners, RunClean(p), Deadline(p)
    PROVE  RunClean(p)'
<1>1. UNCHANGED <<rules, entries, pc, snap, todo, cur, tgt, note, failed>>
  BY DEF Deadline, StoreUnchanged, SpireUnchanged, regVars
<1> QED
  BY <1>1 DEF RunClean, AtRule, CallKnows, Stands, Snap, Desired, Live,
     Current, Applied, AsDesired

\* The choice of the next rule, which is passed over only if it is absent,
\* unbound and converged already.
LEMMA NextRuleClean ==
    ASSUME RunInv, Ownership, NEW p \in Runners, RunClean(p), ReconcileRule(p)
    PROVE  RunClean(p)'
<1>1. PICK r \in todo[p] :
         LET call == FirstCall(snap[p][r]) IN
         /\ todo' = [todo EXCEPT ![p] = @ \ {r}]
         /\ cur' = [cur EXCEPT ![p] = IF call[1] = "next" THEN None ELSE r]
         /\ pc' = [pc EXCEPT ![p] = call[1]]
         /\ note' = [note EXCEPT ![p] = call[2]]
  BY DEF ReconcileRule
<1>2. /\ RunTypeOK /\ r \in Rules /\ snap[p][r] \in Row
      /\ None \notin Rules /\ cur[p] = None
      /\ todo[p] \subseteq Rules
  BY ReconcilerAssumption DEF ReconcileRule, RunInv, TypeOK, RunTypeOK, Shape,
     RunShape, RunClean, AtRule
<1>3. /\ UNCHANGED <<snap, failed, rules, entries>>
      /\ rules \in [Rules -> Row \cup {NoRow}]
  BY DEF ReconcileRule, StoreUnchanged, SpireUnchanged, regVars, RunInv,
         TypeOK, RegTypeOK
<1> DEFINE row == snap[p][r]
           call == FirstCall(row)
<1>4. /\ row.desired \in {"present", "absent"} /\ row # NoRow
      /\ row.entry \in Ids \cup {None}
  BY <1>2, RowFacts DEF Row, DesiredStates
<1>5. \/ call = <<"fail", "invalid_desired_state">>
      \/ call \in {<<"create", "none">>, <<"get", "none">>}
         /\ (call[1] = "create" => row.desired = "present")
      \/ call = <<"audit", "absent_noop">> /\ row.desired = "absent"
      \/ /\ call = <<"next", "none">> /\ row.desired = "absent"
         /\ row.entry = None /\ row.status = "converged"
  BY <1>4 DEF FirstCall
<1>6. /\ pc'[p] = call[1] /\ note'[p] = call[2] /\ todo'[p] = todo[p] \ {r}
      /\ cur'[p] = IF call[1] = "next" THEN None ELSE r
  BY <1>1, <1>2 DEF RunTypeOK
<1> HIDE DEF call
<1>7. /\ pc'[p] \in {"fail", "create", "get", "audit", "next"}
      /\ pc'[p] = "create" => row.desired = "present"
      /\ pc'[p] = "audit" => note'[p] = "absent_noop" /\ row.desired = "absent"
      /\ pc'[p] = "next" => /\ row.desired = "absent" /\ row.entry = None
                            /\ row.status = "converged"
      /\ pc'[p] = "next" => cur'[p] = None
      /\ pc'[p] # "next" => cur'[p] = r
  BY <1>5, <1>6
<1>8. AtRule(p)'
  BY <1>2, <1>6, <1>7 DEF AtRule
<1>9. CallKnows(p)'
  <2>1. "absent_noop" \notin Bindings
    BY Kinds
  <2>2. pc'[p] # "next" => Snap(p)' = row
    BY <1>3, <1>7 DEF Snap
  <2> QED
    BY <1>7, <2>1, <2>2 DEF CallKnows
<1>10. ASSUME NEW q \in Rules PROVE Stands(p, q)'
  <2>1. Stands(p, q) /\ q # cur[p]
    BY <1>2 DEF RunClean
  <2>2. /\ Current(p, q)' <=> Current(p, q)
        /\ Applied(q)' <=> Applied(q)
    BY <1>3 DEF Current, Applied, AsDesired, Live
  <2>3. CASE q = r
    <3>1. Current(p, r) => rules[r] = row
      BY <1>4, <2>1, <2>3 DEF Stands
    <3>2. CASE pc'[p] = "next"
      <4>1. Current(p, r) => Applied(r)
        BY <1>7, <3>1, <3>2 DEF Applied, AsDesired
      <4> QED
        BY <1>3, <1>6, <1>7, <2>1, <2>2, <2>3, <3>1, <3>2, <4>1 DEF Stands
    <3>3. CASE pc'[p] # "next"
      BY <1>3, <1>6, <1>7, <2>1, <2>2, <2>3, <3>1, <3>3 DEF Stands
    <3> QED
      BY <3>2, <3>3
  <2>4. CASE q # r
    <3>1. q \in todo'[p] \cup {cur'[p]} <=> q \in todo[p] \cup {cur[p]}
      BY <1>2, <1>6, <1>7, <2>4
    <3> QED
      BY <1>3, <2>1, <2>2, <3>1 DEF Stands
  <2> QED
    BY <2>3, <2>4
<1> QED
  BY <1>8, <1>9, <1>10 DEF RunClean

\* Every step preserves the invariant.
LEMMA StepClean ==
    Alone /\ RunInv /\ Ownership /\ CleanInv /\ [Next]_vars => CleanInv'
<1> SUFFICES ASSUME Alone, RunInv, Ownership, CleanInv, [Next]_vars,
                    NEW p \in Runners
             PROVE  RunClean(p)'
  BY DEF CleanInv
<1>1. RunClean(p) /\ \A q \in Runners : q = p
  BY DEF CleanInv, Alone
<1>2. CASE RequestsStep
  BY <1>1, <1>2, OperatorsClean
<1>3. CASE \/ GetEntry(p) \/ UpdateEntry(p) \/ CreateEntry(p) \/ RebindEntry(p)
           \/ DeleteEntry(p) \/ RecordAudit(p) \/ MarkRule(p) \/ FailRule(p)
  BY <1>1, <1>3, GetClean, UpdateClean, CreateClean, DeleteClean, AuditClean,
     MarkClean, FailClean
<1>4. CASE \/ StartRun(p) \/ ReconcileRule(p) \/ EndRun(p)
           \/ Deadline(p) \/ Crash(p)
  BY <1>1, <1>4, StartClean, NextRuleClean, EndClean, DeadlineClean
<1>5. CASE ExternalStep
  BY <1>5 DEF ExternalStep, ExternalCreate, ExternalDelete, ExternalDrift,
     ExternalTakeover, Alone
<1>6. CASE UNCHANGED vars
  <2>1. UNCHANGED <<rules, entries, pc, snap, todo, cur, tgt, note, failed>>
    BY <1>6 DEF vars, regVars, runVars
  <2> QED
    BY <1>1, <2>1 DEF RunClean, AtRule, CallKnows, Stands, Snap, Desired,
       Live, Current, Applied, AsDesired
<1> QED
  BY <1>1, <1>2, <1>3, <1>4, <1>5, <1>6 DEF Next, RunStep

(***************************************************************************)
(* What "registration reconciliation completed" is worth, for any number   *)
(* of rules: when the only run has passed its last rule without counting a *)
(* failure, every rule that no operator has changed since List is          *)
(* converged and its entry is as desired.                                  *)
(***************************************************************************)
THEOREM CleanRunCorrect == Alone => (Spec => []CleanRunApplied)
<1> SUFFICES ASSUME Alone PROVE Spec => []CleanRunApplied
  OBVIOUS
<1>1. Init => CleanInv
  BY ReconcilerAssumption
  DEF Init, CleanInv, RunClean, AtRule, CallKnows, Stands
<1>2. CleanInv => CleanRunApplied
  <2> SUFFICES ASSUME CleanInv, NEW p \in Runners, pc[p] = "next",
                      todo[p] = {}, failed[p] = {}, NEW r \in Rules,
                      snap[p][r] # NoRow,
                      snap[p][r].revision = rules[r].revision
               PROVE  rules[r].status = "converged" /\ AsDesired(r)
    BY DEF CleanRunApplied
  <2>1. Stands(p, r) /\ cur[p] = None
    BY DEF CleanInv, RunClean, AtRule
  <2>2. r # None
    BY ReconcilerAssumption
  <2> QED
    BY <2>1, <2>2 DEF Stands, Current, Applied
<1>3. NoTakeover
  BY DEF Alone, NoTakeover
<1>4. RunInv /\ Ownership /\ [Next]_vars => Ownership'
  BY <1>3, StepOwnership
<1>5. RunInv /\ Ownership /\ CleanInv /\ [Next]_vars => CleanInv'
  BY StepClean
<1> QED
  BY <1>1, <1>2, <1>4, <1>5, InitRun, StepRun, InitOwnership, PTL DEF Spec
=============================================================================
