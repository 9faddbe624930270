---------------------------- MODULE OrphanProofs ----------------------------
(***************************************************************************)
(* What failures cost: without overlapping runs, every failure, crash,     *)
(* deadline and call of another SPIRE client loses at most one entry, no   *)
(* live entry is let go, runs are idempotent and what is in sync stays so, *)
(* for any number of rules, entries, requests and runs one after the       *)
(* other; and however many runs overlap, every failure, crash and deadline *)
(* loses the evidence of at most one rule's mutations.                     *)
(***************************************************************************)
EXTENDS ReconcilerProofs, FiniteSetTheorems

\* Runs do not overlap.
OneRunner == \A p, q \in Runners : p = q

\* A binding that leads nowhere, and will not again: IDs are never reused.
Dead(b) == b = None \/ entries[b] = Gone

\* The entry that a run has just created and will bind, if nothing happens.
InFlight(e) ==
    \E p \in Runners :
       /\ pc[p] \in {"audit", "mark"} /\ note[p] = "create"
       /\ tgt[p] = e /\ Owned(e, cur[p]) /\ ~expired[p]

\* The orphan that a run has found and is about to update and bind.
Rebinding(e) == \E p \in Runners : pc[p] = "rebind" /\ tgt[p] = e

\* What the failures so far have to answer for.
Lost == {e \in Ids : (e \in Orphans \/ Rebinding(e)) /\ ~InFlight(e)}

\* What a run knows of the table, where nobody else changes bindings: what
\* List returned for the rules still ahead, and at each call how the rule is
\* bound at present.
Ahead(p) ==
    /\ pc[p] \in {"idle", "next"} => cur[p] = None
    /\ cur[p] \notin todo[p]
    /\ \A r \in Rules : r = cur[p] \/ (r \in todo[p] /\ pc[p] # "idle") =>
          rules[r] # NoRow /\ rules[r].entry = snap[p][r].entry

Fits(p, l, t, n) ==
    LET b == rules[cur[p]].entry IN
    /\ l \in {"update", "delete"} => t = b
    /\ l \in {"create", "rebind"} => Dead(b)
    /\ l \in {"audit", "mark"} /\ n \in Bindings => t = b \/ Dead(b)
    /\ l \in {"audit", "mark"} /\ n \in Unbindings => Dead(b)
    /\ l \in {"audit", "mark"} /\ n = "create" =>
          \A q \in Rules : rules[q] # NoRow => rules[q].entry # t

Bound(p) == Fits(p, pc[p], tgt[p], note[p])

\* Entry IDs that a rule is bound to or a run works on were given out.
Issued ==
    /\ \A r \in Rules : rules[r] # NoRow /\ rules[r].entry # None =>
          entries[rules[r].entry] # Unused
    /\ \A p \in Runners : tgt[p] # None => entries[tgt[p]] # Unused

Counted == IsFiniteSet(Lost) /\ Cardinality(Lost) <= disturbances

OrphanInv == (\A p \in Runners : Ahead(p) /\ Bound(p)) /\ Issued /\ Counted

\* A step loses nothing, or goes wrong and loses one entry.
Accounted ==
    \/ /\ Lost' \subseteq Lost
       /\ disturbances' \in {disturbances, disturbances + 1}
    \/ \E x : /\ Lost' \subseteq Lost \cup {x}
              /\ disturbances' = disturbances + 1

\* A set that grows by at most one element when the count does.
LEMMA CountKept ==
    ASSUME NEW S, NEW T, NEW m \in Nat, NEW n,
           IsFiniteSet(S), Cardinality(S) <= m,
           \/ T \subseteq S /\ n \in {m, m + 1}
           \/ \E x : T \subseteq S \cup {x} /\ n = m + 1
    PROVE  IsFiniteSet(T) /\ Cardinality(T) <= n
<1>1. Cardinality(S) \in Nat
  BY FS_CardinalityType
<1>2. PICK U : /\ IsFiniteSet(U) /\ T \subseteq U
               /\ Cardinality(U) \in Nat /\ Cardinality(U) <= n
               /\ n \in Nat
  <2>1. CASE T \subseteq S /\ n \in {m, m + 1}
    BY <1>1, <2>1
  <2>2. CASE \E x : T \subseteq S \cup {x} /\ n = m + 1
    <3>1. PICK x : T \subseteq S \cup {x} /\ n = m + 1
      BY <2>2
    <3>2. /\ IsFiniteSet(S \cup {x})
          /\ Cardinality(S \cup {x}) \in {Cardinality(S), Cardinality(S) + 1}
      BY FS_AddElement
    <3> QED
      BY <1>1, <3>1, <3>2
  <2> QED
    BY <2>1, <2>2
<1>3. IsFiniteSet(T) /\ Cardinality(T) <= Cardinality(U)
  BY <1>2, FS_Subset
<1>4. Cardinality(T) \in Nat
  BY <1>3, FS_CardinalityType
<1> QED
  BY <1>2, <1>3, <1>4

\* Such a step keeps the account.
LEMMA AccountKept ==
    ASSUME RunInv, Counted, Accounted
    PROVE  Counted'
<1>1. disturbances \in Nat
  BY ReconcilerAssumption DEF RunInv, TypeOK
<1>2. IsFiniteSet(Lost') /\ Cardinality(Lost') <= disturbances'
  BY <1>1, CountKept DEF Counted, Accounted
<1> QED
  BY <1>2 DEF Counted

\* The definitions spelt out for the one run there is.
LEMMA TheRun ==
    ASSUME OneRunner, NEW p \in Runners, NEW e \in Ids
    PROVE  /\ Rebinding(e) <=> pc[p] = "rebind" /\ tgt[p] = e
           /\ InFlight(e) <=> /\ pc[p] \in {"audit", "mark"}
                              /\ note[p] = "create" /\ tgt[p] = e
                              /\ Owned(e, cur[p]) /\ ~expired[p]
           /\ Rebinding(e)' <=> pc'[p] = "rebind" /\ tgt'[p] = e
           /\ InFlight(e)' <=> /\ pc'[p] \in {"audit", "mark"}
                               /\ note'[p] = "create" /\ tgt'[p] = e
                               /\ Owned(e, cur[p])' /\ ~expired'[p]
BY DEF OneRunner, Rebinding, InFlight

\* A row that keeps its binding, or comes without one.
Keeps(r) ==
    IF rules[r] = NoRow
      THEN rules'[r] = NoRow \/ rules'[r].entry = None
      ELSE rules'[r] # NoRow /\ rules'[r].entry = rules[r].entry

\* Operators neither bind nor unbind.
LEMMA OperatorsKeep ==
    ASSUME StoreInv, OperatorStep, NEW r \in Rules
    PROVE  Keeps(r)
<1> USE DEF StoreInv
<1>1. PICK c \in Requests : Submit(c) \/ RequestStep(c) \/ Abort(c)
  BY DEF OperatorStep
<1>2. CASE Commit(c)
  <2>1. TxnCurrent(c) /\ phase[c] = "commit"
    BY <1>2 DEF Commit, LockedRowIsCurrent
  <2>2. draft[c].entry = IF rules[Target(c)] = NoRow THEN None
                         ELSE rules[Target(c)].entry
    BY <2>1 DEF TxnCurrent
  <2>3. rules' = [rules EXCEPT ![Target(c)] = draft[c]] /\ draft[c] # NoRow
    BY <1>2, <2>1, DraftFacts, RowFacts DEF Commit
  <2>4. CASE r = Target(c)
    BY <2>2, <2>3, <2>4 DEF RegTypeOK, Keeps
  <2>5. CASE r # Target(c)
    BY <2>3, <2>5 DEF RegTypeOK, Keeps
  <2> QED
    BY <2>4, <2>5
<1>3. CASE ~Commit(c)
  BY <1>1, <1>3 DEF Submit, RequestStep, CreateInsert, ReplaceSelect,
              ReplaceUpdate, AuditInsert, Abort, Keeps
<1> QED
  BY <1>2, <1>3

\* So nothing changes when only they, or nobody, is at work.
LEMMA OperatorsOrphans ==
    ASSUME RunInv, OrphanInv, RequestsStep \/ UNCHANGED vars
    PROVE  OrphanInv'
<1>1. \A r \in Rules : Keeps(r)
  <2>1. CASE RequestsStep
    BY <2>1, OperatorsKeep DEF RunInv, RequestsStep
  <2>2. CASE UNCHANGED vars
    BY <2>2 DEF vars, regVars, Keeps
  <2> QED
    BY <2>1, <2>2
<1>2. UNCHANGED <<entries, pc, snap, todo, cur, tgt, note, expired,
                  disturbances>>
  BY DEF RequestsStep, vars, runVars
<1>3. ASSUME NEW p \in Runners PROVE Ahead(p)'
  BY <1>1, <1>2, <1>3 DEF OrphanInv, Ahead, Keeps
<1>4. ASSUME NEW p \in Runners PROVE Bound(p)'
  <2>1. pc[p] \notin {"idle", "next"} =>
           /\ cur[p] \in Rules /\ rules'[cur[p]].entry = rules[cur[p]].entry
    BY <1>1 DEF RunInv, Shape, RunShape, OrphanInv, Ahead, Keeps
  <2>2. pc[p] \in {"audit", "mark"} /\ note[p] = "create" =>
           \A q \in Rules : rules'[q] # NoRow => rules'[q].entry # tgt[p]
    <3> SUFFICES ASSUME pc[p] \in {"audit", "mark"}, note[p] = "create",
                        NEW q \in Rules, rules'[q] # NoRow
                 PROVE  rules'[q].entry # tgt[p]
      OBVIOUS
    <3>1. tgt[p] # None
      BY DEF RunInv, Shape, RunShape, Bindings
    <3>2. rules[q] # NoRow => rules[q].entry # tgt[p]
      BY DEF OrphanInv, Bound, Fits
    <3> QED
      BY <1>1, <3>1, <3>2 DEF Keeps
  <2>3. Dead(rules[cur[p]].entry)' = Dead(rules'[cur[p]].entry)
    BY <1>2 DEF Dead
  <2>4. Dead(rules'[cur[p]].entry) <=>
           \/ rules'[cur[p]].entry = None
           \/ entries[rules'[cur[p]].entry] = Gone
    BY DEF Dead
  <2>5. Bound(p)
    BY DEF OrphanInv
  <2> QED
    BY <1>2, <2>1, <2>2, <2>5 DEF Bound, Fits, Dead
<1>5. Issued'
  BY <1>1, <1>2 DEF OrphanInv, Issued, Keeps
<1>6. Lost' = Lost
  <2>1. ASSUME NEW e \in Ids PROVE e \in Orphans' <=> e \in Orphans
    BY <1>1, <1>2, RegistrationAssumption
    DEF Orphans, Live, Owned, Keeps
  <2> QED
    BY <1>2, <2>1 DEF Lost, Rebinding, InFlight, Owned
<1>7. Counted'
  BY <1>2, <1>6 DEF OrphanInv, Counted
<1> QED
  BY <1>3, <1>4, <1>5, <1>7 DEF OrphanInv

\* Once an entry is deleted it stays so: only a live or an unused ID is put.
LEMMA DeadStays ==
    ASSUME RunInv, NEW e \in Ids, entries[e] # Gone, NEW x, Put(e, x),
           NEW b \in Ids \cup {None}, Dead(b)
    PROVE  Dead(b)'
BY DEF RunInv, TypeOK, Dead, Put

\* Other SPIRE clients change one entry at a time.
LEMMA ExternalPut ==
    ASSUME RunInv, ExternalStep
    PROVE  \E e \in Ids, x \in Entry \cup {Gone} :
              Put(e, x) /\ entries[e] # Gone
<1>0. Unused # Gone /\ Gone \notin Entry
  BY ReconcilerAssumption
<1>1. CASE ExternalCreate
  BY <1>0, <1>1 DEF ExternalCreate, Fresh, Entry
<1>2. CASE ExternalDelete
  BY <1>0, <1>2 DEF ExternalDelete, Live
<1>3. CASE ExternalDrift
  BY <1>0, <1>3 DEF ExternalDrift, Live, Entry
<1>4. CASE ExternalTakeover
  BY <1>0, <1>4 DEF ExternalTakeover, Live, Entry
<1> QED
  BY <1>1, <1>2, <1>3, <1>4 DEF ExternalStep

\* A call of another client costs at most the entry it is about, even if it
\* gives the entry to another owner.
LEMMA ExternalOrphans ==
    ASSUME RunInv, OrphanInv, ExternalStep
    PROVE  OrphanInv'
<1>1. PICK e \in Ids, x \in Entry \cup {Gone} : Put(e, x) /\ entries[e] # Gone
  BY ExternalPut
<1>2. UNCHANGED <<rules, pc, snap, todo, cur, tgt, note, expired>>
      /\ disturbances' = disturbances + 1
  BY DEF ExternalStep, Disturb, StoreUnchanged, regVars, runVars
<1>3. /\ entries \in [Ids -> Entry \cup {Unused, Gone}]
      /\ rules \in [Rules -> Row \cup {NoRow}]
      /\ Unused \notin Entry /\ Unused # Gone
  BY ReconcilerAssumption DEF RunInv, TypeOK, RegTypeOK
<1>4. ASSUME NEW p \in Runners PROVE Ahead(p)'
  BY <1>2 DEF OrphanInv, Ahead
<1>5. ASSUME NEW p \in Runners PROVE Bound(p)'
  <2> DEFINE b == rules[cur[p]].entry
  <2>1. pc[p] \notin {"idle", "next"} => b \in Ids \cup {None}
    BY <1>3 DEF RunInv, Shape, RunShape, OrphanInv, Ahead, Row
  <2>2. pc[p] \notin {"idle", "next"} => (Dead(b) => Dead(b)')
    <3> SUFFICES ASSUME pc[p] \notin {"idle", "next"}, NEW c, c = b, Dead(c)
                 PROVE  Dead(c)'
      BY <1>2
    <3> QED
      BY <1>1, <2>1, DeadStays
  <2>3. Bound(p)
    BY DEF OrphanInv
  <2> QED
    BY <1>2, <2>2, <2>3 DEF Bound, Fits
<1>6. Issued'
  <2>1. \A d \in Ids : entries[d] # Unused => entries'[d] # Unused
    BY <1>1, <1>3 DEF Put
  <2>2. \A r \in Rules : rules[r] # NoRow => rules[r].entry \in Ids \cup {None}
    BY <1>3 DEF Row
  <2>3. \A p \in Runners : tgt[p] \in Ids \cup {None}
    BY DEF RunInv, TypeOK, RunTypeOK
  <2> QED
    BY <1>2, <2>1, <2>2, <2>3 DEF OrphanInv, Issued
<1>7. Accounted
  <2>1. ASSUME NEW d \in Ids, d # e PROVE d \in Lost' <=> d \in Lost
    <3>1. entries'[d] = entries[d]
      BY <1>1, <1>3, <2>1 DEF Put
    <3>2. (d \in Orphans)' <=> d \in Orphans
      BY <1>2, <3>1 DEF Orphans, Live, Owned
    <3>3. InFlight(d)' <=> InFlight(d)
      BY <1>2, <3>1 DEF InFlight, Owned
    <3> QED
      BY <1>2, <3>2, <3>3 DEF Lost, Rebinding
  <2>2. Lost' \subseteq Ids
    BY DEF Lost
  <2> QED
    BY <1>2, <2>1, <2>2 DEF Accounted
<1> QED
  BY <1>4, <1>5, <1>6, <1>7, AccountKept DEF OrphanInv
-----------------------------------------------------------------------------
\* What holds at every call.
LEMMA AtCall ==
    ASSUME RunInv, OrphanInv, NEW p \in Runners,
           pc[p] \notin {"idle", "next"}
    PROVE  /\ cur[p] \in Rules /\ Snap(p) \in Row /\ rules[cur[p]] \in Row
           /\ rules[cur[p]].entry = Snap(p).entry
           /\ Snap(p).entry \in Ids \cup {None}
           /\ Snap(p).entry # None => entries[Snap(p).entry] # Unused
           /\ tgt[p] \in Ids \cup {None}
BY DEF RunInv, TypeOK, RegTypeOK, RunTypeOK, Shape, RunShape, OrphanInv, Ahead,
       Issued, Snap, Row

\* A run that makes one more call for the same rule, about an entry that was
\* given out.
LEMMA GoesOn ==
    ASSUME OneRunner, RunInv, OrphanInv, NEW p \in Runners,
           pc[p] \notin {"idle", "next"},
           NEW l \in PCs \ {"idle", "next"}, NEW t \in Ids \cup {None}, NEW n,
           Goto(p, l, t, n), UNCHANGED rules,
           Bound(p)', Accounted,
           \A e \in Ids : entries[e] # Unused => entries'[e] # Unused,
           t # None => entries'[t] # Unused
    PROVE  OrphanInv'
<1>1. Ahead(p)'
  BY DEF OrphanInv, Ahead, Goto, RunInv, TypeOK, RunTypeOK
<1>2. Issued'
  <2>1. \A r \in Rules : rules[r] # NoRow => rules[r].entry \in Ids \cup {None}
    BY DEF RunInv, TypeOK, RegTypeOK, Row
  <2>2. tgt'[p] = t
    BY DEF Goto, RunInv, TypeOK, RunTypeOK
  <2>3. \A q \in Runners : tgt'[q] = t
    BY <2>2 DEF OneRunner
  <2> QED
    BY <2>1, <2>3 DEF OrphanInv, Issued
<1>3. \A q \in Runners : q = p
  BY DEF OneRunner
<1> QED
  BY <1>1, <1>2, <1>3, AccountKept DEF OrphanInv

\* The same for a call that changed nothing in SPIRE.
LEMMA GoesOnQuietly ==
    ASSUME OneRunner, RunInv, OrphanInv, NEW p \in Runners,
           pc[p] \notin {"idle", "next"},
           NEW l \in PCs \ {"idle", "next"}, NEW t \in Ids \cup {None}, NEW n,
           Goto(p, l, t, n), UNCHANGED <<rules, entries>>,
           Fits(p, l, t, n),
           disturbances' \in {disturbances, disturbances + 1},
           t # None => entries[t] # Unused,
           l = "rebind" => t \in Orphans,
           pc[p] \in {"audit", "mark"} /\ note[p] = "create" =>
              l = "mark" /\ t = tgt[p] /\ n = note[p]
    PROVE  OrphanInv'
<1>1. /\ pc'[p] = l /\ tgt'[p] = t /\ note'[p] = n
      /\ UNCHANGED <<cur, expired>>
  BY DEF Goto, RunInv, TypeOK, RunTypeOK
<1>2. ASSUME NEW e \in Ids, e \in Lost' PROVE e \in Lost
  <2>1. /\ (e \in Orphans)' <=> e \in Orphans
        /\ Owned(e, cur[p])' <=> Owned(e, cur[p])
    BY <1>1 DEF Orphans, Live, Owned
  <2>2. (e \in Orphans \/ Rebinding(e))' /\ ~InFlight(e)'
    BY <1>2 DEF Lost
  <2>3. e \in Orphans
    BY <1>1, <2>1, <2>2, TheRun
  <2>4. ~InFlight(e)
    BY <1>1, <2>1, <2>2, TheRun
  <2> QED
    BY <2>3, <2>4 DEF Lost
<1>3. Accounted
  BY <1>2 DEF Accounted, Lost
<1>4. Bound(p)'
  BY <1>1 DEF Bound, Fits, Dead
<1> QED
  BY <1>3, <1>4, GoesOn

\* The rule is done with.  Only its own row may have changed, and an entry
\* that is given up, now an orphan or no longer in flight, is accounted for.
LEMMA LeavesRule ==
    ASSUME OneRunner, RunInv, OrphanInv, NEW p \in Runners,
           pc[p] \notin {"idle", "next"},
           NEW k \in Rules, k = cur[p],
           NEW fails \in SUBSET Rules, Leave(p, fails), UNCHANGED entries,
           \A q \in Rules \ {k} : rules'[q] = rules[q],
           rules'[k] \in Row,
           rules'[k].entry # None => entries[rules'[k].entry] # Unused,
           Accounted
    PROVE  OrphanInv'
<1>1. /\ pc'[p] = "next" /\ tgt'[p] = None /\ cur'[p] = None
      /\ UNCHANGED <<snap, todo>>
  BY DEF Leave, RunInv, TypeOK, RunTypeOK
<1>2. k \notin todo[p] /\ None \notin Rules
  BY ReconcilerAssumption DEF OrphanInv, Ahead
<1>3. todo[p] \subseteq Rules
  BY DEF RunInv, TypeOK, RunTypeOK
<1>4. Ahead(p)'
  BY <1>1, <1>2, <1>3 DEF OrphanInv, Ahead
<1>5. Bound(p)'
  BY <1>1 DEF Bound, Fits
<1>6. Issued'
  BY <1>1 DEF OneRunner, OrphanInv, Issued
<1>7. \A q \in Runners : q = p
  BY DEF OneRunner
<1> QED
  BY <1>4, <1>5, <1>6, <1>7, AccountKept DEF OrphanInv
-----------------------------------------------------------------------------
\* The cases of Fits, in which at most one matters at a call.
LEMMA Kinds ==
    /\ \A n \in Bindings : n \notin Unbindings
    /\ "ownership_conflict" \notin Bindings \cup Unbindings
    /\ {"clear_stale_binding", "delete", "absent_noop"} \subseteq Unbindings
    /\ {"create", "bind_owned_existing", "update", "update_owned_existing"}
          = Bindings
    /\ "create" \notin Unbindings \cup {"bind_owned_existing", "update",
                 "update_owned_existing", "ownership_conflict", "none"}
BY DEF Bindings, Unbindings

\* A call that failed, with or without a disturbance.
LEMMA Disturbances ==
    ASSUME RunInv, NEW p \in Runners
    PROVE  /\ disturbances \in Nat
           /\ Works(p) \/ Fails(p) =>
                 disturbances' \in {disturbances, disturbances + 1}
           /\ Fails(p) /\ ~expired[p] => disturbances' = disturbances + 1
           /\ ReplyLost(p) \/ Disturb => disturbances' = disturbances + 1
BY ReconcilerAssumption
DEF RunInv, TypeOK, Works, Fails, ReplyLost, Disturb

\* A call failed and the rule is to be marked in error; nothing is in flight.
LEMMA FailsQuietly ==
    ASSUME OneRunner, RunInv, OrphanInv, NEW p \in Runners,
           pc[p] \notin {"idle", "next", "audit", "mark"},
           NEW n, Goto(p, "fail", None, n), UNCHANGED <<rules, entries>>,
           disturbances' \in {disturbances, disturbances + 1}
    PROVE  OrphanInv'
<1>1. "fail" \in PCs \ {"idle", "next"}
  BY DEF PCs
<1>2. Fits(p, "fail", None, n)
  BY DEF Fits
<1> QED
  BY <1>1, <1>2, GoesOnQuietly

\* The rule is left without a change; what was in flight is accounted for.
LEMMA LeavesQuietly ==
    ASSUME OneRunner, RunInv, OrphanInv, NEW p \in Runners,
           pc[p] \notin {"idle", "next"},
           NEW fails \in SUBSET Rules, Leave(p, fails),
           UNCHANGED <<rules, entries>>,
           disturbances' \in {disturbances, disturbances + 1},
           InFlight(tgt[p]) => disturbances' = disturbances + 1
    PROVE  OrphanInv'
<1>1. /\ pc'[p] = "next" /\ tgt'[p] = None /\ UNCHANGED expired
  BY DEF Leave, RunInv, TypeOK, RunTypeOK
<1>2. ASSUME NEW e \in Ids, e \in Lost', e \notin Lost
      PROVE  InFlight(e) /\ e = tgt[p]
  <2>1. (e \in Orphans)' <=> e \in Orphans
    BY DEF Orphans, Live, Owned
  <2>2. (e \in Orphans \/ Rebinding(e))'
    BY <1>2 DEF Lost
  <2>3. e \in Orphans
    BY <1>1, <2>1, <2>2, TheRun
  <2>4. InFlight(e)
    BY <1>2, <2>3 DEF Lost
  <2> QED
    BY <2>4, TheRun
<1>3. Accounted
  <2>1. Lost' \subseteq Ids
    BY DEF Lost
  <2>2. CASE InFlight(tgt[p])
    BY <1>2, <2>1, <2>2 DEF Accounted
  <2>3. CASE ~InFlight(tgt[p])
    BY <1>2, <2>1, <2>3 DEF Accounted
  <2> QED
    BY <2>2, <2>3
<1>4. /\ cur[p] \in Rules /\ rules[cur[p]] \in Row
      /\ rules[cur[p]].entry # None => entries[rules[cur[p]].entry] # Unused
  BY AtCall
<1> QED
  BY <1>3, <1>4, LeavesRule

\* Get: the entry of the listed binding is the entry of the present one.
LEMMA GetOrphans ==
    ASSUME OneRunner, RunInv, OrphanInv, NEW p \in Runners, GetEntry(p)
    PROVE  OrphanInv'
<1> DEFINE e == Snap(p).entry
<1>1. /\ pc[p] = "get" /\ pc[p] \notin {"idle", "next"}
      /\ UNCHANGED <<rules, entries>>
  BY DEF GetEntry, StoreUnchanged, SpireUnchanged, regVars
<1>2. /\ Snap(p).desired \in {"present", "absent"}
      /\ e # None /\ e \in Ids /\ e = rules[cur[p]].entry
      /\ entries[e] # Unused
  BY <1>1, AtCall DEF RunInv, Shape, RunShape, Row, DesiredStates
<1>3. disturbances' \in {disturbances, disturbances + 1}
  BY Disturbances DEF GetEntry, GetMissing, GetForeign, GetOwned, GetFails
<1>4. {"create", "audit", "delete", "update"} \subseteq PCs \ {"idle", "next"}
  BY DEF PCs
<1>5. ASSUME NEW l \in {"create", "audit", "delete", "update"},
             NEW t \in {None, e}, NEW n, Goto(p, l, t, n), Fits(p, l, t, n)
      PROVE  OrphanInv'
  <2>1. l # "rebind" /\ ~(pc[p] \in {"audit", "mark"})
    BY <1>1
  <2>2. t \in Ids \cup {None} /\ (t # None => entries[t] # Unused)
    BY <1>2
  <2>3. l \in PCs \ {"idle", "next"}
    BY <1>4
  <2> HIDE DEF e
  <2> QED
    BY <1>1, <1>3, <1>5, <2>1, <2>2, <2>3, GoesOnQuietly
<1>6. CASE GetMissing(p)
  <2>1. Dead(rules[cur[p]].entry)
    BY <1>2, <1>6 DEF GetMissing, Live, Dead, RunInv, TypeOK
  <2>2. CASE Goto(p, "create", None, "none")
    <3>1. Fits(p, "create", None, "none")
      BY <2>1 DEF Fits
    <3> QED
      BY <1>5, <2>2, <3>1
  <2>3. CASE Goto(p, "audit", e, "clear_stale_binding")
    <3>1. Fits(p, "audit", e, "clear_stale_binding")
      BY <2>1 DEF Fits
    <3> QED
      BY <1>5, <2>3, <3>1
  <2> QED
    BY <1>6, <2>2, <2>3 DEF GetMissing
<1>7. CASE GetForeign(p)
  <2>1. Fits(p, "audit", e, "ownership_conflict")
    BY Kinds DEF Fits
  <2> QED
    BY <1>5, <1>7, <2>1 DEF GetForeign
<1>8. CASE GetFails(p)
  BY <1>1, <1>3, <1>8, FailsQuietly DEF GetFails
<1>9. CASE GetOwned(p)
  <2>1. CASE Snap(p).desired = "absent"
    <3>1. Goto(p, "delete", e, "none")
      BY <1>9, <2>1, Zenon DEF GetOwned
    <3>2. Fits(p, "delete", e, "none")
      BY <1>2 DEF Fits
    <3> QED
      BY <1>5, <3>1, <3>2
  <2>2. CASE Snap(p).desired = "present" /\ entries[e] # Desired(p)
    <3>1. Snap(p).desired # "absent"
      BY <2>2
    <3>2. Goto(p, "update", e, "none")
      BY <1>9, <2>2, <3>1, Zenon DEF GetOwned
    <3>3. Fits(p, "update", e, "none")
      BY <1>2 DEF Fits
    <3> QED
      BY <1>5, <3>2, <3>3
  <2>3. CASE /\ Snap(p).desired = "present" /\ entries[e] = Desired(p)
             /\ Snap(p).status # "converged"
    <3>1. Snap(p).desired # "absent"
      BY <2>3
    <3>2. Goto(p, "audit", e, "bind_owned_existing")
      BY <1>9, <2>3, <3>1, Zenon DEF GetOwned
    <3>3. Fits(p, "audit", e, "bind_owned_existing")
      BY <1>2, Kinds DEF Fits
    <3> QED
      BY <1>5, <3>2, <3>3
  <2>4. CASE /\ Snap(p).desired = "present" /\ entries[e] = Desired(p)
             /\ Snap(p).status = "converged"
    <3>1. Snap(p).desired # "absent"
      BY <2>4
    <3>2. Leave(p, {})
      BY <1>9, <2>4, <3>1, Zenon DEF GetOwned, Converged
    <3>3. ~InFlight(tgt[p])
      BY <1>1 DEF OneRunner, InFlight
    <3> QED
      BY <1>1, <1>3, <3>2, <3>3, LeavesQuietly
  <2> QED
    BY <1>2, <2>1, <2>2, <2>3, <2>4
<1> QED
  BY <1>6, <1>7, <1>8, <1>9 DEF GetEntry

\* A run that changed one entry and goes on: what fitted before fits still.
LEMMA GoesOnPutting ==
    ASSUME OneRunner, RunInv, OrphanInv, NEW p \in Runners,
           pc[p] \notin {"idle", "next"},
           NEW l \in PCs \ {"idle", "next"}, NEW t \in Ids \cup {None}, NEW n,
           Goto(p, l, t, n), UNCHANGED rules,
           NEW e \in Ids, NEW x, Put(e, x), entries[e] # Gone, x # Unused,
           Fits(p, l, t, n), Accounted,
           t # None => entries'[t] # Unused
    PROVE  OrphanInv'
<1>1. /\ pc'[p] = l /\ tgt'[p] = t /\ note'[p] = n /\ UNCHANGED cur
  BY DEF Goto, RunInv, TypeOK, RunTypeOK
<1>2. rules[cur[p]].entry \in Ids \cup {None}
  BY AtCall DEF Row
<1>3. ASSUME NEW b, b = rules[cur[p]].entry, Dead(b) PROVE Dead(b)'
  BY <1>2, <1>3, DeadStays
<1>4. Bound(p)'
  BY <1>1, <1>3 DEF Bound, Fits
<1>5. \A d \in Ids : entries[d] # Unused => entries'[d] # Unused
  BY DEF Put, RunInv, TypeOK
<1> QED
  BY <1>4, <1>5, GoesOn

\* Update and rebind: the entry ends up with the hint of the rule that is
\* bound to it, or was an orphan before.
LEMMA UpdateOrphans ==
    ASSUME OneRunner, RunInv, OrphanInv, NEW p \in Runners,
           UpdateEntry(p) \/ RebindEntry(p)
    PROVE  OrphanInv'
<1>1. /\ pc[p] \in {"update", "rebind"} /\ pc[p] \notin {"idle", "next"}
      /\ UNCHANGED rules
  BY DEF UpdateEntry, RebindEntry, StoreUnchanged, regVars
<1>2. /\ tgt[p] # None /\ tgt[p] \in Ids /\ Bound(p)
      /\ entries[tgt[p]] # Unused /\ cur[p] \in Rules
      /\ Desired(p) \in Entry /\ Desired(p).hint = cur[p]
  BY <1>1 DEF RunInv, TypeOK, RunTypeOK, Shape, RunShape, OrphanInv, Issued,
     Desired, DesiredEntry, Snap, Entry, Row
<1>3. disturbances' \in {disturbances, disturbances + 1}
  BY Disturbances DEF UpdateEntry, RebindEntry, UpdateMissing
<1>4. {"create", "audit", "fail"} \subseteq PCs \ {"idle", "next"}
  BY DEF PCs
<1>5. ASSUME ApplyUpdate(p), NEW l \in {"audit", "fail"},
             NEW t \in {tgt[p], None}, NEW n, n # "create",
             Goto(p, l, t, n), Fits(p, l, t, n)
      PROVE  OrphanInv'
  <2>1. /\ Put(tgt[p], Desired(p)) /\ entries[tgt[p]] \in Entry
    BY <1>5 DEF ApplyUpdate, Live
  <2>2. /\ entries' = [entries EXCEPT ![tgt[p]] = Desired(p)]
        /\ entries[tgt[p]] # Gone /\ Desired(p) # Unused
    BY <1>2, <2>1, ReconcilerAssumption DEF Put
  <2>3. pc'[p] = l /\ note'[p] = n
    BY <1>5 DEF Goto, RunInv, TypeOK, RunTypeOK
  <2>4. ASSUME NEW e \in Ids, e \in Lost' PROVE e \in Lost
    <3>1. (e \in Orphans)'
      BY <1>5, <2>3, <2>4, TheRun DEF Lost
    <3>2. ~InFlight(e)
      BY <1>1, TheRun
    <3>3. CASE e # tgt[p]
      <4>1. entries'[e] = entries[e]
        BY <2>2, <3>3 DEF RunInv, TypeOK
      <4> QED
        BY <1>1, <3>1, <3>2, <4>1 DEF Lost, Orphans, Live, Owned
    <3>4. CASE e = tgt[p] /\ pc[p] = "rebind"
      BY <3>2, <3>4, TheRun DEF Lost
    <3>5. CASE e = tgt[p] /\ pc[p] = "update"
      <4>1. entries'[e].hint = cur[p]
        BY <1>2, <2>2, <3>5 DEF RunInv, TypeOK
      <4>2. rules[cur[p]].entry = e /\ rules[cur[p]] # NoRow
        BY <1>1, <1>2, <3>5 DEF Bound, Fits, OrphanInv, Ahead
      <4> QED
        BY <1>1, <3>1, <4>1, <4>2 DEF Orphans, Owned
    <3> QED
      BY <1>1, <3>3, <3>4, <3>5
  <2>5. Accounted
    BY <1>3, <2>4 DEF Accounted, Lost
  <2>6. entries'[tgt[p]] # Unused
    BY <1>2, <2>2 DEF RunInv, TypeOK
  <2>7. (l \in PCs \ {"idle", "next"}) /\ t \in Ids \cup {None}
    BY <1>2, <1>4
  <2>8. t # None => entries'[t] # Unused
    BY <2>6
  <2> QED
    BY <1>1, <1>2, <1>5, <2>1, <2>2, <2>5, <2>7, <2>8, GoesOnPutting
<1>6. ASSUME ApplyUpdate(p), NEW n \in {"update", "update_owned_existing"},
             Goto(p, "audit", tgt[p], n)
      PROVE  OrphanInv'
  <2>1. n # "create" /\ n \notin Unbindings
    BY Kinds
  <2>2. Fits(p, "audit", tgt[p], n)
    BY <1>1, <1>2, <2>1 DEF Bound, Fits
  <2> QED
    BY <1>5, <1>6, <2>1, <2>2
<1>7. ASSUME ApplyUpdate(p), Goto(p, "fail", None, "spire_update_failed")
      PROVE  OrphanInv'
  <2>1. Fits(p, "fail", None, "spire_update_failed")
    BY DEF Fits
  <2> QED
    BY <1>5, <1>7, <2>1
<1>8. ASSUME pc[p] = "update", ~Live(tgt[p]), UNCHANGED entries,
             Goto(p, "create", None, "none")
      PROVE  OrphanInv'
  <2>1. Dead(rules[cur[p]].entry)
    BY <1>2, <1>8 DEF Bound, Fits, Live, Dead, RunInv, TypeOK
  <2>2. Fits(p, "create", None, "none")
    BY <2>1 DEF Fits
  <2>3. "create" \in PCs \ {"idle", "next"}
    BY <1>4
  <2> QED
    BY <1>1, <1>3, <1>8, <2>2, <2>3, GoesOnQuietly
<1>9. ASSUME NEW n, UNCHANGED entries, Goto(p, "fail", None, n)
      PROVE  OrphanInv'
  BY <1>1, <1>3, <1>9, FailsQuietly
<1>10. CASE UpdateEntry(p)
  BY <1>6, <1>7, <1>8, <1>9, <1>10
  DEF UpdateEntry, UpdateMissing, SpireUnchanged
<1>11. CASE RebindEntry(p)
  BY <1>6, <1>7, <1>9, <1>11
  DEF RebindEntry, UpdateMissing, SpireUnchanged
<1> QED
  BY <1>10, <1>11

\* Create: a new entry is in flight, or lost with its reply; an existing one
\* that the rule is to be bound to was an orphan.
LEMMA CreateOrphans ==
    ASSUME OneRunner, RunInv, OrphanInv, NEW p \in Runners, CreateEntry(p)
    PROVE  OrphanInv'
<1>1. /\ pc[p] = "create" /\ pc[p] \notin {"idle", "next"}
      /\ UNCHANGED rules
  BY DEF CreateEntry, StoreUnchanged, regVars
<1>2. /\ cur[p] \in Rules /\ rules[cur[p]] \in Row
      /\ Dead(rules[cur[p]].entry)
      /\ Desired(p) \in Entry /\ Desired(p).hint = cur[p]
  BY <1>1, AtCall DEF RunInv, TypeOK, RunTypeOK, Shape, RunShape, OrphanInv,
     Bound, Fits, Desired, DesiredEntry, Snap, Entry, Row
<1>3. {"audit", "rebind", "fail"} \subseteq PCs \ {"idle", "next"}
  BY DEF PCs
<1>4. disturbances' \in {disturbances, disturbances + 1}
  BY Disturbances DEF CreateEntry, CreateExisting
<1>5. ASSUME NEW e \in Ids, ApplyCreate(p, e),
             \/ Works(p) /\ Goto(p, "audit", e, "create")
             \/ /\ ReplyLost(p)
                /\ Goto(p, "fail", None, "spire_create_failed")
      PROVE  OrphanInv'
  <2>1. /\ Put(e, Desired(p)) /\ entries[e] = Unused
        /\ entries[e] # Gone /\ Desired(p) # Unused
    BY <1>2, <1>5, ReconcilerAssumption DEF ApplyCreate, Fresh
  <2>2. entries'[e] = Desired(p)
        /\ \A d \in Ids \ {e} : entries'[d] = entries[d]
    BY <2>1 DEF Put, RunInv, TypeOK
  <2>3. \A q \in Rules : rules[q] # NoRow => rules[q].entry # e
    BY <2>1, RegistrationAssumption DEF OrphanInv, Issued
  <2>4. UNCHANGED <<cur, expired>>
    BY <1>5 DEF Goto
  <2>5. ASSUME NEW d \in Ids, d # e, d \in Lost' PROVE d \in Lost
    <3>1. (d \in Orphans)' <=> d \in Orphans
      BY <1>1, <2>2, <2>5 DEF Orphans, Live, Owned
    <3>2. ~InFlight(d) /\ ~Rebinding(d)'
      BY <1>1, <1>5, TheRun DEF Goto, RunInv, TypeOK, RunTypeOK
    <3> QED
      BY <2>5, <3>1, <3>2 DEF Lost
  <2>6. CASE Works(p) /\ Goto(p, "audit", e, "create")
    <3>1. InFlight(e)'
      <4>1. /\ pc'[p] = "audit" /\ tgt'[p] = e /\ note'[p] = "create"
            /\ ~expired[p]
        BY <2>6 DEF Goto, Works, RunInv, TypeOK, RunTypeOK
      <4>2. Owned(e, cur[p])'
        BY <1>2, <2>2, <2>4 DEF Owned
      <4> QED
        BY <2>4, <4>1, <4>2, TheRun
    <3>2. e \notin Lost'
      BY <3>1 DEF Lost
    <3>3. Accounted
      BY <1>4, <2>5, <3>2 DEF Accounted, Lost
    <3>4. Fits(p, "audit", e, "create")
      BY <1>2, <2>3, Kinds DEF Fits
    <3>5. "audit" \in PCs \ {"idle", "next"} /\ e \in Ids \cup {None}
      BY <1>3
    <3>6. entries'[e] # Unused
      BY <2>1, <2>2
    <3> QED
      BY <1>1, <2>1, <2>6, <3>3, <3>4, <3>5, <3>6, GoesOnPutting
  <2>7. CASE ReplyLost(p) /\ Goto(p, "fail", None, "spire_create_failed")
    <3>1. disturbances' = disturbances + 1
      BY <2>7, Disturbances
    <3>2. Lost' \subseteq Lost \cup {e}
      BY <2>5 DEF Lost
    <3>3. Accounted
      BY <3>1, <3>2 DEF Accounted
    <3>4. Fits(p, "fail", None, "spire_create_failed")
      BY DEF Fits
    <3>5. "fail" \in PCs \ {"idle", "next"}
      BY <1>3
    <3> QED
      BY <1>1, <2>1, <2>7, <3>3, <3>4, <3>5, GoesOnPutting
  <2> QED
    BY <1>5, <2>6, <2>7
<1>6. ASSUME NEW e \in Ids, CreateExisting(p, e)
      PROVE  OrphanInv'
  <2>1. UNCHANGED entries /\ Live(e) /\ entries[e] # Unused
    BY <1>6, ReconcilerAssumption
    DEF CreateExisting, SpireUnchanged, Similar, Live
  <2>2. e \in Ids \cup {None}
    OBVIOUS
  <2>3. ASSUME NEW n \in {"bind_owned_existing", "ownership_conflict"},
               Goto(p, "audit", e, n)
        PROVE  OrphanInv'
    <3>1. Fits(p, "audit", e, n)
      BY <1>2, Kinds DEF Fits
    <3>2. "audit" \in PCs \ {"idle", "next"}
      BY <1>3
    <3> QED
      BY <1>1, <1>4, <2>1, <2>2, <2>3, <3>1, <3>2, GoesOnQuietly
  <2>4. CASE ~Owned(e, cur[p])
    <3>1. entries[e] # Desired(p)
      BY <1>2, <2>4 DEF Owned
    <3>2. Goto(p, "audit", e, "ownership_conflict")
      BY <1>6, <2>4, <3>1, Zenon DEF CreateExisting
    <3> QED
      BY <2>3, <3>2
  <2>5. CASE Owned(e, cur[p]) /\ entries[e] = Desired(p)
    <3>1. Goto(p, "audit", e, "bind_owned_existing")
      BY <1>6, <2>5, Zenon DEF CreateExisting
    <3> QED
      BY <2>3, <3>1
  <2>6. CASE Owned(e, cur[p]) /\ entries[e] # Desired(p)
    <3>1. Goto(p, "rebind", e, "none")
      BY <1>6, <2>6, Zenon DEF CreateExisting
    <3>2. e \in Orphans
      <4>1. rules[cur[p]].entry # e
        BY <1>2, <2>1, ReconcilerAssumption, RegistrationAssumption
        DEF Dead, Live
      <4> QED
        BY <1>2, <2>1, <2>6, <4>1 DEF Orphans
    <3>3. Fits(p, "rebind", e, "none")
      BY <1>2 DEF Fits
    <3>4. "rebind" \in PCs \ {"idle", "next"}
      BY <1>3
    <3> QED
      BY <1>1, <1>4, <2>1, <2>2, <3>1, <3>2, <3>3, <3>4, GoesOnQuietly
  <2> QED
    BY <2>4, <2>5, <2>6
<1>7. ASSUME UNCHANGED entries, Goto(p, "fail", None, "spire_create_failed")
      PROVE  OrphanInv'
  BY <1>1, <1>4, <1>7, FailsQuietly
<1> QED
  BY <1>5, <1>6, <1>7 DEF CreateEntry, SpireUnchanged

\* Delete: an entry less.
LEMMA DeleteOrphans ==
    ASSUME OneRunner, RunInv, OrphanInv, NEW p \in Runners, DeleteEntry(p)
    PROVE  OrphanInv'
<1>1. /\ pc[p] = "delete" /\ pc[p] \notin {"idle", "next"}
      /\ UNCHANGED rules
  BY DEF DeleteEntry, StoreUnchanged, regVars
<1>2. /\ tgt[p] # None /\ tgt[p] \in Ids
      /\ tgt[p] = rules[cur[p]].entry /\ entries[tgt[p]] # Unused
  BY <1>1 DEF RunInv, TypeOK, RunTypeOK, Shape, RunShape, OrphanInv, Issued,
     Bound, Fits
<1>3. disturbances' \in {disturbances, disturbances + 1}
  BY Disturbances DEF DeleteEntry
<1>4. {"audit", "fail"} \subseteq PCs \ {"idle", "next"}
  BY DEF PCs
<1>5. ASSUME ApplyDelete(p), NEW l \in {"audit", "fail"},
             NEW t \in {tgt[p], None}, NEW n, n \notin Bindings,
             Goto(p, l, t, n)
      PROVE  OrphanInv'
  <2>1. /\ Put(tgt[p], Gone) /\ entries[tgt[p]] \in Entry
        /\ Gone # Unused /\ Gone \notin Entry
    BY <1>5, ReconcilerAssumption DEF ApplyDelete, Live
  <2>2. /\ entries'[tgt[p]] = Gone
        /\ \A d \in Ids \ {tgt[p]} : entries'[d] = entries[d]
    BY <1>2, <2>1 DEF Put, RunInv, TypeOK
  <2>3. /\ pc'[p] = l /\ tgt'[p] = t /\ note'[p] = n /\ UNCHANGED cur
    BY <1>5 DEF Goto, RunInv, TypeOK, RunTypeOK
  <2>4. ASSUME NEW e \in Ids, e \in Lost' PROVE e \in Lost
    <3>1. (e \in Orphans)' /\ ~InFlight(e)
      BY <1>1, <1>5, <2>3, <2>4, TheRun DEF Lost
    <3>2. e # tgt[p]
      BY <2>1, <2>2, <3>1 DEF Orphans, Live
    <3> QED
      BY <1>1, <2>2, <3>1, <3>2 DEF Lost, Orphans, Live, Owned
  <2>5. Accounted
    BY <1>3, <2>4 DEF Accounted, Lost
  <2>6. Dead(rules[cur[p]].entry)'
    BY <1>1, <1>2, <2>2, <2>3 DEF Dead
  <2>7. Bound(p)'
    BY <1>5, <2>3, <2>6, Kinds DEF Bound, Fits
  <2>8. \A d \in Ids : entries[d] # Unused => entries'[d] # Unused
    BY <2>1, <2>2
  <2>9. (l \in PCs \ {"idle", "next"}) /\ t \in Ids \cup {None}
        /\ (t # None => entries'[t] # Unused)
    BY <1>2, <1>4, <2>1, <2>2
  <2> QED
    BY <1>1, <1>5, <2>5, <2>7, <2>8, <2>9, GoesOn
<1>6. ASSUME ~Live(tgt[p]), UNCHANGED entries,
             Goto(p, "audit", tgt[p], "delete")
      PROVE  OrphanInv'
  <2>1. Dead(rules[cur[p]].entry)
    BY <1>2, <1>6 DEF Live, Dead, RunInv, TypeOK
  <2>2. Fits(p, "audit", tgt[p], "delete")
    BY <2>1, Kinds DEF Fits
  <2>3. "audit" \in PCs \ {"idle", "next"} /\ tgt[p] \in Ids \cup {None}
    BY <1>2, <1>4
  <2> QED
    BY <1>1, <1>2, <1>3, <1>6, <2>2, <2>3, GoesOnQuietly
<1>7. ASSUME UNCHANGED entries, Goto(p, "fail", None, "spire_delete_failed")
      PROVE  OrphanInv'
  BY <1>1, <1>3, <1>7, FailsQuietly
<1>8. "delete" \notin Bindings /\ "spire_delete_failed" \notin Bindings
  BY DEF Bindings
<1> QED
  BY <1>5, <1>6, <1>7, <1>8 DEF DeleteEntry, SpireUnchanged

\* Audit: what is in flight stays so, or the call failed.
LEMMA AuditOrphans ==
    ASSUME OneRunner, RunInv, OrphanInv, NEW p \in Runners, RecordAudit(p)
    PROVE  OrphanInv'
<1>1. /\ pc[p] = "audit" /\ pc[p] \notin {"idle", "next"}
      /\ UNCHANGED <<rules, entries>>
  BY DEF RecordAudit, AppendTrail, StoreUnchanged, SpireUnchanged, regVars
<1>2. /\ cur[p] \in Rules /\ tgt[p] \in Ids \cup {None}
      /\ tgt[p] # None => entries[tgt[p]] # Unused
  BY <1>1, AtCall DEF OrphanInv, Issued
<1>3. disturbances' \in {disturbances, disturbances + 1}
  BY Disturbances DEF RecordAudit
<1>4. {"mark", "fail"} \subseteq PCs \ {"idle", "next"}
  BY DEF PCs
<1>5. ASSUME note[p] # "ownership_conflict", Goto(p, "mark", tgt[p], note[p])
      PROVE  OrphanInv'
  <2>1. Fits(p, "mark", tgt[p], note[p])
    BY <1>1 DEF OrphanInv, Bound, Fits
  <2>2. "mark" \in PCs \ {"idle", "next"}
    BY <1>4
  <2> QED
    BY <1>1, <1>2, <1>3, <1>5, <2>1, <2>2, GoesOnQuietly
<1>6. ASSUME note[p] = "ownership_conflict",
             Goto(p, "fail", None, "ownership_mismatch")
      PROVE  OrphanInv'
  <2>1. Fits(p, "fail", None, "ownership_mismatch")
    BY DEF Fits
  <2>2. "fail" \in PCs \ {"idle", "next"} /\ note[p] # "create"
    BY <1>4, <1>6
  <2> QED
    BY <1>1, <1>3, <1>6, <2>1, <2>2, GoesOnQuietly
<1>7. ASSUME Fails(p) \/ ReplyLost(p), Failed(p)
      PROVE  OrphanInv'
  <2>1. InFlight(tgt[p]) => ~expired[p]
    BY DEF OneRunner, InFlight
  <2>2. InFlight(tgt[p]) => disturbances' = disturbances + 1
    BY <1>7, <2>1, Disturbances
  <2>3. Leave(p, {cur[p]}) /\ {cur[p]} \in SUBSET Rules
    BY <1>2, <1>7 DEF Failed
  <2> QED
    BY <1>1, <1>3, <2>2, <2>3, LeavesQuietly
<1> QED
  BY <1>5, <1>6, <1>7 DEF RecordAudit

\* A status statement changes its own row, and of its binding only what
\* MarkConverged sets.
LEMMA Stored ==
    ASSUME RunInv, NEW k \in Rules, NEW b \in Ids \cup {None},
           NEW status \in Statuses, NEW code \in Codes, rules[k] \in Row,
           rules' = [rules EXCEPT ![k] = WithStatus(@, b, status, code)]
    PROVE  /\ rules'[k] \in Row /\ rules'[k].entry = b
           /\ \A q \in Rules \ {k} : rules'[q] = rules[q]
<1>1. rules'[k] = WithStatus(rules[k], b, status, code)
  BY DEF RunInv, TypeOK, RegTypeOK
<1>2. WithStatus(rules[k], b, status, code) \in Row
      /\ WithStatus(rules[k], b, status, code).entry = b
  BY DEF WithStatus, Row
<1> QED
  BY <1>1, <1>2 DEF RunInv, TypeOK, RegTypeOK

\* Mark: what was in flight is bound, and the binding it replaces leads
\* nowhere; otherwise the call failed.
LEMMA MarkOrphans ==
    ASSUME OneRunner, RunInv, OrphanInv, NEW p \in Runners, MarkRule(p)
    PROVE  OrphanInv'
<1>1. /\ pc[p] = "mark" /\ pc[p] \notin {"idle", "next"}
      /\ UNCHANGED entries
  BY DEF MarkRule, SpireUnchanged
<1>2. /\ cur[p] \in Rules /\ rules[cur[p]] \in Row
      /\ tgt[p] \in Ids \cup {None} /\ Binding(p) \in Ids \cup {None}
      /\ tgt[p] # None => entries[tgt[p]] # Unused
      /\ Binding(p) # None => Binding(p) = tgt[p]
      /\ note[p] \in Bindings \cup Unbindings
      /\ Fits(p, "mark", tgt[p], note[p])
  BY <1>1, AtCall
  DEF OrphanInv, Issued, Bound, Binding, RunInv, Shape, RunShape
<1>3. disturbances' \in {disturbances, disturbances + 1}
  BY Disturbances DEF MarkRule
<1>4. ASSUME NEW k, k = cur[p], NEW b, b = Binding(p),
             MarkConverged(k, b), NEW f \in SUBSET Rules, Leave(p, f)
      PROVE  OrphanInv'
  <2>1. rules' = [rules EXCEPT ![k] = WithStatus(@, b, "converged", "none")]
    BY <1>4 DEF MarkConverged
  <2>2. "converged" \in Statuses /\ "none" \in Codes
    BY DEF Statuses, Codes
  <2>3. /\ rules'[k] \in Row /\ rules'[k].entry = b
        /\ \A q \in Rules \ {k} : rules'[q] = rules[q]
    <3>1. k \in Rules
      BY <1>2, <1>4
    <3>2. b \in Ids \cup {None}
      BY <1>2, <1>4
    <3>3. rules[k] \in Row
      BY <1>2, <1>4
    <3> HIDE <1>4
    <3> QED
      BY <2>1, <2>2, <3>1, <3>2, <3>3, Stored
  <2>4. rules[k].entry = b \/ Dead(rules[k].entry)
    BY <1>2, <1>4, Kinds DEF Fits, Binding
  <2>5. pc'[p] = "next" /\ None \notin Ids /\ Gone \notin Entry
    BY <1>4, RegistrationAssumption, ReconcilerAssumption
    DEF Leave, RunInv, TypeOK, RunTypeOK
  <2>6. ASSUME NEW e \in Ids, e \in Lost' PROVE e \in Lost
    <3>1. (e \in Orphans)'
      BY <2>5, <2>6, TheRun DEF Lost
    <3>2. PICK r \in Rules : /\ Live(e) /\ Owned(e, r)
                             /\ rules'[r] # NoRow => rules'[r].entry # e
      BY <1>1, <3>1 DEF Orphans, Live, Owned
    <3>3. CASE r # k
      <4>1. e \in Orphans
        BY <2>3, <3>2, <3>3 DEF Orphans
      <4>2. ~InFlight(e)
        BY <1>4, <3>2, <3>3, TheRun DEF Owned
      <4> QED
        BY <4>1, <4>2 DEF Lost
    <3>4. CASE r = k
      <4>1. b # e
        BY <2>3, <3>2, <3>4, RowFacts
      <4>2. rules[k].entry # e
        BY <2>4, <2>5, <3>2, <4>1 DEF Dead, Live
      <4>3. e \in Orphans
        BY <1>2, <3>2, <3>4, <4>2 DEF Orphans
      <4>4. ~InFlight(e)
        BY <1>2, <1>4, <4>1, TheRun, Kinds DEF Binding
      <4> QED
        BY <4>3, <4>4 DEF Lost
    <3> QED
      BY <3>3, <3>4
  <2>7. Accounted
    BY <1>3, <2>6 DEF Accounted, Lost
  <2>8. rules'[k].entry # None => entries[rules'[k].entry] # Unused
    BY <1>2, <1>4, <2>3
  <2>9. k \in Rules
    BY <1>2, <1>4
  <2> QED
    BY <1>1, <1>4, <2>3, <2>7, <2>8, <2>9, LeavesRule
<1>5. ASSUME UNCHANGED rules, Fails(p), Failed(p)
      PROVE  OrphanInv'
  <2>1. InFlight(tgt[p]) => ~expired[p]
    BY DEF OneRunner, InFlight
  <2>2. InFlight(tgt[p]) => disturbances' = disturbances + 1
    BY <1>5, <2>1, Disturbances
  <2>3. Leave(p, {cur[p]}) /\ {cur[p]} \in SUBSET Rules
    BY <1>2, <1>5 DEF Failed
  <2> QED
    BY <1>1, <1>3, <1>5, <2>2, <2>3, LeavesQuietly
<1>6. ASSUME UNCHANGED rules, ~EntryUnique(cur[p], Binding(p)), Failed(p)
      PROVE  OrphanInv'
  <2>1. Binding(p) # None /\ Binding(p) = tgt[p]
        /\ \E q \in Rules : rules[q] # NoRow /\ rules[q].entry = tgt[p]
    BY <1>2, <1>6 DEF EntryUnique
  <2>2. note[p] # "create"
    BY <1>2, <2>1 DEF Fits
  <2>3. ~InFlight(tgt[p])
    BY <2>2 DEF OneRunner, InFlight
  <2>4. Leave(p, {cur[p]}) /\ {cur[p]} \in SUBSET Rules
    BY <1>2, <1>6 DEF Failed
  <2> QED
    BY <1>1, <1>3, <1>6, <2>3, <2>4, LeavesQuietly
<1>7. {} \in SUBSET Rules /\ {cur[p]} \in SUBSET Rules
  BY <1>2
<1> QED
  BY <1>4, <1>5, <1>6, <1>7 DEF MarkRule, Converged, Failed, regVars

\* MarkError leaves the binding alone.
LEMMA FailOrphans ==
    ASSUME OneRunner, RunInv, OrphanInv, NEW p \in Runners, FailRule(p)
    PROVE  OrphanInv'
<1>1. /\ pc[p] = "fail" /\ pc[p] \notin {"idle", "next"}
      /\ UNCHANGED entries /\ Leave(p, {cur[p]})
  BY DEF FailRule, SpireUnchanged, Failed
<1>2. /\ cur[p] \in Rules /\ rules[cur[p]] \in Row
      /\ rules[cur[p]].entry # None => entries[rules[cur[p]].entry] # Unused
      /\ note[p] \in Codes \ {"none"}
  BY <1>1, AtCall DEF RunInv, Shape, RunShape
<1>3. disturbances' \in {disturbances, disturbances + 1}
  BY Disturbances DEF FailRule
<1>4. ~InFlight(tgt[p]) /\ \A e \in Ids : ~InFlight(e)
  BY <1>1 DEF OneRunner, InFlight
<1>5. {cur[p]} \in SUBSET Rules
  BY <1>2
<1>6. CASE UNCHANGED regVars
  BY <1>1, <1>3, <1>4, <1>5, <1>6, LeavesQuietly DEF regVars
<1>7. CASE MarkError(cur[p], note[p])
  <2>1. PICK k \in Rules : k = cur[p]
    BY <1>2
  <2>2. rules' = [rules EXCEPT ![k] =
                     WithStatus(rules[k], rules[k].entry, "error", note[p])]
    BY <1>7, <2>1 DEF MarkError
  <2>3. /\ rules[k] \in Row /\ rules[k].entry \in Ids \cup {None}
        /\ "error" \in Statuses /\ note[p] \in Codes
    BY <1>2, <2>1 DEF Row, Statuses
  <2>4. /\ rules'[k] \in Row /\ rules'[k].entry = rules[k].entry
        /\ \A q \in Rules \ {k} : rules'[q] = rules[q]
    BY <2>2, <2>3, Stored
  <2>5. ASSUME NEW e \in Ids, e \in Lost' PROVE e \in Lost
    <3>1. pc'[p] = "next"
      BY <1>1 DEF Leave, RunInv, TypeOK, RunTypeOK
    <3>2. (e \in Orphans)'
      BY <2>5, <3>1, TheRun DEF Lost
    <3>3. rules[k] # NoRow /\ rules'[k] # NoRow
      BY <2>3, <2>4, RowFacts
    <3>4. e \in Orphans
      BY <1>1, <2>4, <3>2, <3>3 DEF Orphans, Live, Owned
    <3> QED
      BY <1>4, <3>4 DEF Lost
  <2>6. Accounted
    BY <1>3, <2>5 DEF Accounted, Lost
  <2>7. rules'[k].entry # None => entries[rules'[k].entry] # Unused
    BY <1>2, <2>1, <2>4
  <2>8. Leave(p, {k}) /\ {k} \in SUBSET Rules
    BY <1>1, <2>1
  <2> QED
    BY <1>1, <2>1, <2>4, <2>6, <2>7, <2>8, LeavesRule
<1> QED
  BY <1>6, <1>7 DEF FailRule

\* The steps between rules, at which nothing is in flight.
LEMMA BetweenRules ==
    ASSUME OneRunner, RunInv, OrphanInv, NEW p \in Runners,
           UNCHANGED <<rules, entries>>, disturbances' = disturbances,
           pc[p] \in {"idle", "next"}, pc'[p] # "rebind",
           Ahead(p)', Bound(p)', tgt'[p] = None
    PROVE  OrphanInv'
<1>1. ASSUME NEW e \in Ids, e \in Lost' PROVE e \in Lost
  <2>1. (e \in Orphans)' <=> e \in Orphans
    BY DEF Orphans, Live, Owned
  <2> QED
    BY <1>1, <2>1, TheRun DEF Lost
<1>2. Accounted
  BY <1>1 DEF Accounted, Lost
<1>3. Issued'
  BY DEF OneRunner, OrphanInv, Issued
<1>4. \A q \in Runners : q = p
  BY DEF OneRunner
<1> QED
  BY <1>2, <1>3, <1>4, AccountKept DEF OrphanInv

\* List: the snapshot is the table.
LEMMA StartOrphans ==
    ASSUME OneRunner, RunInv, OrphanInv, NEW p \in Runners, StartRun(p)
    PROVE  OrphanInv'
<1>1. /\ pc[p] = "idle" /\ pc'[p] = "next" /\ snap'[p] = rules
      /\ todo'[p] = {r \in Rules : rules[r] # NoRow}
      /\ UNCHANGED <<rules, entries, cur, tgt, disturbances>>
  BY DEF StartRun, StoreUnchanged, SpireUnchanged, regVars, RunInv, TypeOK,
         RunTypeOK
<1>2. cur[p] = None /\ tgt[p] = None /\ None \notin Rules
  BY <1>1, ReconcilerAssumption DEF OrphanInv, Ahead, RunInv, Shape, RunShape
<1>3. Ahead(p)'
  BY <1>1, <1>2 DEF Ahead
<1>4. Bound(p)'
  BY <1>1 DEF Bound, Fits
<1> QED
  BY <1>1, <1>2, <1>3, <1>4, BetweenRules

\* The first call fits the listed row, which is bound as the present one is.
LEMMA NextOrphans ==
    ASSUME OneRunner, RunInv, OrphanInv, NEW p \in Runners, ReconcileRule(p)
    PROVE  OrphanInv'
<1> DEFINE call(r) == FirstCall(snap[p][r])
<1>1. PICK r \in todo[p] :
         /\ pc[p] = "next"
         /\ todo' = [todo EXCEPT ![p] = @ \ {r}]
         /\ cur' = [cur EXCEPT ![p] = IF call(r)[1] = "next" THEN None ELSE r]
         /\ pc' = [pc EXCEPT ![p] = call(r)[1]]
         /\ note' = [note EXCEPT ![p] = call(r)[2]]
         /\ UNCHANGED <<rules, entries, snap, tgt, disturbances>>
  BY DEF ReconcileRule, StoreUnchanged, SpireUnchanged, regVars
<1>2. /\ tgt[p] = None /\ cur[p] = None /\ None \notin Rules
      /\ todo[p] \subseteq Rules /\ r \in Rules
  BY <1>1, ReconcilerAssumption
  DEF OrphanInv, Ahead, RunInv, TypeOK, RunTypeOK, Shape, RunShape
<1>3. rules[r] # NoRow /\ rules[r].entry = snap[p][r].entry
  BY <1>1, <1>2 DEF OrphanInv, Ahead
<1>4. /\ call(r)[1] \in {"fail", "create", "get", "audit", "next"}
      /\ call(r)[1] = "create" => rules[r].entry = None
      /\ call(r)[1] = "audit" => /\ rules[r].entry = None
                                 /\ call(r)[2] = "absent_noop"
  BY <1>3 DEF FirstCall
<1> HIDE DEF call
<1>5. /\ pc'[p] = call(r)[1] /\ note'[p] = call(r)[2]
      /\ cur'[p] = IF call(r)[1] = "next" THEN None ELSE r
      /\ todo'[p] = todo[p] \ {r} /\ UNCHANGED <<rules, snap, tgt>>
  BY <1>1 DEF RunInv, TypeOK, RunTypeOK
<1>6. Ahead(p)'
  <2>1. pc'[p] # "idle" /\ (pc'[p] = "next" => cur'[p] = None)
    BY <1>4, <1>5
  <2>2. cur'[p] \notin todo'[p]
    BY <1>2, <1>5
  <2>3. \A q \in Rules : q = cur'[p] \/ q \in todo'[p] =>
           rules[q] # NoRow /\ rules[q].entry = snap[p][q].entry
    BY <1>1, <1>2, <1>3, <1>5 DEF OrphanInv, Ahead
  <2> QED
    BY <1>5, <2>1, <2>2, <2>3 DEF Ahead
<1>7. Bound(p)'
  <2>1. CASE call(r)[1] = "create"
    BY <1>4, <1>5, <2>1 DEF Bound, Fits, Dead
  <2>2. CASE call(r)[1] = "audit"
    BY <1>4, <1>5, <2>2, Kinds DEF Bound, Fits, Dead
  <2>3. CASE call(r)[1] \in {"fail", "get", "next"}
    BY <1>5, <2>3 DEF Bound, Fits
  <2> QED
    BY <1>4, <2>1, <2>2, <2>3
<1> QED
  BY <1>1, <1>2, <1>4, <1>5, <1>6, <1>7, BetweenRules

\* The end of a run.
LEMMA EndOrphans ==
    ASSUME OneRunner, RunInv, OrphanInv, NEW p \in Runners, EndRun(p)
    PROVE  OrphanInv'
<1>1. /\ pc[p] = "next" /\ pc'[p] = "idle" /\ todo[p] = {}
      /\ UNCHANGED <<rules, entries, cur, todo, tgt, disturbances>>
  BY DEF EndRun, StoreUnchanged, SpireUnchanged, regVars, RunInv, TypeOK,
         RunTypeOK
<1>2. cur[p] = None /\ tgt[p] = None /\ None \notin Rules
  BY <1>1, ReconcilerAssumption DEF OrphanInv, Ahead, RunInv, Shape, RunShape
<1>3. Ahead(p)'
  BY <1>1, <1>2 DEF Ahead
<1>4. Bound(p)'
  BY <1>1 DEF Bound, Fits
<1> QED
  BY <1>1, <1>2, <1>3, <1>4, BetweenRules

\* A deadline or a crash costs at most what was in flight.
LEMMA BreakOrphans ==
    ASSUME OneRunner, RunInv, OrphanInv, NEW p \in Runners,
           Deadline(p) \/ Crash(p)
    PROVE  OrphanInv'
<1>1. /\ UNCHANGED <<rules, entries>> /\ disturbances' = disturbances + 1
      /\ None \notin Rules
  BY Disturbances, ReconcilerAssumption
  DEF Deadline, Crash, StoreUnchanged, SpireUnchanged, regVars
<1>2. \/ UNCHANGED <<pc, snap, todo, cur, tgt, note>>
      \/ pc'[p] = "idle" /\ tgt'[p] = None /\ cur'[p] = None /\ todo'[p] = {}
  BY DEF Deadline, Crash, RunInv, TypeOK, RunTypeOK
<1>3. Ahead(p)'
  BY <1>1, <1>2 DEF OrphanInv, Ahead
<1>4. Bound(p)'
  BY <1>1, <1>2 DEF OrphanInv, Bound, Fits, Dead
<1>5. Issued'
  BY <1>1, <1>2 DEF OneRunner, OrphanInv, Issued
<1>6. Lost' \subseteq Lost \cup {tgt[p]}
  <2> SUFFICES ASSUME NEW e \in Ids, e \in Lost', e \notin Lost
               PROVE  e = tgt[p]
    BY DEF Lost
  <2>1. (e \in Orphans)' <=> e \in Orphans
    BY <1>1 DEF Orphans, Live, Owned
  <2>2. Rebinding(e)' => Rebinding(e)
    BY <1>2, TheRun
  <2>3. InFlight(e)
    BY <2>1, <2>2 DEF Lost
  <2> QED
    BY <2>3, TheRun
<1>7. Accounted
  BY <1>1, <1>6 DEF Accounted
<1>8. \A q \in Runners : q = p
  BY DEF OneRunner
<1> QED
  BY <1>3, <1>4, <1>5, <1>7, <1>8, AccountKept DEF OrphanInv
-----------------------------------------------------------------------------
LEMMA InitOrphans == Init => OrphanInv
<1> SUFFICES ASSUME Init PROVE OrphanInv
  OBVIOUS
<1>1. \A p \in Runners : Ahead(p) /\ Bound(p)
  BY ReconcilerAssumption DEF Init, Ahead, Bound, Fits
<1>2. Issued
  BY ReconcilerAssumption DEF Init, RegInit, Issued
<1>3. Lost = {}
  BY ReconcilerAssumption DEF Init, Lost, Orphans, Live, Rebinding
<1>4. Counted
  BY <1>3, FS_EmptySet DEF Init, Counted
<1> QED
  BY <1>1, <1>2, <1>4 DEF OrphanInv

\* One step per action.
LEMMA StepOrphans ==
    ASSUME OneRunner, RunInv, OrphanInv, [Next]_vars
    PROVE  OrphanInv'
<1>1. CASE RequestsStep \/ UNCHANGED vars
  BY <1>1, OperatorsOrphans
<1>2. CASE ExternalStep
  BY <1>2, ExternalOrphans
<1>3. ASSUME NEW p \in Runners, Deadline(p) \/ Crash(p) PROVE OrphanInv'
  BY <1>3, BreakOrphans
<1>4. ASSUME NEW p \in Runners, RunStep(p) PROVE OrphanInv'
  BY <1>4, StartOrphans, NextOrphans, EndOrphans, GetOrphans, UpdateOrphans,
     CreateOrphans, DeleteOrphans, AuditOrphans, MarkOrphans, FailOrphans
  DEF RunStep
<1> QED
  BY <1>1, <1>2, <1>3, <1>4 DEF Next

\* Between runs nothing is in flight, and every orphan is accounted for.
LEMMA LostAreOrphans ==
    ASSUME RunInv, OrphanInv
    PROVE  OrphansBounded
<1> SUFFICES ASSUME \A p \in Runners : pc[p] = "idle"
             PROVE  Cardinality(Orphans) <= disturbances
  BY DEF OrphansBounded
<1>1. Orphans \subseteq Lost
  BY DEF Orphans, Lost, InFlight
<1>2. /\ IsFiniteSet(Lost) /\ Cardinality(Lost) <= disturbances
      /\ disturbances \in Nat
  BY ReconcilerAssumption DEF OrphanInv, Counted, RunInv, TypeOK
<1>3. IsFiniteSet(Orphans) /\ Cardinality(Orphans) <= Cardinality(Lost)
  BY <1>1, <1>2, FS_Subset
<1>4. Cardinality(Orphans) \in Nat /\ Cardinality(Lost) \in Nat
  BY <1>2, <1>3, FS_CardinalityType
<1> QED
  BY <1>2, <1>3, <1>4

(***************************************************************************)
(* Without overlapping runs, each failure, crash, deadline and call of     *)
(* another SPIRE client, takeovers included, leaves at most one entry that *)
(* carries a rule's hint and that no rule is bound to (createOrBind finds  *)
(* it again), whatever operators do while a run is under way.              *)
(***************************************************************************)
THEOREM OrphansCounted == OneRunner => (Spec => []OrphansBounded)
<1> SUFFICES ASSUME OneRunner PROVE Spec => []OrphansBounded
  OBVIOUS
<1>1. RunInv /\ OrphanInv /\ [Next]_vars => OrphanInv'
  BY StepOrphans
<1>2. RunInv /\ OrphanInv => OrphansBounded
  BY LostAreOrphans
<1> QED
  BY <1>1, <1>2, InitRun, StepRun, InitOrphans, PTL DEF Spec
-----------------------------------------------------------------------------
\* A rule keeps its binding, or loses one that led nowhere.
LetsGo(r) ==
    rules[r] # NoRow /\ rules[r].entry # None =>
       \/ rules'[r] # NoRow /\ rules'[r].entry = rules[r].entry
       \/ entries[rules[r].entry] = Gone

\* MarkConverged sets the binding that the entry was found or put under, and
\* what it replaces has been deleted.
LEMMA MarkLetsGo ==
    ASSUME RunInv, OrphanInv, NEW p \in Runners, MarkRule(p), NEW r \in Rules
    PROVE  LetsGo(r)
<1>1. pc[p] = "mark" /\ pc[p] \notin {"idle", "next"}
  BY DEF MarkRule
<1>2. /\ cur[p] \in Rules /\ rules[cur[p]] \in Row
      /\ Binding(p) \in Ids \cup {None}
      /\ note[p] \in Bindings \cup Unbindings
      /\ Fits(p, "mark", tgt[p], note[p])
  BY <1>1, AtCall DEF OrphanInv, Bound, Binding, RunInv, Shape, RunShape
<1>3. CASE UNCHANGED regVars
  BY <1>3 DEF regVars, LetsGo
<1>4. ASSUME NEW k, k = cur[p], NEW b, b = Binding(p), MarkConverged(k, b)
      PROVE  LetsGo(r)
  <2>1. rules' = [rules EXCEPT ![k] = WithStatus(@, b, "converged", "none")]
    BY <1>4 DEF MarkConverged
  <2>2. "converged" \in Statuses /\ "none" \in Codes
    BY DEF Statuses, Codes
  <2>3. k \in Rules /\ b \in Ids \cup {None} /\ rules[k] \in Row
    BY <1>2, <1>4
  <2>4. /\ rules'[k] \in Row /\ rules'[k].entry = b
        /\ \A q \in Rules \ {k} : rules'[q] = rules[q]
    <3> HIDE <1>4
    <3> QED
      BY <2>1, <2>2, <2>3, Stored
  <2>5. rules[k].entry = b \/ Dead(rules[k].entry)
    BY <1>2, <1>4, Kinds DEF Fits, Binding
  <2>6. CASE r = k
    BY <2>4, <2>5, <2>6, RowFacts DEF LetsGo, Dead
  <2>7. CASE r # k
    BY <2>4, <2>7 DEF LetsGo
  <2> QED
    BY <2>6, <2>7
<1> QED
  BY <1>3, <1>4 DEF MarkRule

\* MarkError keeps the binding.
LEMMA FailLetsGo ==
    ASSUME RunInv, OrphanInv, NEW p \in Runners, FailRule(p), NEW r \in Rules
    PROVE  LetsGo(r)
<1>1. pc[p] = "fail" /\ pc[p] \notin {"idle", "next"}
  BY DEF FailRule
<1>2. cur[p] \in Rules /\ rules[cur[p]] \in Row /\ note[p] \in Codes
  BY <1>1, AtCall DEF RunInv, Shape, RunShape
<1>3. CASE UNCHANGED regVars
  BY <1>3 DEF regVars, LetsGo
<1>4. CASE MarkError(cur[p], note[p])
  <2>1. PICK k \in Rules : k = cur[p]
    BY <1>2
  <2>2. rules' = [rules EXCEPT ![k] =
                     WithStatus(rules[k], rules[k].entry, "error", note[p])]
    BY <1>4, <2>1 DEF MarkError
  <2>3. /\ rules[k] \in Row /\ rules[k].entry \in Ids \cup {None}
        /\ "error" \in Statuses /\ note[p] \in Codes
    BY <1>2, <2>1 DEF Row, Statuses
  <2>4. /\ rules'[k] \in Row /\ rules'[k].entry = rules[k].entry
        /\ \A q \in Rules \ {k} : rules'[q] = rules[q]
    BY <2>2, <2>3, Stored
  <2> QED
    BY <2>4, RowFacts DEF LetsGo
<1> QED
  BY <1>3, <1>4 DEF FailRule

\* One step per writer of the table.
LEMMA StepLetsGo ==
    ASSUME RunInv, OrphanInv, [Next]_vars, NEW r \in Rules
    PROVE  LetsGo(r)
<1>1. CASE RequestsStep
  BY <1>1, OperatorsKeep DEF RunInv, RequestsStep, Keeps, LetsGo
<1>2. CASE ExternalStep \/ UNCHANGED vars
  BY <1>2 DEF ExternalStep, StoreUnchanged, vars, regVars, LetsGo
<1>3. ASSUME NEW p \in Runners, Deadline(p) \/ Crash(p) PROVE LetsGo(r)
  BY <1>3 DEF Deadline, Crash, StoreUnchanged, regVars, LetsGo
<1>4. ASSUME NEW p \in Runners, RunStep(p) PROVE LetsGo(r)
  <2>1. CASE MarkRule(p) \/ FailRule(p)
    BY <2>1, MarkLetsGo, FailLetsGo
  <2>2. CASE ~(MarkRule(p) \/ FailRule(p))
    BY <1>4, <2>2
    DEF RunStep, StartRun, ReconcileRule, EndRun, GetEntry, UpdateEntry,
        CreateEntry, RebindEntry, DeleteEntry, RecordAudit, AppendTrail,
        StoreUnchanged, regVars, LetsGo
  <2> QED
    BY <2>1, <2>2
<1> QED
  BY <1>1, <1>2, <1>3, <1>4 DEF Next

(***************************************************************************)
(* Without overlapping runs, a rule's binding is replaced or cleared only  *)
(* when the entry it leads to has been deleted, whatever operators, other  *)
(* SPIRE clients, failures and crashes do between the run's calls.         *)
(***************************************************************************)
THEOREM LiveBindingsKept == OneRunner => (Spec => BindingKept)
<1> SUFFICES ASSUME OneRunner PROVE Spec => BindingKept
  OBVIOUS
<1>1. RunInv /\ OrphanInv /\ [Next]_vars => OrphanInv'
  BY StepOrphans
<1>2. RunInv /\ OrphanInv /\ [Next]_vars =>
         [\A r \in Rules :
             rules[r] # NoRow /\ rules[r].entry # None =>
                \/ rules'[r] # NoRow /\ rules'[r].entry = rules[r].entry
                \/ entries[rules[r].entry] = Gone]_vars
  BY StepLetsGo DEF LetsGo
<1> QED
  BY <1>1, <1>2, InitRun, StepRun, InitOrphans, PTL DEF Spec, BindingKept
-----------------------------------------------------------------------------
\* What a run of one's own needs to be idempotent: an uncommitted row is
\* pending, a rule still ahead that has moved on since List is not marked
\* converged, and each call belongs to its branch.
DraftsPending ==
    \A c \in Requests : draft[c] # NoRow => draft[c].status = "pending"

SameOrMoved(p) ==
    \A r \in Rules : r = cur[p] \/ (r \in todo[p] /\ pc[p] # "idle") =>
        rules[r] = snap[p][r] \/ rules[r].status # "converged"

MayAsk(p, l, n) ==
    /\ l \in {"create", "update", "rebind"} => Snap(p).desired = "present"
    /\ l = "delete" => Snap(p).desired = "absent"
    /\ l \in {"audit", "mark"} /\ n \in Bindings =>
          Snap(p).desired = "present" /\ Snap(p).match # NoMatch
    /\ l \in {"audit", "mark"} /\ n \in Unbindings =>
          Snap(p).desired = "absent"

Asks(p) == MayAsk(p, pc[p], note[p])

SyncInv == DraftsPending /\ \A p \in Runners : SameOrMoved(p) /\ Asks(p)

\* Requests: a row changes to one that is pending.
LEMMA RequestsSync ==
    ASSUME RunInv, SyncInv, RequestsStep
    PROVE  SyncInv'
<1> USE DEF RunInv, StoreInv
<1>0. UNCHANGED <<pc, snap, todo, cur, note>>
  BY DEF RequestsStep, runVars
<1>1. PICK c \in Requests : Submit(c) \/ RequestStep(c) \/ Abort(c)
  BY DEF RequestsStep, OperatorStep
<1>2. DraftsPending'
  <2> SUFFICES ASSUME NEW d \in Requests, draft'[d] # NoRow
               PROVE  draft'[d].status = "pending"
    BY DEF DraftsPending
  <2>1. CASE d # c \/ draft'[c] = draft[c]
    <3>1. draft'[d] = draft[d]
      BY <1>1, <2>1 DEF RequestStep, Submit, CreateInsert, ReplaceSelect,
         ReplaceUpdate, AuditInsert, Commit, Abort, RegTypeOK
    <3> QED
      BY <3>1 DEF SyncInv, DraftsPending
  <2>2. CASE d = c /\ draft'[c] # draft[c]
    <3>1. draft'[c] \in {NoRow, Created(input[c]),
                         Replaced(rules[Target(c)], input[c])}
      BY <1>1, <2>2 DEF RequestStep, Submit, CreateInsert, ReplaceSelect,
         ReplaceUpdate, AuditInsert, Commit, Abort, RegTypeOK
    <3> QED
      BY <2>2, <3>1 DEF Created, Replaced
  <2> QED
    BY <2>1, <2>2
<1>3. ASSUME NEW r \in Rules
      PROVE  rules'[r] = rules[r] \/ rules'[r].status # "converged"
  <2>1. CASE Commit(c)
    <3>1. draft[c] \in Row /\ phase[c] = "commit"
      BY <2>1, DraftFacts DEF Commit
    <3>2. draft[c].status = "pending"
      BY <3>1, RowFacts DEF SyncInv, DraftsPending
    <3> QED
      BY <2>1, <3>2 DEF Commit, RegTypeOK
  <2>2. CASE ~Commit(c)
    BY <1>1, <2>2 DEF RequestStep, Submit, CreateInsert, ReplaceSelect,
       ReplaceUpdate, AuditInsert, Abort
  <2> QED
    BY <2>1, <2>2
<1>4. ASSUME NEW p \in Runners PROVE SameOrMoved(p)'
  BY <1>0, <1>3 DEF SyncInv, SameOrMoved
<1>5. ASSUME NEW p \in Runners PROVE Asks(p)'
  BY <1>0 DEF SyncInv, Asks, MayAsk, Snap
<1> QED
  BY <1>2, <1>4, <1>5 DEF SyncInv

\* A run touches no draft, and no row but that of the rule it leaves.
LEMMA OnlyOwnRow ==
    ASSUME RunInv, NEW p \in Runners, RunStep(p) \/ Deadline(p) \/ Crash(p)
    PROVE  /\ draft' = draft
           /\ \/ rules' = rules
              \/ /\ cur'[p] = None /\ UNCHANGED <<snap, todo>>
                 /\ \A r \in Rules \ {cur[p]} : rules'[r] = rules[r]
<1> USE DEF RunInv, TypeOK, RunTypeOK
<1>1. CASE MarkRule(p)
  BY <1>1 DEF MarkRule, MarkConverged, Converged, Failed, Leave, regVars,
     requestVars, RegTypeOK
<1>2. CASE FailRule(p)
  BY <1>2 DEF FailRule, MarkError, Failed, Leave, regVars, requestVars,
     RegTypeOK
<1>3. CASE ~MarkRule(p) /\ ~FailRule(p)
  BY <1>3
  DEF RunStep, Deadline, Crash, StartRun, ReconcileRule, EndRun, GetEntry,
      UpdateEntry, CreateEntry, RebindEntry, DeleteEntry, RecordAudit,
      AppendTrail, StoreUnchanged, regVars
<1> QED
  BY <1>1, <1>2, <1>3

\* How a run moves through its list.
LEMMA RunMoves ==
    ASSUME RunInv, OrphanInv, NEW p \in Runners,
           RunStep(p) \/ Deadline(p) \/ Crash(p)
    PROVE  \/ snap'[p] = rules /\ rules' = rules /\ cur'[p] = None
           \/ pc'[p] = "idle" /\ cur'[p] = None
           \/ /\ snap'[p] = snap[p] /\ pc[p] # "idle"
              /\ todo'[p] \subseteq todo[p]
              /\ cur'[p] \in todo[p] \cup {None, cur[p]}
<1> USE DEF RunInv, TypeOK, RunTypeOK
<1>1. CASE StartRun(p)
  BY <1>1 DEF StartRun, StoreUnchanged, regVars, OrphanInv, Ahead
<1>2. CASE EndRun(p) \/ Crash(p)
  BY <1>2 DEF EndRun, Crash, OrphanInv, Ahead
<1>3. CASE ReconcileRule(p)
  <2>1. PICK r \in todo[p] :
           /\ pc[p] = "next" /\ UNCHANGED snap
           /\ todo' = [todo EXCEPT ![p] = @ \ {r}]
           /\ cur' = [cur EXCEPT ![p] =
                  IF FirstCall(snap[p][r])[1] = "next" THEN None ELSE r]
    BY <1>3 DEF ReconcileRule
  <2> QED
    BY <2>1
<1>4. CASE GetEntry(p)
  BY <1>4 DEF GetEntry, GetMissing, GetForeign, GetOwned, GetFails, Converged,
     Leave, Goto
<1>5. CASE UpdateEntry(p) \/ RebindEntry(p) \/ DeleteEntry(p)
  BY <1>5 DEF UpdateEntry, RebindEntry, DeleteEntry, Goto
<1>6. CASE CreateEntry(p)
  BY <1>6 DEF CreateEntry, CreateExisting, Goto
<1>7. CASE RecordAudit(p) \/ MarkRule(p) \/ FailRule(p)
  BY <1>7 DEF RecordAudit, MarkRule, FailRule, Goto, Converged, Failed, Leave
<1>8. CASE Deadline(p)
  BY <1>8 DEF Deadline
<1> QED
  BY <1>1, <1>2, <1>3, <1>4, <1>5, <1>6, <1>7, <1>8 DEF RunStep

\* A rule is marked converged by the run that leaves it behind, only.
LEMMA RowsSync ==
    ASSUME RunInv, OrphanInv, SyncInv, NEW p \in Runners,
           RunStep(p) \/ Deadline(p) \/ Crash(p)
    PROVE  SameOrMoved(p)'
<1>0. None \notin Rules /\ cur[p] \notin todo[p]
  BY ReconcilerAssumption DEF OrphanInv, Ahead
<1> SUFFICES ASSUME NEW r \in Rules,
                    r = cur'[p] \/ (r \in todo'[p] /\ pc'[p] # "idle"),
                    rules'[r].status = "converged"
             PROVE  rules'[r] = snap'[p][r]
  BY DEF SameOrMoved
<1>1. CASE snap'[p] = rules /\ rules' = rules /\ cur'[p] = None
  BY <1>1
<1>2. CASE pc'[p] = "idle" /\ cur'[p] = None
  BY <1>0, <1>2
<1>3. CASE /\ snap'[p] = snap[p] /\ pc[p] # "idle"
           /\ todo'[p] \subseteq todo[p]
           /\ cur'[p] \in todo[p] \cup {None, cur[p]}
  <2>1. r = cur[p] \/ r \in todo[p]
    BY <1>0, <1>3
  <2>2. CASE rules' = rules
    BY <1>3, <2>1, <2>2 DEF SyncInv, SameOrMoved
  <2>3. CASE /\ cur'[p] = None /\ UNCHANGED <<snap, todo>>
             /\ \A q \in Rules \ {cur[p]} : rules'[q] = rules[q]
    <3>1. r \in todo[p] /\ r # cur[p]
      BY <1>0, <2>3
    <3> QED
      BY <1>3, <2>3, <3>1 DEF SyncInv, SameOrMoved
  <2> QED
    BY <2>2, <2>3, OnlyOwnRow
<1> QED
  BY <1>1, <1>2, <1>3, RunMoves

\* Each call is made for the branch that it belongs to.
LEMMA CallsSync ==
    ASSUME RunInv, SyncInv, NEW p \in Runners,
           RunStep(p) \/ Deadline(p) \/ Crash(p)
    PROVE  Asks(p)'
<1> USE DEF RunInv, TypeOK, RunTypeOK
<1>0. MayAsk(p, pc[p], note[p]) /\ RunShape(p)
  BY DEF SyncInv, Asks, Shape
<1>1. ASSUME NEW l, NEW t, NEW n, Goto(p, l, t, n), MayAsk(p, l, n)
      PROVE  Asks(p)'
  BY <1>1 DEF Goto, Asks, MayAsk, Snap
<1>2. ASSUME NEW f, Leave(p, f) PROVE Asks(p)'
  BY <1>2 DEF Leave, Asks, MayAsk
<1>3. CASE StartRun(p) \/ EndRun(p) \/ Crash(p)
  BY <1>3 DEF StartRun, EndRun, Crash, Asks, MayAsk
<1>4. CASE Deadline(p)
  BY <1>0, <1>4 DEF Deadline, Asks, MayAsk, Snap
<1>5. CASE ReconcileRule(p)
  <2>1. PICK r \in todo[p] :
           /\ UNCHANGED snap
           /\ cur' = [cur EXCEPT ![p] =
                  IF FirstCall(snap[p][r])[1] = "next" THEN None ELSE r]
           /\ pc' = [pc EXCEPT ![p] = FirstCall(snap[p][r])[1]]
           /\ note' = [note EXCEPT ![p] = FirstCall(snap[p][r])[2]]
    BY <1>5 DEF ReconcileRule
  <2>2. snap[p][r].desired \in {"present", "absent"}
    BY <1>0, <2>1 DEF RunShape, Row, DesiredStates
  <2>3. \/ pc'[p] \in {"fail", "get", "next"}
        \/ pc'[p] = "create" /\ snap[p][r].desired = "present"
        \/ /\ pc'[p] = "audit" /\ snap[p][r].desired = "absent"
           /\ note'[p] = "absent_noop"
    BY <2>1, <2>2 DEF FirstCall
  <2>4. pc'[p] \in {"create", "audit"} => cur'[p] = r
    BY <2>1
  <2> QED
    BY <2>1, <2>3, <2>4, Kinds DEF Asks, MayAsk, Snap
<1>6. CASE GetEntry(p)
  <2>1. /\ Snap(p).desired \in {"present", "absent"}
        /\ Snap(p).desired = "present" => Snap(p).match # NoMatch
    BY <1>0, <1>6 DEF GetEntry, RunShape, Snap, Row, DesiredStates
  <2>2. CASE GetMissing(p)
    <3>1. CASE Snap(p).desired = "present"
      BY <1>1, <2>2, <3>1 DEF GetMissing, MayAsk
    <3>2. CASE Snap(p).desired = "absent"
      BY <1>1, <2>2, <3>2, Kinds DEF GetMissing, MayAsk
    <3> QED
      BY <2>1, <3>1, <3>2
  <2>3. CASE GetForeign(p) \/ GetFails(p)
    BY <1>1, <2>3, Kinds DEF GetForeign, GetFails, MayAsk
  <2>4. CASE GetOwned(p)
    <3>1. CASE Snap(p).desired = "absent"
      <4>1. Goto(p, "delete", Snap(p).entry, "none")
        BY <2>4, <3>1, Zenon DEF GetOwned
      <4> QED
        BY <1>1, <3>1, <4>1 DEF MayAsk
    <3>2. CASE /\ Snap(p).desired = "present"
               /\ entries[Snap(p).entry] # Desired(p)
      <4>1. Snap(p).desired # "absent"
        BY <3>2
      <4>2. Goto(p, "update", Snap(p).entry, "none")
        BY <2>4, <3>2, <4>1, Zenon DEF GetOwned
      <4> QED
        BY <1>1, <3>2, <4>2 DEF MayAsk
    <3>3. CASE /\ Snap(p).desired = "present"
               /\ entries[Snap(p).entry] = Desired(p)
      <4>1. Snap(p).desired # "absent"
        BY <3>3
      <4>2. \/ Goto(p, "audit", Snap(p).entry, "bind_owned_existing")
            \/ Leave(p, {})
        BY <2>4, <3>3, <4>1, Zenon DEF GetOwned, Converged
      <4>3. MayAsk(p, "audit", "bind_owned_existing")
        BY <2>1, <3>3, Kinds DEF MayAsk
      <4> QED
        BY <1>1, <1>2, <4>2, <4>3
    <3> QED
      BY <2>1, <3>1, <3>2, <3>3
  <2> QED
    BY <1>6, <2>2, <2>3, <2>4 DEF GetEntry
<1>7. CASE UpdateEntry(p) \/ CreateEntry(p) \/ RebindEntry(p)
  <2>1. Snap(p).desired = "present" /\ Snap(p).match # NoMatch
    BY <1>0, <1>7 DEF UpdateEntry, CreateEntry, RebindEntry, MayAsk, RunShape
  <2>2. /\ \A n : \A l \in {"create", "update", "rebind", "fail"} :
              MayAsk(p, l, n)
        /\ \A n \in Bindings \cup {"ownership_conflict"} :
              MayAsk(p, "audit", n)
    BY <2>1, Kinds DEF MayAsk
  <2>3. CASE UpdateEntry(p) \/ RebindEntry(p)
    <3>1. \E l, t, n : /\ Goto(p, l, t, n)
                       /\ \/ l \in {"create", "fail"}
                          \/ l = "audit" /\ n \in Bindings
      BY <2>3, Kinds DEF UpdateEntry, RebindEntry
    <3> QED
      BY <1>1, <2>2, <3>1
  <2>4. CASE CreateEntry(p)
    <3>1. ASSUME NEW e, CreateExisting(p, e)
          PROVE  \/ Goto(p, "audit", e, "ownership_conflict")
                 \/ Goto(p, "audit", e, "bind_owned_existing")
                 \/ Goto(p, "rebind", e, "none")
      BY <3>1, Zenon DEF CreateExisting
    <3>2. \E l, t, n : /\ Goto(p, l, t, n)
                       /\ \/ l \in {"rebind", "fail"}
                          \/ /\ l = "audit"
                             /\ n \in Bindings \cup {"ownership_conflict"}
      BY <2>4, <3>1, Kinds DEF CreateEntry
    <3> QED
      BY <1>1, <2>2, <3>2
  <2> QED
    BY <1>7, <2>3, <2>4
<1>8. CASE DeleteEntry(p)
  <2>1. Snap(p).desired = "absent"
    BY <1>0, <1>8 DEF DeleteEntry, MayAsk
  <2>2. MayAsk(p, "audit", "delete") /\ \A n : MayAsk(p, "fail", n)
    BY <2>1, Kinds DEF MayAsk
  <2> QED
    BY <1>1, <1>8, <2>2 DEF DeleteEntry
<1>9. CASE RecordAudit(p)
  <2>1. MayAsk(p, "mark", note[p]) /\ \A n : MayAsk(p, "fail", n)
    BY <1>0, <1>9 DEF RecordAudit, MayAsk
  <2> QED
    BY <1>1, <1>2, <1>9, <2>1 DEF RecordAudit, Failed
<1>10. CASE MarkRule(p) \/ FailRule(p)
  BY <1>2, <1>10 DEF MarkRule, FailRule, Converged, Failed
<1> QED
  BY <1>3, <1>4, <1>5, <1>6, <1>7, <1>8, <1>9, <1>10 DEF RunStep

LEMMA InitSync == Init => SyncInv
BY ReconcilerAssumption
DEF Init, RegInit, SyncInv, DraftsPending, SameOrMoved, Asks, MayAsk

\* One step per kind of action; there is no second run to disturb.
LEMMA StepSync ==
    ASSUME OneRunner, RunInv, OrphanInv, SyncInv, [Next]_vars
    PROVE  SyncInv'
<1>1. CASE RequestsStep
  BY <1>1, RequestsSync
<1>2. CASE ExternalStep \/ UNCHANGED vars
  <2>1. UNCHANGED <<rules, draft, pc, snap, todo, cur, note>>
    BY <1>2 DEF ExternalStep, StoreUnchanged, vars, regVars, runVars
  <2>2. DraftsPending'
    BY <2>1 DEF SyncInv, DraftsPending
  <2>3. ASSUME NEW p \in Runners PROVE SameOrMoved(p)' /\ Asks(p)'
    BY <2>1 DEF SyncInv, SameOrMoved, Asks, MayAsk, Snap
  <2> QED
    BY <2>2, <2>3 DEF SyncInv
<1>3. ASSUME NEW p \in Runners, RunStep(p) \/ Deadline(p) \/ Crash(p)
      PROVE  SyncInv'
  <2>1. DraftsPending'
    BY <1>3, OnlyOwnRow DEF SyncInv, DraftsPending
  <2>2. SameOrMoved(p)' /\ Asks(p)'
    BY <1>3, RowsSync, CallsSync
  <2>3. \A q \in Runners : q = p
    BY DEF OneRunner
  <2> QED
    BY <2>1, <2>2, <2>3 DEF SyncInv
<1> QED
  BY <1>1, <1>2, <1>3 DEF Next

\* A call that changes an entry is about a rule that is not in sync.
LEMMA OutOfSync ==
    ASSUME RunInv, OrphanInv, SyncInv, NEW p \in Runners,
           pc[p] \in {"create", "update", "rebind", "delete"},
           InSync(cur[p])
    PROVE  /\ pc[p] = "update" /\ tgt[p] \in Ids
           /\ entries[tgt[p]] = Desired(p)
<1>1. pc[p] \notin {"idle", "next"}
  OBVIOUS
<1>2. /\ cur[p] \in Rules /\ rules[cur[p]] \in Row
      /\ rules[cur[p]].entry \in Ids \cup {None} /\ tgt[p] \in Ids \cup {None}
  BY <1>1, AtCall
<1>3. rules[cur[p]] = Snap(p)
  BY <1>2 DEF SyncInv, SameOrMoved, InSync, Snap
<1>4. Fits(p, pc[p], tgt[p], note[p]) /\ Asks(p) /\ RunShape(p)
  BY DEF OrphanInv, Bound, SyncInv, RunInv, Shape
<1>5. CASE pc[p] \in {"create", "rebind"}
  <2>1. Dead(rules[cur[p]].entry) /\ Snap(p).desired = "present"
    BY <1>4, <1>5 DEF Fits, Asks, MayAsk
  <2>2. /\ rules[cur[p]].entry # None
        /\ entries[rules[cur[p]].entry] = Desired(p)
    BY <1>3, <2>1 DEF InSync, AsDesired, Desired
  <2>3. Desired(p) \in Entry
    BY <1>2, <1>3, <1>4, <1>5
    DEF RunShape, Desired, DesiredEntry, Entry, Row
  <2> QED
    BY <2>1, <2>2, <2>3, ReconcilerAssumption DEF Dead
<1>6. CASE pc[p] = "update"
  <2>1. tgt[p] = rules[cur[p]].entry /\ Snap(p).desired = "present"
    BY <1>4, <1>6 DEF Fits, Asks, MayAsk
  <2> QED
    BY <1>2, <1>3, <1>6, <2>1 DEF InSync, AsDesired, Desired
<1>7. CASE pc[p] = "delete"
  <2>1. /\ tgt[p] = rules[cur[p]].entry /\ Snap(p).desired = "absent"
        /\ tgt[p] # None
    BY <1>4, <1>7 DEF Fits, Asks, MayAsk, RunShape
  <2> QED
    BY <1>3, <2>1 DEF InSync, AsDesired
<1> QED
  BY <1>5, <1>6, <1>7

\* Idempotence is a consequence: only those four calls change entries, and
\* the update of a rule in sync writes what is there.
LEMMA StepIdempotent ==
    ASSUME RunInv, OrphanInv, SyncInv, [Next]_vars, entries' # entries
    PROVE  \/ ExternalStep
           \/ \E p \in Runners : cur[p] # None /\ ~InSync(cur[p])
<1>1. ExternalStep \/ \E p \in Runners : RunStep(p)
  BY DEF Next, RequestsStep, Deadline, Crash, SpireUnchanged, vars
<1>2. ASSUME NEW p \in Runners, RunStep(p)
      PROVE  cur[p] # None /\ ~InSync(cur[p])
  <2>1. /\ pc[p] \in {"create", "update", "rebind", "delete"}
        /\ pc[p] = "update" =>
              entries' = [entries EXCEPT ![tgt[p]] = Desired(p)]
    BY <1>2
    DEF RunStep, StartRun, ReconcileRule, EndRun, GetEntry, UpdateEntry,
        CreateEntry, RebindEntry, DeleteEntry, RecordAudit, AppendTrail,
        MarkRule, FailRule, SpireUnchanged, UpdateMissing, ApplyUpdate, Put
  <2>2. cur[p] # None
    BY <2>1, ReconcilerAssumption DEF RunInv, Shape, RunShape
  <2>3. ~InSync(cur[p])
    <3> SUFFICES ASSUME InSync(cur[p]) PROVE FALSE
      OBVIOUS
    <3>1. /\ pc[p] = "update" /\ tgt[p] \in Ids
          /\ entries[tgt[p]] = Desired(p)
      BY <2>1, OutOfSync
    <3>2. entries' = entries
      BY <2>1, <3>1 DEF RunInv, TypeOK
    <3> QED
      BY <3>2
  <2> QED
    BY <2>2, <2>3
<1> QED
  BY <1>1, <1>2

(***************************************************************************)
(* Without overlapping runs, reconciliation is idempotent: no run changes  *)
(* or creates an entry for a rule that is converged and whose entry is as  *)
(* desired, whatever crashed, failed or was changed by operators and other *)
(* SPIRE clients since the run listed the rules.                           *)
(***************************************************************************)
THEOREM RunsIdempotent == OneRunner => (Spec => Idempotent)
<1> SUFFICES ASSUME OneRunner PROVE Spec => Idempotent
  OBVIOUS
<1>1. Init => SyncInv
  BY InitSync
<1>2. RunInv /\ OrphanInv /\ SyncInv /\ [Next]_vars => OrphanInv' /\ SyncInv'
  BY StepOrphans, StepSync
<1>3. RunInv /\ OrphanInv /\ SyncInv /\ [Next]_vars =>
         [entries' # entries =>
             \/ ExternalStep
             \/ \E p \in Runners : cur[p] # None /\ ~InSync(cur[p])]_vars
  BY StepIdempotent
<1> QED
  BY <1>1, <1>2, <1>3, InitRun, StepRun, InitOrphans, PTL
  DEF Spec, Idempotent
-----------------------------------------------------------------------------
\* A run writes over entries that it found live, or over IDs not given out.
LEMMA OnlyLivePut ==
    ASSUME RunInv, NEW p \in Runners, RunStep(p) \/ Deadline(p) \/ Crash(p),
           NEW e \in Ids, entries'[e] # entries[e]
    PROVE  Live(e) \/ entries[e] = Unused
<1>1. \/ UNCHANGED entries
      \/ Live(tgt[p]) /\ \E x : Put(tgt[p], x)
      \/ \E d \in Ids : ApplyCreate(p, d)
  BY DEF RunStep, StartRun, ReconcileRule, EndRun, GetEntry, UpdateEntry,
     UpdateMissing, CreateEntry, CreateExisting, RebindEntry, DeleteEntry,
     RecordAudit, AppendTrail, MarkRule, FailRule, Deadline, Crash,
     SpireUnchanged, ApplyUpdate, ApplyDelete
<1>2. CASE Live(tgt[p]) /\ \E x : Put(tgt[p], x)
  BY <1>2 DEF Put, RunInv, TypeOK
<1>3. CASE \E d \in Ids : ApplyCreate(p, d)
  BY <1>3 DEF ApplyCreate, Fresh, Put, RunInv, TypeOK
<1> QED
  BY <1>1, <1>2, <1>3

\* The row of a rule in sync: MarkConverged stores what is there.
LEMMA MarkInSync ==
    ASSUME RunInv, OrphanInv, SyncInv, NEW p \in Runners, MarkRule(p),
           NEW k \in Rules, k = cur[p], InSync(k)
    PROVE  InSync(k)'
<1> DEFINE b == Binding(p)
<1>1. /\ pc[p] = "mark" /\ pc[p] \notin {"idle", "next"}
      /\ UNCHANGED entries
  BY DEF MarkRule, SpireUnchanged
<1>2. /\ k \in Rules /\ rules[k] \in Row /\ tgt[p] \in Ids \cup {None}
      /\ b \in Ids \cup {None}
      /\ note[p] \in Bindings \cup Unbindings
      /\ Fits(p, "mark", tgt[p], note[p]) /\ MayAsk(p, "mark", note[p])
  BY <1>1, AtCall
  DEF OrphanInv, Bound, SyncInv, Asks, Binding, RunInv, Shape, RunShape
<1>3. rules[k] = Snap(p)
  BY <1>2 DEF SyncInv, SameOrMoved, InSync, Snap
<1>4. b = rules[k].entry
  <2>1. CASE note[p] \in Unbindings
    BY <1>2, <1>3, <2>1 DEF MayAsk, InSync, AsDesired, Binding
  <2>2. CASE note[p] \in Bindings
    <3>1. rules[k].desired = "present" /\ rules[k].match # NoMatch
      BY <1>2, <1>3, <2>2 DEF MayAsk
    <3>2. /\ rules[k].entry # None
          /\ entries[rules[k].entry] = DesiredEntry(k, rules[k])
      BY <3>1 DEF InSync, AsDesired
    <3>3. DesiredEntry(k, rules[k]) \in Entry
      BY <1>2, <3>1 DEF DesiredEntry, Entry, Row
    <3>4. ~Dead(rules[k].entry)
      BY <3>2, <3>3, ReconcilerAssumption DEF Dead
    <3> QED
      BY <1>2, <2>2, <3>4, Kinds DEF Fits, Binding
  <2> QED
    BY <1>2, <2>1, <2>2
<1>5. \/ rules' = rules
      \/ rules' = [rules EXCEPT ![k] = WithStatus(@, b, "converged", "none")]
  BY DEF MarkRule, MarkConverged, regVars
<1>6. ASSUME rules' = [rules EXCEPT ![k] =
                          WithStatus(@, b, "converged", "none")]
      PROVE  /\ rules'[k].status = "converged"
             /\ rules'[k].entry = rules[k].entry
             /\ rules'[k].desired = rules[k].desired
             /\ rules'[k].match = rules[k].match
             /\ rules'[k].ttl = rules[k].ttl
  <2>1. rules'[k] = WithStatus(rules[k], b, "converged", "none")
    BY <1>2, <1>6 DEF RunInv, TypeOK, RegTypeOK
  <2> QED
    BY <1>4, <2>1 DEF WithStatus
<1>7. CASE rules' = rules
  BY <1>1, <1>7 DEF InSync, AsDesired, DesiredEntry
<1>8. CASE rules' = [rules EXCEPT ![k] = WithStatus(@, b, "converged", "none")]
  BY <1>1, <1>6, <1>8 DEF InSync, AsDesired, DesiredEntry
<1> QED
  BY <1>5, <1>7, <1>8

\* A rule that the run is not at keeps row and entry; one that it is at keeps
\* its entry, and its row until the mark.
LEMMA RunKeepsSync ==
    ASSUME RunInv, OrphanInv, SyncInv, Ownership, NEW p \in Runners,
           RunStep(p) \/ Deadline(p) \/ Crash(p),
           NEW r \in Rules, rules[r] # NoRow, InSync(r),
           ~(pc[p] = "fail" /\ cur[p] = r)
    PROVE  InSync(r)'
<1>1. /\ rules[r] \in Row
      /\ entries \in [Ids -> Entry \cup {Unused, Gone}]
  BY DEF RunInv, TypeOK, RegTypeOK
<1>2. CASE MarkRule(p) /\ cur[p] = r
  BY <1>2, MarkInSync
<1>3. CASE ~(MarkRule(p) /\ cur[p] = r)
  <2>1. rules'[r] = rules[r]
    <3>1. CASE MarkRule(p) \/ FailRule(p)
      BY <1>3, <3>1
      DEF MarkRule, FailRule, MarkConverged, MarkError, regVars, RunInv,
          TypeOK, RegTypeOK
    <3>2. CASE ~MarkRule(p) /\ ~FailRule(p)
      BY <3>2
      DEF RunStep, Deadline, Crash, StartRun, ReconcileRule, EndRun, GetEntry,
          UpdateEntry, CreateEntry, RebindEntry, DeleteEntry, RecordAudit,
          AppendTrail, StoreUnchanged, regVars
    <3> QED
      BY <3>1, <3>2
  <2>2. CASE rules[r].desired # "present"
    BY <2>1, <2>2 DEF InSync, AsDesired
  <2>3. CASE rules[r].desired = "present"
    <3> DEFINE e == rules[r].entry
    <3>1. e \in Ids /\ entries[e] = DesiredEntry(r, rules[r])
      BY <1>1, <2>3 DEF InSync, AsDesired, Row
    <3>2. entries'[e] = entries[e]
      <4> SUFFICES ASSUME entries'[e] # entries[e] PROVE FALSE
        OBVIOUS
      <4>1. entries[e] # Unused
        BY <3>1, RegistrationAssumption DEF OrphanInv, Issued
      <4>2. Live(e)
        BY <3>1, <4>1, OnlyLivePut
      <4>3. cur[p] \in Rules /\ Owned(e, cur[p])
        BY <3>1, <4>2, OnlyOwnTouched
      <4>4. cur[p] = r
        BY <3>1, <4>3 DEF Owned, DesiredEntry
      <4>5. /\ pc[p] \in {"create", "update", "rebind", "delete"}
            /\ pc[p] = "update" =>
                  entries' = [entries EXCEPT ![tgt[p]] = Desired(p)]
        BY DEF RunStep, StartRun, ReconcileRule, EndRun, GetEntry,
           UpdateEntry, CreateEntry, RebindEntry, DeleteEntry, RecordAudit,
           AppendTrail, MarkRule, FailRule, Deadline, Crash, SpireUnchanged,
           UpdateMissing, ApplyUpdate, Put
      <4>6. /\ pc[p] = "update" /\ tgt[p] \in Ids
            /\ entries[tgt[p]] = Desired(p)
        BY <4>4, <4>5, OutOfSync
      <4> QED
        BY <1>1, <4>5, <4>6
    <3> QED
      BY <2>1, <2>3, <3>2 DEF InSync, AsDesired, DesiredEntry
  <2> QED
    BY <2>2, <2>3
<1> QED
  BY <1>2, <1>3

(***************************************************************************)
(* The safety half of convergence: with one run at a time and hints left   *)
(* alone, a rule in sync is taken out of it only by operators, by another  *)
(* SPIRE client or by a failure that is recorded on the rule.              *)
(***************************************************************************)
THEOREM SyncKept == OneRunner /\ NoTakeover => (Spec => InSyncKept)
<1> SUFFICES ASSUME OneRunner, NoTakeover PROVE Spec => InSyncKept
  OBVIOUS
<1> DEFINE Kept == \A r \in Rules : rules[r] # NoRow /\ InSync(r) =>
                      \/ InSync(r)'
                      \/ RequestsStep \/ ExternalStep
                      \/ \E p \in Runners : pc[p] = "fail" /\ cur[p] = r
           I == OrphanInv /\ SyncInv /\ Ownership
<1>1. Init => I
  BY InitOrphans, InitSync, InitOwnership
<1>2. RunInv /\ I /\ [Next]_vars => I'
  BY StepOrphans, StepSync, StepOwnership
<1>3. RunInv /\ I /\ [Next]_vars => [Kept]_vars
  <2> SUFFICES ASSUME RunInv, I, Next, ~RequestsStep, ~ExternalStep
               PROVE  Kept
    OBVIOUS
  <2>1. PICK p \in Runners : RunStep(p) \/ Deadline(p) \/ Crash(p)
    BY DEF Next
  <2> QED
    BY <2>1, RunKeepsSync
<1> QED
  BY <1>1, <1>2, <1>3, InitRun, StepRun, PTL DEF Spec, InSyncKept
-----------------------------------------------------------------------------
\* Operations that follow a SPIRE mutation.
Mutations == {"create", "update", "update_owned_existing", "delete"}

\* A run that is about to write the evidence of a mutation for r.
Owes(p, r) ==
    /\ pc[p] = "audit" /\ note[p] \in Mutations
    /\ cur[p] = r /\ ~expired[p]

\* Rules with a mutation that no run is going to audit.
Missing == {r \in unaudited : \A p \in Runners : ~Owes(p, r)}

EvidenceInv == IsFiniteSet(Missing) /\ Cardinality(Missing) <= disturbances

\* A run that mutates nothing and owed nothing.
LEMMA OwesNothing ==
    ASSUME RunInv, NEW p \in Runners,
           RunStep(p) \/ Deadline(p) \/ Crash(p),
           unaudited' \subseteq unaudited,
           pc[p] # "audit" \/ note[p] \notin Mutations
    PROVE  Missing' \subseteq Missing
<1> SUFFICES ASSUME NEW r \in unaudited', NEW q \in Runners, Owes(q, r),
                    \A s \in Runners : ~Owes(s, r)'
             PROVE  FALSE
  BY DEF Missing
<1>1. q # p
  BY DEF Owes
<1>2. Owes(q, r)'
  BY <1>1, OtherRuns DEF Owes, RunInv, TypeOK
<1> QED
  BY <1>2

\* A run that owes nothing for any rule but the one it is at.
LEMMA OwesOne ==
    ASSUME RunInv, NEW p \in Runners,
           RunStep(p) \/ Deadline(p) \/ Crash(p),
           unaudited' \subseteq unaudited \cup {cur[p]}
    PROVE  Missing' \subseteq Missing \cup {cur[p]}
<1> SUFFICES ASSUME NEW r \in unaudited', r # cur[p],
                    NEW q \in Runners, Owes(q, r),
                    \A s \in Runners : ~Owes(s, r)'
             PROVE  FALSE
  BY DEF Missing
<1>1. q # p
  BY DEF Owes
<1>2. Owes(q, r)'
  BY <1>1, OtherRuns DEF Owes, RunInv, TypeOK
<1> QED
  BY <1>2

\* A mutation whose reply arrives: the run goes on to write the evidence.
LEMMA OwesNow ==
    ASSUME RunInv, NEW p \in Runners, RunStep(p), Works(p),
           pc[p] # "audit", NEW t, NEW n \in Mutations,
           Goto(p, "audit", t, n), unaudited' = unaudited \cup {cur[p]}
    PROVE  Missing' \subseteq Missing
<1>1. \A r : r = cur[p] => Owes(p, r)'
  <2> SUFFICES ASSUME NEW r, r = cur[p] PROVE Owes(p, r)'
    OBVIOUS
  <2> QED
    BY DEF Owes, Works, Goto, RunInv, TypeOK, RunTypeOK
<1>2. cur[p] \notin Missing'
  BY <1>1 DEF Missing
<1>3. Missing' \subseteq Missing \cup {cur[p]}
  BY OwesOne
<1> QED
  BY <1>2, <1>3

\* A step leaves no evidence out, or goes wrong and leaves out one rule's.
LEMMA StepMissing ==
    ASSUME RunInv, [Next]_vars
    PROVE  \/ /\ Missing' \subseteq Missing
              /\ disturbances' \in {disturbances, disturbances + 1}
           \/ \E x : /\ Missing' \subseteq Missing \cup {x}
                    /\ disturbances' = disturbances + 1
<1>0. disturbances \in Nat
  BY ReconcilerAssumption DEF RunInv, TypeOK
<1>1. CASE RequestsStep \/ UNCHANGED vars
  BY <1>1 DEF RequestsStep, vars, runVars, Missing, Owes
<1>2. CASE ExternalStep
  BY <1>0, <1>2 DEF ExternalStep, Disturb, runVars, Missing, Owes
<1>3. ASSUME NEW p \in Runners, Deadline(p) \/ Crash(p)
      PROVE  \E x : /\ Missing' \subseteq Missing \cup {x}
                    /\ disturbances' = disturbances + 1
  <2>1. unaudited' = unaudited /\ disturbances' = disturbances + 1
    BY <1>0, <1>3 DEF Deadline, Crash, Disturb, SpireUnchanged
  <2> QED
    BY <1>3, <2>1, OwesOne
<1>4. ASSUME NEW p \in Runners, RunStep(p), ReplyLost(p) \/ Disturb,
             unaudited' \subseteq unaudited \cup {cur[p]}
      PROVE  \E x : /\ Missing' \subseteq Missing \cup {x}
                    /\ disturbances' = disturbances + 1
  BY <1>4, OwesOne, Disturbances
<1>5. ASSUME NEW p \in Runners, RunStep(p), unaudited' \subseteq unaudited,
             pc[p] # "audit" \/ note[p] \notin Mutations,
             disturbances' \in {disturbances, disturbances + 1}
      PROVE  /\ Missing' \subseteq Missing
             /\ disturbances' \in {disturbances, disturbances + 1}
  BY <1>5, OwesNothing
<1>6. ASSUME NEW p \in Runners, StartRun(p) \/ ReconcileRule(p) \/ EndRun(p)
      PROVE  Missing' \subseteq Missing /\ disturbances' = disturbances
  BY <1>6, OwesNothing
  DEF StartRun, ReconcileRule, EndRun, SpireUnchanged, RunStep
<1>7. ASSUME NEW p \in Runners, GetEntry(p) \/ MarkRule(p) \/ FailRule(p)
      PROVE  /\ Missing' \subseteq Missing
             /\ disturbances' \in {disturbances, disturbances + 1}
  <2>1. unaudited' = unaudited /\ pc[p] # "audit"
    BY <1>7 DEF GetEntry, MarkRule, FailRule, SpireUnchanged
  <2>2. disturbances' \in {disturbances, disturbances + 1}
    <3>1. CASE GetEntry(p)
      BY <3>1, Disturbances
      DEF GetEntry, GetMissing, GetForeign, GetOwned, GetFails
    <3>2. CASE MarkRule(p) \/ FailRule(p)
      BY <3>2, Disturbances DEF MarkRule, FailRule
    <3> QED
      BY <1>7, <3>1, <3>2
  <2>3. RunStep(p)
    BY <1>7 DEF RunStep
  <2> QED
    BY <1>5, <2>1, <2>2, <2>3
<1>8. ASSUME NEW p \in Runners,
             \/ UpdateEntry(p) \/ CreateEntry(p)
             \/ RebindEntry(p) \/ DeleteEntry(p)
      PROVE  \/ /\ Missing' \subseteq Missing
                /\ disturbances' \in {disturbances, disturbances + 1}
             \/ \E x : /\ Missing' \subseteq Missing \cup {x}
                      /\ disturbances' = disturbances + 1
  <2>1. RunStep(p) /\ pc[p] # "audit"
    BY <1>8 DEF RunStep, UpdateEntry, CreateEntry, RebindEntry, DeleteEntry
  <2>2. \/ /\ Works(p) /\ unaudited' = unaudited \cup {cur[p]}
           /\ \E t, n : n \in Mutations /\ Goto(p, "audit", t, n)
        \/ (Works(p) \/ Fails(p)) /\ unaudited' = unaudited
        \/ ReplyLost(p) /\ unaudited' = unaudited \cup {cur[p]}
    <3>1. CASE UpdateEntry(p) \/ RebindEntry(p)
      BY <3>1 DEF UpdateEntry, RebindEntry, UpdateMissing, ApplyUpdate,
         Mutated, SpireUnchanged, Mutations
    <3>2. CASE CreateEntry(p)
      BY <3>2 DEF CreateEntry, CreateExisting, ApplyCreate, Mutated,
         SpireUnchanged, Mutations
    <3>3. CASE DeleteEntry(p)
      BY <3>3 DEF DeleteEntry, ApplyDelete, Mutated, SpireUnchanged, Mutations
    <3> QED
      BY <1>8, <3>1, <3>2, <3>3
  <2>3. CASE /\ Works(p) /\ unaudited' = unaudited \cup {cur[p]}
             /\ \E t, n : n \in Mutations /\ Goto(p, "audit", t, n)
    <3>1. Missing' \subseteq Missing
      BY <2>1, <2>3, OwesNow
    <3> QED
      BY <2>3, <3>1, Disturbances
  <2>4. CASE (Works(p) \/ Fails(p)) /\ unaudited' = unaudited
    BY <1>5, <2>1, <2>4, Disturbances
  <2>5. CASE ReplyLost(p) /\ unaudited' = unaudited \cup {cur[p]}
    BY <1>4, <2>1, <2>5
  <2> QED
    BY <2>2, <2>3, <2>4, <2>5
<1>9. ASSUME NEW p \in Runners, RecordAudit(p)
      PROVE  \/ /\ Missing' \subseteq Missing
                /\ disturbances' \in {disturbances, disturbances + 1}
             \/ \E x : /\ Missing' \subseteq Missing \cup {x}
                      /\ disturbances' = disturbances + 1
  <2>1. RunStep(p) /\ pc[p] = "audit"
    BY <1>9 DEF RunStep, RecordAudit
  <2>2. CASE (Works(p) \/ ReplyLost(p)) /\ AppendTrail(p)
    <3>1. CASE note[p] \in Mutations
      <4>1. unaudited' = unaudited \ {cur[p]}
        BY <2>2, <3>1 DEF AppendTrail, Mutations
      <4>2. Missing' \subseteq Missing
        BY <2>1, <4>1, OwesOne DEF Missing
      <4> QED
        BY <2>2, <4>2, Disturbances
    <3>2. CASE note[p] \notin Mutations
      <4>1. unaudited' \subseteq unaudited
        BY <2>2 DEF AppendTrail
      <4> QED
        BY <1>5, <2>1, <2>2, <3>2, <4>1, Disturbances
    <3> QED
      BY <3>1, <3>2
  <2>3. CASE Fails(p) /\ SpireUnchanged
    <3>1. CASE expired[p]
      <4>1. \A r : ~Owes(p, r)
        BY <3>1 DEF Owes
      <4>2. unaudited' = unaudited
        BY <2>3 DEF SpireUnchanged
      <4>3. Missing' \subseteq Missing
        <5> SUFFICES ASSUME NEW r \in unaudited, NEW q \in Runners, Owes(q, r),
                            \A s \in Runners : ~Owes(s, r)'
                     PROVE  FALSE
          BY <4>2 DEF Missing
        <5>1. q # p
          BY <4>1
        <5>2. Owes(q, r)'
          BY <2>1, <5>1, OtherRuns DEF Owes, RunInv, TypeOK
        <5> QED
          BY <5>2
      <4> QED
        BY <2>3, <4>3, Disturbances
    <3>2. CASE ~expired[p]
      BY <2>1, <2>3, <3>2, OwesOne, Disturbances DEF SpireUnchanged
    <3> QED
      BY <3>1, <3>2
  <2> QED
    BY <1>9, <2>2, <2>3 DEF RecordAudit
<1> QED
  BY <1>0, <1>1, <1>2, <1>3, <1>6, <1>7, <1>8, <1>9 DEF Next, RunStep

(***************************************************************************)
(* However many runs overlap, each failure, crash and deadline leaves at   *)
(* most one rule with a SPIRE mutation that no audit row has followed.     *)
(***************************************************************************)
THEOREM EvidenceCounted == Spec => []UnauditedBounded
<1>1. Init => EvidenceInv
  <2> SUFFICES ASSUME Init PROVE EvidenceInv
    OBVIOUS
  <2>1. Missing = {}
    BY DEF Init, Missing
  <2> QED
    BY <2>1, FS_EmptySet DEF Init, EvidenceInv
<1>2. RunInv /\ EvidenceInv /\ [Next]_vars => EvidenceInv'
  <2> SUFFICES ASSUME RunInv, EvidenceInv, [Next]_vars PROVE EvidenceInv'
    OBVIOUS
  <2>1. disturbances \in Nat
    BY ReconcilerAssumption DEF RunInv, TypeOK
  <2>2. IsFiniteSet(Missing') /\ Cardinality(Missing') <= disturbances'
    BY <2>1, StepMissing, CountKept DEF EvidenceInv
  <2> QED
    BY <2>2 DEF EvidenceInv
<1>3. RunInv /\ EvidenceInv => UnauditedBounded
  <2> SUFFICES ASSUME EvidenceInv, \A p \in Runners : pc[p] = "idle"
               PROVE  Cardinality(unaudited) <= disturbances
    BY DEF UnauditedBounded
  <2>1. Missing = unaudited
    BY DEF Missing, Owes
  <2> QED
    BY <2>1 DEF EvidenceInv
<1> QED
  BY <1>1, <1>2, <1>3, InitRun, StepRun, PTL DEF Spec
=============================================================================
