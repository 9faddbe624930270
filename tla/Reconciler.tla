----------------------------- MODULE Reconciler -----------------------------
(***************************************************************************)
(* The one-shot reconciler (apps/reconciler, internal/reconcile) between   *)
(* the registration store and the SPIRE Entry API.  A run lists the rules  *)
(* once and then works through that snapshot, rule by rule, each time with *)
(* a handful of separate calls: SPIRE get / create / update / delete, one  *)
(* audit INSERT, one status UPDATE.  Nothing holds these calls together,   *)
(* so operator requests, another run, SPIRE's other clients, a crash or    *)
(* the run's 30 s deadline may fall between any two of them.               *)
(*                                                                         *)
(* The SPIRE server is external: entries is modelled from how the client   *)
(* in internal/spiremgmt uses it.                                          *)
(***************************************************************************)
EXTENDS Registration, FiniteSets

CONSTANTS
    Runners,         \* processes that may execute the reconciler
    External,        \* what other SPIRE clients may do
    MaxDisturbances, \* bound on failures and external SPIRE calls
    Foreign,         \* any hint that is not "wtp-rule:" and a rule
    Unused,          \* an entry ID that SPIRE has not given out
    Gone             \* an entry ID whose entry was deleted

VARIABLES
    entries,         \* SPIRE: what each entry ID stands for
    trail,           \* the reconciler's rows of audit_events
    pc,              \* next call of each run
    snap,            \* the rules its List returned
    todo,            \* the listed rules it has not come to
    cur,             \* the rule it is at
    tgt,             \* the entry ID that call is about
    note,            \* the operation to audit or the error code to store
    failed,          \* the rules it counts as failed
    expired,         \* its context deadline has passed
    disturbances,    \* failures and external calls so far
    unaudited        \* history: entries mutated since their last audit row

runVars == <<pc, snap, todo, cur, tgt, note, failed, expired>>
vars == <<regVars, entries, trail, runVars, disturbances, unaudited>>

ExternalKinds == {"create", "delete", "drift", "takeover"}

\* A registration entry.  spiffe names the workload whose SPIFFE ID it
\* carries, hint the rule that owns it.
Entry == [spiffe : Rules, match : Matches, ttl : TTLs,
          hint : Rules \cup {Foreign}]

Bindings == {"create", "bind_owned_existing", "update",
             "update_owned_existing"}
Unbindings == {"absent_noop", "clear_stale_binding", "delete"}
Operations == Bindings \cup Unbindings \cup {"ownership_conflict"}

TrailEvent == [rule : Rules, op : Operations, entry : Ids \cup {None}]

ASSUME ReconcilerAssumption ==
    /\ Ids \subseteq Nat
    /\ None \notin Rules
    /\ Foreign \notin Rules
    /\ Unused \notin Entry /\ Gone \notin Entry /\ Unused # Gone
    /\ External \subseteq ExternalKinds
    /\ \A r \in Rules : Seed[r] # NoRow => Seed[r].entry = None
    /\ MaxDisturbances \in Nat

Live(e) == entries[e] \in Entry
Owned(e, r) == entries[e].hint = r
Snap(p) == snap[p][cur[p]]

\* desiredEntry: the entry the snapshot of the current rule asks for.
DesiredEntry(r, row) ==
    [spiffe |-> r, match |-> row.match, ttl |-> row.ttl, hint |-> r]
Desired(p) == DesiredEntry(cur[p], Snap(p))

\* The entries BatchCreateEntry regards as the same as x: equal SPIFFE ID,
\* parent and selectors, whatever their TTL and hint.
Similar(x) == {e \in Ids : /\ Live(e)
                           /\ entries[e].spiffe = x.spiffe
                           /\ entries[e].match = x.match}

\* Entry IDs are opaque and never used twice; the least stands for any.
Fresh(e) == /\ entries[e] = Unused
            /\ \A d \in Ids : d < e => entries[d] # Unused
-----------------------------------------------------------------------------
Init ==
    /\ RegInit
    /\ entries = [e \in Ids |-> Unused]
    /\ trail = {}
    /\ pc = [p \in Runners |-> "idle"]
    /\ snap = [p \in Runners |-> [r \in Rules |-> NoRow]]
    /\ todo = [p \in Runners |-> {}]
    /\ cur = [p \in Runners |-> None]
    /\ tgt = [p \in Runners |-> None]
    /\ note = [p \in Runners |-> "none"]
    /\ failed = [p \in Runners |-> {}]
    /\ expired = [p \in Runners |-> FALSE]
    /\ disturbances = 0
    /\ unaudited = {}

\* Bounded by MaxDisturbances: one more thing goes wrong.
Disturb ==
    /\ disturbances < MaxDisturbances
    /\ disturbances' = disturbances + 1

\* A call returns, fails without effect, or takes effect but its reply is
\* lost.  After the deadline every call fails at once: all share one context.
Works(p) == ~expired[p] /\ UNCHANGED disturbances
Fails(p) == IF expired[p] THEN UNCHANGED disturbances ELSE Disturb
ReplyLost(p) == ~expired[p] /\ Disturb

\* The run goes on to call l, about entry t and with note n.
Goto(p, l, t, n) ==
    /\ pc' = [pc EXCEPT ![p] = l]
    /\ tgt' = [tgt EXCEPT ![p] = t]
    /\ note' = [note EXCEPT ![p] = n]
    /\ UNCHANGED <<snap, todo, cur, failed, expired>>

\* The run is done with its rule, counting it as converged or as failed.
Leave(p, fails) ==
    /\ pc' = [pc EXCEPT ![p] = "next"]
    /\ tgt' = [tgt EXCEPT ![p] = None]
    /\ note' = [note EXCEPT ![p] = "none"]
    /\ cur' = [cur EXCEPT ![p] = None]
    /\ failed' = [failed EXCEPT ![p] = @ \cup fails]
    /\ UNCHANGED <<snap, todo, expired>>
Converged(p) == Leave(p, {})
Failed(p) == Leave(p, {cur[p]})

Put(e, x) == entries' = [entries EXCEPT ![e] = x]
Mutated(r) == unaudited' = unaudited \cup {r}
StoreUnchanged == UNCHANGED <<regVars, trail>>
SpireUnchanged == UNCHANGED <<entries, unaudited>>
-----------------------------------------------------------------------------
\* Run: List is one SELECT, so a consistent snapshot of the committed rows.
\* When it fails the run ends without effect.
StartRun(p) ==
    /\ pc[p] = "idle"
    /\ pc' = [pc EXCEPT ![p] = "next"]
    /\ snap' = [snap EXCEPT ![p] = rules]
    /\ todo' = [todo EXCEPT ![p] = {r \in Rules : rules[r] # NoRow}]
    /\ failed' = [failed EXCEPT ![p] = {}]
    /\ expired' = [expired EXCEPT ![p] = FALSE]
    /\ UNCHANGED <<cur, tgt, note, disturbances>>
    /\ StoreUnchanged /\ SpireUnchanged

\* Fault: the parent and the selectors of a rule are not checked.
FirstCallUnchecked(row) ==
    IF row.desired = "present"
      THEN IF row.entry = None THEN <<"create", "none">> ELSE <<"get", "none">>
      ELSE IF row.entry # None THEN <<"get", "none">>
           ELSE <<"audit", "absent_noop">>

\* Fault: a rule that is marked converged is not looked at again.
FirstCallTrusting(row) ==
    IF row.status = "converged" THEN <<"next", "none">>
    ELSE IF row.desired = "present" /\ row.match = NoMatch
           THEN <<"fail", "invalid_desired_state">>
    ELSE IF row.entry # None THEN <<"get", "none">>
    ELSE IF row.desired = "present" THEN <<"create", "none">>
    ELSE <<"audit", "absent_noop">>

\* Fault: a rule that failed is not tried again.
FirstCallNoRetry(row) ==
    IF row.status = "error" THEN <<"next", "none">>
    ELSE IF row.desired = "present" /\ row.match = NoMatch
           THEN <<"fail", "invalid_desired_state">>
    ELSE IF row.entry # None THEN <<"get", "none">>
    ELSE IF row.desired = "present" THEN <<"create", "none">>
    ELSE IF row.status # "converged" THEN <<"audit", "absent_noop">>
    ELSE <<"next", "none">>

\* The next rule in List's order, and the call its branch begins with:
\* the switch of reconcileRule, then the guards of reconcilePresent and
\* reconcileAbsent.
FirstCall(row) ==
    IF row.desired = "present"
      THEN IF row.match = NoMatch THEN <<"fail", "invalid_desired_state">>
           ELSE IF row.entry = None THEN <<"create", "none">>
           ELSE <<"get", "none">>
      ELSE IF row.entry # None THEN <<"get", "none">>
           ELSE IF row.status # "converged" THEN <<"audit", "absent_noop">>
           ELSE <<"next", "none">>

ReconcileRule(p) ==
    /\ pc[p] = "next"
    /\ \E r \in todo[p] :
          LET call == FirstCall(snap[p][r]) IN
          /\ \A q \in todo[p] : r <= q
          /\ todo' = [todo EXCEPT ![p] = @ \ {r}]
          /\ cur' = [cur EXCEPT ![p] =
                        IF call[1] = "next" THEN None ELSE r]
          /\ pc' = [pc EXCEPT ![p] = call[1]]
          /\ note' = [note EXCEPT ![p] = call[2]]
    /\ UNCHANGED <<snap, tgt, failed, expired, disturbances>>
    /\ StoreUnchanged /\ SpireUnchanged

\* After the last rule the process reports its summary and exits.
EndRun(p) ==
    /\ pc[p] = "next" /\ todo[p] = {}
    /\ pc' = [pc EXCEPT ![p] = "idle"]
    /\ snap' = [snap EXCEPT ![p] = [r \in Rules |-> NoRow]]
    /\ failed' = [failed EXCEPT ![p] = {}]
    /\ expired' = [expired EXCEPT ![p] = FALSE]
    /\ UNCHANGED <<todo, cur, tgt, note, disturbances>>
    /\ StoreUnchanged /\ SpireUnchanged

\* GetEntry of the bound entry.
GetMissing(p) ==
    LET e == Snap(p).entry IN
    /\ Works(p) /\ ~Live(e)
    /\ IF Snap(p).desired = "present"
         THEN Goto(p, "create", None, "none")
         ELSE Goto(p, "audit", e, "clear_stale_binding")

GetForeign(p) ==
    LET e == Snap(p).entry IN
    /\ Works(p) /\ Live(e) /\ ~Owned(e, cur[p])
    /\ Goto(p, "audit", e, "ownership_conflict")

GetOwned(p) ==
    LET e == Snap(p).entry IN
    /\ Works(p) /\ Live(e) /\ Owned(e, cur[p])
    /\ CASE Snap(p).desired = "absent" -> Goto(p, "delete", e, "none")
         [] Snap(p).desired = "present" /\ entries[e] # Desired(p) ->
               Goto(p, "update", e, "none")
         [] Snap(p).desired = "present" /\ entries[e] = Desired(p)
               /\ Snap(p).status # "converged" ->
               Goto(p, "audit", e, "bind_owned_existing")
         [] OTHER -> Converged(p)

GetFails(p) == Fails(p) /\ Goto(p, "fail", None, "spire_unavailable")

GetEntry(p) ==
    /\ pc[p] = "get"
    /\ GetMissing(p) \/ GetForeign(p) \/ GetOwned(p) \/ GetFails(p)
    /\ StoreUnchanged /\ SpireUnchanged

\* The effect of BatchUpdateEntry on a live entry: the mask names every field.
ApplyUpdate(p) == /\ Live(tgt[p])
                  /\ Put(tgt[p], Desired(p)) /\ Mutated(cur[p])

\* BatchUpdateEntry on an entry that is gone: UpdateEntry reports ErrNotFound
\* when the NOT_FOUND result carries an entry, an invalid result when not.
UpdateMissing(p) == Works(p) /\ ~Live(tgt[p]) /\ SpireUnchanged

\* UpdateEntry of a bound entry that has drifted (reconcilePresent).
UpdateEntry(p) ==
    /\ pc[p] = "update"
    /\ \/ Works(p) /\ ApplyUpdate(p) /\ Goto(p, "audit", tgt[p], "update")
       \/ UpdateMissing(p) /\ Goto(p, "create", None, "none")
       \/ UpdateMissing(p) /\ Goto(p, "fail", None, "spire_update_failed")
       \/ /\ Fails(p) /\ SpireUnchanged
          /\ Goto(p, "fail", None, "spire_update_failed")
       \/ /\ ReplyLost(p) /\ ApplyUpdate(p)
          /\ Goto(p, "fail", None, "spire_update_failed")
    /\ StoreUnchanged

\* The effect of BatchCreateEntry when no similar entry exists.
ApplyCreate(p, e) == /\ Similar(Desired(p)) = {} /\ Fresh(e)
                     /\ Put(e, Desired(p)) /\ Mutated(cur[p])

\* Fault: the owner of an existing entry is not checked.
CreateExistingUnchecked(p, e) ==
    /\ Works(p) /\ SpireUnchanged
    /\ e \in Similar(Desired(p))
    /\ IF entries[e] = Desired(p)
         THEN Goto(p, "audit", e, "bind_owned_existing")
         ELSE Goto(p, "rebind", e, "none")

\* Fault: an existing entry is brought to the desired state at once.
CreateExistingUpsert(p, e) ==
    /\ Works(p)
    /\ e \in Similar(Desired(p))
    /\ Put(e, Desired(p)) /\ Mutated(cur[p])
    /\ Goto(p, "audit", e, "update_owned_existing")

\* An existing similar entry is bound when it is owned, after an update when
\* it has drifted; a foreign one is a conflict.
CreateExisting(p, e) ==
    /\ Works(p) /\ SpireUnchanged
    /\ e \in Similar(Desired(p))
    /\ CASE ~Owned(e, cur[p]) -> Goto(p, "audit", e, "ownership_conflict")
         [] entries[e] = Desired(p) ->
               Goto(p, "audit", e, "bind_owned_existing")
         [] OTHER -> Goto(p, "rebind", e, "none")

\* Fault: what was created is marked without an audit row.
CreateEntryUnaudited(p) ==
    /\ pc[p] = "create"
    /\ \/ \E e \in Ids : /\ Works(p) /\ ApplyCreate(p, e)
                         /\ Goto(p, "mark", e, "create")
       \/ \E e \in Ids : CreateExisting(p, e)
       \/ /\ Fails(p) /\ SpireUnchanged
          /\ Goto(p, "fail", None, "spire_create_failed")
    /\ StoreUnchanged

\* CreateEntry (createOrBind).
CreateEntry(p) ==
    /\ pc[p] = "create"
    /\ \/ \E e \in Ids : /\ Works(p) /\ ApplyCreate(p, e)
                         /\ Goto(p, "audit", e, "create")
       \/ \E e \in Ids : CreateExisting(p, e)
       \/ /\ Fails(p) /\ SpireUnchanged
          /\ Goto(p, "fail", None, "spire_create_failed")
       \/ /\ ReplyLost(p) /\ \E e \in Ids : ApplyCreate(p, e)
          /\ Goto(p, "fail", None, "spire_create_failed")
    /\ StoreUnchanged

\* UpdateEntry of an existing owned entry with a different TTL
\* (createOrBind).  Here a missing entry is not created again.
RebindEntry(p) ==
    /\ pc[p] = "rebind"
    /\ \/ /\ Works(p) /\ ApplyUpdate(p)
          /\ Goto(p, "audit", tgt[p], "update_owned_existing")
       \/ UpdateMissing(p) /\ Goto(p, "fail", None, "spire_update_race")
       \/ UpdateMissing(p) /\ Goto(p, "fail", None, "spire_update_failed")
       \/ /\ Fails(p) /\ SpireUnchanged
          /\ Goto(p, "fail", None, "spire_update_failed")
       \/ /\ ReplyLost(p) /\ ApplyUpdate(p)
          /\ Goto(p, "fail", None, "spire_update_failed")
    /\ StoreUnchanged

\* DeleteEntry (reconcileAbsent).  An entry that is already gone counts as
\* deleted.
ApplyDelete(p) == /\ Live(tgt[p])
                  /\ Put(tgt[p], Gone) /\ Mutated(cur[p])

DeleteEntry(p) ==
    /\ pc[p] = "delete"
    /\ \/ Works(p) /\ ApplyDelete(p) /\ Goto(p, "audit", tgt[p], "delete")
       \/ /\ Works(p) /\ ~Live(tgt[p]) /\ SpireUnchanged
          /\ Goto(p, "audit", tgt[p], "delete")
       \/ /\ Fails(p) /\ SpireUnchanged
          /\ Goto(p, "fail", None, "spire_delete_failed")
       \/ /\ ReplyLost(p) /\ ApplyDelete(p)
          /\ Goto(p, "fail", None, "spire_delete_failed")
    /\ StoreUnchanged

\* recordAudit: one INSERT.  Its failure ends the rule at once, without a
\* MarkError.  After an ownership_conflict the rule is failed, otherwise it
\* is marked converged.
AppendTrail(p) ==
    /\ trail' = trail \cup
           {[rule |-> cur[p], op |-> note[p], entry |-> tgt[p]]}
    /\ unaudited' = IF note[p] = "ownership_conflict"
                      THEN unaudited ELSE unaudited \ {cur[p]}
    /\ UNCHANGED <<regVars, entries>>

\* Fault: a failed audit INSERT is only logged.
RecordAuditLenient(p) ==
    /\ pc[p] = "audit"
    /\ \/ Works(p) /\ AppendTrail(p)
       \/ Fails(p) /\ StoreUnchanged /\ SpireUnchanged
       \/ ReplyLost(p) /\ AppendTrail(p)
    /\ IF note[p] = "ownership_conflict"
         THEN Goto(p, "fail", None, "ownership_mismatch")
         ELSE Goto(p, "mark", tgt[p], note[p])

RecordAudit(p) ==
    /\ pc[p] = "audit"
    /\ \/ /\ Works(p) /\ AppendTrail(p)
          /\ IF note[p] = "ownership_conflict"
               THEN Goto(p, "fail", None, "ownership_mismatch")
               ELSE Goto(p, "mark", tgt[p], note[p])
       \/ Fails(p) /\ StoreUnchanged /\ SpireUnchanged /\ Failed(p)
       \/ ReplyLost(p) /\ AppendTrail(p) /\ Failed(p)

\* MarkConverged with the entry to bind, or NULL after an unbinding.
Binding(p) == IF note[p] \in Unbindings THEN None ELSE tgt[p]

\* Fault: MarkConverged refuses a rule that has moved on since List.
MarkRuleGuarded(p) ==
    LET fresh == rules[cur[p]].revision = Snap(p).revision IN
    /\ pc[p] = "mark"
    /\ UNCHANGED trail /\ SpireUnchanged
    /\ \/ /\ Works(p) /\ fresh /\ MarkConverged(cur[p], Binding(p))
          /\ Converged(p)
       \/ Works(p) /\ ~fresh /\ UNCHANGED regVars /\ Failed(p)
       \/ Fails(p) /\ UNCHANGED regVars /\ Failed(p)

MarkRule(p) ==
    /\ pc[p] = "mark"
    /\ UNCHANGED trail /\ SpireUnchanged
    /\ \/ Works(p) /\ MarkConverged(cur[p], Binding(p)) /\ Converged(p)
       \/ /\ Works(p) /\ Free(cur[p]) /\ ~EntryUnique(cur[p], Binding(p))
          /\ UNCHANGED regVars /\ Failed(p)
       \/ Fails(p) /\ UNCHANGED regVars /\ Failed(p)
       \/ ReplyLost(p) /\ MarkConverged(cur[p], Binding(p)) /\ Failed(p)

\* Fault: MarkError clears the binding as well.
FailRuleUnbinding(p) ==
    /\ pc[p] = "fail"
    /\ UNCHANGED trail /\ SpireUnchanged
    /\ Failed(p)
    /\ \/ /\ Works(p) /\ Free(cur[p])
          /\ rules' = [rules EXCEPT ![cur[p]] =
                          WithStatus(@, None, "error", note[p])]
          /\ UNCHANGED requestVars
       \/ Fails(p) /\ UNCHANGED regVars

\* failRule: MarkError with the code, then the rule is counted as failed.
FailRule(p) ==
    /\ pc[p] = "fail"
    /\ UNCHANGED trail /\ SpireUnchanged
    /\ Failed(p)
    /\ \/ Works(p) /\ MarkError(cur[p], note[p])
       \/ Fails(p) /\ UNCHANGED regVars
       \/ ReplyLost(p) /\ MarkError(cur[p], note[p])

\* The 30 s context of the run expires between two calls.
Deadline(p) ==
    /\ pc[p] # "idle" /\ ~expired[p] /\ Disturb
    /\ expired' = [expired EXCEPT ![p] = TRUE]
    /\ UNCHANGED <<pc, snap, todo, cur, tgt, note, failed>>
    /\ StoreUnchanged /\ SpireUnchanged

\* The process dies between two calls; a later run knows nothing of it.
Crash(p) ==
    /\ pc[p] # "idle" /\ Disturb
    /\ pc' = [pc EXCEPT ![p] = "idle"]
    /\ snap' = [snap EXCEPT ![p] = [r \in Rules |-> NoRow]]
    /\ todo' = [todo EXCEPT ![p] = {}]
    /\ cur' = [cur EXCEPT ![p] = None]
    /\ tgt' = [tgt EXCEPT ![p] = None]
    /\ note' = [note EXCEPT ![p] = "none"]
    /\ failed' = [failed EXCEPT ![p] = {}]
    /\ expired' = [expired EXCEPT ![p] = FALSE]
    /\ StoreUnchanged /\ SpireUnchanged
-----------------------------------------------------------------------------
\* Other clients of the SPIRE management socket: they register entries of
\* their own, delete entries, change the TTL or selectors of an entry, or
\* give it to someone else by changing its SPIFFE ID and hint.
ExternalCreate ==
    /\ "create" \in External
    /\ \E e \in Ids, r \in Rules, m \in Matches, t \in TTLs :
          LET x == [spiffe |-> r, match |-> m, ttl |-> t, hint |-> Foreign] IN
          Similar(x) = {} /\ Fresh(e) /\ Put(e, x)

ExternalDelete ==
    /\ "delete" \in External
    /\ \E e \in Ids : Live(e) /\ Put(e, Gone)

ExternalDrift ==
    /\ "drift" \in External
    /\ \E e \in Ids, m \in Matches, t \in TTLs :
          /\ Live(e)
          /\ Put(e, [spiffe |-> entries[e].spiffe, match |-> m, ttl |-> t,
                     hint |-> entries[e].hint])

ExternalTakeover ==
    /\ "takeover" \in External
    /\ \E e \in Ids, r \in Rules, h \in Rules \cup {Foreign} :
          /\ Live(e)
          /\ Put(e, [spiffe |-> r, match |-> entries[e].match,
                     ttl |-> entries[e].ttl, hint |-> h])

ExternalStep ==
    /\ Disturb
    /\ ExternalCreate \/ ExternalDelete \/ ExternalDrift \/ ExternalTakeover
    /\ UNCHANGED <<runVars, unaudited>> /\ StoreUnchanged
-----------------------------------------------------------------------------
RunStep(p) ==
    \/ StartRun(p) \/ ReconcileRule(p) \/ EndRun(p)
    \/ GetEntry(p) \/ UpdateEntry(p) \/ CreateEntry(p) \/ RebindEntry(p)
    \/ DeleteEntry(p) \/ RecordAudit(p) \/ MarkRule(p) \/ FailRule(p)

RequestsStep ==
    OperatorStep /\ UNCHANGED <<entries, trail, runVars, disturbances,
                                unaudited>>

Next ==
    \/ RequestsStep
    \/ \E p \in Runners : RunStep(p) \/ Deadline(p) \/ Crash(p)
    \/ ExternalStep

Spec == Init /\ [][Next]_vars

\* Runs are one-shot: whoever schedules the reconciler keeps starting them
\* and each one takes its steps; requests are served as in RegFairSpec.
\* Nothing is promised about failures, crashes or other SPIRE clients.
FairSpec ==
    /\ Spec
    /\ \A p \in Runners : WF_vars(RunStep(p))
    /\ \A c \in Requests :
          WF_vars(RequestStep(c) /\ UNCHANGED <<entries, trail, runVars,
                                                disturbances, unaudited>>)
-----------------------------------------------------------------------------
PCs == {"idle", "next", "get", "create", "update", "rebind", "delete",
        "audit", "mark", "fail"}

RunTypeOK ==
    /\ pc \in [Runners -> PCs]
    /\ snap \in [Runners -> [Rules -> Row \cup {NoRow}]]
    /\ todo \in [Runners -> SUBSET Rules]
    /\ cur \in [Runners -> Rules \cup {None}]
    /\ tgt \in [Runners -> Ids \cup {None}]
    /\ note \in [Runners -> Operations \cup Codes]
    /\ failed \in [Runners -> SUBSET Rules]
    /\ expired \in [Runners -> BOOLEAN]

\* Types of the whole system; in particular every entry the reconciler puts
\* into SPIRE has a usable parent and selectors (desiredEntry).
TypeOK ==
    /\ RegTypeOK /\ RunTypeOK
    /\ entries \in [Ids -> Entry \cup {Unused, Gone}]
    /\ trail \subseteq TrailEvent
    /\ disturbances \in 0..MaxDisturbances
    /\ unaudited \subseteq Rules

(***************************************************************************)
(* Ownership (ADR-0008, "a foreign entry is never adopted"): an entry ID   *)
(* bound to a rule, in the table, in an uncommitted replacement or in the  *)
(* snapshot of a run, and the entry a run is about to update, delete,      *)
(* audit as its own or bind, was issued for that rule: it still carries    *)
(* the rule's hint or has been deleted.                                    *)
(***************************************************************************)
OwnedOrGone(e, r) ==
    entries[e] = Gone \/ (Live(e) /\ Owned(e, r))

RowOwned(row, r) ==
    row # NoRow => (row.entry # None => OwnedOrGone(row.entry, r))

TargetOwned(p) ==
    (\/ pc[p] \in {"update", "rebind", "delete", "mark"}
     \/ pc[p] = "audit" /\ note[p] # "ownership_conflict")
    => (tgt[p] # None => OwnedOrGone(tgt[p], cur[p]))

Ownership ==
    /\ \A r \in Rules : RowOwned(rules[r], r)
    /\ \A c \in Requests : RowOwned(draft[c], Target(c))
    /\ \A p \in Runners : /\ \A r \in Rules : RowOwned(snap[p][r], r)
                          /\ TargetOwned(p)

(***************************************************************************)
(* No step of the platform changes or deletes an entry that does not carry *)
(* the hint of the rule a run is at (ADR-0008, "a foreign entry is never   *)
(* ... updated or deleted"), however long ago that run checked the hint.   *)
(* This rests on hints that nobody rewrites: SPIRE has no conditional      *)
(* update, and an entry that another client makes its own after GetEntry   *)
(* is overwritten or deleted all the same.                                 *)
(***************************************************************************)
ForeignUntouched ==
    [][\/ ExternalStep
       \/ \A e \in Ids : Live(e) /\ entries'[e] # entries[e] =>
             \E p \in Runners : cur[p] # None /\ Owned(e, cur[p])]_vars

(***************************************************************************)
(* Audit before convergence (docs/16, item 7): a rule is bound to an entry *)
(* only if an audit row says how this rule came by this entry, whatever    *)
(* failed, crashed or ran at the same time.                                *)
(***************************************************************************)
BindingAudited ==
    \A r \in Rules :
       (rules[r] # NoRow => rules[r].entry = None)
       \/ \E v \in trail : /\ v.rule = r /\ v.entry = rules[r].entry
                           /\ v.op \in Bindings

\* The bound entry of r is what the committed row asks for.
AsDesired(r) ==
    IF rules[r].desired = "present"
      THEN /\ rules[r].entry # None
           /\ entries[rules[r].entry] = DesiredEntry(r, rules[r])
      ELSE rules[r].entry = None

(***************************************************************************)
(* What "registration reconciliation completed" is worth: when a run that  *)
(* is alone with SPIRE has passed its last rule without counting a         *)
(* failure, every rule that no operator has changed since List is          *)
(* converged and its entry is as desired, whatever earlier runs that were  *)
(* overtaken by operators, failed or crashed had left behind.              *)
(***************************************************************************)
CleanRunApplied ==
    \A p \in Runners : pc[p] = "next" /\ todo[p] = {} /\ failed[p] = {} =>
       \A r \in Rules :
          snap[p][r] # NoRow =>
             \/ snap[p][r].revision # rules[r].revision
             \/ rules[r].status = "converged" /\ AsDesired(r)

\* Owned entries that no rule is bound to.
Orphans ==
    {e \in Ids : Live(e) /\ \E r \in Rules :
        Owned(e, r) /\ (rules[r] # NoRow => rules[r].entry # e)}

(***************************************************************************)
(* An entry is lost only to a failure.  Without overlapping runs, each     *)
(* failure, crash or external call costs at most one entry that carries a  *)
(* rule's hint and that no rule is bound to; operators who change desired  *)
(* state while a run is under way cost none (MarkConverged binds what was  *)
(* created even if the rule has moved on).                                 *)
(***************************************************************************)
OrphansBounded ==
    (\A p \in Runners : pc[p] = "idle") =>
        Cardinality(Orphans) <= disturbances

(***************************************************************************)
(* A live entry is not let go.  Without overlapping runs, a rule's binding *)
(* is replaced or cleared only when the entry it leads to has been         *)
(* deleted: not by an operator, by no failed call and its MarkError, and   *)
(* not by a MarkConverged whose run found the entry missing some calls     *)
(* earlier or works from desired state that has been replaced since.       *)
(***************************************************************************)
BindingKept ==
    [][\A r \in Rules :
          rules[r] # NoRow /\ rules[r].entry # None =>
             \/ rules'[r] # NoRow /\ rules'[r].entry = rules[r].entry
             \/ entries[rules[r].entry] = Gone]_vars

\* The rule is shown as converged, and rightly so.
InSync(r) == rules[r].status = "converged" /\ AsDesired(r)

(***************************************************************************)
(* Reconciliation is idempotent across crashes and retries (ADR-0008).     *)
(* Without overlapping runs, no run changes or creates an entry for a rule *)
(* that is converged and whose entry is as desired, whatever its snapshot  *)
(* of the rule said and whatever it saw of the entry some calls ago.       *)
(***************************************************************************)
Idempotent ==
    [][entries' # entries =>
          \/ ExternalStep
          \/ \E p \in Runners : cur[p] # None /\ ~InSync(cur[p])]_vars

(***************************************************************************)
(* The safety half of convergence.  Without overlapping runs, and if no    *)
(* other client rewrites hints, a rule that is in sync is taken out of it  *)
(* only by operators, by another SPIRE client or by a failure that is      *)
(* recorded on the rule: not by a status that a run stores for a snapshot  *)
(* that is out of date, nor by work on another rule's entry.               *)
(***************************************************************************)
InSyncKept ==
    [][\A r \in Rules : rules[r] # NoRow /\ InSync(r) =>
          \/ InSync(r)'
          \/ RequestsStep \/ ExternalStep
          \/ \E p \in Runners : pc[p] = "fail" /\ cur[p] = r]_vars

(***************************************************************************)
(* Evidence is lost only to failures: each failure, crash or deadline      *)
(* leaves at most one rule with a SPIRE mutation that no audit row has     *)
(* followed, however many runs overlap.  (It may stay without one, see     *)
(* MutationsAudited.)                                                      *)
(***************************************************************************)
UnauditedBounded ==
    (\A p \in Runners : pc[p] = "idle") =>
        Cardinality(unaudited) <= disturbances

(***************************************************************************)
(* Two rules are never bound to the same SPIRE entry, even if other SPIRE  *)
(* clients rewrite hints: the last line of defence is the unique index on  *)
(* spire_entry_id.                                                         *)
(***************************************************************************)
UniqueBinding ==
    \A q, r \in Rules :
       q # r /\ rules[q] # NoRow /\ rules[r] # NoRow =>
          (rules[r].entry # None => rules[q].entry # rules[r].entry)

\* A run that finds someone else's entry in the way can only report it.
Conflict(r) ==
    LET x == DesiredEntry(r, rules[r]) IN
    /\ rules[r].status = "error" /\ rules[r].error = "ownership_mismatch"
    /\ \E e \in Ids : Live(e) /\ ~Owned(e, r)
                      /\ e \in Similar(x) \cup {rules[r].entry}

Settled(r) ==
    rules[r] # NoRow =>
       \/ rules[r].status = "converged" /\ AsDesired(r)
       \/ rules[r].match = NoMatch /\ rules[r].error = "invalid_desired_state"
       \/ Conflict(r)

(***************************************************************************)
(* Convergence: once operators and failures leave the system alone,        *)
(* repeated runs bring every rule to its desired state for good, or report *)
(* the foreign entry or the unusable desired state that prevents it.  This *)
(* includes rules that a stale MarkConverged has marked converged.         *)
(***************************************************************************)
EventuallySettled == <>[](\A r \in Rules : Settled(r))
-----------------------------------------------------------------------------
(***************************************************************************)
(* ADR-0008 reads: the complete desired entry is compared before a rule is *)
(* marked converged.  Read as a statement about the table: a converged     *)
(* rule's bound entry is as the row desires.                               *)
(***************************************************************************)
ConvergedIsApplied ==
    \A r \in Rules : rules[r] # NoRow /\ rules[r].status = "converged" =>
       AsDesired(r)

(***************************************************************************)
(* docs/16 and ADR-0008: reconciliation mutations produce audit evidence.  *)
(* A rule with a mutation that has not been audited is being worked on, or *)
(* is not shown as converged, so that a later run will come back to it.    *)
(***************************************************************************)
MutationsAudited ==
    \A r \in unaudited :
       \/ \E p \in Runners : cur[p] = r
       \/ rules[r].status # "converged"
=============================================================================
