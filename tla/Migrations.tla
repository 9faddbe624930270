----------------------------- MODULE Migrations -----------------------------
(***************************************************************************)
(* The schema and scripts/db-migrate.sh.  A run of the script goes through *)
(* the three migrations, up or down, and for each one first probes the     *)
(* schema with one psql call and then, if need be, applies the file with   *)
(* another.  Every file is one transaction; between any two calls the      *)
(* script may die and other runs of it may interfere.  No table records    *)
(* what was applied: the probes are all the script knows.                  *)
(***************************************************************************)
EXTENDS Naturals, Sequences

CONSTANTS
    Scripts,    \* runs of the script that may be under way at once
    MaxFaults,  \* bound on failing psql calls and killed scripts
    MaxDowns    \* bound on the number of rollbacks

Files == 1 .. 3

ASSUME MigrationsAssumption == MaxFaults \in Nat /\ MaxDowns \in Nat

VARIABLES
    schema,     \* the migrations whose objects are in the database
    at,         \* what each script does next, or how it exited
    way,        \* its direction
    todo,       \* the files it has still to look at, in order
    faults,
    downs,
    blind,      \* history: a probe of this run failed
    alone       \* history: no run in the other direction overlapped this one

migVars == <<schema, at, way, todo, faults, downs, blind, alone>>

Active(s) == at[s] \in {"probe", "apply"}
Opposite(s, d) == {t \in Scripts \ {s} : Active(t) /\ way[t] # d}

\* Fault: the revision of policies is migrated before the columns of rules.
PlanSwapped(d) == IF d = "up" THEN <<1, 3, 2>> ELSE <<2, 3, 1>>

\* The order of the script's if statements.
Plan(d) == IF d = "up" THEN <<1, 2, 3>> ELSE <<3, 2, 1>>

MigInit ==
    /\ schema = {}
    /\ at = [s \in Scripts |-> "idle"]
    /\ way = [s \in Scripts |-> "up"]
    /\ todo = [s \in Scripts |-> <<>>]
    /\ faults = 0 /\ downs = 0
    /\ blind = [s \in Scripts |-> FALSE]
    /\ alone = [s \in Scripts |-> TRUE]

Start(s, d) ==
    /\ ~Active(s)
    /\ downs' = IF d = "down" THEN downs + 1 ELSE downs
    /\ downs' <= MaxDowns
    /\ at' = [at EXCEPT ![s] = "probe"]
    /\ way' = [way EXCEPT ![s] = d]
    /\ todo' = [todo EXCEPT ![s] = Plan(d)]
    /\ blind' = [blind EXCEPT ![s] = FALSE]
    /\ alone' = [t \in Scripts |->
          IF t = s THEN Opposite(s, d) = {}
                   ELSE alone[t] /\ t \notin Opposite(s, d)]
    /\ UNCHANGED <<schema, faults>>

\* Fault: has_table registration_rules stands in for has_column.
FoundByTable(f) == (IF f = 2 THEN 1 ELSE f) \in schema

\* has_table organizations, has_column registration_rules parent_spiffe_id,
\* has_column access_policies revision.
Found(f) == f \in schema

\* The first file is dealt with: on to the next one, or exit 0.
Advance(s) ==
    /\ todo' = [todo EXCEPT ![s] = Tail(@)]
    /\ at' = [at EXCEPT ![s] = IF Len(todo[s]) = 1 THEN "ok" ELSE "probe"]

Needed(s, found) == found = (way[s] = "down")

\* Goes on to the file if it is needed, else past it.
After(s, found) ==
    \/ /\ Needed(s, found)
       /\ at' = [at EXCEPT ![s] = "apply"] /\ UNCHANGED todo
    \/ ~Needed(s, found) /\ Advance(s)

Probe(s) ==
    /\ at[s] = "probe"
    /\ After(s, Found(Head(todo[s])))
    /\ UNCHANGED <<schema, way, faults, downs, blind, alone>>

\* psql fails inside a condition, where set -e does not apply: the function
\* is false, as if the object were absent.
ProbeFails(s) ==
    /\ at[s] = "probe" /\ faults < MaxFaults
    /\ After(s, FALSE)
    /\ faults' = faults + 1
    /\ blind' = [blind EXCEPT ![s] = TRUE]
    /\ UNCHANGED <<schema, way, downs, alone>>

\* A file's statements can be executed: CREATE and ADD COLUMN refuse what
\* exists, ALTER TABLE needs its table, and the first rollback, all of whose
\* statements are IF EXISTS, always can.
Applicable(d, f) ==
    \/ d = "up" /\ f \notin schema /\ (f = 1 \/ 1 \in schema)
    \/ d = "down" /\ (f = 1 \/ 1 \in schema)

\* Fault: the first rollback spares the tables that others have altered.
ResultSparing(d, f) == IF d = "up" THEN schema \cup {f} ELSE schema \ {f}

\* Rolling back the first file drops the tables the others have altered.
Result(d, f) ==
    IF d = "up" THEN schema \cup {f}
    ELSE IF f = 1 THEN {} ELSE schema \ {f}

\* psql -v ON_ERROR_STOP=1 -f: all of the file, or an error and, by set -e,
\* the end of the script.
Apply(s) ==
    LET f == Head(todo[s]) IN
    /\ at[s] = "apply"
    /\ \/ /\ Applicable(way[s], f)
          /\ schema' = Result(way[s], f)
          /\ Advance(s)
       \/ /\ ~Applicable(way[s], f)
          /\ at' = [at EXCEPT ![s] = "failed"]
          /\ UNCHANGED <<schema, todo>>
    /\ UNCHANGED <<way, faults, downs, blind, alone>>

\* Fault: the exit status of psql is dropped.
DieUnnoticed(s) ==
    /\ Active(s) /\ faults < MaxFaults
    /\ faults' = faults + 1
    /\ Advance(s)
    /\ UNCHANGED <<schema, way, downs, blind, alone>>

\* The script dies, or psql loses its connection: the file's transaction is
\* undone, or has committed and nobody has been told.
Die(s) ==
    /\ Active(s) /\ faults < MaxFaults
    /\ faults' = faults + 1
    /\ at' = [at EXCEPT ![s] = "failed"]
    /\ \/ UNCHANGED schema
       \/ /\ at[s] = "apply" /\ Applicable(way[s], Head(todo[s]))
          /\ schema' = Result(way[s], Head(todo[s]))
    /\ UNCHANGED <<way, todo, downs, blind, alone>>
-----------------------------------------------------------------------------
MigNext ==
    \E s \in Scripts :
       \/ \E d \in {"up", "down"} : Start(s, d)
       \/ Probe(s) \/ ProbeFails(s) \/ Apply(s) \/ Die(s)

MigSpec == MigInit /\ [][MigNext]_migVars

\* A script goes on, and one that has ended is run again, upwards.
MigFairSpec ==
    /\ MigSpec
    /\ \A s \in Scripts : WF_migVars(Start(s, "up") \/ Probe(s) \/ Apply(s))
-----------------------------------------------------------------------------
\* Types: in particular the later migrations, which alter tables of the
\* first, are never there without it.
MigTypeOK ==
    /\ schema \subseteq Files
    /\ schema # {} => 1 \in schema
    /\ at \in [Scripts -> {"idle", "probe", "apply", "ok", "failed"}]
    /\ way \in [Scripts -> {"up", "down"}]
    /\ todo \in [Scripts -> Seq(Files)]
    /\ \A s \in Scripts : Active(s) => todo[s] # <<>>
    /\ faults \in 0 .. MaxFaults /\ downs \in 0 .. MaxDowns
    /\ blind \in [Scripts -> BOOLEAN] /\ alone \in [Scripts -> BOOLEAN]

(***************************************************************************)
(* Exit 0 means done: a run upwards that exits 0 leaves the whole schema,  *)
(* a run downwards none of it, provided no run in the other direction was  *)
(* under way at the same time; for the way down also that none of its own  *)
(* probes failed.  Runs in the same direction, crashed earlier runs, lost  *)
(* acknowledgements and, upwards, failed probes do not matter.             *)
(***************************************************************************)
ExitZeroMeansDone ==
    [][\A s \in Scripts :
          Active(s) /\ at'[s] = "ok" /\ alone[s] =>
             IF way[s] = "up" THEN schema' = Files
                              ELSE blind'[s] \/ schema' = {}]_migVars

\* The schema after the first k migrations, for some k.
Prefixes == {1 .. k : k \in 0 .. 3}
Disturbed(s) == ~alone[s] \/ (way[s] = "down" /\ blind[s])

(***************************************************************************)
(* Order (docs/12, "applied in order", "rollback runs in reverse order"):  *)
(* runs that go in one direction at a time lead from a prefix of the       *)
(* migrations to a prefix, however many of them compete and die; only an   *)
(* overlap of an upward with a downward run, or a failed probe on the way  *)
(* down, can leave a later migration without an earlier one.               *)
(***************************************************************************)
AppliedInOrder ==
    [][(\A s \in Scripts : Active(s) => ~Disturbed(s)) =>
          (schema \in Prefixes => schema' \in Prefixes)]_migVars

(***************************************************************************)
(* Restartable: from wherever dead scripts, failed probes and overlapping  *)
(* rollbacks have left the schema, running the script upwards again and    *)
(* again completes it, for good once the rollbacks have stopped.           *)
(***************************************************************************)
EventuallyMigrated == <>[](schema = Files)
=============================================================================
