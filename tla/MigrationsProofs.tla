-------------------------- MODULE MigrationsProofs --------------------------
(***************************************************************************)
(* Proofs about scripts/db-migrate.sh, for any number of runs of it at     *)
(* once, of rollbacks and of faults.  The point is what a run may conclude *)
(* from probes that others have made stale since: as long as all runs      *)
(* under way go in its own direction, what it has found or done stays so.  *)
(***************************************************************************)
EXTENDS Migrations, TLAPS

\* What is left to look at in a run under way, by its direction.
Remaining(d) == IF d = "up" THEN {<<1, 2, 3>>, <<2, 3>>, <<3>>}
                            ELSE {<<3, 2, 1>>, <<2, 1>>, <<1>>}

\* A run is not alone as long as one in the other direction is under way.
Overlaps ==
    \A s, t \in Scripts :
       Active(s) /\ Active(t) /\ way[s] # way[t] => ~alone[s]

\* The files an undisturbed run has left behind it are in the schema, or out
\* of it on the way down.
Progress(s) ==
    Active(s) /\ ~Disturbed(s) =>
       \A f \in Files :
          /\ way[s] = "up" /\ f < Head(todo[s]) => f \in schema
          /\ way[s] = "down" /\ f > Head(todo[s]) => f \notin schema

MigInv ==
    /\ MigTypeOK /\ Overlaps
    /\ \A s \in Scripts : Active(s) => todo[s] \in Remaining(way[s])
    /\ \A s \in Scripts : Progress(s)

\* The files a run has still to look at, and what is left after the first.
LEMMA RemainingFacts ==
    ASSUME NEW d \in {"up", "down"}, NEW q \in Remaining(d)
    PROVE  /\ q \in Seq(Files) /\ q # <<>> /\ Head(q) \in Files
           /\ Tail(q) \in Seq(Files)
           /\ Len(q) = 1 => Head(q) = IF d = "up" THEN 3 ELSE 1
           /\ Len(q) # 1 =>
                 /\ Tail(q) \in Remaining(d)
                 /\ Head(Tail(q)) =
                       IF d = "up" THEN Head(q) + 1 ELSE Head(q) - 1
<1> USE DEF Remaining, Files
<1>1. CASE q = <<1, 2, 3>>
  <2>1. Head(q) = 1 /\ Tail(q) = <<2, 3>> /\ Len(q) = 3 /\ d = "up"
    BY <1>1
  <2> QED
    BY <1>1, <2>1
<1>2. CASE q = <<2, 3>>
  <2>1. Head(q) = 2 /\ Tail(q) = <<3>> /\ Len(q) = 2 /\ d = "up"
    BY <1>2
  <2> QED
    BY <1>2, <2>1
<1>3. CASE q = <<3>>
  <2>1. Head(q) = 3 /\ Tail(q) = <<>> /\ Len(q) = 1 /\ d = "up"
    BY <1>3
  <2> QED
    BY <1>3, <2>1
<1>4. CASE q = <<3, 2, 1>>
  <2>1. Head(q) = 3 /\ Tail(q) = <<2, 1>> /\ Len(q) = 3 /\ d = "down"
    BY <1>4
  <2> QED
    BY <1>4, <2>1
<1>5. CASE q = <<2, 1>>
  <2>1. Head(q) = 2 /\ Tail(q) = <<1>> /\ Len(q) = 2 /\ d = "down"
    BY <1>5
  <2> QED
    BY <1>5, <2>1
<1>6. CASE q = <<1>>
  <2>1. Head(q) = 1 /\ Tail(q) = <<>> /\ Len(q) = 1 /\ d = "down"
    BY <1>6
  <2> QED
    BY <1>6, <2>1
<1> QED
  BY <1>1, <1>2, <1>3, <1>4, <1>5, <1>6

\* A run starts with all of its plan.
LEMMA PlanFacts ==
    ASSUME NEW d \in {"up", "down"}
    PROVE  /\ Plan(d) \in Remaining(d)
           /\ Head(Plan(d)) = IF d = "up" THEN 1 ELSE 3
BY DEF Plan, Remaining

\* What a file does to the schema, when its statements can be executed.
LEMMA ResultFacts ==
    ASSUME MigInv, NEW d \in {"up", "down"}, NEW f \in Files, Applicable(d, f)
    PROVE  /\ Result(d, f) \subseteq Files
           /\ Result(d, f) # {} => 1 \in Result(d, f)
           /\ d = "up" => schema \subseteq Result(d, f) /\ f \in Result(d, f)
           /\ d = "down" => /\ Result(d, f) \subseteq schema
                            /\ f \notin Result(d, f)
BY DEF MigInv, MigTypeOK, Applicable, Result, Files

\* A step of a run under way preserves the parts of the invariant that relate
\* runs, if it does so for that run: the files of an undisturbed run in the
\* same direction stay where that run has found or put them.
LEMMA RunMoves ==
    ASSUME MigInv, NEW s \in Scripts, Active(s),
           NEW a \in {"probe", "apply", "ok", "failed"},
           NEW q \in Seq(Files), NEW b \in BOOLEAN,
           at' = [at EXCEPT ![s] = a],
           todo' = [todo EXCEPT ![s] = q],
           blind' = [blind EXCEPT ![s] = b],
           blind[s] => b,
           UNCHANGED <<way, alone>>,
           \/ schema' = schema
           \/ /\ Applicable(way[s], Head(todo[s]))
              /\ schema' = Result(way[s], Head(todo[s])),
           a \in {"probe", "apply"} =>
              q \in Remaining(way[s]) /\ Progress(s)',
           faults' \in 0 .. MaxFaults, UNCHANGED downs
    PROVE  MigInv'
<1>1. MigTypeOK
  BY DEF MigInv
<1>2. /\ at'[s] = a /\ todo'[s] = q /\ blind'[s] = b
      /\ \A t \in Scripts \ {s} :
            at'[t] = at[t] /\ todo'[t] = todo[t] /\ blind'[t] = blind[t]
  BY <1>1 DEF MigTypeOK
<1>3. Active(s)' <=> a \in {"probe", "apply"}
  BY <1>2 DEF Active
<1>4. \A t \in Scripts \ {s} : Active(t)' <=> Active(t)
  BY <1>2 DEF Active
<1>5. way[s] \in {"up", "down"} /\ Head(todo[s]) \in Files
  BY <1>1, RemainingFacts DEF MigInv, MigTypeOK
<1>6. /\ schema' \subseteq Files
      /\ schema' # {} => 1 \in schema'
      /\ way[s] = "up" => schema \subseteq schema'
      /\ way[s] = "down" => schema' \subseteq schema
  BY <1>1, <1>5, ResultFacts DEF MigTypeOK
<1>7. \A t \in Scripts : Active(t)' => todo'[t] \in Remaining(way[t])
  BY <1>2, <1>3, <1>4 DEF MigInv
<1>8. \A t \in Scripts : Active(t)' => todo'[t] # <<>>
  BY <1>1, <1>7, RemainingFacts DEF MigTypeOK
<1>9. MigTypeOK'
  <2>1. /\ at' \in [Scripts -> {"idle", "probe", "apply", "ok", "failed"}]
        /\ todo' \in [Scripts -> Seq(Files)]
        /\ blind' \in [Scripts -> BOOLEAN]
    BY <1>1 DEF MigTypeOK
  <2> QED
    BY <1>1, <1>6, <1>8, <2>1 DEF MigTypeOK, Active
<1>10. Overlaps'
  BY <1>3, <1>4 DEF MigInv, Overlaps
<1>11. ASSUME NEW t \in Scripts PROVE Progress(t)'
  <2>1. CASE t = s
    BY <1>3, <2>1 DEF Progress
  <2>2. CASE t # s
    <3> SUFFICES ASSUME Active(t)', ~Disturbed(t)', NEW f \in Files
                 PROVE  /\ way[t] = "up" /\ f < Head(todo'[t]) => f \in schema'
                        /\ way[t] = "down" /\ f > Head(todo'[t])
                              => f \notin schema'
      BY DEF Progress
    <3>1. Active(t) /\ ~Disturbed(t) /\ alone[t]
      BY <1>2, <1>4, <2>2 DEF Disturbed
    <3>2. way[t] = way[s]
      BY <3>1 DEF MigInv, Overlaps
    <3>3. todo'[t] = todo[t]
      BY <1>2, <2>2
    <3> QED
      BY <1>6, <3>1, <3>2, <3>3 DEF MigInv, Progress
  <2> QED
    BY <2>1, <2>2
<1> QED
  BY <1>7, <1>9, <1>10, <1>11 DEF MigInv

\* What ExitZeroMeansDone says of a step of one run.
Done(s) ==
    at'[s] = "ok" /\ alone[s] =>
       IF way[s] = "up" THEN schema' = Files ELSE blind'[s] \/ schema' = {}

\* A run that goes on to the next file preserves the invariant if it has found
\* the first one, or put it, where its direction wants it; and if that was the
\* last file, the run is done.
LEMMA AdvanceKeeps ==
    ASSUME MigInv, NEW s \in Scripts, Active(s), Advance(s),
           NEW b \in BOOLEAN, blind' = [blind EXCEPT ![s] = b],
           blind[s] => b,
           UNCHANGED <<way, alone, downs>>, faults' \in 0 .. MaxFaults,
           \/ schema' = schema
           \/ /\ Applicable(way[s], Head(todo[s]))
              /\ schema' = Result(way[s], Head(todo[s])),
           way[s] = "up" => Head(todo[s]) \in schema',
           way[s] = "down" => b \/ Head(todo[s]) \notin schema'
    PROVE  MigInv' /\ Done(s)
<1> DEFINE a == IF Len(todo[s]) = 1 THEN "ok" ELSE "probe"
           q == Tail(todo[s])
           k == Head(todo[s])
<1>1. MigTypeOK /\ way[s] \in {"up", "down"} /\ todo[s] \in Remaining(way[s])
  BY DEF MigInv, MigTypeOK
<1>2. /\ k \in Files /\ q \in Seq(Files)
      /\ Len(todo[s]) = 1 => k = IF way[s] = "up" THEN 3 ELSE 1
      /\ Len(todo[s]) # 1 =>
            /\ q \in Remaining(way[s])
            /\ Head(q) = IF way[s] = "up" THEN k + 1 ELSE k - 1
  BY <1>1, RemainingFacts
<1>3. at'[s] = a /\ todo'[s] = q /\ blind'[s] = b
  BY <1>1 DEF MigTypeOK, Advance
<1>4. /\ way[s] = "up" => schema \subseteq schema'
      /\ way[s] = "down" => schema' \subseteq schema
      /\ schema' \subseteq Files
  BY <1>1, <1>2, ResultFacts DEF MigTypeOK
<1>5. ASSUME alone[s], NEW f \in Files
      PROVE  /\ way[s] = "up" /\ f <= k => f \in schema'
             /\ way[s] = "down" /\ ~b /\ f >= k => f \notin schema'
  <2>1. way[s] = "up" \/ ~b => ~Disturbed(s)
    BY <1>5 DEF Disturbed
  <2>2. /\ way[s] = "up" /\ f < k => f \in schema
        /\ way[s] = "down" /\ ~b /\ f > k => f \notin schema
    BY <2>1, <1>1 DEF MigInv, Progress
  <2>3. f <= k => f < k \/ f = k
    BY <1>2 DEF Files
  <2>4. f >= k => f > k \/ f = k
    BY <1>2 DEF Files
  <2> QED
    BY <1>4, <2>2, <2>3, <2>4
<1>6. a = "probe" => Progress(s)'
  <2> SUFFICES ASSUME a = "probe", ~Disturbed(s)', NEW f \in Files
               PROVE  /\ way[s] = "up" /\ f < Head(q) => f \in schema'
                      /\ way[s] = "down" /\ f > Head(q) => f \notin schema'
    BY <1>3 DEF Progress
  <2>1. alone[s] /\ (way[s] = "down" => ~b)
    BY <1>3 DEF Disturbed
  <2>2. /\ way[s] = "up" => Head(q) = k + 1
        /\ way[s] = "down" => Head(q) = k - 1
    BY <1>2
  <2>3. /\ f < k + 1 => f <= k
        /\ f > k - 1 => f >= k
    BY <1>2 DEF Files
  <2> QED
    BY <1>5, <2>1, <2>2, <2>3
<1>7. MigInv'
  <2>1. /\ at' = [at EXCEPT ![s] = a]
        /\ todo' = [todo EXCEPT ![s] = q]
    BY DEF Advance
  <2>2. /\ a \in {"probe", "apply", "ok", "failed"}
        /\ a \in {"probe", "apply"} =>
              q \in Remaining(way[s]) /\ Progress(s)'
    BY <1>2, <1>6
  <2> HIDE DEF a, q
  <2> QED
    BY <1>2, <2>1, <2>2, RunMoves
<1>8. Done(s)
  <2> SUFFICES ASSUME at'[s] = "ok", alone[s]
               PROVE  IF way[s] = "up" THEN schema' = Files
                                       ELSE blind'[s] \/ schema' = {}
    BY DEF Done
  <2>1. k = IF way[s] = "up" THEN 3 ELSE 1
    BY <1>2, <1>3
  <2>2. \A f \in Files : f <= 3 /\ f >= 1
    BY DEF Files
  <2>3. CASE way[s] = "up"
    BY <1>4, <1>5, <2>1, <2>2, <2>3
  <2>4. CASE way[s] = "down"
    BY <1>1, <1>3, <1>4, <1>5, <2>1, <2>2, <2>4
  <2> QED
    BY <1>1, <2>3, <2>4
<1> QED
  BY <1>7, <1>8

\* A run that stays at its file, to apply it or because it has died.
LEMMA StayKeeps ==
    ASSUME MigInv, NEW s \in Scripts, Active(s),
           NEW a \in {"apply", "failed"},
           at' = [at EXCEPT ![s] = a], UNCHANGED todo,
           NEW b \in BOOLEAN, blind' = [blind EXCEPT ![s] = b],
           blind[s] => b,
           UNCHANGED <<way, alone, downs>>, faults' \in 0 .. MaxFaults,
           \/ schema' = schema
           \/ /\ a = "failed" /\ Applicable(way[s], Head(todo[s]))
              /\ schema' = Result(way[s], Head(todo[s]))
    PROVE  MigInv' /\ Done(s)
<1>1. MigTypeOK /\ todo[s] \in Remaining(way[s]) /\ todo[s] \in Seq(Files)
  BY DEF MigInv, MigTypeOK
<1>2. todo' = [todo EXCEPT ![s] = todo[s]] /\ blind'[s] = b /\ at'[s] = a
  BY <1>1 DEF MigTypeOK
<1>3. a = "apply" => Progress(s)'
  <2> SUFFICES ASSUME a = "apply", ~Disturbed(s)' PROVE Progress(s)'
    BY DEF Progress
  <2>1. ~Disturbed(s)
    BY <1>2 DEF Disturbed
  <2> QED
    BY <2>1 DEF MigInv, Progress
<1>4. MigInv'
  BY <1>1, <1>2, <1>3, RunMoves
<1>5. Done(s)
  BY <1>2 DEF Done
<1> QED
  BY <1>4, <1>5

\* The start of a run: others that go the other way are not alone any more.
LEMMA StartKeeps ==
    ASSUME MigInv, NEW s \in Scripts, NEW d \in {"up", "down"}, Start(s, d)
    PROVE  MigInv'
<1> USE DEF Start
<1>1. MigTypeOK
  BY DEF MigInv
<1>2. /\ at'[s] = "probe" /\ way'[s] = d /\ todo'[s] = Plan(d)
      /\ alone'[s] = (Opposite(s, d) = {})
      /\ \A t \in Scripts \ {s} :
            /\ at'[t] = at[t] /\ way'[t] = way[t] /\ todo'[t] = todo[t]
            /\ blind'[t] = blind[t]
            /\ alone'[t] = (alone[t] /\ t \notin Opposite(s, d))
      /\ schema' = schema
  BY <1>1 DEF MigTypeOK
<1>3. \A t \in Scripts \ {s} : Active(t)' <=> Active(t)
  BY <1>2 DEF Active
<1>4. \A t \in Scripts : Active(t)' => todo'[t] \in Remaining(way'[t])
  BY <1>2, <1>3, PlanFacts DEF MigInv
<1>5. MigTypeOK'
  <2>1. /\ at' \in [Scripts -> {"idle", "probe", "apply", "ok", "failed"}]
        /\ way' \in [Scripts -> {"up", "down"}]
        /\ blind' \in [Scripts -> BOOLEAN]
    BY <1>1 DEF MigTypeOK
  <2>2. alone' \in [Scripts -> BOOLEAN]
    BY <1>1 DEF MigTypeOK
  <2>3. todo' \in [Scripts -> Seq(Files)]
    BY <1>1, PlanFacts, RemainingFacts DEF MigTypeOK
  <2>4. \A t \in Scripts : Active(t)' => todo'[t] # <<>>
    BY <1>4, <2>1, RemainingFacts
  <2>5. downs' \in 0 .. MaxDowns
    BY <1>1, MigrationsAssumption DEF MigTypeOK
  <2> QED
    BY <1>1, <1>2, <2>1, <2>2, <2>3, <2>4, <2>5 DEF MigTypeOK, Active
<1>6. Overlaps'
  <2> SUFFICES ASSUME NEW t \in Scripts, NEW u \in Scripts,
                      Active(t)', Active(u)', way'[t] # way'[u]
               PROVE  ~alone'[t]
    BY DEF Overlaps
  <2>1. CASE t = s
    <3>1. u # s /\ Active(u) /\ way[u] # d
      BY <1>2, <1>3, <2>1
    <3>2. u \in Opposite(s, d)
      BY <3>1 DEF Opposite
    <3> QED
      BY <1>2, <2>1, <3>2
  <2>2. CASE t # s /\ u = s
    <3>1. Active(t) /\ way[t] # d
      BY <1>2, <1>3, <2>2
    <3>2. t \in Opposite(s, d)
      BY <2>2, <3>1 DEF Opposite
    <3> QED
      BY <1>2, <2>2, <3>2
  <2>3. CASE t # s /\ u # s
    <3>1. ~alone[t]
      BY <1>2, <1>3, <2>3 DEF MigInv, Overlaps
    <3>2. alone'[t] = (alone[t] /\ t \notin Opposite(s, d))
      BY <1>2, <2>3
    <3> QED
      BY <3>1, <3>2, Zenon
  <2> QED
    BY <2>1, <2>2, <2>3
<1>7. ASSUME NEW t \in Scripts PROVE Progress(t)'
  <2>1. CASE t = s
    <3>1. /\ d = "up" => Head(todo'[s]) = 1
          /\ d = "down" => Head(todo'[s]) = 3
      BY <1>2, PlanFacts
    <3>2. \A f \in Files : ~(f < 1) /\ ~(f > 3)
      BY DEF Files
    <3> QED
      BY <1>2, <2>1, <3>1, <3>2 DEF Progress
  <2>2. CASE t # s
    <3>1. ~Disturbed(t)' => ~Disturbed(t)
      BY <1>2, <2>2 DEF Disturbed
    <3> QED
      BY <1>2, <1>3, <2>2, <3>1 DEF MigInv, Progress
  <2> QED
    BY <2>1, <2>2
<1> QED
  BY <1>4, <1>5, <1>6, <1>7 DEF MigInv

\* The steps of a run under way.
LEMMA RunSteps ==
    ASSUME MigInv, NEW s \in Scripts,
           Probe(s) \/ ProbeFails(s) \/ Apply(s) \/ Die(s)
    PROVE  MigInv' /\ Done(s)
<1>1. MigTypeOK /\ way[s] \in {"up", "down"} /\ blind[s] \in BOOLEAN
  BY DEF MigInv, MigTypeOK
<1>2. blind = [blind EXCEPT ![s] = blind[s]]
  BY <1>1 DEF MigTypeOK
<1>3. Active(s) /\ Head(todo[s]) \in Files
  <2>1. Active(s)
    BY DEF Probe, ProbeFails, Apply, Die, Active
  <2> QED
    BY <1>1, <2>1, RemainingFacts DEF MigInv
<1>4. faults' \in 0 .. MaxFaults
  <2>1. \/ faults' = faults
        \/ faults < MaxFaults /\ faults' = faults + 1
    BY DEF Probe, ProbeFails, Apply, Die
  <2> QED
    BY <1>1, <2>1, MigrationsAssumption DEF MigTypeOK
<1>5. CASE Probe(s)
  <2>1. CASE at' = [at EXCEPT ![s] = "apply"] /\ UNCHANGED todo
    BY <1>1, <1>2, <1>3, <1>4, <1>5, <2>1, StayKeeps DEF Probe
  <2>2. CASE ~Needed(s, Found(Head(todo[s]))) /\ Advance(s)
    <3>1. /\ way[s] = "up" => Head(todo[s]) \in schema
          /\ way[s] = "down" => Head(todo[s]) \notin schema
      BY <2>2 DEF Needed, Found
    <3> QED
      BY <1>1, <1>2, <1>3, <1>4, <1>5, <2>2, <3>1, AdvanceKeeps DEF Probe
  <2> QED
    BY <1>5, <2>1, <2>2 DEF Probe, After
<1>6. CASE ProbeFails(s)
  <2>1. CASE at' = [at EXCEPT ![s] = "apply"] /\ UNCHANGED todo
    BY <1>1, <1>3, <1>4, <1>6, <2>1, StayKeeps DEF ProbeFails
  <2>2. CASE ~Needed(s, FALSE) /\ Advance(s)
    <3>1. way[s] = "down"
      BY <1>1, <2>2 DEF Needed
    <3> QED
      BY <1>1, <1>3, <1>4, <1>6, <2>2, <3>1, AdvanceKeeps DEF ProbeFails
  <2> QED
    BY <1>6, <2>1, <2>2 DEF ProbeFails, After
<1>7. CASE Apply(s)
  <2>1. CASE /\ Applicable(way[s], Head(todo[s]))
             /\ schema' = Result(way[s], Head(todo[s]))
             /\ Advance(s)
    <3>1. /\ way[s] = "up" => Head(todo[s]) \in schema'
          /\ way[s] = "down" => Head(todo[s]) \notin schema'
      BY <1>1, <1>3, <2>1, ResultFacts
    <3> QED
      BY <1>1, <1>2, <1>3, <1>4, <1>7, <2>1, <3>1, AdvanceKeeps DEF Apply
  <2>2. CASE /\ at' = [at EXCEPT ![s] = "failed"]
             /\ UNCHANGED <<schema, todo>>
    BY <1>1, <1>2, <1>3, <1>4, <1>7, <2>2, StayKeeps DEF Apply
  <2> QED
    BY <1>7, <2>1, <2>2 DEF Apply
<1>8. CASE Die(s)
  BY <1>1, <1>2, <1>3, <1>4, <1>8, StayKeeps DEF Die
<1> QED
  BY <1>5, <1>6, <1>7, <1>8

\* Adding to an interval and taking away from it.
LEMMA Intervals ==
    ASSUME NEW k \in Files, NEW n \in 0 .. 3
    PROVE  /\ (1 .. (k - 1)) \cup {k} = 1 .. k
           /\ (1 .. k) \ {k} = 1 .. (k - 1)
           /\ n < k => (1 .. n) \ {k} = 1 .. n
           /\ 1 .. 0 = {}
<1> USE DEF Files
<1>1. \A x : x \in (1 .. (k - 1)) \cup {k} <=> x \in 1 .. k
  OBVIOUS
<1>2. \A x : x \in (1 .. k) \ {k} <=> x \in 1 .. (k - 1)
  OBVIOUS
<1>3. n < k => \A x : x \in (1 .. n) \ {k} <=> x \in 1 .. n
  OBVIOUS
<1> QED
  BY <1>1, <1>2, <1>3

\* Among undisturbed runs only, the file that is next extends a prefix of the
\* migrations by one, or takes its last one away.
LEMMA OrderKept ==
    ASSUME MigInv, NEW s \in Scripts, Active(s), ~Disturbed(s),
           Applicable(way[s], Head(todo[s])), schema \in Prefixes
    PROVE  Result(way[s], Head(todo[s])) \in Prefixes
<1> DEFINE k == Head(todo[s])
<1>1. way[s] \in {"up", "down"} /\ k \in Files
  BY RemainingFacts DEF MigInv, MigTypeOK
<1>2. /\ way[s] = "up" => \A f \in Files : f < k => f \in schema
      /\ way[s] = "down" => \A f \in Files : f > k => f \notin schema
  BY DEF MigInv, Progress
<1>3. PICK n \in 0 .. 3 : schema = 1 .. n
  BY DEF Prefixes
<1>4. CASE way[s] = "up"
  <2>1. k \notin schema /\ Result("up", k) = schema \cup {k}
    BY <1>4 DEF Applicable, Result
  <2>2. n = k - 1
    BY <1>1, <1>2, <1>3, <1>4, <2>1 DEF Files
  <2>3. Result("up", k) = 1 .. k
    BY <1>1, <1>3, <2>1, <2>2, Intervals
  <2>4. k \in 0 .. 3
    BY <1>1 DEF Files
  <2> QED
    BY <1>4, <2>3, <2>4 DEF Prefixes
<1>5. CASE way[s] = "down"
  <2>1. n <= k
    BY <1>1, <1>2, <1>3, <1>5 DEF Files
  <2>2. CASE n < k
    <3>1. Result("down", k) = IF k = 1 THEN {} ELSE schema
      BY <1>1, <1>3, <2>2, Intervals DEF Result
    <3>2. k = 1 => n = 0
      BY <1>3, <2>2
    <3>3. Result("down", k) = 1 .. n
      BY <1>1, <1>3, <3>1, <3>2, Intervals
    <3> QED
      BY <1>3, <1>5, <3>3 DEF Prefixes
  <2>3. CASE n = k
    <3>1. Result("down", k) = 1 .. (k - 1)
      <4>1. k = 1 => 1 .. (k - 1) = {}
        BY <1>1, <1>3, Intervals
      <4>2. schema \ {k} = 1 .. (k - 1)
        BY <1>1, <1>3, <2>3, Intervals
      <4> QED
        BY <4>1, <4>2 DEF Result
    <3>2. k - 1 \in 0 .. 3
      BY <1>1 DEF Files
    <3> QED
      BY <1>5, <3>1, <3>2 DEF Prefixes
  <2> QED
    BY <1>1, <1>3, <2>1, <2>2, <2>3 DEF Files
<1> QED
  BY <1>1, <1>4, <1>5

\* Nothing is under way in an empty database.
LEMMA InitMig == MigInit => MigInv
<1> SUFFICES ASSUME MigInit PROVE MigInv
  OBVIOUS
<1>1. \A s \in Scripts : ~Active(s)
  BY DEF MigInit, Active
<1>2. MigTypeOK
  BY <1>1, MigrationsAssumption DEF MigInit, MigTypeOK, Files
<1> QED
  BY <1>1, <1>2 DEF MigInv, Overlaps, Progress

\* Every step preserves the invariant, and a run that ends with code 0 is done.
LEMMA StepMig ==
    MigInv /\ [MigNext]_migVars =>
       MigInv' /\ \A s \in Scripts : Active(s) => Done(s)
<1> SUFFICES ASSUME MigInv, [MigNext]_migVars
             PROVE  MigInv' /\ \A s \in Scripts : Active(s) => Done(s)
  OBVIOUS
<1>1. at \in [Scripts -> {"idle", "probe", "apply", "ok", "failed"}]
  BY DEF MigInv, MigTypeOK
<1>2. ASSUME NEW s \in Scripts, NEW d \in {"up", "down"}, Start(s, d)
      PROVE  MigInv' /\ \A t \in Scripts : Active(t) => Done(t)
  <2>1. \A t \in Scripts : Active(t) => at'[t] # "ok"
    BY <1>1, <1>2 DEF Start, Active
  <2> QED
    BY <1>2, <2>1, StartKeeps DEF Done
<1>3. ASSUME NEW s \in Scripts,
             Probe(s) \/ ProbeFails(s) \/ Apply(s) \/ Die(s)
      PROVE  MigInv' /\ \A t \in Scripts : Active(t) => Done(t)
  <2>1. MigInv' /\ Done(s)
    BY <1>3, RunSteps
  <2>2. \A t \in Scripts \ {s} : at'[t] = at[t]
    BY <1>1, <1>3 DEF Probe, ProbeFails, Apply, Die, After, Advance
  <2> QED
    BY <2>1, <2>2 DEF Done, Active
<1>4. CASE UNCHANGED migVars
  <2>1. MigInv'
    BY <1>4 DEF migVars, MigInv, MigTypeOK, Overlaps, Progress, Active,
                Disturbed
  <2>2. \A s \in Scripts : Active(s) => at'[s] # "ok"
    BY <1>4 DEF migVars, Active
  <2> QED
    BY <2>1, <2>2 DEF Done
<1> QED
  BY <1>2, <1>3, <1>4 DEF MigNext

\* What AppliedInOrder says of a step.
LEMMA StepOrder ==
    MigInv /\ [MigNext]_migVars =>
       ((\A s \in Scripts : Active(s) => ~Disturbed(s)) =>
           (schema \in Prefixes => schema' \in Prefixes))
<1> SUFFICES ASSUME MigInv, [MigNext]_migVars, schema \in Prefixes,
                    \A s \in Scripts : Active(s) => ~Disturbed(s)
             PROVE  schema' \in Prefixes
  OBVIOUS
<1>1. ASSUME NEW s \in Scripts, Apply(s) \/ Die(s)
      PROVE  schema' \in Prefixes
  <2>1. Active(s) /\ ~Disturbed(s)
    BY <1>1 DEF Apply, Die, Active
  <2>2. \/ schema' = schema
        \/ /\ Applicable(way[s], Head(todo[s]))
           /\ schema' = Result(way[s], Head(todo[s]))
    BY <1>1 DEF Apply, Die
  <2> QED
    BY <2>1, <2>2, OrderKept
<1>2. ASSUME NEW s \in Scripts,
             Probe(s) \/ ProbeFails(s) \/ \E d \in {"up", "down"} : Start(s, d)
      PROVE  schema' \in Prefixes
  BY <1>2 DEF Probe, ProbeFails, Start
<1> QED
  BY <1>1, <1>2 DEF MigNext, migVars
-----------------------------------------------------------------------------
\* The later migrations are never in the database without the first, however
\* many runs of the script compete, roll back and die.
THEOREM MigTypeCorrect == MigSpec => []MigTypeOK
<1>1. MigInv => MigTypeOK
  BY DEF MigInv
<1>2. MigInv /\ [MigNext]_migVars => MigInv'
  BY StepMig
<1> QED
  BY <1>1, <1>2, InitMig, PTL DEF MigSpec

\* A run that exits 0 has done what it was asked to, unless one in the other
\* direction was under way or, on the way down, one of its probes failed.
THEOREM ExitZeroCorrect == MigSpec => ExitZeroMeansDone
<1>1. MigInv /\ [MigNext]_migVars => MigInv'
  BY StepMig
<1>2. MigInv /\ [MigNext]_migVars =>
         [\A s \in Scripts :
            Active(s) /\ at'[s] = "ok" /\ alone[s] =>
               IF way[s] = "up" THEN schema' = Files
                                ELSE blind'[s] \/ schema' = {}]_migVars
  BY StepMig DEF Done
<1> QED
  BY <1>1, <1>2, InitMig, PTL DEF MigSpec, ExitZeroMeansDone

\* Undisturbed runs lead from a prefix of the migrations to a prefix.
THEOREM OrderCorrect == MigSpec => AppliedInOrder
<1>1. MigInv /\ [MigNext]_migVars => MigInv'
  BY StepMig
<1>2. MigInv /\ [MigNext]_migVars =>
         [(\A s \in Scripts : Active(s) => ~Disturbed(s)) =>
             (schema \in Prefixes => schema' \in Prefixes)]_migVars
  BY StepOrder
<1> QED
  BY <1>1, <1>2, InitMig, PTL DEF MigSpec, AppliedInOrder
=============================================================================
