------------------------- MODULE ControlPlaneProofs -------------------------
(***************************************************************************)
(* Proofs about the control-plane process, for any number of connections,  *)
(* any requests and environments and any pool size.  The inductive         *)
(* invariant relates the three parties that never wait for each other in   *)
(* the code: run(), the goroutine of ListenAndServe with its channel, and  *)
(* the handlers.                                                           *)
(***************************************************************************)
EXTENDS ControlPlane, TLAPS

\* run() gets past config.Load only with an accepted environment, and no
\* connection is there before the listener.
Startup ==
    /\ proc \notin {"load", "exited"} => Accepted(env)
    /\ \A c \in Clients : stage[c] # "away" => Accepted(env)
    /\ proc \in {"load", "open"} => \A c \in Clients : stage[c] = "away"

\* What is in the channel, and what run() made of it, is what the listener
\* did.
Channel ==
    /\ serveErr = "nil" => listener = "closed"
    /\ serveErr = "err" => listener = "failed"
    /\ result = "ok" => listener = "closed"
    /\ proc \in {"load", "open", "serving"} => listener # "closed"
    /\ proc \in {"load", "open", "serving", "shutdown", "drain"} =>
          result = "none"
    /\ proc = "closing" => result # "none"
    /\ proc \in {"load", "open"} => listener = "off"
    /\ Alive => exit = "none"
    /\ exit = "ok" => result = "ok"

\* Requests are cut off only by the end of the process, and none is left when
\* Shutdown has returned nil; a request that had an effect has been decided.
Handlers ==
    /\ Alive => \A c \in Clients : stage[c] \notin {"cut", "severed"}
    /\ ~Alive => \A c \in Clients : stage[c] \in Ended \cup {"away"}
    /\ proc = "drain" \/ result = "ok" =>
          \A c \in Clients : stage[c] \in {"away", "done", "closed"}
    /\ \A c \in effects : stage[c] \in {"answer", "done", "cut"}

\* The database is used only by requests that the middlewares let through.
Gate ==
    /\ \A c \in Clients : stage[c] \in {"acquire"} \cup Inside =>
          rootMux(env, call[c]) = 0
    /\ \A c \in effects : /\ rootMux(env, call[c]) = 0
                          /\ call[c].route \in Mutations
                          /\ status[c] \in {200, 500}

CPInv == /\ CPTypeOK /\ Startup /\ Channel /\ Handlers /\ Gate
         /\ NoTransactionSevered

\* The cases of the two muxes, one by one.
LEMMA MuxCases ==
    ASSUME NEW e, NEW q
    PROVE  /\ q.route = "health" => rootMux(e, q) = getOnly(q, 200)
           /\ q.route = "ready" => rootMux(e, q) = getOnly(q, 0)
           /\ q.route = "other" => rootMux(e, q) = 404
           /\ q.route \notin {"health", "ready", "other"} =>
                 rootMux(e, q) = requireOperator(e, q, apiMux(e, q))
           /\ q.route = "workloads" =>
                 apiMux(e, q) =
                    requirePermission(e, q, getOnly(q, listWorkloads(q)))
           /\ q.route \in Mutations /\ q.method = "right" =>
                 apiMux(e, q) = requirePermission(e, q, mutate(e, q))
           /\ q.route # "workloads"
              /\ ~(q.route \in Mutations /\ q.method = "right") =>
                 apiMux(e, q) = 404
<1>1. /\ q.route = "health" => rootMux(e, q) = getOnly(q, 200)
      /\ q.route = "ready" => rootMux(e, q) = getOnly(q, 0)
      /\ q.route = "other" => rootMux(e, q) = 404
      /\ q.route \notin {"health", "ready", "other"} =>
            rootMux(e, q) = requireOperator(e, q, apiMux(e, q))
  BY Zenon DEF rootMux
<1>2. q.route = "workloads" => q.route \notin Mutations
  BY DEF Mutations
<1>3. /\ q.route = "workloads" =>
            apiMux(e, q) =
               requirePermission(e, q, getOnly(q, listWorkloads(q)))
      /\ q.route \in Mutations /\ q.method = "right" =>
            apiMux(e, q) = requirePermission(e, q, mutate(e, q))
      /\ q.route # "workloads"
         /\ ~(q.route \in Mutations /\ q.method = "right") =>
            apiMux(e, q) = 404
  BY <1>2, Zenon DEF apiMux
<1> QED
  BY <1>1, <1>3

\* Middlewares and handlers answer with a status, and what they let through
\* to the database is a readiness check or carries the token, and changes
\* state only for an operator.
LEMMA MuxFacts ==
    ASSUME NEW e \in Environment, NEW q \in Call
    PROVE  /\ rootMux(e, q) \in Statuses
           /\ rootMux(e, q) = 0 =>
                 q.route = "ready" \/ q.credential = "token"
           /\ rootMux(e, q) = 0 /\ q.route \in Mutations =>
                 q.credential = "token" /\ e.role = "operator"
<1>1. /\ apiMux(e, q) \in Statuses
      /\ apiMux(e, q) = 0 /\ q.route \in Mutations => e.role = "operator"
  <2>1. CASE q.route = "workloads"
    <3>1. apiMux(e, q) = requirePermission(e, q, getOnly(q, listWorkloads(q)))
      BY <2>1, MuxCases
    <3> QED
      BY <2>1, <3>1 DEF requirePermission, getOnly, listWorkloads, Statuses,
                        Mutations
  <2>2. CASE q.route \in Mutations /\ q.method = "right"
    <3>1. apiMux(e, q) = requirePermission(e, q, mutate(e, q))
      BY <2>2, MuxCases
    <3> QED
      BY <3>1 DEF requirePermission, mutate, RoleOf, Statuses
  <2>3. CASE q.route # "workloads"
             /\ ~(q.route \in Mutations /\ q.method = "right")
    BY <2>3, MuxCases DEF Statuses
  <2> QED
    BY <2>1, <2>2, <2>3
<1>2. CASE q.route \in {"health", "ready", "other"}
  <2>1. q.route \notin Mutations
    BY <1>2 DEF Mutations
  <2>2. q.route = "health" => rootMux(e, q) \in {200, 405}
    BY MuxCases DEF getOnly
  <2>3. q.route = "ready" => rootMux(e, q) \in {0, 405}
    BY MuxCases DEF getOnly
  <2>4. q.route = "other" => rootMux(e, q) = 404
    BY MuxCases
  <2> QED
    BY <1>2, <2>1, <2>2, <2>3, <2>4 DEF Statuses
<1>3. CASE q.route \notin {"health", "ready", "other"}
  <2>1. rootMux(e, q) = requireOperator(e, q, apiMux(e, q))
    BY <1>3, MuxCases
  <2> QED
    BY <1>1, <2>1 DEF requireOperator, Authenticated, Statuses
<1> QED
  BY <1>2, <1>3

\* An accepted environment has the listener on a loopback address.
LEMMA AcceptedFacts ==
    ASSUME NEW e \in Environment, Accepted(e)
    PROVE  e.addr \in {"unset", "loopback"}
BY DEF Accepted, Loaded, Validated

\* The stages a connection may be moved to while the process runs.
Moves == {"open", "closed", "done"} \cup InProgress

\* A step of one connection or handler preserves the invariant if the process
\* has not drained its connections, the database is used only behind the
\* gate, and an effect is recorded only by a mutation that is decided.
LEMMA ClientMoves ==
    ASSUME CPInv, NEW c \in Clients, NEW s \in Moves, NEW n \in Statuses,
           At(c, s), status' = [status EXCEPT ![c] = n],
           effects' = effects \/ effects' = effects \cup {c},
           \/ stage[c] \in InProgress \cup {"open"}
           \/ stage[c] = "away" /\ proc = "serving",
           s \in {"acquire"} \cup Inside => rootMux(env, call[c]) = 0,
           c \in effects' => /\ s \in {"answer", "done"}
                             /\ rootMux(env, call[c]) = 0
                             /\ call[c].route \in Mutations
                             /\ n \in {200, 500}
    PROVE  CPInv'
<1> USE DEF At
<1>1. CPTypeOK /\ CPTypeOK'
  BY DEF CPInv, CPTypeOK, Moves, InProgress, Inside, Ended
<1>2. /\ Alive /\ proc # "drain" /\ result # "ok"
      /\ proc \notin {"load", "open"}
      /\ Accepted(env)
  BY <1>1 DEF CPInv, CPTypeOK, Startup, Channel, Handlers, Alive, InProgress,
              Inside, Ended
<1>3. /\ stage'[c] = s /\ status'[c] = n
      /\ \A d \in Clients \ {c} :
            stage'[d] = stage[d] /\ status'[d] = status[d]
      /\ \A d \in effects' : d # c => d \in effects
      /\ effects' \subseteq Clients
  BY <1>1 DEF CPTypeOK
<1>4. Startup'
  BY <1>1, <1>2, <1>3 DEF CPInv, Startup, Accepted, Loaded, Validated,
     BearerAccepted, RoleValid, RoleOf
<1>5. Channel'
  BY DEF CPInv, Channel, Alive
<1>6. Handlers'
  <2>1. s \notin {"cut", "severed"}
    BY DEF Moves, InProgress, Inside
  <2>2. (Alive => \A d \in Clients : stage[d] \notin {"cut", "severed"})'
    BY <1>2, <1>3, <2>1 DEF CPInv, Handlers, Alive
  <2>3. (\A d \in effects : stage[d] \in {"answer", "done", "cut"})'
    BY <1>3 DEF CPInv, Handlers
  <2> QED
    BY <1>2, <2>2, <2>3 DEF Handlers, Alive
<1>7. Gate'
  <2>1. \A d \in Clients : stage'[d] \in {"acquire"} \cup Inside =>
           rootMux(env, call[d]) = 0
    BY <1>3 DEF CPInv, Gate
  <2>2. \A d \in effects' : /\ rootMux(env, call[d]) = 0
                            /\ call[d].route \in Mutations
                            /\ status'[d] \in {200, 500}
    BY <1>3 DEF CPInv, Gate
  <2>3. env' = env /\ call' = call
    OBVIOUS
  <2>4. \A d \in Clients : rootMux(env, call[d])' = rootMux(env, call[d])
    BY <2>3 DEF rootMux, requireOperator, apiMux, requirePermission, mutate,
       getOnly, listWorkloads, Allowed, Authenticated, RoleOf
  <2> QED
    BY <1>3, <2>1, <2>2, <2>3, <2>4 DEF Gate
<1>8. NoTransactionSevered'
  BY <1>2, <1>6 DEF CPInv, Channel, Handlers, NoTransactionSevered, Alive
<1> QED
  BY <1>1, <1>4, <1>5, <1>6, <1>7, <1>8 DEF CPInv

\* What the muxes say depends on the environment and the requests alone.
LEMMA MuxStable ==
    ASSUME UNCHANGED <<env, call>>
    PROVE  /\ \A d \in Clients : rootMux(env, call[d])' = rootMux(env, call[d])
           /\ Accepted(env)' = Accepted(env)
BY DEF rootMux, requireOperator, apiMux, requirePermission, mutate, getOnly,
       listWorkloads, Allowed, Authenticated, RoleOf, Accepted, Loaded,
       Validated, BearerAccepted, RoleValid

\* The end of the process preserves the invariant if code 0 is given only
\* for a nil error, and transactions are over unless the process is killed.
LEMMA ExitKeeps ==
    ASSUME CPInv, Alive, NEW how \in {"ok", "failed", "killed"},
           Exit(how), UNCHANGED result,
           how = "ok" => result = "ok",
           how \in {"ok", "failed"} => Holders = {}
    PROVE  CPInv'
<1> USE DEF Exit
<1>1. CPTypeOK /\ CPTypeOK'
  BY DEF CPInv, CPTypeOK, Ended, InProgress, Inside
<1>2. \A c \in Clients :
         /\ stage'[c] \in Ended \cup {"away"}
         /\ stage'[c] = "away" <=> stage[c] = "away"
         /\ stage[c] \in {"away", "done", "closed"} => stage'[c] = stage[c]
         /\ stage[c] = "answer" => stage'[c] = "cut"
  BY <1>1 DEF CPInv, CPTypeOK, Handlers, Ended, InProgress, Inside
<1>3. Startup'
  BY <1>2, MuxStable DEF CPInv, Startup
<1>4. Channel'
  BY DEF CPInv, Channel, Alive
<1>5. Handlers'
  <2>1. \A c \in effects : /\ c \in Clients
                           /\ stage[c] \in {"answer", "done"}
    BY <1>1 DEF CPInv, Handlers, CPTypeOK
  <2>2. (\A c \in effects : stage[c] \in {"answer", "done", "cut"})'
    BY <1>2, <2>1
  <2> QED
    BY <1>2, <2>2 DEF CPInv, Handlers, Alive
<1>6. Gate'
  <2>1. \A c \in Clients : stage'[c] \notin {"acquire"} \cup Inside
    BY <1>2 DEF Ended, Inside
  <2>2. \A c \in effects : /\ c \in Clients
                           /\ rootMux(env, call[c]) = 0
                           /\ call[c].route \in Mutations
                           /\ status[c] \in {200, 500}
    BY <1>1 DEF CPInv, Gate, CPTypeOK
  <2> QED
    BY <2>1, <2>2, MuxStable DEF Gate
<1>7. NoTransactionSevered'
  <2> SUFFICES ASSUME exit' \in {"ok", "failed"}, NEW c \in Clients
               PROVE  stage'[c] # "severed"
    BY DEF NoTransactionSevered
  <2>1. stage[c] \notin Inside
    BY DEF Holders
  <2>2. stage[c] # "severed"
    BY DEF CPInv, Handlers
  <2> QED
    BY <2>1, <2>2 DEF InProgress
<1> QED
  BY <1>1, <1>3, <1>4, <1>5, <1>6, <1>7 DEF CPInv

\* A step of run(), of the signal handler or of the listener's goroutine.
LEMMA ProcessMoves ==
    ASSUME CPInv, Alive, UNCHANGED <<env, exit>>, UNCHANGED httpVars,
           CPTypeOK', Alive',
           proc = "load" => proc' = "load" \/ Accepted(env),
           proc' \in {"load", "open"} => proc \in {"load", "open"},
           Channel',
           proc' = "drain" \/ result' = "ok" =>
              \A c \in Clients : stage[c] \in {"away", "done", "closed"}
    PROVE  CPInv'
<1> USE DEF httpVars
<1>1. Startup'
  BY MuxStable DEF CPInv, Startup, Alive
<1>2. Handlers'
  BY DEF CPInv, Handlers, Alive
<1>3. Gate'
  <2>1. effects \subseteq Clients
    BY DEF CPInv, CPTypeOK
  <2> QED
    BY <2>1, MuxStable DEF CPInv, Gate
<1>4. NoTransactionSevered'
  BY DEF CPInv, NoTransactionSevered
<1> QED
  BY <1>1, <1>2, <1>3, <1>4 DEF CPInv

\* run() up to its select, the signal and the kill.
LEMMA StartupSteps ==
    ASSUME CPInv, LoadConfig \/ OpenPool \/ Signal \/ Kill
    PROVE  CPInv'
<1> USE DEF httpVars
<1>1. CPTypeOK
  BY DEF CPInv
<1>2. ASSUME proc \in {"load", "open"} PROVE Holders = {}
  BY <1>2 DEF CPInv, Startup, Holders, Inside
<1>3. CASE LoadConfig
  <2>1. CASE Accepted(env) /\ proc' = "open"
             /\ UNCHANGED <<env, result, exit, signal, listener, serveErr>>
             /\ UNCHANGED httpVars
    <3>1. CPTypeOK' /\ Channel' /\ Alive /\ Alive'
      BY <1>1, <1>3, <2>1 DEF LoadConfig, CPInv, CPTypeOK, Channel, Alive
    <3>2. result' # "ok" /\ proc = "load"
      BY <1>3, <2>1 DEF LoadConfig, CPInv, Channel
    <3> QED
      BY <2>1, <3>1, <3>2, ProcessMoves
  <2>2. CASE Exit("failed") /\ UNCHANGED result
    BY <1>2, <1>3, <2>2, ExitKeeps DEF LoadConfig, Alive
  <2> QED
    BY <1>3, <2>1, <2>2 DEF LoadConfig
<1>4. CASE OpenPool
  <2>1. CASE proc' = "serving" /\ listener' = "starting"
             /\ UNCHANGED <<env, result, exit, signal, serveErr>>
             /\ UNCHANGED httpVars
    <3>1. CPTypeOK' /\ Channel' /\ Alive /\ Alive'
      BY <1>1, <1>4, <2>1 DEF OpenPool, CPInv, CPTypeOK, Channel, Alive
    <3>2. result' # "ok" /\ proc = "open"
      BY <1>4, <2>1 DEF OpenPool, CPInv, Channel
    <3> QED
      BY <2>1, <3>1, <3>2, ProcessMoves
  <2>2. CASE Exit("failed") /\ UNCHANGED result
    BY <1>2, <1>4, <2>2, ExitKeeps DEF OpenPool, Alive
  <2> QED
    BY <1>4, <2>1, <2>2 DEF OpenPool
<1>5. CASE Signal
  <2>1. CASE Exit("killed") /\ UNCHANGED result
    BY <1>5, <2>1, ExitKeeps DEF Signal
  <2>2. CASE proc # "load" /\ signal' = TRUE
             /\ UNCHANGED <<env, proc, result, exit, listener, serveErr>>
             /\ UNCHANGED httpVars
    <3>1. CPTypeOK' /\ Channel' /\ Alive /\ Alive'
      BY <1>1, <1>5, <2>2 DEF Signal, CPInv, CPTypeOK, Channel, Alive
    <3>2. proc' = "drain" \/ result' = "ok" =>
             \A c \in Clients : stage[c] \in {"away", "done", "closed"}
      BY <2>2 DEF CPInv, Handlers
    <3> QED
      BY <2>2, <3>1, <3>2, ProcessMoves
  <2> QED
    BY <1>5, <2>1, <2>2 DEF Signal
<1>6. CASE Kill
  BY <1>6, ExitKeeps DEF Kill
<1> QED
  BY <1>3, <1>4, <1>5, <1>6

\* The goroutine of ListenAndServe.
LEMMA ListenerSteps ==
    ASSUME CPInv, ListenerStep \/ ListenerFails
    PROVE  CPInv'
<1> USE DEF httpVars, ServeEnds
<1>1. CPTypeOK
  BY DEF CPInv
<1>2. /\ Alive /\ UNCHANGED <<env, proc, result, exit, signal>>
      /\ UNCHANGED httpVars
  BY DEF ListenerStep, Listen, ServeClosed, ListenerFails
<1>3. listener \in {"starting", "up"}
  BY DEF ListenerStep, Listen, ServeClosed, ListenerFails
<1>4. CPTypeOK'
  BY <1>1 DEF ListenerStep, Listen, ServeClosed, ListenerFails, CPTypeOK
<1>5. Channel'
  <2>1. CASE Listen
    BY <1>2, <1>3, <2>1 DEF Listen, CPInv, Channel, Alive
  <2>2. CASE ServeClosed
    BY <1>2, <1>3, <2>2 DEF ServeClosed, ShuttingDown, CPInv, Channel, Alive
  <2>3. CASE ListenerFails
    BY <1>2, <1>3, <2>3 DEF ListenerFails, CPInv, Channel, Alive
  <2> QED
    BY <2>1, <2>2, <2>3 DEF ListenerStep
<1>6. proc' = "drain" \/ result' = "ok" =>
         \A c \in Clients : stage[c] \in {"away", "done", "closed"}
  BY <1>2 DEF CPInv, Handlers
<1> QED
  BY <1>2, <1>4, <1>5, <1>6, ProcessMoves DEF Alive

\* run() from its select to its end.
LEMMA MainSteps ==
    ASSUME CPInv, Select \/ Shutdown \/ Drain \/ ClosePool
    PROVE  CPInv'
<1> USE DEF MainGoes, httpVars
<1>1. CPTypeOK
  BY DEF CPInv
<1>2. Alive
  BY DEF Select, Shutdown, Drain, ClosePool, Alive
<1>3. CASE Select
  <2>1. CPTypeOK' /\ Alive'
    BY <1>1, <1>3 DEF Select, CPTypeOK, Returned, Alive
  <2>2. /\ UNCHANGED <<env, exit>> /\ UNCHANGED httpVars
        /\ proc = "serving" /\ proc' \in {"closing", "shutdown"}
        /\ result' # "ok"
    BY <1>1, <1>3 DEF Select, Returned, CPInv, Channel, CPTypeOK
  <2>3. Channel'
    BY <1>1, <1>3, <2>2 DEF Select, Returned, CPInv, CPTypeOK, Channel, Alive
  <2> QED
    BY <1>2, <2>1, <2>2, <2>3, ProcessMoves
<1>4. CASE Shutdown
  <2>1. CPTypeOK' /\ Alive'
    BY <1>1, <1>4 DEF Shutdown, CPTypeOK, Alive
  <2>2. /\ UNCHANGED <<env, exit>> /\ UNCHANGED httpVars
        /\ proc = "shutdown" /\ proc' \in {"closing", "drain"}
        /\ result' # "ok"
    BY <1>4 DEF Shutdown
  <2>3. Channel'
    BY <1>1, <1>4, <2>2 DEF Shutdown, CPInv, CPTypeOK, Channel, Alive
  <2>4. proc' = "drain" =>
           \A c \in Clients : stage[c] \in {"away", "done", "closed"}
    BY <1>2, <1>4 DEF Shutdown, CPInv, Handlers, Ended
  <2> QED
    BY <1>2, <2>1, <2>2, <2>3, <2>4, ProcessMoves
<1>5. CASE Drain
  <2>1. CPTypeOK' /\ Alive'
    BY <1>1, <1>5 DEF Drain, CPTypeOK, Returned, Alive
  <2>2. /\ UNCHANGED <<env, exit>> /\ UNCHANGED httpVars
        /\ proc = "drain" /\ proc' = "closing"
    BY <1>5 DEF Drain
  <2>3. Channel'
    BY <1>1, <1>5, <2>2 DEF Drain, Returned, CPInv, CPTypeOK, Channel, Alive
  <2>4. \A c \in Clients : stage[c] \in {"away", "done", "closed"}
    BY <2>2 DEF CPInv, Handlers
  <2> QED
    BY <1>2, <2>1, <2>2, <2>3, <2>4, ProcessMoves
<1>6. CASE ClosePool
  <2>1. result \in {"ok", "failed"}
    BY <1>1, <1>6 DEF ClosePool, CPInv, Channel, CPTypeOK
  <2> QED
    BY <1>2, <1>6, <2>1, ExitKeeps DEF ClosePool
<1> QED
  BY <1>3, <1>4, <1>5, <1>6

\* A handler at the database decides on its answer.
LEMMA DatabaseDecides ==
    ASSUME CPInv, NEW c \in Clients, NEW n \in Statuses,
           NEW s \in {"answer", "rollback"}, Decide(c, s, n),
           stage[c] \in {"acquire", "txn"},
           \/ effects' = effects
           \/ /\ effects' = effects \cup {c}
              /\ s = "answer" /\ call[c].route \in Mutations
              /\ n \in {200, 500}
    PROVE  CPInv'
<1>1. s \in Moves /\ stage[c] \in InProgress \cup {"open"}
  BY DEF Moves, InProgress, Inside
<1>2. rootMux(env, call[c]) = 0
  BY DEF CPInv, Gate, Inside
<1>3. c \notin effects
  BY DEF CPInv, Handlers
<1>4. At(c, s) /\ status' = [status EXCEPT ![c] = n]
  BY DEF Decide
<1>5. effects' = effects \/ effects' = effects \cup {c}
  OBVIOUS
<1>6. c \in effects' => /\ s \in {"answer", "done"}
                        /\ rootMux(env, call[c]) = 0
                        /\ call[c].route \in Mutations
                        /\ n \in {200, 500}
  BY <1>2, <1>3
<1> QED
  BY <1>1, <1>2, <1>4, <1>5, <1>6, ClientMoves

\* Connections and handlers.
LEMMA ClientSteps ==
    ASSUME CPInv, NEW c \in Clients,
           \/ Connect(c) \/ Receive(c) \/ CloseIdle(c)
           \/ HandlerStep(c) \/ DatabaseStep(c)
    PROVE  CPInv'
<1> USE DEF Moves, InProgress, Inside
<1>1. CPTypeOK
  BY DEF CPInv
<1>2. /\ env \in Environment /\ call[c] \in Call
      /\ status[c] \in Statuses
      /\ status = [status EXCEPT ![c] = status[c]]
      /\ c \in effects => stage[c] \in {"answer", "done", "cut"}
      /\ stage[c] \in {"acquire"} \cup Inside => rootMux(env, call[c]) = 0
      /\ stage \in [Clients -> {"away", "open"} \cup InProgress \cup Ended]
  BY <1>1 DEF CPInv, CPTypeOK, Handlers, Gate
<1>3. /\ Failure(call[c]) \in {500, 503}
      /\ call[c].route \in Mutations => Failure(call[c]) = 500
      /\ Failure(call[c]) \in Statuses
      /\ 200 \in Statuses /\ 500 \in Statuses
      /\ \A n \in Refusals(call[c]) : n \in Statuses
  BY DEF Failure, Mutations, Refusals, Statuses
<1>4. CASE Connect(c)
  BY <1>2, <1>4, ClientMoves DEF Connect
<1>5. CASE Receive(c)
  BY <1>2, <1>5, ClientMoves DEF Receive
<1>6. CASE CloseIdle(c)
  BY <1>2, <1>6, ClientMoves DEF CloseIdle, At
<1>7. CASE Handle(c)
  <2>1. rootMux(env, call[c]) \in Statuses
    BY <1>2, MuxFacts
  <2> QED
    BY <1>2, <1>7, <2>1, ClientMoves DEF Handle, Decide
<1>8. CASE Acquire(c)
  <2>1. CASE At(c, "txn") /\ UNCHANGED status
    BY <1>2, <1>8, <2>1, ClientMoves DEF Acquire
  <2>2. CASE Decide(c, "answer", Failure(call[c]))
    BY <1>3, <1>8, <2>2, DatabaseDecides DEF Acquire
  <2> QED
    BY <1>8, <2>1, <2>2 DEF Acquire
<1>9. CASE Timeout(c)
  BY <1>3, <1>9, DatabaseDecides DEF Timeout
<1>10. CASE Respond(c)
  <2>1. c \in effects => /\ rootMux(env, call[c]) = 0
                         /\ call[c].route \in Mutations
                         /\ status[c] \in {200, 500}
    BY DEF CPInv, Gate
  <2> QED
    BY <1>2, <1>10, <2>1, ClientMoves DEF Respond
<1>11. CASE Read(c)
  <2>1. PICK n \in {200, Failure(call[c])} : Decide(c, "answer", n)
    BY <1>11 DEF Read
  <2> QED
    BY <1>3, <1>11, <2>1, DatabaseDecides DEF Read
<1>12. CASE Mutate(c)
  <2>1. CASE /\ \E n \in {200, 500} : Decide(c, "answer", n)
             /\ effects' = effects \cup {c}
    BY <1>3, <1>12, <2>1, DatabaseDecides DEF Mutate
  <2>2. CASE /\ \E n \in Refusals(call[c]) : Decide(c, "rollback", n)
             /\ UNCHANGED effects
    BY <1>3, <1>12, <2>2, DatabaseDecides DEF Mutate
  <2> QED
    BY <1>12, <2>1, <2>2 DEF Mutate
<1>13. CASE RolledBack(c)
  BY <1>2, <1>13, ClientMoves DEF RolledBack
<1> QED
  BY <1>4, <1>5, <1>6, <1>7, <1>8, <1>9, <1>10, <1>11, <1>12, <1>13
     DEF HandlerStep, DatabaseStep

\* The process starts with no connection and nothing in the channel.
LEMMA InitCP == CPInit => CPInv
<1> SUFFICES ASSUME CPInit PROVE CPInv
  OBVIOUS
<1> USE DEF CPInit
<1>1. CPTypeOK
  BY ControlPlaneAssumption DEF CPTypeOK, Statuses
<1>2. Startup /\ Channel /\ Handlers /\ NoTransactionSevered
  BY DEF Startup, Channel, Handlers, NoTransactionSevered, Alive, Ended
<1>3. Gate
  BY DEF Gate, Inside
<1> QED
  BY <1>1, <1>2, <1>3 DEF CPInv

\* Every step preserves the invariant.
LEMMA StepCP == CPInv /\ [CPNext]_cpVars => CPInv'
<1> SUFFICES ASSUME CPInv, [CPNext]_cpVars PROVE CPInv'
  OBVIOUS
<1>1. CASE MainStep
  BY <1>1, StartupSteps, MainSteps DEF MainStep
<1>2. CASE ListenerStep \/ ListenerFails
  BY <1>2, ListenerSteps
<1>3. CASE Signal \/ Kill
  BY <1>3, StartupSteps
<1>4. CASE \E c \in Clients : \/ Connect(c) \/ Receive(c) \/ CloseIdle(c)
                              \/ HandlerStep(c) \/ DatabaseStep(c)
  BY <1>4, ClientSteps
<1>5. CASE UNCHANGED cpVars
  <2>1. CPTypeOK' /\ Channel' /\ Handlers' /\ NoTransactionSevered'
    BY <1>5 DEF cpVars, CPInv, CPTypeOK, Channel, Handlers, Alive,
                NoTransactionSevered
  <2>2. Startup'
    BY <1>5, MuxStable DEF cpVars, CPInv, Startup
  <2>3. effects \subseteq Clients
    BY DEF CPInv, CPTypeOK
  <2>4. Gate'
    BY <1>5, <2>3, MuxStable DEF cpVars, CPInv, Gate
  <2> QED
    BY <2>1, <2>2, <2>4 DEF CPInv
<1> QED
  BY <1>1, <1>2, <1>3, <1>4, <1>5 DEF CPNext

\* The invariant gives access control: what got through the middlewares of
\* an accepted environment carried the token, and a mutation the role.
LEMMA InvAccess == CPInv => AccessControlled
<1> SUFFICES ASSUME CPInv, NEW c \in Clients
             PROVE  LET q == call[c] IN
                /\ stage[c] \in {"acquire"} \cup Inside =>
                      \/ q.route = "ready"
                      \/ /\ q.credential = "token"
                         /\ env.addr \in {"unset", "loopback"}
                /\ c \in effects =>
                      /\ q.credential = "token"
                      /\ env.addr \in {"unset", "loopback"}
                      /\ env.role = "operator" /\ status[c] \in {200, 500}
  BY DEF AccessControlled
<1>1. env \in Environment /\ call[c] \in Call
  BY DEF CPInv, CPTypeOK
<1>2. stage[c] # "away" => env.addr \in {"unset", "loopback"}
  BY <1>1, AcceptedFacts DEF CPInv, Startup
<1>3. /\ stage[c] \in {"acquire"} \cup Inside =>
            stage[c] # "away" /\ rootMux(env, call[c]) = 0
      /\ c \in effects => /\ stage[c] # "away" /\ rootMux(env, call[c]) = 0
                          /\ call[c].route \in Mutations
                          /\ status[c] \in {200, 500}
  BY DEF CPInv, Handlers, Gate, Inside
<1> QED
  BY <1>1, <1>2, <1>3, MuxFacts

\* ... and the three properties of the end of the process.
LEMMA InvEnd ==
    CPInv => /\ CPTypeOK /\ CleanExitLosesNothing
             /\ ListenerFailureReported /\ NoTransactionSevered
<1> SUFFICES ASSUME CPInv
             PROVE  CleanExitLosesNothing /\ ListenerFailureReported
  BY DEF CPInv
<1>1. CleanExitLosesNothing
  <2> SUFFICES ASSUME exit = "ok", NEW c \in Clients
               PROVE  /\ stage[c] \notin {"cut", "severed"}
                      /\ c \in effects => stage[c] = "done"
    BY DEF CleanExitLosesNothing
  <2>1. stage[c] \in {"away", "done", "closed"}
    BY DEF CPInv, Channel, Handlers
  <2> QED
    BY <2>1 DEF CPInv, Handlers
<1>2. ListenerFailureReported
  BY DEF ListenerFailureReported, CPInv, Channel
<1> QED
  BY <1>1, <1>2
-----------------------------------------------------------------------------
\* The states of run(), of the listener with its channel and of the handlers
\* are always among those the code has.
THEOREM CPTypeCorrect == CPSpec => []CPTypeOK
<1>1. CPInv => CPTypeOK
  BY InvEnd
<1> QED
  BY <1>1, InitCP, StepCP, PTL DEF CPSpec

\* Whatever environment the process is started in and whatever requests
\* arrive, however many at once: only a readiness check or the configured
\* token on a loopback listener gets to the database, and a mutation takes
\* effect only under the role operator.
THEOREM AccessCorrect == CPSpec => []AccessControlled
BY InitCP, StepCP, InvAccess, PTL DEF CPSpec

\* A process that exits with code 0 has answered all it had begun.
THEOREM CleanExitCorrect == CPSpec => []CleanExitLosesNothing
<1>1. CPInv => CleanExitLosesNothing
  BY InvEnd
<1> QED
  BY <1>1, InitCP, StepCP, PTL DEF CPSpec

\* A failed listener is never followed by exit code 0, whichever branch of
\* the select is taken.
THEOREM ListenerFailureCorrect == CPSpec => []ListenerFailureReported
<1>1. CPInv => ListenerFailureReported
  BY InvEnd
<1> QED
  BY <1>1, InitCP, StepCP, PTL DEF CPSpec

\* Unless it is killed, the process ends no transaction by ending.
THEOREM TransactionsFinish == CPSpec => []NoTransactionSevered
<1>1. CPInv => NoTransactionSevered
  BY InvEnd
<1> QED
  BY <1>1, InitCP, StepCP, PTL DEF CPSpec
=============================================================================
