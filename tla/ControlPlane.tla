---------------------------- MODULE ControlPlane ----------------------------
(***************************************************************************)
(* The control-plane process: configuration, database pool, listener,      *)
(* request handlers and the way it ends.  run() loads the environment,     *)
(* opens the pool, starts ListenAndServe in a goroutine and selects on the *)
(* listener's error and the termination signal; Shutdown, a 10 s timer and *)
(* the deferred pool.Close follow.  Requests are handled meanwhile, each   *)
(* with a context of its own, and share the pool's connections.            *)
(*                                                                         *)
(* The mutation services behind the handlers are the subject of the        *)
(* modules Registration and Policy; here a mutation is a transaction that  *)
(* commits, is refused, fails, or runs into its 5 s context.               *)
(***************************************************************************)
EXTENDS Naturals, FiniteSets

CONSTANTS
    Environments,  \* the environments the process may be started in
    Clients,       \* connections to the listener, each sending one request
    Calls,         \* the requests they may send
    PoolSize       \* MaxConns, 10 in the code

VARIABLES
    env,           \* the environment
    proc,          \* where run() is
    result,        \* the error run() is about to return
    exit,          \* how the process ended
    signal,        \* rootCtx is done: SIGINT or SIGTERM has arrived
    listener,      \* where the goroutine of ListenAndServe is
    serveErr,      \* what is in the channel of capacity 1
    call,          \* the request of each connection
    stage,         \* where its handler is
    status,        \* the HTTP status decided on, 0 before
    effects        \* the mutations that took effect in PostgreSQL

cpVars == <<env, proc, result, exit, signal, listener, serveErr, call, stage,
            status, effects>>
httpVars == <<call, stage, status, effects>>

\* Classes of values that Load, Validate, NewStaticBearer and ParseConfig
\* tell apart.  A "spaced" token is long enough but has a blank inside.
Environment ==
    [addr  : {"unset", "loopback", "public", "malformed"},
     db    : {"unset", "unparsable", "ok"},
     id    : {"unset", "illformed", "ok"},
     token : {"unset", "short", "spaced", "ok"},
     role  : {"unset", "viewer", "operator", "other"}]

Mutations == {"register", "replace", "policy", "append", "activate"}
Routes == {"health", "ready", "workloads", "v1other", "other"} \cup Mutations

\* credential "token" is the configured token sent as Bearer; input "bad" is
\* anything decodeStrictJSON, the path or query check or a validator refuses.
Call == [route : Routes, method : {"right", "wrong"},
         credential : {"none", "wrong", "token"}, input : {"good", "bad"}]

Inside == {"txn", "rollback"}
InProgress == {"active", "acquire", "answer"} \cup Inside
Ended == {"done", "closed", "cut", "severed"}
Statuses == {0, 200, 400, 401, 403, 404, 405, 409, 500, 503}

ASSUME ControlPlaneAssumption ==
    /\ Environments \subseteq Environment
    /\ Calls \subseteq Call
    /\ PoolSize \in Nat \ {0}
-----------------------------------------------------------------------------
\* Fault: an unset role is the operator's.
RoleOrOperator(e) == IF e.role = "unset" THEN "operator" ELSE e.role

\* WTP_OPERATOR_ROLE; unset means viewer.
RoleOf(e) == IF e.role = "unset" THEN "viewer" ELSE e.role

\* ParseRole and Role.Valid.
RoleValid(e) == RoleOf(e) \in {"viewer", "operator"}

\* Config.Validate.
Validated(e) ==
    /\ e.addr \in {"unset", "loopback"}
    /\ e.id = "ok" /\ e.token # "unset" /\ RoleValid(e)

\* config.Load.
Loaded(e) ==
    /\ e.db # "unset" /\ e.id # "unset" /\ e.token # "unset"
    /\ RoleValid(e) /\ Validated(e)

\* NewStaticBearer.
BearerAccepted(e) ==
    e.token \in {"spaced", "ok"} /\ e.id # "unset" /\ RoleValid(e)

\* Authenticate: a credential with a blank in it is refused unread.
Authenticated(e, q) == q.credential = "token" /\ e.token = "ok"

\* RBAC.Allowed for the permission the route asks for.
Allowed(e, q) ==
    \/ RoleOf(e) = "operator"
    \/ RoleOf(e) = "viewer" /\ q.route = "workloads"

\* The middlewares and handlers, up to the first use of the database: the
\* status they answer with, or 0 to go on.  400 stands for 413 and 415 too.
getOnly(q, next) == IF q.method = "right" THEN next ELSE 405
requireOperator(e, q, next) == IF Authenticated(e, q) THEN next ELSE 401
requirePermission(e, q, next) == IF Allowed(e, q) THEN next ELSE 403
listWorkloads(q) == IF q.input = "good" THEN 0 ELSE 400

\* A mutation handler, with validateActor's second look at the role.
mutate(e, q) ==
    IF q.input = "bad" THEN 400
    ELSE IF RoleOf(e) = "operator" THEN 0
    ELSE IF q.route \in {"register", "replace"} THEN 400 ELSE 403

\* A mutation route with another method falls through to the mux's "/".
apiMux(e, q) ==
    CASE q.route = "workloads" ->
            requirePermission(e, q, getOnly(q, listWorkloads(q)))
      [] q.route \in Mutations /\ q.method = "right" ->
            requirePermission(e, q, mutate(e, q))
      [] OTHER -> 404

rootMux(e, q) ==
    CASE q.route = "health" -> getOnly(q, 200)
      [] q.route = "ready" -> getOnly(q, 0)
      [] q.route = "other" -> 404
      [] OTHER -> requireOperator(e, q, apiMux(e, q))

\* The status of a failed database call.
Failure(q) == IF q.route = "ready" THEN 503 ELSE 500

\* What a transaction can be refused for, besides failing statements.
Refusals(q) ==
    {404, 500}
    \cup (IF q.route = "register" THEN {} ELSE {409})
    \cup (IF q.route = "activate" THEN {400} ELSE {})
-----------------------------------------------------------------------------
CPInit ==
    /\ env \in Environments
    /\ proc = "load"
    /\ result = "none" /\ exit = "none"
    /\ signal = FALSE
    /\ listener = "off" /\ serveErr = "empty"
    /\ call \in [Clients -> Calls]
    /\ stage = [c \in Clients |-> "away"]
    /\ status = [c \in Clients |-> 0]
    /\ effects = {}

Alive == proc # "exited"
ShuttingDown == proc \in {"shutdown", "drain", "closing"}
Holders == {c \in Clients : stage[c] \in Inside}

\* The process ends and takes its connections with it.
Exit(how) ==
    /\ proc' = "exited" /\ exit' = how
    /\ stage' = [c \in Clients |->
          IF stage[c] \in Inside THEN "severed"
          ELSE IF stage[c] \in InProgress THEN "cut"
          ELSE IF stage[c] = "open" THEN "closed" ELSE stage[c]]
    /\ UNCHANGED <<env, signal, listener, serveErr, call, status, effects>>

Accepted(e) == Loaded(e) /\ BearerAccepted(e)

LoadConfig ==
    /\ proc = "load"
    /\ \/ /\ Accepted(env)
          /\ proc' = "open"
          /\ UNCHANGED <<env, result, exit, signal, listener, serveErr>>
          /\ UNCHANGED httpVars
       \/ ~Accepted(env) /\ Exit("failed") /\ UNCHANGED result

\* database.Open pings under rootCtx, so a signal makes it fail too.
OpenPool ==
    /\ proc = "open"
    /\ \/ /\ env.db = "ok" /\ ~signal
          /\ proc' = "serving" /\ listener' = "starting"
          /\ UNCHANGED <<env, result, exit, signal, serveErr>>
          /\ UNCHANGED httpVars
       \/ Exit("failed") /\ UNCHANGED result

\* Before NotifyContext the signal kills; from then on it is only noted, and
\* further ones are swallowed.
Signal ==
    /\ Alive /\ ~signal
    /\ \/ proc = "load" /\ Exit("killed") /\ UNCHANGED result
       \/ /\ proc # "load"
          /\ signal' = TRUE
          /\ UNCHANGED <<env, proc, result, exit, listener, serveErr>>
          /\ UNCHANGED httpVars

Kill == Alive /\ Exit("killed") /\ UNCHANGED result
-----------------------------------------------------------------------------
\* The goroutine's end: err goes into the channel, which is empty.
ServeEnds(l, err) ==
    /\ listener' = l /\ serveErr' = err
    /\ UNCHANGED <<env, proc, result, exit, signal>>
    /\ UNCHANGED httpVars

Listen ==
    /\ Alive /\ listener = "starting" /\ ~ShuttingDown
    /\ listener' = "up"
    /\ UNCHANGED <<env, proc, result, exit, signal, serveErr>>
    /\ UNCHANGED httpVars

\* The address is taken, or Accept fails for good.
ListenerFails ==
    /\ Alive
    /\ \/ listener = "starting"
       \/ listener = "up" /\ ~ShuttingDown
    /\ ServeEnds("failed", "err")

\* Fault: nothing is sent when the server was closed.
ServeClosedSilently ==
    /\ Alive /\ ShuttingDown
    /\ listener \in {"starting", "up"}
    /\ ServeEnds("closed", "empty")

\* http.ErrServerClosed becomes nil.
ServeClosed ==
    /\ Alive /\ ShuttingDown
    /\ listener \in {"starting", "up"}
    /\ ServeEnds("closed", "nil")
-----------------------------------------------------------------------------
MainGoes(p, r) ==
    /\ proc' = p /\ result' = r
    /\ UNCHANGED <<env, exit, signal, listener>>
    /\ UNCHANGED httpVars

\* Fault: an error is not turned into an exit code.
ReturnedRaw(err) == err

\* main: a nil error is exit code 0, any other 1.
Returned(err) == IF err = "nil" THEN "ok" ELSE "failed"

\* The select; with both ready either branch may be taken.
Select ==
    /\ proc = "serving"
    /\ \/ /\ serveErr # "empty"
          /\ serveErr' = "empty"
          /\ MainGoes("closing", Returned(serveErr))
       \/ signal /\ MainGoes("shutdown", "none") /\ UNCHANGED serveErr

\* Fault: the error of Shutdown is only logged.
ShutdownUnchecked ==
    /\ proc = "shutdown"
    /\ MainGoes("drain", "none")
    /\ UNCHANGED serveErr

\* server.Shutdown returns once no connection is left, or after 10 s.
Shutdown ==
    /\ proc = "shutdown"
    /\ \/ /\ \A c \in Clients : stage[c] \in Ended \cup {"away"}
          /\ MainGoes("drain", "none")
       \/ /\ \E c \in Clients : stage[c] \notin Ended \cup {"away"}
          /\ MainGoes("closing", "failed")
    /\ UNCHANGED serveErr

\* Shutdown's poll closes connections that wait for a request.
CloseIdle(c) ==
    /\ proc = "shutdown" /\ stage[c] = "open"
    /\ stage' = [stage EXCEPT ![c] = "closed"]
    /\ UNCHANGED <<env, proc, result, exit, signal, listener, serveErr, call,
                   status, effects>>

\* Fault: run() ends with "return nil".
DrainForgetful ==
    /\ proc = "drain"
    /\ MainGoes("closing", "ok")
    /\ UNCHANGED serveErr

\* return <-serveErr
Drain ==
    /\ proc = "drain" /\ serveErr # "empty"
    /\ serveErr' = "empty"
    /\ MainGoes("closing", Returned(serveErr))

\* Fault: pool.Close is not deferred.
ExitWithoutClose == proc = "closing" /\ Exit(result) /\ UNCHANGED result

\* The deferred pool.Close waits for every connection to be returned.
ClosePool ==
    /\ proc = "closing" /\ Holders = {}
    /\ Exit(result) /\ UNCHANGED result
-----------------------------------------------------------------------------
At(c, s) ==
    /\ stage' = [stage EXCEPT ![c] = s]
    /\ UNCHANGED <<env, proc, result, exit, signal, listener, serveErr, call>>

Decide(c, s, n) == At(c, s) /\ status' = [status EXCEPT ![c] = n]

Connect(c) ==
    /\ listener = "up" /\ proc = "serving" /\ stage[c] = "away"
    /\ At(c, "open") /\ UNCHANGED <<status, effects>>

\* A request is read from an open connection, also after the listener has
\* failed or while Shutdown is polling.
Receive(c) ==
    /\ Alive /\ stage[c] = "open"
    /\ At(c, "active") /\ UNCHANGED <<status, effects>>

Handle(c) ==
    LET v == rootMux(env, call[c]) IN
    /\ stage[c] = "active"
    /\ Decide(c, IF v = 0 THEN "acquire" ELSE "answer", v)
    /\ UNCHANGED effects

\* A connection of the pool: free, or closed for good.
Acquire(c) ==
    /\ stage[c] = "acquire"
    /\ \/ /\ proc # "closing" /\ Cardinality(Holders) < PoolSize
          /\ At(c, "txn") /\ UNCHANGED status
       \/ proc = "closing" /\ Decide(c, "answer", Failure(call[c]))
    /\ UNCHANGED effects

\* Ping or ListByOrganization: rows.Close gives the connection back.
Read(c) ==
    /\ stage[c] = "txn" /\ call[c].route \notin Mutations
    /\ \E n \in {200, Failure(call[c])} : Decide(c, "answer", n)
    /\ UNCHANGED effects

\* A mutation commits, and its acknowledgement may be lost; or it is refused
\* and has still to roll back.
Mutate(c) ==
    /\ stage[c] = "txn" /\ call[c].route \in Mutations
    /\ \/ /\ \E n \in {200, 500} : Decide(c, "answer", n)
          /\ effects' = effects \cup {c}
       \/ /\ \E n \in Refusals(call[c]) : Decide(c, "rollback", n)
          /\ UNCHANGED effects

\* Rollback(context.Background()): no deadline, only an answer ends it.
RolledBack(c) ==
    /\ stage[c] = "rollback"
    /\ At(c, "answer") /\ UNCHANGED <<status, effects>>

\* Fault: the transaction runs under r.Context() itself.
TimeoutOfAcquire(c) ==
    /\ stage[c] = "acquire"
    /\ Decide(c, "answer", Failure(call[c]))
    /\ UNCHANGED effects

\* The 2 s, 3 s or 5 s context expires.  pgx closes the connection, so that
\* the deferred Rollback has nothing to wait for; a COMMIT under way may or
\* may not have taken effect.
Timeout(c) ==
    /\ stage[c] \in {"acquire", "txn"}
    /\ Decide(c, "answer", Failure(call[c]))
    /\ \/ UNCHANGED effects
       \/ /\ stage[c] = "txn" /\ call[c].route \in Mutations
          /\ effects' = effects \cup {c}

Respond(c) ==
    /\ stage[c] = "answer"
    /\ At(c, "done") /\ UNCHANGED <<status, effects>>
-----------------------------------------------------------------------------
HandlerStep(c) == Handle(c) \/ Acquire(c) \/ Timeout(c) \/ Respond(c)
DatabaseStep(c) == Read(c) \/ Mutate(c) \/ RolledBack(c)
ListenerStep == Listen \/ ServeClosed
MainStep == LoadConfig \/ OpenPool \/ Select \/ Shutdown \/ Drain \/ ClosePool

CPNext ==
    \/ MainStep \/ ListenerStep \/ ListenerFails \/ Signal \/ Kill
    \/ \E c \in Clients : \/ Connect(c) \/ Receive(c) \/ CloseIdle(c)
                          \/ HandlerStep(c) \/ DatabaseStep(c)

CPSpec == CPInit /\ [][CPNext]_cpVars

\* Goroutines that can run do, and timers fire; nothing is assumed of the
\* database, of clients, or of signals.
CPFairSpec ==
    /\ CPSpec
    /\ WF_cpVars(MainStep) /\ WF_cpVars(ListenerStep)
    /\ \A c \in Clients : WF_cpVars(HandlerStep(c)) /\ WF_cpVars(CloseIdle(c))
-----------------------------------------------------------------------------
\* Types: the states of run(), of the listener goroutine and its channel, and
\* of a handler.
CPTypeOK ==
    /\ env \in Environment
    /\ proc \in {"load", "open", "serving", "shutdown", "drain", "closing",
                 "exited"}
    /\ result \in {"none", "ok", "failed"}
    /\ exit \in {"none", "ok", "failed", "killed"}
    /\ signal \in BOOLEAN
    /\ listener \in {"off", "starting", "up", "failed", "closed"}
    /\ serveErr \in {"empty", "nil", "err"}
    /\ call \in [Clients -> Call]
    /\ stage \in [Clients -> {"away", "open"} \cup InProgress \cup Ended]
    /\ status \in [Clients -> Statuses]
    /\ effects \subseteq Clients

(***************************************************************************)
(* Access to state (ADR-0007): whatever the environment and the request, a *)
(* mutation takes effect, and the inventory is read, only for the          *)
(* configured token on a loopback listener, and a mutation only when the   *)
(* environment names the role operator; a 4xx other than the refusal of    *)
(* the transaction itself never follows an effect.  Health and readiness   *)
(* are open to all, readiness although it pings the database.              *)
(***************************************************************************)
AccessControlled ==
    \A c \in Clients :
       LET q == call[c] IN
       /\ stage[c] \in {"acquire"} \cup Inside =>
             \/ q.route = "ready"
             \/ q.credential = "token" /\ env.addr \in {"unset", "loopback"}
       /\ c \in effects =>
             /\ q.credential = "token" /\ env.addr \in {"unset", "loopback"}
             /\ env.role = "operator" /\ status[c] \in {200, 500}

(***************************************************************************)
(* A clean exit loses nothing: when the process ends with code 0, every    *)
(* request it had begun to handle was answered, in particular every one    *)
(* that changed the database.                                              *)
(***************************************************************************)
CleanExitLosesNothing ==
    exit = "ok" =>
       \A c \in Clients :
          /\ stage[c] \notin {"cut", "severed"}
          /\ c \in effects => stage[c] = "done"

(***************************************************************************)
(* A dead listener is reported: if ListenAndServe failed, the process does *)
(* not end with code 0, also when a signal arrived at the same time and    *)
(* the select took the other branch.                                       *)
(***************************************************************************)
ListenerFailureReported == listener = "failed" => exit # "ok"

(***************************************************************************)
(* No transaction is cut off by a process that ends of its own accord,     *)
(* also after a failed listener or a timed out Shutdown: the deferred      *)
(* pool.Close waits for the connections.                                   *)
(***************************************************************************)
NoTransactionSevered ==
    exit \in {"ok", "failed"} => \A c \in Clients : stage[c] # "severed"

\* A handler that waits for the answer to a ROLLBACK, which has no deadline.
AwaitsRollback == \E c \in Clients : stage[c] = "rollback"

(***************************************************************************)
(* Bounded shutdown (docs/15): after a termination signal the process      *)
(* ends, whatever the clients and the database do, unless a ROLLBACK is    *)
(* never answered.                                                         *)
(***************************************************************************)
SignalEnds == signal ~> (~Alive \/ AwaitsRollback)

(***************************************************************************)
(* Every request that is being handled is answered, by its own deadline if *)
(* the database does not answer or all connections are in use, unless its  *)
(* ROLLBACK is never answered or the process ends first.                   *)
(***************************************************************************)
RequestEnds ==
    \A c \in Clients :
       stage[c] \in InProgress ~> stage[c] \in Ended \cup {"rollback"}
=============================================================================
