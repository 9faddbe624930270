--------------------------- MODULE MCControlPlane ---------------------------
(* Instance of ControlPlane for TLC: one environment for every way the       *)
(* configuration is accepted or refused, and a request for every way through *)
(* the mux and the handlers.                                                 *)
EXTENDS ControlPlane

Good == [addr |-> "unset", db |-> "ok", id |-> "ok", token |-> "ok",
         role |-> "operator"]

MCEnvironments ==
    {Good, [Good EXCEPT !.role = "unset"], [Good EXCEPT !.token = "spaced"],
     [Good EXCEPT !.role = "other"], [Good EXCEPT !.token = "short"],
     [Good EXCEPT !.addr = "public"], [Good EXCEPT !.addr = "malformed"],
     [Good EXCEPT !.db = "unset"], [Good EXCEPT !.db = "unparsable"],
     [Good EXCEPT !.id = "illformed"]}

Sends(route) == [route |-> route, method |-> "right",
                 credential |-> "token", input |-> "good"]

MCCalls ==
    {Sends("register"), Sends("activate"), Sends("workloads"),
     [Sends("ready") EXCEPT !.credential = "none"],
     [Sends("policy") EXCEPT !.credential = "wrong"],
     [Sends("replace") EXCEPT !.method = "wrong"],
     [Sends("append") EXCEPT !.input = "bad"],
     [Sends("workloads") EXCEPT !.method = "wrong"]}
=============================================================================
