-------------------------- MODULE RevisionedStore --------------------------
(***************************************************************************)
(* What the mutation APIs promise (ADR-0009 and ADR-0010): a set of        *)
(* objects, each with a revision, changed by requests that name the        *)
(* revision they build on.  A change takes effect at one instant, on that  *)
(* very revision, together with its entry in the log; the answer to a      *)
(* request says what became of it.  Registration and Policy, with their    *)
(* row locks and their transactions of several statements, are shown to    *)
(* implement it.                                                           *)
(***************************************************************************)
EXTENDS Naturals

CONSTANTS
    Objects,    \* what is being revised
    Requests,   \* each is sent at most once
    Asks,       \* the (object, expected revision) pairs requests may name
    Start,      \* the revision each object starts with
    None        \* nothing asked yet

VARIABLES
    revision,   \* the current revision of every object
    log,        \* who made which revision of which object
    asked,      \* what each request has asked for
    answer      \* what each request has been told

storeVars == <<revision, log, asked, answer>>

Ask == [object : Objects, expected : Nat]
Entry == [by : Requests, object : Objects, revision : Nat]
Outcomes == {"pending", "ok", "refused", "stale", "error"}

Init ==
    /\ revision = Start
    /\ log = {}
    /\ asked = [c \in Requests |-> None]
    /\ answer = [c \in Requests |-> "pending"]

\* A request arrives and waits, or is refused for what it says.
Send(c) ==
    /\ asked[c] = None
    /\ \E a \in Asks : asked' = [asked EXCEPT ![c] = a]
    /\ \E o \in {"pending", "refused"} : answer' = [answer EXCEPT ![c] = o]
    /\ UNCHANGED <<revision, log>>

Pending(c) == asked[c] # None /\ answer[c] = "pending"

\* The change: it may be in force although the answer is "error".
Succeed(c) ==
    LET o == asked[c].object
        next == asked[c].expected + 1 IN
    /\ Pending(c)
    /\ revision[o] = asked[c].expected
    /\ revision' = [revision EXCEPT ![o] = next]
    /\ log' = log \cup {[by |-> c, object |-> o, revision |-> next]}
    /\ \E a \in {"ok", "error"} : answer' = [answer EXCEPT ![c] = a]
    /\ UNCHANGED asked

\* A stale answer is given only while the object is at another revision.
Reject(c) ==
    /\ Pending(c)
    /\ \/ answer' = [answer EXCEPT ![c] = "refused"]
       \/ answer' = [answer EXCEPT ![c] = "error"]
       \/ /\ revision[asked[c].object] # asked[c].expected
          /\ answer' = [answer EXCEPT ![c] = "stale"]
    /\ UNCHANGED <<revision, log, asked>>

Next == \E c \in Requests : Send(c) \/ Succeed(c) \/ Reject(c)

Spec == Init /\ [][Next]_storeVars
=============================================================================
