----------------------------- MODULE EntryCodec -----------------------------
(***************************************************************************)
(* What a desired entry goes through as text: the operator API validates   *)
(* selectors, parent SPIFFE ID and TTL; the SPIRE client takes the strings *)
(* apart for the Entry API and puts them together again from its answers;  *)
(* the reconciler compares the result with the desired strings to decide   *)
(* whether to update.  A mismatch between any two of the three makes a     *)
(* rule that can never be applied, or one that is updated by every run.    *)
(*                                                                         *)
(* A selector string is the sequence of its parts between colons, so that  *)
(* "unix:uid:7" is <<"unix", "uid", "7">>; a SPIFFE ID is a trust domain   *)
(* and the sequence of its path segments.  The workload's SPIFFE ID is not *)
(* part of a request: List takes it from the table of workloads, which no  *)
(* code of the platform writes and which puts no constraint on its form.   *)
(* The entry is one the rule owns; ownership is the subject of Reconciler. *)
(***************************************************************************)
EXTENDS Integers, Sequences, Functions

CONSTANTS
    Seeds,         \* desired entries that direct SQL may have stored
    Inputs,        \* bodies operators may submit
    Drifted,       \* entries another SPIRE client may leave behind
    MaxSelectors,  \* 32 in the code
    MaxEdits,      \* bound on accepted operator requests
    MaxDrifts,     \* bound on the other client's changes
    None           \* no entry

VARIABLES
    rule,          \* the desired entry as stored
    validated,     \* it came through the API, not through direct SQL
    entry,         \* the entry at SPIRE
    last,          \* what the last run did about the rule
    edits, drifts

codecVars == <<rule, validated, entry, last, edits, drifts>>

\* The parts selector strings are made of, in the order of sort.Strings:
\* the empty string, one with a control character, an upper-case one.
Parts == <<"", "ctl", "7", "UNIX", "k8s", "uid", "unix">>
Rank(part) == CHOOSE i \in DOMAIN Parts : Parts[i] = part

\* Path segments: "%20" and "%2F" stand for segments with those escapes, "sp"
\* for one with a blank, which is what "%20" means.
Segments == {"a", "b", "", "..", "%20", "%2F", "sp"}
Hosts == {"plain", "upper", "port", ""}

PartNames == {Parts[i] : i \in DOMAIN Parts}
SPIFFEIDs == [host : Hosts, path : Seq(Segments)]
Bodies == [selectors : Seq(Seq(PartNames)), parent : SPIFFEIDs, ttl : Int]
Desired == [selectors : Seq(Seq(PartNames)), spiffe : SPIFFEIDs,
            parent : SPIFFEIDs, ttl : Int]
Entries == [selectors : Seq([type : PartNames, value : Seq(PartNames)]),
            spiffe : SPIFFEIDs, parent : SPIFFEIDs, ttl : Int]
-----------------------------------------------------------------------------
\* url.Parse: the path is unescaped; RawPath is set when escaping the result
\* in the default way does not give the path back: "%2F" has become a slash,
\* and a bare blank would become "%20".
Unescape(segment) == IF segment = "%20" THEN "sp" ELSE segment
NeedsRawPath(id) == \E i \in DOMAIN id.path : id.path[i] \in {"%2F", "sp"}

\* The tests validateSPIFFEID and parseSPIFFEID have in common.
Canonical(id) == id.host = "plain" /\ id.path # <<>> /\ ~NeedsRawPath(id)

\* validateSPIFFEID: String() gives "%20" back, so that it passes.
ValidSPIFFEID(id) ==
    /\ Canonical(id)
    /\ \A i \in DOMAIN id.path : id.path[i] \notin {"", ".."}

\* selectorTypeExpr: letters, digits, dots, underscores and dashes.
SelectorTypes == PartNames \ {"", "ctl"}

\* Fault: an empty selector value passes.
ValidSelectorLax(raw) == Len(raw) >= 2 /\ Head(raw) \in SelectorTypes

\* One turn of the loop of validateDesiredFields.
ValidSelector(raw) ==
    /\ Len(raw) >= 2 /\ Head(raw) \in SelectorTypes
    /\ Tail(raw) # <<"">>
    /\ \A i \in 2 .. Len(raw) : raw[i] # "ctl"

ValidTTL(ttl) == ttl \in 60 .. 86400

\* validateDesiredFields, on a body.
Valid(d) ==
    /\ ValidTTL(d.ttl) /\ ValidSPIFFEID(d.parent)
    /\ Len(d.selectors) \in 1 .. MaxSelectors
    /\ \A i \in DOMAIN d.selectors : ValidSelector(d.selectors[i])
    /\ \A i, j \in DOMAIN d.selectors :
          d.selectors[i] = d.selectors[j] => i = j
-----------------------------------------------------------------------------
\* parseSelector: strings.Cut at the first colon.
SelectorParses(raw) == Len(raw) >= 2 /\ Head(raw) # "" /\ Tail(raw) # <<"">>
parseSelector(raw) == [type |-> Head(raw), value |-> Tail(raw)]

parseSPIFFEID(id) == [host |-> id.host,
                      path |-> [i \in DOMAIN id.path |-> Unescape(id.path[i])]]

\* toProtoEntry fails, or gives the entry.  It parses the workload's SPIFFE ID
\* as well as the parent's.
Converts(d) ==
    /\ Canonical(d.spiffe) /\ Canonical(d.parent) /\ d.selectors # <<>>
    /\ \A i \in DOMAIN d.selectors : SelectorParses(d.selectors[i])

toProtoEntry(d) ==
    [spiffe |-> parseSPIFFEID(d.spiffe), parent |-> parseSPIFFEID(d.parent),
     ttl |-> d.ttl, selectors |->
        [i \in DOMAIN d.selectors |-> parseSelector(d.selectors[i])]]

\* fromProtoEntry: formatSPIFFEID escapes nothing.
fromProtoEntry(e) ==
    [spiffe |-> e.spiffe, parent |-> e.parent, ttl |-> e.ttl,
     selectors |-> [i \in DOMAIN e.selectors |->
                       <<e.selectors[i].type>> \o e.selectors[i].value]]

\* desiredEntry does not fail.
Desirable(d) == ValidTTL(d.ttl) /\ d.selectors # <<>>

\* Neither it nor the conversion fails.
Applicable(d) == Desirable(d) /\ Converts(d)
-----------------------------------------------------------------------------
\* The order of strings, as far as it matters: it is total.  At the first
\* difference s has ended or has the smaller part.
Less(s, t) ==
    \E i \in DOMAIN t :
       /\ \A j \in 1 .. i - 1 : j \in DOMAIN s /\ s[j] = t[j]
       /\ i \in DOMAIN s => Rank(s[i]) < Rank(t[i])

\* The lists with the same elements, each as often.
Rearrangements(list) ==
    {[i \in DOMAIN list |-> list[p[i]]] :
        p \in Bijection(DOMAIN list, DOMAIN list)}

InOrder(strings) ==
    \A i, j \in DOMAIN strings : i < j => ~Less(strings[j], strings[i])

\* sort.Strings.
Sorted(strings) == CHOOSE s \in Rearrangements(strings) : InOrder(s)

\* Fault: the selectors are compared in the order they come in.
EquivalentUnsorted(actual, desired) == actual = desired

\* Fault: the lengths are not compared.
EquivalentPrefix(actual, desired) ==
    LET left == Sorted(actual.selectors)
        right == Sorted(desired.selectors) IN
    /\ actual.spiffe = desired.spiffe
    /\ actual.parent = desired.parent /\ actual.ttl = desired.ttl
    /\ \A i \in DOMAIN left \cap DOMAIN right : left[i] = right[i]

entriesEquivalent(actual, desired) ==
    LET left == Sorted(actual.selectors)
        right == Sorted(desired.selectors) IN
    /\ actual.spiffe = desired.spiffe
    /\ actual.parent = desired.parent /\ actual.ttl = desired.ttl
    /\ Len(left) = Len(right)
    /\ \A i \in DOMAIN left : left[i] = right[i]
-----------------------------------------------------------------------------
\* SPIRE: a path segment is made of letters, digits, dots, dashes and
\* underscores and is neither empty nor a dot segment; a selector is listed
\* once.
SpireAccepts(e) ==
    /\ \A id \in {e.spiffe, e.parent} :
          \A i \in DOMAIN id.path : id.path[i] \in {"a", "b"}
    /\ \A i, j \in DOMAIN e.selectors :
          e.selectors[i] = e.selectors[j] => i = j

\* SPIRE keeps selectors as rows: an answer lists them in any order.
Answers(e) ==
    {[e EXCEPT !.selectors = s] : s \in Rearrangements(e.selectors)}

\* Desired entries are spelled with these parts and segments; whatever another
\* client leaves behind, SPIRE has accepted.
ASSUME SpellingAssumption ==
    /\ Seeds \subseteq Desired /\ Inputs \subseteq Bodies
    /\ Drifted \subseteq {e \in Entries : SpireAccepts(e)}
-----------------------------------------------------------------------------
CodecInit ==
    /\ rule \in Seeds /\ validated = FALSE
    /\ entry = None /\ last = "none"
    /\ edits = 0 /\ drifts = 0

\* The body d stored for the workload with SPIFFE ID id, as List reads it.
StoredAs(d, id) == [selectors |-> d.selectors, spiffe |-> id,
                    parent |-> d.parent, ttl |-> d.ttl]

\* ReplaceDesired; a refused body changes nothing.
Replace(d) ==
    /\ edits < MaxEdits /\ Valid(d)
    /\ rule' = StoredAs(d, rule.spiffe) /\ validated' = TRUE
    /\ edits' = edits + 1
    /\ UNCHANGED <<entry, last, drifts>>

\* Create or update with the converted entry.
Write(op) ==
    LET e == toProtoEntry(rule) IN
    \/ /\ Converts(rule) /\ SpireAccepts(e)
       /\ entry' = e /\ last' = op
    \/ /\ ~(Converts(rule) /\ SpireAccepts(e))
       /\ last' = "failed" /\ UNCHANGED entry

\* reconcilePresent: make the desired entry, look at the bound one, update it
\* if it differs.
Reconcile ==
    /\ \/ /\ ~Desirable(rule)
          /\ last' = "failed" /\ UNCHANGED entry
       \/ Desirable(rule) /\ entry = None /\ Write("created")
       \/ /\ Desirable(rule) /\ entry # None
          /\ \E answer \in Answers(entry) :
                \/ /\ entriesEquivalent(fromProtoEntry(answer), rule)
                   /\ last' = "noop" /\ UNCHANGED entry
                \/ /\ ~entriesEquivalent(fromProtoEntry(answer), rule)
                   /\ Write("updated")
    /\ UNCHANGED <<rule, validated, edits, drifts>>

\* Another client edits the entry, within what SPIRE accepts.
Drift ==
    /\ entry # None /\ drifts < MaxDrifts
    /\ entry' \in Drifted
    /\ drifts' = drifts + 1
    /\ UNCHANGED <<rule, validated, last, edits>>

CodecNext == (\E d \in Inputs : Replace(d)) \/ Reconcile \/ Drift

\* Runs of the reconciler follow one another.
CodecSpec == CodecInit /\ [][CodecNext]_codecVars /\ WF_codecVars(Reconcile)
-----------------------------------------------------------------------------
(***************************************************************************)
(* What an operator writes is checked once and for all: desiredEntry and   *)
(* toProtoEntry refuse no selectors, TTL or parent SPIFFE ID that          *)
(* validateDesiredFields has accepted.  An accepted rule never ends as     *)
(* invalid_desired_state, and as a conversion error only because of what   *)
(* is not in the body and what nobody checks, its workload's SPIFFE ID.    *)
(***************************************************************************)
AcceptedIsApplicable ==
    validated => /\ Desirable(rule)
                 /\ Canonical(rule.spiffe) => Converts(rule)

\* The entry at SPIRE is the rule's: the converted rule in some order of its
\* selectors.
Represents(e, d) == e \in Answers(toProtoEntry(d))

(***************************************************************************)
(* entriesEquivalent, which compares sorted strings, decides exactly what  *)
(* it is meant to: whether SPIRE's entry is the desired one, for values    *)
(* with colons, lists of any length and order, and entries that another    *)
(* client has edited.                                                      *)
(***************************************************************************)
EquivalenceExact ==
    entry # None /\ Applicable(rule) =>
       \A answer \in Answers(entry) :
          entriesEquivalent(fromProtoEntry(answer), rule)
             <=> Represents(entry, rule)

(***************************************************************************)
(* No endless updates: once edits and drift have stopped, runs of the      *)
(* reconciler find nothing to do, or cannot apply the rule at all; they do *)
(* not rewrite the entry for ever because of how SPIRE spells it.          *)
(***************************************************************************)
UpdatesCease == <>[](last \in {"noop", "failed"})
=============================================================================
