---------------------------- MODULE MCEntryCodec ----------------------------
(* Instance of EntryCodec for TLC: every list of at most two selectors over  *)
(* well-formed and broken ones, one that is too long, parent IDs of every    *)
(* kind, TTLs on both sides of the bounds, and workloads whose own ID the    *)
(* client or SPIRE refuses.                                                  *)
EXTENDS EntryCodec

Uid == <<"unix", "uid", "7">>
Unix == <<"unix", "uid">>
Pod == <<"k8s", "uid">>
Raws == {Uid, Unix, Pod, <<"unix">>, <<"unix", "">>, <<"", "uid">>,
         <<"UNIX", "7">>, <<"ctl", "uid">>, <<"unix", "ctl">>}

Id(host, path) == [host |-> host, path |-> path]
Parent == Id("plain", <<"a">>)
Parents == {Parent, Id("plain", <<"a", "b">>), Id("plain", <<"%20">>),
            Id("plain", <<"%2F">>), Id("plain", <<"..">>), Id("plain", <<"">>),
            Id("plain", <<"sp">>), Id("plain", <<>>), Id("upper", <<"a">>),
            Id("port", <<"a">>), Id("", <<"a">>)}

Body(selectors, parent, ttl) ==
    [selectors |-> selectors, parent |-> parent, ttl |-> ttl]

MCInputs ==
    {Body(s, Parent, 60) : s \in {<<>>, <<Uid, Unix, Pod>>}
        \cup {<<r>> : r \in Raws} \cup {<<r, t>> : r, t \in Raws}}
    \cup {Body(<<Uid, Pod>>, p, t) :
             p \in Parents, t \in {59, 60, 86400, 86401}}

Workload == Id("plain", <<"b">>)
Want(selectors, parent, ttl) ==
    StoredAs(Body(selectors, parent, ttl), Workload)
WantFor(id) == StoredAs(Body(<<Uid, Pod>>, Parent, 60), id)

MCSeeds == {Want(<<Uid, Pod>>, Parent, 60), Want(<<Uid, Uid>>, Parent, 60),
            Want(<<Unix, Uid, Pod>>, Parent, 60), Want(<<Pod>>, Parent, 59),
            Want(<<Pod>>, Id("plain", <<"%20">>), 60),
            Want(<<<<"unix">>>>, Parent, 60), Want(<<>>, Parent, 60)}
    \cup {WantFor(Id("port", <<"b">>)), WantFor(Id("plain", <<"%20">>))}

Stored(selectors, parent, ttl) == toProtoEntry(Want(selectors, parent, ttl))

MCDrifted == {Stored(<<Pod, Uid>>, Parent, 60), Stored(<<Uid>>, Parent, 60),
              Stored(<<Pod, Unix>>, Parent, 60),
              Stored(<<Uid, Pod>>, Parent, 86400),
              Stored(<<Uid, Pod>>, Id("plain", <<"b">>), 60),
              toProtoEntry(WantFor(Parent))}
=============================================================================
