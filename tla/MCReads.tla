------------------------------ MODULE MCReads -------------------------------
(* Instances of Reads for TLC.                                             *)
EXTENDS Reads, TLC

Ev(id, at, kind, root, depth, broadcast, target, tagged) ==
    [id |-> id, at |-> at, kind |-> kind, root |-> root, depth |-> depth,
     broadcast |-> broadcast, target |-> target, tagged |-> tagged]

\* Two notes of one second, another kind, a thread of two replies, one of them
\* broadcast, a reaction and its deletion, the removal of the broadcast reply, a
\* gated event, a broadcast reply of depth two, and the deletion of the reaction's
\* deletion.
MCEvent == {Ev(1, 1, "note", 0, 0, FALSE, 0, {}),
            Ev(2, 1, "note", 0, 0, FALSE, 0, {}),
            Ev(3, 2, "other", 0, 0, FALSE, 0, {}),
            Ev(4, 2, "note", 1, 1, FALSE, 0, {}),
            Ev(5, 2, "note", 1, 1, TRUE, 0, {}),
            Ev(6, 3, "reaction", 0, 0, FALSE, 1, {}),
            Ev(7, 3, "delete", 0, 0, FALSE, 6, {}),
            Ev(8, 1, "remove", 0, 0, FALSE, 5, {}),
            Ev(9, 2, "gated", 0, 0, FALSE, 0, {"u"}),
            Ev(10, 3, "note", 1, 2, TRUE, 0, {}),
            Ev(11, 3, "delete", 0, 0, FALSE, 7, {})}

Filter(ids, kinds, tagged, search) ==
    [ids |-> ids, kinds |-> kinds, tagged |-> tagged, search |-> search]

MCQuery == {<<Filter({1, 9}, None, None, FALSE), Filter(None, {"gated"}, {"u"}, FALSE)>>,
            <<Filter({1, 9}, None, None, FALSE), Filter({2}, {"note"}, None, FALSE)>>,
            <<Filter(None, None, None, TRUE)>>}

MCKinds == {{}, {"note"}}
============================================================================
