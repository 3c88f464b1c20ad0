--------------------------- MODULE MCConvergence ---------------------------
(* Instances of Convergence for TLC.                                       *)
EXTENDS Convergence

Msg(kind, chan, root, reply, targets, slot, at) ==
    [kind |-> kind, chan |-> chan, root |-> root, reply |-> reply,
     targets |-> targets, slot |-> slot, at |-> at]

Top == Msg("thread", 1, 0, 0, <<>>, 0, 1)
Reply(c, r, p, at) == Msg("thread", c, r, p, <<>>, 0, at)
Relay == Msg("relay", 1, 0, 0, <<>>, 1, 1)
Deletion(targets) == Msg("deletion", 1, 0, 0, targets, 0, 1)
Version(at) == Msg("replaceable", 1, 0, 0, <<>>, 1, at)

\* Threads of four events: the second starts a thread or replies to the first,
\* the third replies to either and may be in another channel, the fourth to any;
\* root markers are missing, right or wrong.
ThreadUniverses ==
    {<<Top, b, Reply(c, r, p, 2), Reply(1, s, q, 1)>> :
        b \in {Top, Reply(1, 1, 1, 1)}, c \in {1, 2},
        r \in 0..2, p \in 1..2, s \in 1..2, q \in 1..3}

\* A thread under an event that only a relay may author.
RelayUniverses == {<<Relay, Reply(1, 1, 1, 1), Reply(1, 1, p, 1), Top>> : p \in 1..2}

\* A deletion of events above and below one another, and of itself.
DeletionUniverses ==
    {<<Top, Reply(1, 1, 1, 1), Reply(1, 1, p, 2), Deletion(ts)>> :
        p \in 1..2, ts \in {<<2>>, <<3, 1>>, <<4, 2, 2>>}}

\* Versions of an address with ties, and a deletion of one of them.
VersionUniverses ==
    {<<Version(f[1]), Version(f[2]), Version(f[3]), e>> :
        f \in [1..3 -> 1..2], e \in {Version(2), Deletion(<<2>>)}}

CleanUniverses == ThreadUniverses \cup RelayUniverses \cup DeletionUniverses \cup VersionUniverses
============================================================================
