----------------------------- MODULE MCHistory -----------------------------
(* Instances of History for TLC.                                           *)
EXTENDS History

Msg(kind, chan, root, reply, targets, slot, at) ==
    [kind |-> kind, chan |-> chan, root |-> root, reply |-> reply,
     targets |-> targets, slot |-> slot, at |-> at]

\* Every thread-scoped event i whose markers name only events older than it:
\* an id is a hash, so an event can only mention events that exist already.
ThreadMsgs(i, chans) ==
    {Msg("thread", c, r, p, <<>>, NoSlot, 1 + (i % 2)) :
        c \in chans, r \in 0..(i - 1), p \in 0..(i - 1)}

\* All threads of three events over two channels.
ThreeThreads ==
    {<<a, b, c>> : a \in ThreadMsgs(1, {1}), b \in ThreadMsgs(2, {1, 2}),
                   c \in ThreadMsgs(3, {1, 2})}

\* All threads of four events in one channel.
FourThreads ==
    {<<a, b, c, d>> : a \in ThreadMsgs(1, {1}), b \in ThreadMsgs(2, {1}),
                      c \in ThreadMsgs(3, {1}), d \in ThreadMsgs(4, {1})}

Top(at) == Msg("thread", 1, NoId, NoId, <<>>, NoSlot, at)
Reply(root, p, at) == Msg("thread", 1, root, p, <<>>, NoSlot, at)
Reaction == Msg("reaction", 1, NoId, NoId, <<>>, NoSlot, 1)
Opaque == Msg("opaque", NoChan, NoId, NoId, <<>>, NoSlot, 1)
Deletion(ts) == Msg("deletion", 1, NoId, NoId, ts, NoSlot, 1)
Version(slot, at) == Msg("replaceable", 1, NoId, NoId, <<>>, slot, at)
Relay(slot, at) == Msg("relay", 1, NoId, NoId, <<>>, slot, at)

\* A thread with a deletion that names some of it, in every order and twice,
\* beside a deeper or a sibling reply, a reaction, or another deletion.
DeleteUniverses ==
    {<<Top(1), Reply(1, 1, 2), e, Deletion(ts)>> :
        ts \in {<<3>>, <<1, 2>>, <<2, 2>>, <<3, 2, 3>>},
        e \in {Reply(1, 1, 1), Reply(1, 2, 1), Reaction, Deletion(<<2>>), Deletion(<<4, 2>>)}}

\* Three versions of one address under every order of their timestamps, ties
\* included, with a reply to the first, a deletion of it or a nested reply.
SlotUniverses ==
    {<<Version(1, a), Version(1, b), e, f>> :
        a \in {1, 2}, b \in {1, 2},
        e \in {Reply(1, 1, 1), Deletion(<<1>>), Version(1, 2)},
        f \in {Reply(1, 3, 2), Version(1, 2), Opaque, Deletion(<<1, 2>>)}}

\* Relay-authored state beside client events of every other kind.
RelayUniverses ==
    {<<Relay(1, a), Relay(1, b), e, f>> :
        a \in {1, 2}, b \in {1, 2},
        e \in {Relay(1, 2), Reaction, Opaque}, f \in {Reply(3, 3, 1), Deletion(<<1>>)}}

StoreUniverses == {u : u \in FourThreads \cup SlotUniverses \cup RelayUniverses \cup DeleteUniverses}

\* Replies with out-of-order timestamps, the third possibly in another channel,
\* and deletions of a reply and of versions of an address, for the clock.
ClockUniverses ==
    {<<Top(1), Reply(1, 1, a), Msg("thread", c, 1, p, <<>>, NoSlot, 3), Reply(1, q, b)>> :
        a \in {1, 3}, b \in {1, 2}, c \in {1, 2}, p \in {1, 2}, q \in {1, 3}}
    \cup {<<Top(1), Reply(1, 1, a), Deletion(<<2>>), e>> :
        a \in {1, 3}, e \in {Deletion(<<1, 3>>), Reply(1, 2, 2)}}
    \cup {<<Version(1, a), Version(1, b), Deletion(<<1>>), Deletion(<<2>>)>> :
        a \in {1, 2}, b \in {1, 2}}
============================================================================
