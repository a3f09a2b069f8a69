------------------------------ MODULE MCOutbox ------------------------------
(* Model values for Outbox: which mutations the user makes. *)
EXTENDS Outbox, TLC

CONSTANTS c1, c2, c3, r1, o1, k1, k2

\* Nobody, or nothing.
NoThread == {}
OneCommand == {c1}
TwoCommands == {c1, c2}
ThreeCommands == {c1, c2, c3}
OneReplay == {r1}
OneOther == {o1}
TwoKeys == {k1, k2}
OneKey == {k1}

AllThreads == Commands \cup Replays \cup Others

NoEntries == <<>>

Edit(k, l) == [kind |-> "edit", key |-> k, to |-> l]
New(k) == [kind |-> "new", key |-> k, to |-> k]
Delete(k) == [kind |-> "delete", key |-> k, to |-> k]
Unsendable == [kind |-> "unsendable", key |-> k1, to |-> k1]

\* A new item, its deletion, and a new item without a website.
MixedOps == [c \in Commands |-> IF c = c1 THEN New(k1)
                                ELSE IF c = c2 THEN Delete(k1) ELSE Unsendable]

\* Edits of one item in place.
Edits == [c \in Commands |-> Edit(k1, k1)]

\* An edit of the user name, which is part of the key, and a deletion.
Removals == [c \in Commands |-> IF c = c1 THEN Edit(k1, k2) ELSE Delete(k2)]
=============================================================================
