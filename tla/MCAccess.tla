------------------------------ MODULE MCAccess ------------------------------
(* Model values for Access: who asks for what.  Calls are interchangeable. *)
EXTENDS Access, TLC

CONSTANTS c1, c2, c3, h1, h2, t1

ThreeCalls == {c1, c2, c3}

NoData == [present |-> {}, revoked |-> {}, grants |-> {}, log |-> {}]
OneHandle == {h1}
TwoHandles == {h1, h2}
OneThing == {t1}

A(kind, action) == [kind |-> kind, handle |-> h1, thing |-> t1, action |-> action]

\* A grant to use a thing, its use, and its revocation.
UseAsks == {A("precreate", "use"), A("redeem", "use"), A("revoke_handle", "use")}

\* Every kind of call.
AllAsks == {A(k, x) : k \in {"request", "redeem"}, x \in Actions}
             \cup {A("precreate", "use"), A("revoke_grant", "use"),
                   A("revoke_handle", "use"), A("other", "use")}
             \cup {[A(k, "use") EXCEPT !.handle = h2] : k \in {"enroll", "revoke_handle"}}

\* The policy allows to use the thing, but not to reveal it.
UsePolicy == [h \in Handles |-> {<<t1, "use">>}]
NoPolicy == [h \in Handles |-> {}]

Deny == [approved |-> FALSE, uses |-> 0]
Allow(uses) == [approved |-> TRUE, uses |-> uses]
DenyOrTwice == {Deny, Allow(2)}
Once == {Allow(1)}

\* The bound of the search: the histories of three calls with no restart, and
\* those of two calls with one, in both as far as Serial holds.
Explored == Serial /\ (restarts > 0 => \E c \in Calls : pc[c] = "idle")

Symmetric == Permutations(Calls)
=============================================================================
