----------------------------- MODULE MCDesktop -----------------------------
(* Model values for the desktop app: the session, the purge of devices and *)
(* the list on the main screen.  The three share no state here; a run      *)
(* explores one of them, chosen at the start.                              *)
EXTENDS AppSession, Purge, ListView, TLC

CONSTANTS cA, cB, s1, s2, i1, me, d1, d2, d3, p1, p2, v1, v2, h1, h2

VARIABLE part

DesktopInit ==
  /\ Init /\ PurgeInit /\ ListInit
  /\ part \in {"session", "purge", "list"}

DesktopNext ==
  /\ UNCHANGED part
  /\ \/ part = "session" /\ Next /\ UNCHANGED <<purgeVars, listVars>>
     \/ part = "purge" /\ PurgeNext /\ UNCHANGED <<vars, listVars>>
     \/ part = "list" /\ ListNext /\ UNCHANGED <<vars, purgeVars>>

DesktopSpec == DesktopInit /\ [][DesktopNext]_<<vars, purgeVars, listVars, part>>

DesktopTypeOK == TypeOK /\ PurgeTypeOK /\ ListTypeOK

NoVault == [mnemonic |-> None, cached |-> [chain |-> None, version |-> 0],
            favorites |-> {}]
TwoChains == {cA, cB}
TwoSyncs == {s1, s2}
OneId == {i1}
SyncsAndMain == Syncs \cup {main}

\* Two stale devices of one name, one without a date, and this app's own.
FourDevices == {me, d1, d2, d3}
SharedNames == [d \in FourDevices |-> IF d = d2 THEN d1 ELSE d]
Dates == [d \in FourDevices |-> IF d = d3 THEN "unknown" ELSE "old"]
TwoPurges == {p1, p2}

TwoViews == {v1, v2}
TwoHandlers == {h1, h2}

\* The bound of the search: as far as no load-to-write spans overlap.
Serial == ~overlapped

Symmetric == UNION {Permutations(S) : S \in {Chains, Syncs, Purges, Handlers}}
=============================================================================
