------------------------------ MODULE MCBrowser ------------------------------
(* Model values for what lies around the app: the browser it fills forms    *)
(* in, the tools it gives an identity to, and the icons it fetches.  The    *)
(* three share no state here; a run explores one of them, chosen at the     *)
(* start.                                                                   *)
EXTENDS ExtensionBridge, Identities, Favicons, TLC

CONSTANTS j1, j2, t1, t2, f1, f2

VARIABLE part

BrowserInit ==
  /\ part \in {"bridge", "identities", "favicons"}
  /\ BridgeInit /\ IdentInit /\ FaviconInit
  /\ page = [t \in Tabs |-> None]

\* The jobs of a run: two fills of items of two sites, or a fill and a grab.
\* They are there before anything else happens, which nobody can tell: a job
\* that nobody took yet is looked at by nobody.  Nor can a fill tell what
\* permissions there are.
Site(a) == [scheme |-> "https", host |-> a, port |-> 0]

JobsFirst ==
  IF order[j1] = None
    THEN order'[j1] # None /\ order'[j1].kind = "fill" /\ order'[j1].own = Site("a")
  ELSE IF order[j2] = None
    THEN order'[j2] # None /\ (order'[j2].kind = "fill" => order'[j2].own = Site("b"))
  ELSE order[j2].kind = "fill" => UNCHANGED permitted

\* Fetches and ids are alike: the first that is free is taken.
FirstFetch == saw'[f2] # Idle => saw[f2] # Idle \/ saw[f1] # Idle
FirstId == \A i \in Ids \ {1} : FreshId(i) /\ ~FreshId(i)' => ~FreshId(i - 1)

BrowserNext ==
  /\ UNCHANGED part
  /\ \/ part = "bridge" /\ BridgeNext /\ JobsFirst /\ UNCHANGED <<identVars, faviconVars>>
     \/ part = "identities" /\ IdentNext /\ FirstId /\ UNCHANGED <<bridgeVars, faviconVars>>
     \/ part = "favicons" /\ FaviconNext /\ FirstFetch /\ UNCHANGED <<bridgeVars, identVars>>

BrowserSpec ==
  BrowserInit /\ [][BrowserNext]_<<bridgeVars, identVars, faviconVars, part>> /\ BridgeFairness

BrowserTypeOK == BridgeTypeOK /\ IdentTypeOK /\ FaviconTypeOK

NoData == [handles |-> {}]
TwoSites == {Site("a"), Site("b")}
OneGrant == {{"a"}}
=============================================================================
