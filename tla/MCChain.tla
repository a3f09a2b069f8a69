------------------------------ MODULE MCChain -------------------------------
(* Model values for what the app reads from the sync chain, for the list    *)
(* while changes wait for it, and for joining the chain by a code of words. *)
(* The three share no state here; a run explores one of them, chosen at the *)
(* start.                                                                   *)
EXTENDS SyncPull, Overlay, TimeWords, TLC

CONSTANTS l1, l2, g1, t1, ra, rh, wa, u1, u2, ti, pa, pb, fo, b1, b2, ux

VARIABLE part

chainVars == <<pullVars, overlayVars, timeVars, part>>

\* The part that does not run stays in one of its initial states; a login that
\* is on the chain at the start has no title.
ChainInit ==
  /\ part \in {"pull", "overlay", "words"}
  /\ PullInit /\ OverlayInit /\ TimeInit
  /\ part # "pull" => \A e, f \in {l1, l2, g1, t1} :
       e # f /\ store[e].time < store[f].time => <<e, f>> \in
         {<<l1, l2>>, <<l1, g1>>, <<l1, t1>>, <<l2, g1>>, <<l2, t1>>, <<g1, t1>>}
  /\ part # "overlay" => logins = <<>>
  /\ \A login \in Range(logins) : login.title = NoTitle
  /\ part # "words" => born = 0

\* Other devices act while a commit on what they change, logins or bookmarks, is
\* under way (which may fail, and then it is as if they had acted before), write
\* logins without a title, of a key that the chain has if it has any, add one only
\* to a chain that has none, and leave rh to the behaviours without them.
OfTheFirst(chain, queue) ==
  /\ \A login \in Range(chain) : login.site = ra
  /\ \A op \in Range(queue) : op.op = "new" => op.site = wa
OthersBound ==
  /\ foreign' > foreign =>
       /\ \E n \in DOMAIN outbox :
            commits[n].stage = "fetched" /\ (outbox[n].op = "unmark" <=> marks' # marks)
       /\ \A login \in Range(logins') \ Range(logins) :
            login.title = NoTitle /\ (logins # <<>> => Positions(KeyOf(login)) # {})
       /\ logins # <<>> => Len(logins') <= Len(logins)
  /\ foreign' > 0 => OfTheFirst(logins', outbox')

ChainNext ==
  /\ UNCHANGED part
  /\ \/ part = "pull" /\ PullNext /\ UNCHANGED <<overlayVars, timeVars>>
     \/ part = "overlay" /\ OverlayNext /\ OthersBound /\ UNCHANGED <<pullVars, timeVars>>
     \/ part = "words" /\ TimeNext /\ UNCHANGED <<pullVars, overlayVars>>

ChainSpec == ChainInit /\ [][ChainNext]_chainVars

ChainTypeOK == PullTypeOK /\ OverlayTypeOK /\ TimeTypeOK

TabGroups == t1 :> g1

\* rh is the realm of an HTTP authentication, and is typed as a web site too.
TypedSites == wa :> ra @@ rh :> ra
Folders == fo :> Top @@ b1 :> fo @@ b2 :> Top
Urls == fo :> NoUrl @@ b1 :> ux @@ b2 :> ux

\* The midnights of the first days, of a later one, of the end of the word list
\* and of its second round, and the noons before them, where the day changes.
Near(t) == {t - 43201, t - 43200, t}
Instants == UNION {Near(d * Day) : d \in {-2, -1, 0, 1, 2, 700, 2046, 2047, 2048, 2049, 4096}}

Symmetric == UNION {Permutations(S) : S \in {Users, Passwords}}
=============================================================================
