------------------------------ MODULE Favicons ------------------------------
(***************************************************************************)
(* The icon cache: fetch_favicons (lib.rs) and the files it keeps for a    *)
(* host (favicon.rs): an icon, a title, or a mark that it has none, and    *)
(* for all of them the version of the rules by which they were fetched.    *)
(* A mark of older rules is not to be believed.  Two fetches may overlap,  *)
(* each with several workers, and the app may close in the middle.         *)
(***************************************************************************)
CONSTANTS
  Sites,
  Fetches,  \* the calls of fetch_favicons that may run at a time
  Idle

VARIABLES
  icon,     \* the hosts with a .png file
  title,    \* those with a .title file
  miss,     \* what the .miss file of a host was written by, if there is one
  current,  \* .rules_version is RULES_VERSION
  saw,      \* the hosts that a fetch has found the cache out of date for, or Idle
  todo,     \* how far a fetch is with each host
  looked    \* history: those of the fetches that have marked the cache

faviconVars == <<icon, title, miss, current, saw, todo, looked>>

FaviconTypeOK ==
  /\ icon \subseteq Sites /\ title \subseteq Sites
  /\ miss \in [Sites -> {"none", "old", "new"}]
  /\ current \in BOOLEAN
  /\ saw \in [Fetches -> {Idle} \cup SUBSET Sites]
  /\ todo \in [Fetches -> [Sites -> {"no", "queued", "home", "icons", "kept"}]]
  /\ looked \subseteq Sites

FaviconInit ==
  /\ icon = {} /\ title = {}
  /\ miss = [h \in Sites |-> "none"]
  /\ current = FALSE
  /\ saw = [f \in Fetches |-> Idle]
  /\ todo = [f \in Fetches |-> [h \in Sites |-> "no"]]
  /\ looked = {}

\* Mutant of Todo: a known miss is skipped whatever rules it is of.
TodoTrusting(hosts) ==
  {h \in hosts : h \notin icon \cap title /\ miss[h] = "none"}

\* "If the fetch rules changed since the cache was built, re-evaluate
\* everything (ignore stale .miss markers); otherwise trust the cache."
Todo(hosts) ==
  {h \in hosts : h \notin icon \cap title /\ (current => miss[h] = "none")}

Outdated(hosts) == IF current THEN {} ELSE hosts

\* mark_cache_current
MarkCurrent(hosts) ==
  /\ current' = TRUE
  /\ looked' = looked \cup hosts

\* fetch_favicons, with the items there are now: none if the vault is locked.
StartFetch(f) ==
  /\ saw[f] = Idle
  /\ \E hosts \in SUBSET Sites :
       IF Todo(hosts) = {}
         THEN MarkCurrent(Outdated(hosts)) /\ UNCHANGED <<saw, todo>>
         ELSE /\ saw' = [saw EXCEPT ![f] = Outdated(hosts)]
              /\ todo' = [todo EXCEPT ![f] =
                            [h \in Sites |-> IF h \in Todo(hosts) THEN "queued" ELSE "no"]]
              /\ UNCHANGED <<current, looked>>
  /\ UNCHANGED <<icon, title, miss>>

\* A worker's step with a host.
Work(f, h, from, to) ==
  /\ todo[f][h] = from
  /\ todo' = [todo EXCEPT ![f][h] = to]
  /\ UNCHANGED <<current, saw, looked>>

\* The homepage, which may give a title; then "if we already have a cached
\* favicon, don't overwrite/miss it".
FetchHome(f, h) ==
  \/ Work(f, h, "queued", "home") /\ UNCHANGED <<icon, title, miss>>
  \/ /\ Work(f, h, "home", IF h \in icon THEN "kept" ELSE "icons")
     /\ title' \in {title, title \cup {h}}
     /\ UNCHANGED <<icon, miss>>

\* The candidates for the icon: one of them decodes, or none.
FetchIcon(f, h) ==
  /\ \E from \in {"icons", "kept"} :
       /\ Work(f, h, from, "no")
       /\ \/ icon' = icon \cup {h} /\ miss' = [miss EXCEPT ![h] = "none"]
          \/ /\ miss' = IF from = "kept" THEN miss ELSE [miss EXCEPT ![h] = "new"]
             /\ UNCHANGED icon
  /\ UNCHANGED title

\* All workers have joined.
EndFetch(f) ==
  /\ saw[f] # Idle
  /\ \A h \in Sites : todo[f][h] = "no"
  /\ MarkCurrent(saw[f])
  /\ saw' = [saw EXCEPT ![f] = Idle]
  /\ UNCHANGED <<icon, title, miss, todo>>

\* The app closes.
Closes ==
  /\ \E f \in Fetches : saw[f] # Idle
  /\ saw' = [f \in Fetches |-> Idle]
  /\ todo' = [f \in Fetches |-> [h \in Sites |-> "no"]]
  /\ UNCHANGED <<icon, title, miss, current, looked>>

\* It comes back in a release with a higher RULES_VERSION, whose
\* load_cached_title may reject a title that was good enough before.
Upgrade ==
  /\ \A f \in Fetches : saw[f] = Idle
  /\ current
  /\ current' = FALSE
  /\ miss' = [h \in Sites |-> IF miss[h] = "none" THEN "none" ELSE "old"]
  /\ title' \in SUBSET title
  /\ looked' = {}
  /\ UNCHANGED <<icon, saw, todo>>

FaviconNext ==
  \/ \E f \in Fetches : \/ StartFetch(f) \/ EndFetch(f)
                        \/ \E h \in Sites : FetchHome(f, h) \/ FetchIcon(f, h)
  \/ Closes \/ Upgrade

FaviconSpec == FaviconInit /\ [][FaviconNext]_faviconVars
-----------------------------------------------------------------------------
(* Property. *)

\* Once a fetch that found the cache out of date has marked it, none of the
\* hosts it had before it goes without an icon because of what older rules had
\* found, whatever other fetches ran meanwhile or were cut short before.
MarkedIsReevaluated ==
  current => \A h \in looked : miss[h] = "old" => h \in icon
=============================================================================
