------------------------------ MODULE SyncPull ------------------------------
(***************************************************************************)
(* Reading the sync chain and committing what was made of it (session.rs,  *)
(* client.rs, keybag.rs): the key bag is built first, then each data type  *)
(* is paged by progress token until the token no longer changes, while     *)
(* other devices go on writing; at last one of the logins that were read   *)
(* may be edited or deleted.                                               *)
(*                                                                         *)
(* Two data types stand for the seven: the logins, without which a pull    *)
(* fails, and the tabs, which are an empty list when they cannot be read.  *)
(* Saved tab groups with their tabs and sessions (a header for a device,   *)
(* and its tabs) are read in the same way and shown differently.           *)
(*                                                                         *)
(* The server is external.  It keeps one version of each entity, numbered  *)
(* by the time of its last change, and answers a request with the versions *)
(* changed since the token, oldest first.                                  *)
(***************************************************************************)
EXTENDS Integers, FiniteSets, SequencesExt

CONSTANTS
  Logins,        \* entities: passwords
  Groups, Tabs,  \* entities: saved tab groups or devices, and tabs in them
  GroupOf,       \* GroupOf[t]: the group of a tab
  PageSize,      \* versions in an answer
  MaxPolls,      \* the safety cap of fetch_all
  MaxWrites,     \* bound on what other devices change
  MaxKeys        \* bound on the keys of the chain

Entities == Logins \cup Groups \cup Tabs

ASSUME PullAssumption ==
  /\ Groups \cap Tabs = {} /\ Logins \cap (Groups \cup Tabs) = {}
  /\ GroupOf \in [Tabs -> Groups]
  /\ IsFiniteSet(Entities)
  /\ {PageSize, MaxPolls, MaxWrites, MaxKeys} \subseteq Nat \ {0}

VARIABLES
  store,      \* the server: the version of each entity
  clock,      \* the server: the time of the last change
  nigori,     \* the keys in the chain's Nigori node, the default key first
  phase,      \* what the client is doing: the data type it reads, if any
  bag,        \* its KeyBag
  token,      \* its progress token
  all,        \* the versions it has received of each data type, in order
  polls,
  short,      \* history: the types cut off at the cap or by an error
  started,    \* history: the time when it began
  dropped     \* history: the entity of a commit that was ignored, though
              \* nobody had changed it since the client began

pullVars == <<store, clock, nigori, phase, bag, token, all, polls, short,
              started, dropped>>

DataTypes == {"logins", "tabs"}
Key == 1..MaxKeys
Version == [entity : Entities, time : Nat, live : BOOLEAN, key : Key]

PullTypeOK ==
  /\ store \in [Entities -> Version]
  /\ clock \in Nat
  /\ nigori \in Seq(Key) /\ bag \in Seq(Key)
  /\ phase \in {"idle", "logins", "tabs", "done"}
  /\ token \in -1..clock
  /\ all \in [DataTypes -> Seq(Version)]
  /\ polls \in 0..MaxPolls - 1
  /\ short \subseteq DataTypes
  /\ started \in Nat
  /\ dropped \subseteq Entities

\* Every entity is on the chain, unchanged since time 1 or later.
PullInit ==
  /\ \E time \in Injection(Entities, 1..Cardinality(Entities)) :
       store = [e \in Entities |->
                  [entity |-> e, time |-> time[e], live |-> TRUE, key |-> 1]]
  /\ clock = Cardinality(Entities)
  /\ nigori = <<1>>
  /\ phase = "idle"
  /\ bag = <<>>
  /\ token = -1
  /\ all = [t \in DataTypes |-> <<>>]
  /\ polls = 0
  /\ short = {}
  /\ started = 0
  /\ dropped = {}
-----------------------------------------------------------------------------
(* The server, and other devices. *)

Writes == clock - Cardinality(Entities)

Put(e, live, key) ==
  /\ clock' = clock + 1
  /\ store' = [store EXCEPT ![e] = [entity |-> e, time |-> clock + 1,
                                    live |-> live, key |-> key]]

\* Another device writes an entity with the default key, or deletes it.
OtherWrites(e, live) ==
  /\ Writes < MaxWrites
  /\ Put(e, live, IF live THEN Head(nigori) ELSE store[e].key)
  /\ UNCHANGED <<nigori, phase, bag, token, all, polls, short, started, dropped>>

\* A device gives the chain another key; the old ones stay in the node.
Rotate ==
  /\ Len(nigori) < MaxKeys
  /\ nigori' = <<Len(nigori) + 1>> \o nigori
  /\ UNCHANGED <<store, clock, phase, bag, token, all, polls, short, started, dropped>>

TypeOf(e) == IF e \in Logins THEN "logins" ELSE "tabs"

\* What get_updates brings for a token: the next versions, oldest first, and as
\* many of them as there are and an answer holds.
Wanted == {e \in Entities : TypeOf(e) = phase}
Newer == {store[e] : e \in {d \in Wanted : store[d].time > token}}
Pages ==
  {page \in SeqOf(Newer, PageSize) :
     /\ \A m, n \in DOMAIN page : m < n => page[m].time < page[n].time
     /\ \A v \in Newer \ Range(page) :
          /\ Len(page) = PageSize
          /\ \A n \in DOMAIN page : page[n].time < v.time}
-----------------------------------------------------------------------------
(* build_keybag and fetch_all. *)

\* Mutant of BeginPull: what an earlier pull read is kept.
BeginPullOnTop ==
  /\ phase = "idle"
  /\ phase' = "logins"
  /\ bag' = nigori
  /\ token' = -1
  /\ polls' = 0
  /\ short' = {}
  /\ started' = clock
  /\ UNCHANGED <<store, clock, nigori, all, dropped>>

\* fetch_nigori, the key bag, and the empty token.
BeginPull ==
  /\ phase = "idle"
  /\ phase' = "logins"
  /\ bag' = nigori
  /\ token' = -1
  /\ all' = [t \in DataTypes |-> <<>>]
  /\ polls' = 0
  /\ short' = {}
  /\ started' = clock
  /\ UNCHANGED <<store, clock, nigori, dropped>>

\* Mutant of CaughtUp: a poll without entries is the last.
NothingCame(page, next) == page = <<>>

\* "Stop only when the token stops changing."
CaughtUp(page, next) == next = token

Reading == phase \in DataTypes

\* The pull of this data type is over: the next one, with an empty token.
EndType ==
  /\ phase' = IF phase = "logins" THEN "tabs" ELSE "done"
  /\ token' = -1
  /\ polls' = 0

\* One poll: the entities of the answer are added to those there are.
Take(page, next) ==
  LET stop == CaughtUp(page, next)
      cap == polls + 1 = MaxPolls
  IN  /\ all' = [all EXCEPT ![phase] = @ \o page]
      /\ short' = IF cap /\ ~stop THEN short \cup {phase} ELSE short
      /\ IF stop \/ cap
           THEN EndType
           ELSE token' = next /\ polls' = polls + 1 /\ UNCHANGED phase

\* The first answer may hold nothing but the type's root node.
Poll ==
  /\ Reading
  /\ \/ token = -1 /\ Take(<<>>, 0)
     \/ \E page \in Pages :
          Take(page, IF page = <<>> THEN token ELSE page[Len(page)].time)
  /\ UNCHANGED <<store, clock, nigori, bag, started, dropped>>

\* An error of the network or the server while the logins are read.
PullFails ==
  /\ phase = "logins"
  /\ phase' = "idle"
  /\ UNCHANGED <<store, clock, nigori, bag, token, all, polls, short, started, dropped>>

\* ... and while the others are: unwrap_or_default.
TypeFails ==
  /\ phase = "tabs"
  /\ all' = [all EXCEPT !["tabs"] = <<>>]
  /\ short' = short \cup {"tabs"}
  /\ EndType
  /\ UNCHANGED <<store, clock, nigori, bag, started, dropped>>
-----------------------------------------------------------------------------
(* What is made of the entities. *)

\* KeyBag::decrypt: some key of the bag authenticates the blob.
Decrypts(version) == version.key \in Range(bag)

\* decode_specifics for an entity that is not a tombstone; one that no key
\* opens is skipped.
Readable(version) == version.live /\ Decrypts(version)

\* The items that are read of a type, by their position.
Items(t) == {n \in DOMAIN all[t] : Readable(all[t][n])}
Read(t) == {all[t][n] : n \in Items(t)}
Shown(t) == {v.entity : v \in Read(t)}
ItemsOf(e) == {n \in Items(TypeOf(e)) : all[TypeOf(e)][n].entity = e}

\* group_name: a later version of a group takes the place of an earlier one.
TitleOf(g) == all["tabs"][Max(ItemsOf(g))].time

\* decrypt_tab_groups: a header for each group, and the tabs under it; the tabs
\* of a group that is not there are left out.
TabRows ==
  [g \in Groups \cap Shown("tabs") |->
     [title |-> TitleOf(g),
      tabs |-> {v \in Read("tabs") : v.entity \in Tabs /\ GroupOf[v.entity] = g}]]

Unknown == "This device"

\* Mutant of DeviceRows: as for groups, a tab needs its header.
HeadedOnly ==
  [d \in Groups \cap Shown("tabs") |->
     {v \in Read("tabs") : v.entity \in Tabs /\ GroupOf[v.entity] = d}]

\* decrypt_sessions: the tabs by device; a header only for devices with tabs,
\* and one more for the tabs of a device that is not there.
DeviceOf(tab) == IF GroupOf[tab] \in Shown("tabs") THEN GroupOf[tab] ELSE Unknown
DeviceRows ==
  [d \in {DeviceOf(t) : t \in Tabs \cap Shown("tabs")} |->
     {v \in Read("tabs") : v.entity \in Tabs /\ DeviceOf(v.entity) = d}]

\* find: the first login of that key as they are sorted, by the title, which may
\* be any of the versions received of it.
Found(e) == {v \in Read("logins") : v.entity = e}
-----------------------------------------------------------------------------
(* commit_edit_by_key, commit_delete_...: commit what was found. *)

\* Mutant of Rekey: encrypt_default for edits too.
FirstKey(version) == Head(bag)

\* reencrypt_matching: the key that opens the old blob seals the new one.
Rekey(version) == version.key

\* The server's check of the version a commit is based on.
IsCurrent(version) == store[version.entity] = version

\* The commit of an edit or, with live = FALSE, of a tombstone.  It succeeds for
\* the client whether or not the server took it.
CommitFound(e, live) ==
  /\ phase = "done" /\ Writes < MaxWrites
  /\ phase' = "idle"
  /\ \E v \in Found(e) :
       IF IsCurrent(v)
         THEN Put(e, live, Rekey(v)) /\ UNCHANGED dropped
         ELSE /\ dropped' = IF store[e].time <= started THEN dropped \cup {e} ELSE dropped
              /\ UNCHANGED <<store, clock>>
  /\ UNCHANGED <<nigori, bag, token, all, polls, short, started>>

\* "item not found", or a sync, which only reads.
Leave ==
  /\ phase = "done"
  /\ phase' = "idle"
  /\ UNCHANGED <<store, clock, nigori, bag, token, all, polls, short, started, dropped>>

PullNext ==
  \/ \E e \in Entities, live \in BOOLEAN : OtherWrites(e, live)
  \/ Rotate \/ BeginPull \/ Poll \/ PullFails \/ TypeFails \/ Leave
  \/ \E e \in Logins, live \in BOOLEAN : CommitFound(e, live)

PullSpec == PullInit /\ [][PullNext]_pullVars
-----------------------------------------------------------------------------
(* Properties. *)

\* The versions that were there when the client began and still are, and that
\* a key of the bag opens.
Settled == {v \in Range(store) : v.time <= started /\ Readable(v)}

\* Whatever other devices do between the pages, what was there from beginning
\* to end is read, once and in its last version, unless its type was cut short
\* (fetch_all at the cap or an error turned into an empty list, which look like
\* a complete answer).  And an item that is read and not on the chain was there
\* until the pull began: it changed between two pages.
PullIsExact ==
  phase = "done" =>
    /\ \A v \in Settled : TypeOf(v.entity) \notin short =>
         \E n \in ItemsOf(v.entity) : ItemsOf(v.entity) = {n} /\ all[TypeOf(v.entity)][n] = v
    /\ \A t \in DataTypes : \A v \in Read(t) :
         \/ store[v.entity].time > started
         \/ store[v.entity] = v /\ v.live

\* Every tab that was read is shown, under its own group and the newest of the
\* group's titles or its own device; only the tabs of a saved group that was
\* not read are left out.
TabsAreShown ==
  phase = "done" =>
    \A v \in {w \in Read("tabs") : w.entity \in Tabs} :
      LET g == GroupOf[v.entity] IN
      /\ \E d \in DOMAIN DeviceRows : v \in DeviceRows[d]
      /\ g \in Shown("tabs") =>
           /\ v \in TabRows[g].tabs
           /\ store[g] \in Read("tabs") => TabRows[g].title = store[g].time

\* "keeps the entity on the same encryption key it already used, so other
\* clients recognize it": no commit of this client changes an entity's key.
EditKeepsKey ==
  [][phase = "done" /\ phase' = "idle" =>
       \A e \in Entities : store'[e].key = store[e].key]_pullVars

\* A commit that is reported as done and was not took place only where someone
\* else changed the entity after the client began.
DroppedOnlyIfChanged == dropped = {}
=============================================================================
