------------------------------ MODULE Overlay -------------------------------
(***************************************************************************)
(* What the list shows while changes wait in the outbox (lib.rs            *)
(* rebuild_dtos, apply_outbox_overlay, list_items), against what becomes   *)
(* of them on the chain when the outbox drains (apply_outbox_op, session). *)
(*                                                                         *)
(* Every change that waits is committed and cleared by a thread of its own *)
(* (commit_durable), or in the order of the outbox by replay_outbox: the   *)
(* commits are under way together, and end in any order.  The commit of an *)
(* edit or a deletion carries the version of the login it fetched; if the  *)
(* chain has another by then the server does not take it, and the commit   *)
(* counts as done all the same.                                            *)
(*                                                                         *)
(* Logins are entities in a sequence, for nothing keeps two of them from   *)
(* having the same key (site and user).  A row keeps the id, that is the   *)
(* key, of the login it was made from.  Bookmarks are a set, by their      *)
(* guids, each under a folder or at the top.                               *)
(***************************************************************************)
EXTENDS Naturals, SequencesExt

CONSTANTS
  Realms, Users,  \* a login's signon_realm and user name
  RealmOf,        \* RealmOf[w]: the realm of a web site as it is typed
  Titles,         \* display names; NoTitle is none of them
  Passwords,
  NoTitle,
  Bookmarks,      \* guids
  ParentOf,       \* ParentOf[b]: the folder's guid, or Top
  UrlOf,          \* of a bookmark; a folder has none
  Top, NoUrl,
  None,           \* no forecast, no login
  MaxQueued,      \* bound on the changes that are queued
  MaxLogins,      \* bound on the logins of the chain
  MaxForeign      \* bound on the changes of other devices

Websites == DOMAIN RealmOf

ASSUME OverlayAssumption ==
  /\ RealmOf \in [Websites -> Realms]
  /\ NoTitle \notin Titles
  /\ Top \notin Bookmarks
  /\ ParentOf \in [Bookmarks -> Bookmarks \cup {Top}]
  /\ \A b \in Bookmarks : ParentOf[b] \in Bookmarks => UrlOf[ParentOf[b]] = NoUrl
  /\ {MaxQueued, MaxForeign} \subseteq Nat /\ MaxLogins \in Nat \ {0}

\* Folders are in folders, and none is within itself: in any set of bookmarks
\* there is one whose folder is not in the set.
ASSUME FoldersAssumption ==
  \A S \in (SUBSET Bookmarks) \ {{}} : \E b \in S : ParentOf[b] \notin S

VARIABLES
  logins,    \* the chain: its logins
  marks,     \* the chain: its bookmarks
  outbox,    \* the changes that wait, oldest first
  commits,   \* how far the commit of each is, and the login it fetched
  rows,      \* AppState: pw_dtos, and bm_dtos with their duplicate flags
  queued,    \* changes queued so far
  foreign,   \* changes of other devices so far
  forecast   \* history: what the rows of the last sync showed, as long as
             \* nothing but the commits happened to chain and outbox

overlayVars == <<logins, marks, outbox, commits, rows, queued, foreign, forecast>>

\* Versions are compared, never ordered: as many as there can be in use, and one.
Versions == 0..MaxLogins + MaxQueued
Login == [site : Realms, user : Users, title : Titles \cup {NoTitle}, pass : Passwords,
          version : Versions]
LoginKey == (Realms \cup Websites) \X Users

Op == [op : {"edit"}, id : LoginKey, user : Users, title : Titles \cup {NoTitle}, pass : Passwords]
  \cup [op : {"new"}, site : Websites, user : Users, title : Titles, pass : Passwords]
  \cup [op : {"delete"}, id : LoginKey]
  \cup [op : {"unmark"}, guid : Bookmarks]

\* "queued": it waits; "fetched": its login is read, the commit not yet answered;
\* "answered": committed, or taken for it, and the entry not yet cleared.
Commit == [stage : {"queued", "fetched", "answered"}, target : Login \cup {None}]

Row == [id : LoginKey, site : Realms \cup Websites, user : Users,
        title : Titles \cup {NoTitle}, pass : Passwords,
        reused : BOOLEAN, conflict : BOOLEAN]

OverlayTypeOK ==
  /\ logins \in Seq(Login) /\ Len(logins) <= MaxLogins
  /\ marks \subseteq Bookmarks
  /\ outbox \in Seq(Op) /\ Len(outbox) <= queued
  /\ commits \in Seq(Commit) /\ Len(commits) = Len(outbox)
  /\ rows.pw \in Seq(Row)
  /\ rows.bm \subseteq Bookmarks /\ rows.dup \subseteq rows.bm
  /\ queued \in 0..MaxQueued /\ foreign \in 0..MaxForeign
-----------------------------------------------------------------------------
(* The rows. *)

\* PasswordItem::key
KeyOf(login) == <<login.site, login.user>>

\* password_dto
RowOf(login) ==
  [id |-> KeyOf(login), site |-> login.site, user |-> login.user,
   title |-> login.title, pass |-> login.pass, reused |-> FALSE, conflict |-> FALSE]

\* compute_password_flags
Flagged(pw) ==
  LET Others(n) == (DOMAIN pw) \ {n}
      Reused(n) == \E m \in Others(n) : pw[m].pass = pw[n].pass
      Conflict(n) == \E m \in Others(n) :
        pw[m].site = pw[n].site /\ pw[m].user = pw[n].user /\ pw[m].pass # pw[n].pass
  IN  [n \in DOMAIN pw |->
         [id |-> pw[n].id, site |-> pw[n].site, user |-> pw[n].user,
          title |-> pw[n].title, pass |-> pw[n].pass,
          reused |-> Reused(n), conflict |-> Conflict(n)]]

\* compute_bookmark_flags
Duplicates(bm) ==
  {b \in bm : UrlOf[b] # NoUrl /\ \E c \in bm \ {b} : UrlOf[c] = UrlOf[b]}

\* Mutant of Patched: the user name stays as it was.
PatchedSecret(row, op) ==
  IF row.id # op.id THEN row
  ELSE [row EXCEPT !.title = IF op.title = NoTitle THEN row.title ELSE op.title,
                   !.pass = op.pass]

\* An edit of an existing password: every row of that id.
Patched(row, op) ==
  IF row.id # op.id THEN row
  ELSE [row EXCEPT !.title = IF op.title = NoTitle THEN row.title ELSE op.title,
                   !.user = op.user, !.pass = op.pass]

\* A deletion of a password: retain the rows of another id.
Retain(pw, id) ==
  FoldLeft(LAMBDA kept, row : IF row.id = id THEN kept ELSE Append(kept, row), <<>>, pw)

\* The match of apply_outbox_overlay, for one entry and the passwords' rows.
OverlayOne(pw, op) ==
  CASE op.op = "edit" -> [n \in DOMAIN pw |-> Patched(pw[n], op)]
    [] op.op = "new" -> <<RowOf([site |-> op.site, user |-> op.user,
                                 title |-> op.title, pass |-> op.pass])>> \o pw
    [] op.op = "delete" -> Retain(pw, op.id)
    [] op.op = "unmark" -> pw
\* ... and the bookmarks' rows it removes, in whatever order.
Unmarked(queue) == {op.guid : op \in {o \in Range(queue) : o.op = "unmark"}}

\* Mutant of Overlaid: the flags are those of the rows without the overlay.
OverlaidOnly(shown, queue) ==
  [pw |-> FoldLeft(OverlayOne, shown.pw, queue),
   bm |-> shown.bm \ Unmarked(queue), dup |-> shown.dup \ Unmarked(queue)]

\* apply_outbox_overlay: the entries in turn, and then the passwords' flags.
Overlaid(shown, queue) ==
  IF queue = <<>> THEN shown
  ELSE [pw |-> Flagged(FoldLeft(OverlayOne, shown.pw, queue)),
        bm |-> shown.bm \ Unmarked(queue), dup |-> shown.dup \ Unmarked(queue)]

\* rebuild_dtos
Rebuilt(data, queue) ==
  Overlaid([pw |-> Flagged([n \in DOMAIN data.logins |-> RowOf(data.logins[n])]),
            bm |-> data.marks, dup |-> Duplicates(data.marks)], queue)
-----------------------------------------------------------------------------
(* The chain. *)

Positions(key) == {n \in DOMAIN logins : KeyOf(logins[n]) = key}
First(key) == CHOOSE n \in Positions(key) : \A m \in Positions(key) : n <= m

Used == {login.version : login \in Range(logins)}
  \cup {commit.target.version : commit \in {c \in Range(commits) : c.target # None}}
Fresh(v) == v \in Versions \ Used /\ \A u \in Versions \ Used : v <= u

\* commit_edit: the site stays as it is.
Edited(login, op, v) ==
  [login EXCEPT !.user = op.user, !.title = op.title, !.pass = op.pass, !.version = v]

\* commit_new, with normalize_realm.
NewLogin(op, v) ==
  [site |-> RealmOf[op.site], user |-> op.user, title |-> op.title, pass |-> op.pass,
   version |-> v]

DistinctKeys(chain) == \A m, n \in DOMAIN chain : KeyOf(chain[m]) = KeyOf(chain[n]) => m = n

\* What a list shows of the passwords, whatever the order, with the site of a
\* pending row as the chain will have it, and of the bookmarks.
RealmShown(site) == IF site \in Realms THEN site ELSE RealmOf[site]
Seen(shown) ==
  [pw |-> {[site |-> RealmShown(row.site), user |-> row.user, title |-> row.title,
            pass |-> row.pass, conflict |-> row.conflict] : row \in Range(shown.pw)},
   bm |-> shown.bm]
-----------------------------------------------------------------------------
OverlayInit ==
  /\ logins \in UNION {[1..n -> {login \in Login : login.version = 0}] : n \in 0..1}
  /\ marks = Bookmarks
  /\ outbox = <<>> /\ commits = <<>>
  /\ rows = Rebuilt([logins |-> logins, marks |-> marks], outbox)
  /\ queued = 0 /\ foreign = 0
  /\ forecast = None

\* save_item or delete_item on a row that is shown; the commit is not done yet.
Queue(op) ==
  /\ queued < MaxQueued
  /\ op.op \in {"edit", "delete"} => \E row \in Range(rows.pw) : row.id = op.id
  /\ op.op = "unmark" => op.guid \in rows.bm
  /\ outbox' = Append(outbox, op)
  /\ commits' = Append(commits, [stage |-> "queued", target |-> None])
  /\ queued' = queued + 1
  /\ forecast' = None
  /\ UNCHANGED <<logins, marks, rows, foreign>>

\* How far the commit of the n-th change is then.
Goes(n, stage, target) == commits' = [commits EXCEPT ![n] = [stage |-> stage, target |-> target]]

\* An edit or a deletion fetches the first login of its key, or the bookmark; if
\* there is none it fails, and the change stays queued.
Fetch(n) ==
  /\ commits[n].stage = "queued"
  /\ \/ /\ outbox[n].op \in {"edit", "delete"} /\ Positions(outbox[n].id) # {}
        /\ Goes(n, "fetched", logins[First(outbox[n].id)])
     \/ /\ outbox[n].op = "unmark" /\ outbox[n].guid \in marks
        /\ Goes(n, "fetched", None)
  /\ UNCHANGED <<logins, marks, outbox, rows, queued, foreign, forecast>>

\* What the commit makes of the chain, if the login is still as it was fetched.
Accepted(op, commit) ==
  \/ /\ op.op = "new" /\ commit.stage = "queued" /\ Len(logins) < MaxLogins
     /\ \E v \in Versions : Fresh(v) /\ logins' = Append(logins, NewLogin(op, v))
     /\ UNCHANGED marks
  \/ /\ op.op = "edit" /\ commit.stage = "fetched"
     /\ \E p \in DOMAIN logins, v \in Versions :
          /\ logins[p] = commit.target /\ Fresh(v)
          /\ logins' = [logins EXCEPT ![p] = Edited(commit.target, op, v)]
     /\ UNCHANGED marks
  \/ /\ op.op = "delete" /\ commit.stage = "fetched"
     /\ \E p \in DOMAIN logins : logins[p] = commit.target /\ logins' = RemoveAt(logins, p)
     /\ UNCHANGED marks
  \/ /\ op.op = "unmark" /\ commit.stage = "fetched" /\ op.guid \in marks
     /\ marks' = marks \ {op.guid}
     /\ UNCHANGED logins

\* The server takes the commit; its answer may be lost, or the app may close
\* before the entry is cleared, and then the change waits again.
Post(n, lost) ==
  /\ Accepted(outbox[n], commits[n])
  /\ Goes(n, IF lost THEN "queued" ELSE "answered", None)
  /\ forecast' = IF DistinctKeys(logins') THEN forecast ELSE None
  /\ UNCHANGED <<outbox, rows, queued, foreign>>

\* The server refuses the commit of a login or bookmark that has changed since
\* it was fetched; commit_entity does not see that.
Conflict(n) ==
  /\ commits[n].stage = "fetched"
  /\ IF outbox[n].op = "unmark" THEN outbox[n].guid \notin marks
                                ELSE commits[n].target \notin Range(logins)
  /\ Goes(n, "answered", None)
  /\ UNCHANGED <<logins, marks, outbox, rows, queued, foreign, forecast>>

\* The commit does not get to the server, or the app closes.
Fails(n) ==
  /\ commits[n].stage = "fetched"
  /\ Goes(n, "queued", None)
  /\ UNCHANGED <<logins, marks, outbox, rows, queued, foreign, forecast>>

\* outbox_remove, after an answer that is Ok.
Clear(n) ==
  /\ commits[n].stage = "answered"
  /\ outbox' = RemoveAt(outbox, n) /\ commits' = RemoveAt(commits, n)
  /\ UNCHANGED <<logins, marks, rows, queued, foreign, forecast>>

\* The key under which the login of a new item or an edit is on the chain then.
MadeKey(op) == IF op.op = "new" THEN <<RealmOf[op.site], op.user>> ELSE <<op.id[1], op.user>>

\* The keys a change is about: of the login it finds, and of the one it leaves.
Touched(op) ==
  (IF op.op \in {"edit", "delete"} THEN {op.id} ELSE {})
    \cup (IF op.op \in {"edit", "new"} THEN {MadeKey(op)} ELSE {})

\* The n-th change is one of which the row can be foreseen: it still waits, it
\* does not take a title away, a web site it names is not the realm of another
\* kind of login, no other change is about a key of its own, and its login is on
\* the chain under the key that the row had and, if it is fetched, as it was.
Plain(n) ==
  /\ commits[n].stage # "answered"
  /\ outbox[n].op = "edit" => outbox[n].title # NoTitle
  /\ outbox[n].op = "new" => RealmShown(outbox[n].site) = RealmOf[outbox[n].site]
  /\ \A m \in DOMAIN outbox \ {n} : Touched(outbox[m]) \cap Touched(outbox[n]) = {}
  /\ outbox[n].op \in {"edit", "delete"} =>
       /\ Positions(outbox[n].id) # {}
       /\ commits[n].stage = "fetched" => commits[n].target \in Range(logins)

\* A sync; an unlock makes the rows in the same way, of the cached data.
SyncRows ==
  /\ rows' = Rebuilt([logins |-> logins, marks |-> marks], outbox)
  /\ forecast' = IF DistinctKeys(logins) /\ \A n \in DOMAIN outbox : Plain(n)
                   THEN Seen(rows') ELSE None
  /\ UNCHANGED <<logins, marks, outbox, commits, queued, foreign>>

\* Another device adds, changes or deletes a login or a bookmark; or a replay
\* commits a change that its own command is committing too.
Foreign ==
  /\ foreign < MaxForeign
  /\ foreign' = foreign + 1
  /\ \/ \E v \in Versions : Fresh(v) /\ \E new \in {login \in Login : login.version = v} :
          /\ UNCHANGED marks
          /\ \/ Len(logins) < MaxLogins /\ logins' = Append(logins, new)
             \/ \E n \in DOMAIN logins : logins' = [logins EXCEPT ![n] = new]
     \/ \E n \in DOMAIN logins : logins' = RemoveAt(logins, n) /\ UNCHANGED marks
     \/ \E b \in marks : marks' = marks \ {b} /\ UNCHANGED logins
  /\ forecast' = None
  /\ UNCHANGED <<outbox, commits, rows, queued>>

OverlayNext ==
  \/ \E op \in Op : Queue(op)
  \/ \E n \in DOMAIN outbox :
       \/ Fetch(n) \/ Conflict(n) \/ Fails(n) \/ Clear(n)
       \/ \E lost \in BOOLEAN : Post(n, lost)
  \/ SyncRows \/ Foreign

OverlaySpec == OverlayInit /\ [][OverlayNext]_overlayVars
-----------------------------------------------------------------------------
(* list_items. *)

\* The view "bookmarks": the top when no folder is open, or a folder's content.
Listed(folder) ==
  {b \in rows.bm : IF folder = Top THEN ParentOf[b] \notin rows.bm ELSE ParentOf[b] = folder}

\* By opening folders from the top one gets to see what is in every such set: it
\* has the rows at the top and what is in its folders.
OpenedSet(S) ==
  /\ Listed(Top) \subseteq S
  /\ \A b \in S : UrlOf[b] = NoUrl => Listed(b) \subseteq S
-----------------------------------------------------------------------------
(* Properties. *)

\* "reflects the state we KNOW will be remote once the outbox drains": if the
\* outbox drains, in whatever order and with whatever failures, and nothing else
\* happens, the rows of a sync before are those after; unless two logins have one
\* key, an edit takes the title away, a web site that is typed is itself the
\* realm of another kind of login, two of the changes are about one login, or at
\* the sync the login of a change is not there or was changed since its commit
\* fetched it, or a change that is committed is not yet cleared.
ForeseenIsDrained ==
  outbox = <<>> /\ forecast # None =>
    Seen(Rebuilt([logins |-> logins, marks |-> marks], <<>>)) = forecast

\* No bookmark is hidden by the deletion of a folder above it, here or on
\* another device, and a password that is flagged as reused or mismatched has
\* the row it is compared with in the list.
NothingHidden ==
  /\ \A S \in SUBSET Bookmarks : OpenedSet(S) => rows.bm \subseteq S
  /\ rows.pw = Flagged(rows.pw)
=============================================================================
