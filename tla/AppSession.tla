------------------------------ MODULE AppSession ------------------------------
(***************************************************************************)
(* The desktop app's session (lib.rs AppState, App.jsx App/Unlock/Setup):  *)
(* what is in memory and on the screen, what is in the vault file, and     *)
(* which sync chain both belong to.                                        *)
(*                                                                         *)
(* Commands that are not async run one after the other on the main thread. *)
(* A sync and the favicon fetch behind it are async: each is a thread that *)
(* the main thread's commands, lock and unlock among them, interleave with.*)
(*                                                                         *)
(* Items are told apart by the chain they are of and how recent they are:  *)
(* one content stands for the whole list that a fetch returned.            *)
(***************************************************************************)
EXTENDS VaultFile

CONSTANTS
  Chains,       \* the sync chains: their mnemonics
  Syncs,        \* runs of doSync that may overlap
  main,         \* the main thread
  Ids,          \* what can be made a favorite
  None,
  MaxVersion,   \* bound on the changes others make to a chain
  MaxLocks      \* bound on how often the user locks the vault

ASSUME SessionAssumption ==
  /\ Threads = Syncs \cup {main} /\ main \notin Syncs
  /\ None \notin Chains
  /\ MaxVersion \in Nat /\ MaxLocks \in Nat

VARIABLES
  st,           \* AppState
  screen,       \* which of its screens the UI shows
  pc,
  snap,         \* the mnemonic a sync took along
  got,          \* what its fetch returned
  server,       \* how often each chain was changed
  locks,
  late,         \* history: a sync was under way when the vault was last locked
  racing        \* history: two syncs were under way at a time

sessionVars == <<st, screen, pc, snap, got, server, locks, late, racing>>
vars == <<fileVars, sessionVars>>

Nothing == [chain |-> None, version |-> 0]
Content == [chain : Chains, version : 0..MaxVersion] \cup {Nothing}

\* The sections of VaultData a session uses; cached is cached_items,
\* cached_bookmarks and the other caches, which are always written together.
Data == [mnemonic : Chains \cup {None}, cached : Content, favorites : SUBSET Ids]

ASSUME DefaultAssumption ==
  /\ DefaultData = [mnemonic |-> None, cached |-> Nothing, favorites |-> {}]
  /\ Unreadable \notin Data

\* passwords are the editable records, pw_dtos the rows on the screen.  The
\* rows of the other lists always follow their records: bookmarks, and others
\* for identities, reading list, tab groups, open tabs and devices.
AppState ==
  [config : BOOLEAN, mnemonic : Chains \cup {None}, favorites : SUBSET Ids,
   passwords : Content, pw_dtos : Content, bookmarks : Content, others : Content]

Fresh == [config |-> FALSE, mnemonic |-> None, favorites |-> {},
          passwords |-> Nothing, pw_dtos |-> Nothing, bookmarks |-> Nothing,
          others |-> Nothing]

Command == {"generate", "join", "toggle"}
SyncStep == {"fetch", "fetched", "save", "refill", "icons", "fetchicons"}

TypeOK ==
  /\ FileTypeOK(Data)
  /\ st \in AppState
  /\ screen \in {"unlock", "checking", "setup", "main"}
  /\ pc \in [Threads -> {"idle"} \cup Command \cup SyncStep]
  /\ snap \in [Syncs -> Chains \cup {None}]
  /\ got \in [Syncs -> Content]
  /\ server \in [Chains -> 0..MaxVersion]
  /\ locks \in 0..MaxLocks
  /\ late \in BOOLEAN
  /\ racing \in BOOLEAN

Init ==
  /\ FileInit(DefaultData)
  /\ st = Fresh
  /\ screen = "unlock"
  /\ pc = [t \in Threads |-> "idle"]
  /\ snap = [s \in Syncs |-> None]
  /\ got = [s \in Syncs |-> Nothing]
  /\ server = [c \in Chains |-> 0]
  /\ locks = 0
  /\ late = FALSE
  /\ racing = FALSE

UnderWay == {s \in Syncs : pc[s] # "idle"}

\* generate_chain and toggle_favorite keep AppState locked while they write.
StateLocked == pc[main] \in {"generate", "toggle"}

MainIdle(on) == pc[main] = "idle" /\ screen = on
-----------------------------------------------------------------------------
(* unlock, has_chain and lock. *)

\* Mutant of Opened: the favorites of the file are not taken over.
OpenedPlain(data) ==
  [st EXCEPT !.config = TRUE, !.mnemonic = data.mnemonic, !.pw_dtos = data.cached,
             !.bookmarks = data.cached, !.others = data.cached]

\* What unlock puts in memory: the records of the passwords stay as they are.
Opened(data) ==
  [st EXCEPT !.config = TRUE, !.mnemonic = data.mnemonic,
             !.favorites = data.favorites, !.pw_dtos = data.cached,
             !.bookmarks = data.cached, !.others = data.cached]

\* unlock with the right password; a file that does not open leaves the state
\* as it is, and still counts as unlocked.
Unlock ==
  /\ MainIdle("unlock")
  /\ LoadAndLook
  /\ st' = IF file = Unreadable THEN [st EXCEPT !.config = TRUE] ELSE Opened(file)
  /\ screen' = "checking"
  /\ UNCHANGED <<pc, snap, got, server, locks, late, racing>>

\* Mutant of HasChain: a vault in which nothing is cached yet has no chain.
HasItems == file # Unreadable /\ file.cached # Nothing

HasChain == file # Unreadable /\ file.mnemonic # None

\* The UI asks has_chain, a call of its own, which screen comes next.
ChooseScreen ==
  /\ MainIdle("checking")
  /\ LoadAndLook
  /\ screen' = IF HasChain THEN "main" ELSE "setup"
  /\ UNCHANGED <<st, pc, snap, got, server, locks, late, racing>>

\* Mutant of Cleared: the rows are emptied, the records behind them are not.
ClearedRows == [st EXCEPT !.pw_dtos = Nothing, !.mnemonic = None]

Cleared == [st EXCEPT !.passwords = Nothing, !.pw_dtos = Nothing,
                      !.bookmarks = Nothing, !.mnemonic = None]

\* lock: the lists the module calls others, and config, stay.
Lock ==
  /\ MainIdle("main")
  /\ locks < MaxLocks
  /\ locks' = locks + 1
  /\ st' = Cleared
  /\ screen' = "unlock"
  /\ late' = (UnderWay # {})
  /\ UNCHANGED <<fileVars, pc, snap, got, server, racing>>
-----------------------------------------------------------------------------
(* Commands of the main thread that write the vault back. *)

BeginGenerate(c) ==
  /\ MainIdle("setup")
  /\ LoadAndSet(main, [LoadVault EXCEPT !.mnemonic = c])
  /\ pc' = [pc EXCEPT ![main] = "generate"]
  /\ UNCHANGED <<st, screen, snap, got, server, locks, late, racing>>

\* Mutant of BeginJoin: no unwrap_or_default.
JoinRaw(c) ==
  /\ MainIdle("setup")
  /\ LoadAndSet(main, IF file = Unreadable THEN file ELSE [file EXCEPT !.mnemonic = c])
  /\ pc' = [pc EXCEPT ![main] = "join"]
  /\ UNCHANGED <<st, screen, snap, got, server, locks, late, racing>>

BeginJoin(c) ==
  /\ MainIdle("setup")
  /\ LoadAndSet(main, [LoadVault EXCEPT !.mnemonic = c])
  /\ pc' = [pc EXCEPT ![main] = "join"]
  /\ UNCHANGED <<st, screen, snap, got, server, locks, late, racing>>

\* The list in memory, with i in it or not, replaces the one in the file.
BeginToggle(i) ==
  /\ MainIdle("main")
  /\ LET favorites == IF i \in st.favorites THEN st.favorites \ {i}
                      ELSE st.favorites \cup {i}
     IN  /\ st' = [st EXCEPT !.favorites = favorites]
         /\ LoadAndSet(main, [LoadVault EXCEPT !.favorites = favorites])
  /\ pc' = [pc EXCEPT ![main] = "toggle"]
  /\ UNCHANGED <<screen, snap, got, server, locks, late, racing>>

BeginWrite(t) ==
  /\ pc[t] \in Command \cup {"save"}
  /\ Truncate(t)
  /\ UNCHANGED sessionVars

\* Only now the new chain is in memory; the lists in memory are not touched.
EndCommand ==
  /\ pc[main] \in Command
  /\ Fill(main)
  /\ pc' = [pc EXCEPT ![main] = "idle"]
  /\ st' = IF pc[main] = "toggle" THEN st
           ELSE [st EXCEPT !.mnemonic = copy[main].mnemonic]
  /\ screen' = IF pc[main] = "join" THEN "main" ELSE screen
  /\ UNCHANGED <<snap, got, server, locks, late, racing>>
-----------------------------------------------------------------------------
(* doSync: sync, and fetch_favicons when it is done. *)

SyncStepTo(s, from, to) ==
  /\ pc[s] = from
  /\ pc' = [pc EXCEPT ![s] = to]

\* The main screen calls sync; it takes its credentials from the state.
StartSync(s) ==
  /\ SyncStepTo(s, "idle", "fetch")
  /\ screen = "main" /\ ~StateLocked
  /\ st.config /\ st.mnemonic # None
  /\ snap' = [snap EXCEPT ![s] = st.mnemonic]
  /\ racing' = (racing \/ UnderWay # {})
  /\ UNCHANGED <<fileVars, st, screen, got, server, locks, late>>

FetchAll(s) ==
  /\ SyncStepTo(s, "fetch", "fetched")
  /\ got' = [got EXCEPT ![s] = [chain |-> snap[s], version |-> server[snap[s]]]]
  /\ UNCHANGED <<fileVars, st, screen, snap, server, locks, late, racing>>

SyncFails(s) ==
  /\ SyncStepTo(s, "fetch", "idle")
  /\ UNCHANGED <<fileVars, st, screen, snap, got, server, locks, late, racing>>

SyncLoads(s) ==
  /\ SyncStepTo(s, "fetched", "save")
  /\ LoadAndSet(s, [LoadVault EXCEPT !.mnemonic = snap[s], !.cached = got[s]])
  /\ UNCHANGED <<st, screen, snap, got, server, locks, late, racing>>

SyncSaves(s) ==
  /\ SyncStepTo(s, "save", "refill")
  /\ Fill(s)
  /\ UNCHANGED <<st, screen, snap, got, server, locks, late, racing>>

\* Mutant of Refilled: rebuild_dtos runs before the new records are in place.
RefilledLate(content) ==
  [st EXCEPT !.passwords = content, !.pw_dtos = st.passwords,
             !.bookmarks = content, !.others = content]

Refilled(content) ==
  [st EXCEPT !.passwords = content, !.pw_dtos = content,
             !.bookmarks = content, !.others = content]

\* The state is filled whatever has become of it since the sync started.
Refill(s) ==
  /\ SyncStepTo(s, "refill", "icons")
  /\ ~StateLocked
  /\ st' = Refilled(got[s])
  /\ UNCHANGED <<fileVars, screen, snap, got, server, locks, late, racing>>

\* fetch_favicons looks at the hosts of the records there are now; when all of
\* them are cached it is over.
StartFavicons(s) ==
  /\ pc[s] = "icons" /\ ~StateLocked
  /\ \/ pc' = [pc EXCEPT ![s] = "idle"]
     \/ /\ st.passwords # Nothing \/ st.bookmarks # Nothing
        /\ pc' = [pc EXCEPT ![s] = "fetchicons"]
  /\ UNCHANGED <<fileVars, st, screen, snap, got, server, locks, late, racing>>

\* It ends with rebuild_dtos, over the records there are then.
EndFavicons(s) ==
  /\ SyncStepTo(s, "fetchicons", "idle")
  /\ ~StateLocked
  /\ st' = [st EXCEPT !.pw_dtos = st.passwords]
  /\ UNCHANGED <<fileVars, screen, snap, got, server, locks, late, racing>>
-----------------------------------------------------------------------------
\* Another device, or a mutation of this one, changes the chain.
Change(c) ==
  /\ server[c] < MaxVersion
  /\ server' = [server EXCEPT ![c] = @ + 1]
  /\ UNCHANGED <<fileVars, st, screen, pc, snap, got, locks, late, racing>>

\* The app is closed and started again.
Restart ==
  /\ locks < MaxLocks
  /\ locks' = locks + 1
  /\ ProcessEnds
  /\ st' = Fresh
  /\ screen' = "unlock"
  /\ pc' = [t \in Threads |-> "idle"]
  /\ late' = FALSE
  /\ UNCHANGED <<snap, got, server, racing>>

MainThread ==
  \/ Unlock \/ ChooseScreen \/ Lock
  \/ \E c \in Chains : BeginGenerate(c) \/ BeginJoin(c)
  \/ \E i \in Ids : BeginToggle(i)
  \/ EndCommand

Sync(s) ==
  \/ StartSync(s) \/ FetchAll(s) \/ SyncFails(s) \/ SyncLoads(s)
  \/ SyncSaves(s) \/ Refill(s) \/ StartFavicons(s) \/ EndFavicons(s)

Next ==
  \/ MainThread
  \/ \E s \in Syncs : Sync(s)
  \/ \E t \in Threads : BeginWrite(t)
  \/ \E c \in Chains : Change(c)
  \/ Restart

Spec == Init /\ [][Next]_vars
-----------------------------------------------------------------------------
(* Properties.  The first says what lock achieves when no sync was under    *)
(* way; a late sync or favicon fetch fills the state again.  The others are *)
(* about what holds while no two load-to-write spans of the vault file      *)
(* overlap, nor a load with a write.                                        *)

\* A locked vault holds no passwords and no bookmarks, in any of the lists.
LockedIsEmpty ==
  screen = "unlock" /\ ~late =>
    Nothing = st.passwords /\ Nothing = st.pw_dtos /\ Nothing = st.bookmarks

OfChain(content, chain) ==
  content # Nothing /\ chain # None => content.chain = chain

\* Items of one chain are never shown, nor kept in the vault, under the
\* mnemonic of another: edits of them would go to the wrong chain.  It takes a
\* way to the setup screen while a sync is under way.
OfOneChain ==
  ~overlapped =>
    /\ OfChain(st.passwords, st.mnemonic) /\ OfChain(st.pw_dtos, st.mnemonic)
    /\ OfChain(st.bookmarks, st.mnemonic) /\ OfChain(st.others, st.mnemonic)
    /\ file # Unreadable => OfChain(file.cached, file.mnemonic)

\* Between two commands memory and vault agree on the chain and the favorites,
\* whatever a sync wrote back in the meantime.
InStep ==
  MainIdle("main") /\ ~overlapped /\ file # Unreadable =>
    st.mnemonic = file.mnemonic /\ st.favorites = file.favorites

\* At rest the list on the screen is the one the vault has cached: neither
\* empty nor older, if syncs come one at a time and none outlives a lock.
ShownIsCached ==
  /\ MainIdle("main") /\ UnderWay = {}
  /\ ~overlapped /\ ~late /\ ~racing /\ file # Unreadable
  => st.pw_dtos = file.cached
=============================================================================
