-------------------------- MODULE AppSessionProofs --------------------------
(***************************************************************************)
(* Proofs about AppSession for any chains, syncs, identifiers and bounds.  *)
(*                                                                         *)
(* What a locked vault shows needs only Locked, which holds whatever       *)
(* happens to the file.  The rest is about a file whose load-to-write      *)
(* spans do not overlap, and is stated about the vault: what is in the     *)
(* file, or will be once the write under way is over (VaultFileProofs).    *)
(* Follows says that everything in memory, cached or fetched is of the     *)
(* chain the vault has, that memory agrees with the vault once a command   *)
(* is over, and that a fresh copy is the file with its thread's one        *)
(* change.  The last is what makes it inductive: when that copy is         *)
(* written, nothing else of the vault changes.                             *)
(***************************************************************************)
EXTENDS AppSession, VaultFileProofs

\* How far the threads are, and what screen a command of the main thread needs.
Ways ==
  /\ pc[main] \in {"idle"} \cup Command
  /\ pc[main] \in {"generate", "join"} =>
       screen = "setup" /\ copy[main].mnemonic \in Chains
  /\ pc[main] = "toggle" => screen = "main" /\ copy[main].favorites = st.favorites
  /\ \A s \in Syncs : pc[s] \in {"idle"} \cup SyncStep
  /\ \A s \in UnderWay : snap[s] \in Chains
  /\ \A t \in writing : pc[t] \in Command \cup {"save"}

\* No sync is under way on the lock screen, unless one was when it was locked.
Locked ==
  screen = "unlock" /\ ~late =>
    UnderWay = {} /\ Nothing = st.passwords /\ Nothing = st.pw_dtos /\ Nothing = st.bookmarks

\* What is in memory, cached or on its way is of the chain that the vault has.
Belongs(content) ==
  content # Nothing => Vault # Unreadable /\ content.chain = Vault.mnemonic
StateBelongs ==
  /\ Belongs(st.passwords) /\ Belongs(st.pw_dtos)
  /\ Belongs(st.bookmarks) /\ Belongs(st.others)
  /\ Vault # Unreadable => Belongs(Vault.cached)
SyncsBelong ==
  \A s \in UnderWay :
    /\ Vault # Unreadable /\ snap[s] = Vault.mnemonic
    /\ pc[s] \in {"fetched", "save", "refill"} => got[s].chain = snap[s]

\* Where a chain is chosen there is nothing yet.
SetupIsEmpty ==
  screen = "setup" =>
    /\ UnderWay = {}
    /\ Nothing = st.passwords /\ Nothing = st.pw_dtos
    /\ Nothing = st.bookmarks /\ Nothing = st.others
    /\ Vault # Unreadable => Vault.cached = Nothing

\* Memory follows the vault.
MnemonicFollows ==
  /\ screen = "unlock" => st.mnemonic = None
  /\ screen \in {"checking", "main"} =>
       st.mnemonic = IF Vault = Unreadable THEN None ELSE Vault.mnemonic
  /\ screen = "main" => st.mnemonic # None
FavoritesFollow ==
  /\ Vault # Unreadable /\ screen # "unlock"
  /\ pc[main] # "toggle" \/ main \in writing
  => st.favorites = Vault.favorites

\* A fresh copy is the file with the change its thread makes.
FreshCommand ==
  main \in fresh =>
    /\ pc[main] \in {"generate", "join"} =>
         /\ copy[main].mnemonic \in Chains
         /\ copy[main] = [file EXCEPT !.mnemonic = copy[main].mnemonic]
    /\ pc[main] = "toggle" => copy[main] = [file EXCEPT !.favorites = st.favorites]
FreshSync ==
  \A s \in Syncs \cap fresh : pc[s] = "save" =>
    copy[s] = [file EXCEPT !.mnemonic = snap[s], !.cached = got[s]]

\* The list on the screen is the one the vault has cached, or is about to be.
Landing(s) == pc[s] = "refill" \/ s \in writing
OneSync == ~racing => \A s, r \in UnderWay : s = r
Shown ==
  ~late /\ ~racing /\ screen # "unlock" /\ Vault # Unreadable =>
    /\ \/ st.pw_dtos = Vault.cached
       \/ \E s \in Syncs : Landing(s)
    /\ \A s \in Syncs : Landing(s) => Vault.cached = got[s]
    /\ \A s \in Syncs : pc[s] \in {"icons", "fetchicons"} => st.passwords = st.pw_dtos

Follows ==
  /\ StateBelongs /\ SyncsBelong /\ SetupIsEmpty
  /\ MnemonicFollows /\ FavoritesFollow /\ FreshCommand /\ FreshSync /\ Shown
SessionInv == FileInv /\ Ways /\ Locked /\ OneSync /\ (~overlapped => Follows)
-----------------------------------------------------------------------------
(* Type correctness, together with Ways. *)

TypeInv == TypeOK /\ Ways

LEMMA Names == Threads = Syncs \cup {main} /\ main \notin Syncs /\ None \notin Chains
  BY SessionAssumption

LEMMA Defaults ==
  /\ DefaultData \in Data /\ Unreadable \notin Data
  /\ DefaultData.mnemonic = None /\ DefaultData.cached = Nothing
  /\ DefaultData.favorites = {}
  /\ Nothing \in Content
  BY DefaultAssumption, SessionAssumption DEF Data, Content, Nothing

LEMMA LoadedType ==
  ASSUME TypeOK
  PROVE  LoadVault \in Data
  BY Defaults DEF TypeOK, FileTypeOK, LoadVault

LEMMA FileTypes ==
  ASSUME TypeOK, NEW t \in Threads,
         \/ \E data \in Data : LoadAndSet(t, data)
         \/ LoadAndLook \/ Truncate(t) \/ Fill(t) \/ UNCHANGED fileVars
  PROVE  FileTypeOK(Data)'
  BY FileTypesKept, Defaults DEF TypeOK

\* What is loaded, changed and put in memory.
LEMMA Changes ==
  ASSUME NEW data \in Data, NEW c \in Chains, NEW content \in Content,
         NEW favorites \in SUBSET Ids
  PROVE  /\ [data EXCEPT !.mnemonic = c] \in Data
         /\ [data EXCEPT !.favorites = favorites] \in Data
         /\ [data EXCEPT !.mnemonic = c, !.cached = content] \in Data
  BY DEF Data

LEMMA StateTypes ==
  ASSUME TypeOK, NEW data \in Data, NEW content \in Content
  PROVE  /\ Opened(data) \in AppState /\ Cleared \in AppState
         /\ Refilled(content) \in AppState /\ Fresh \in AppState
         /\ [st EXCEPT !.config = TRUE] \in AppState
         /\ \A m \in Chains \cup {None} : [st EXCEPT !.mnemonic = m] \in AppState
         /\ \A f \in SUBSET Ids : [st EXCEPT !.favorites = f] \in AppState
         /\ [st EXCEPT !.pw_dtos = st.passwords] \in AppState
<1>1. st \in AppState
  BY DEF TypeOK
<1>. QED  BY <1>1, Defaults DEF AppState, Data, Opened, Cleared, Refilled,
             Fresh

LEMMA TypeInit == Init => TypeInv
<1>. SUFFICES ASSUME Init
              PROVE  TypeInv
  OBVIOUS
<1>1. FileTypeOK(Data)
  <2>1. copy \in [Threads -> Data]
    BY Defaults DEF Init, FileInit
  <2>. QED  BY <2>1, Defaults DEF Init, FileInit, FileTypeOK
<1>2. st \in AppState
  BY Defaults DEF Init, AppState, Fresh
<1>3. got \in [Syncs -> Content] /\ snap \in [Syncs -> Chains \cup {None}]
  BY Defaults DEF Init
<1>4. server \in [Chains -> 0..MaxVersion]
  BY SessionAssumption DEF Init
<1>5. TypeOK
  <2>1. pc \in [Threads -> {"idle"} \cup Command \cup SyncStep]
    BY DEF Init
  <2>2. late \in BOOLEAN /\ racing \in BOOLEAN
    BY Zenon DEF Init
  <2>3. locks \in 0..MaxLocks
    BY SessionAssumption DEF Init
  <2>. QED  BY <1>1, <1>2, <1>3, <1>4, <2>1, <2>2, <2>3 DEF Init, TypeOK
<1>6. Ways
  BY Names DEF Init, FileInit, Ways, UnderWay
<1>. QED  BY <1>5, <1>6 DEF TypeInv

LEMMA TypeLook ==
  ASSUME TypeInv, Unlock \/ ChooseScreen \/ Lock
  PROVE  TypeInv'
<1>. USE DEF TypeInv, MainIdle
<1>1. FileTypeOK(Data)'
  BY Names, FileTypes DEF Unlock, ChooseScreen, Lock
<1>2. copy' = copy /\ writing' = writing /\ pc' = pc /\ snap' = snap /\ pc[main] = "idle"
  BY DEF Unlock, ChooseScreen, Lock, LoadAndLook, fileVars
<1>3. Ways'
  BY <1>2 DEF Ways, Command, UnderWay
<1>4. CASE Unlock
  <2>1. st' \in AppState
    BY <1>4, Defaults, StateTypes DEF Unlock, TypeOK, FileTypeOK
  <2>. QED  BY <1>1, <1>3, <1>4, <2>1 DEF Unlock, TypeOK
<1>5. CASE ChooseScreen
  BY <1>1, <1>3, <1>5 DEF ChooseScreen, TypeOK
<1>6. CASE Lock
  <2>1. st' \in AppState
    BY <1>6, Defaults, StateTypes DEF Lock
  <2>2. late' \in BOOLEAN /\ locks' \in 0..MaxLocks
    BY <1>6, SessionAssumption DEF Lock, TypeOK
  <2>. QED  BY <1>1, <1>3, <1>6, <2>1, <2>2 DEF Lock, TypeOK
<1>. QED  BY <1>4, <1>5, <1>6

LEMMA TypeCommand ==
  ASSUME TypeInv,
         \/ \E c \in Chains : BeginGenerate(c) \/ BeginJoin(c)
         \/ \E i \in Ids : BeginToggle(i)
         \/ EndCommand
  PROVE  TypeInv'
<1>. USE Names DEF TypeInv, MainIdle, Command, SyncStep
<1>1. ASSUME NEW c \in Chains, BeginGenerate(c) \/ BeginJoin(c)
      PROVE  TypeInv'
  <2>. DEFINE data == [LoadVault EXCEPT !.mnemonic = c]
  <2>1. data \in Data /\ data.mnemonic = c
    BY LoadedType, Changes, Defaults DEF Data
  <2>2. LoadAndSet(main, data)
    BY <1>1 DEF BeginGenerate, BeginJoin
  <2>. HIDE DEF data
  <2>3. FileTypeOK(Data)' /\ writing' = writing /\ copy'[main] = data
    BY <2>1, <2>2, FileTypes DEF LoadAndSet, TypeOK, FileTypeOK
  <2>4. TypeOK'
    BY <1>1, <2>3 DEF BeginGenerate, BeginJoin, TypeOK
  <2>5. /\ pc'[main] \in {"generate", "join"} /\ screen' = "setup"
        /\ \A s \in Syncs : pc'[s] = pc[s]
        /\ UNCHANGED <<snap, writing>>
    BY <1>1, <2>3 DEF BeginGenerate, BeginJoin, TypeOK
  <2>6. \A t \in writing : pc'[t] \in Command \cup {"save"}
    BY <2>5 DEF Ways, TypeOK, FileTypeOK
  <2>7. Ways'
    BY <2>1, <2>3, <2>5, <2>6 DEF Ways, UnderWay
  <2>. QED  BY <2>4, <2>7
<1>2. ASSUME NEW i \in Ids, BeginToggle(i)
      PROVE  TypeInv'
  <2>. DEFINE favorites == IF i \in st.favorites THEN st.favorites \ {i}
                           ELSE st.favorites \cup {i}
              data == [LoadVault EXCEPT !.favorites = favorites]
  <2>1. favorites \in SUBSET Ids
    BY DEF TypeOK, AppState
  <2>2. LoadAndSet(main, data) /\ st' = [st EXCEPT !.favorites = favorites]
    BY <1>2 DEF BeginToggle
  <2>. HIDE DEF favorites
  <2>3. data \in Data /\ data.favorites = favorites
    BY <2>1, LoadedType, Changes, Defaults DEF Data
  <2>4. st' \in AppState /\ st'.favorites = favorites
    BY <2>1, <2>2, StateTypes, Defaults DEF TypeOK, AppState
  <2>. HIDE DEF data
  <2>5. FileTypeOK(Data)' /\ writing' = writing /\ copy'[main] = data
    BY <2>2, <2>3, FileTypes DEF LoadAndSet, TypeOK, FileTypeOK
  <2>6. TypeOK'
    BY <1>2, <2>4, <2>5 DEF BeginToggle, TypeOK
  <2>7. /\ pc'[main] = "toggle" /\ screen' = "main"
        /\ \A s \in Syncs : pc'[s] = pc[s]
        /\ UNCHANGED <<snap, writing>>
    BY <1>2, <2>5 DEF BeginToggle, TypeOK
  <2>8. \A t \in writing : pc'[t] \in Command \cup {"save"}
    BY <2>7 DEF Ways, TypeOK, FileTypeOK
  <2>9. Ways'
    BY <2>3, <2>4, <2>5, <2>7, <2>8 DEF Ways, UnderWay
  <2>. QED  BY <2>6, <2>9
<1>3. CASE EndCommand
  <2>1. FileTypeOK(Data)' /\ copy' = copy /\ writing' \subseteq writing \ {main}
    BY <1>3, FileTypes DEF EndCommand, Fill
  <2>2. copy[main].mnemonic \in Chains \cup {None}
    BY DEF TypeOK, FileTypeOK, Data
  <2>3. st' \in AppState
    BY <1>3, <2>2, StateTypes, Defaults DEF EndCommand, TypeOK
  <2>. QED  BY <1>3, <2>1, <2>3 DEF EndCommand, TypeOK, Ways, UnderWay
<1>. QED  BY <1>1, <1>2, <1>3

LEMMA TypeSync ==
  ASSUME TypeInv, NEW s \in Syncs, Sync(s)
  PROVE  TypeInv'
<1>. USE Names DEF TypeInv, Command, SyncStep, SyncStepTo
<1>1. CASE StartSync(s)
  <2>1. FileTypeOK(Data)'
    BY <1>1, FileTypes DEF StartSync
  <2>2. st.mnemonic \in Chains
    BY <1>1 DEF StartSync, TypeOK, AppState
  <2>3. racing' \in BOOLEAN
    BY <1>1 DEF StartSync, TypeOK
  <2>. QED  BY <1>1, <2>1, <2>2, <2>3 DEF StartSync, TypeOK, Ways, UnderWay,
               fileVars
<1>2. CASE FetchAll(s)
  <2>1. snap[s] \in Chains
    BY <1>2 DEF FetchAll, Ways, UnderWay
  <2>2. [chain |-> snap[s], version |-> server[snap[s]]] \in Content
    BY <2>1 DEF TypeOK, Content
  <2>3. FileTypeOK(Data)'
    BY <1>2, FileTypes DEF FetchAll
  <2>. QED  BY <1>2, <2>2, <2>3 DEF FetchAll, TypeOK, Ways, UnderWay, fileVars
<1>3. CASE SyncFails(s) \/ StartFavicons(s)
  <2>1. FileTypeOK(Data)'
    BY <1>3, FileTypes DEF SyncFails, StartFavicons
  <2>2. /\ pc' = [pc EXCEPT ![s] = "idle"] \/ pc' = [pc EXCEPT ![s] = "fetchicons"]
        /\ pc[s] \notin {"idle", "save"}
        /\ UNCHANGED <<fileVars, st, screen, snap, got, server, locks, late, racing>>
    BY <1>3 DEF SyncFails, StartFavicons
  <2>3. TypeOK'
    BY <2>1, <2>2 DEF TypeOK
  <2>4. /\ \A r \in Threads : r # s => pc'[r] = pc[r]
        /\ pc'[s] \in {"idle", "fetchicons"} /\ s \notin writing
        /\ UNCHANGED <<copy, writing, st, screen, snap>>
    BY <2>2 DEF TypeOK, Ways, fileVars
  <2>5. Ways'
    BY <2>2, <2>4 DEF TypeOK, FileTypeOK, Ways, UnderWay
  <2>. QED  BY <2>3, <2>5
<1>4. CASE SyncLoads(s)
  <2>. DEFINE data == [LoadVault EXCEPT !.mnemonic = snap[s], !.cached = got[s]]
  <2>1. snap[s] \in Chains /\ got[s] \in Content
    BY <1>4 DEF SyncLoads, Ways, UnderWay, TypeOK
  <2>2. data \in Data
    BY <2>1, LoadedType, Changes
  <2>3. LoadAndSet(s, data)
    BY <1>4 DEF SyncLoads
  <2>. HIDE DEF data
  <2>4. FileTypeOK(Data)' /\ writing' = writing /\ copy'[main] = copy[main]
    BY <2>2, <2>3, FileTypes DEF LoadAndSet, TypeOK, FileTypeOK
  <2>. QED  BY <1>4, <2>4 DEF SyncLoads, TypeOK, Ways, UnderWay
<1>5. CASE SyncSaves(s)
  <2>1. FileTypeOK(Data)' /\ copy' = copy /\ writing' = writing \ {s}
    BY <1>5, FileTypes DEF SyncSaves, Fill
  <2>. QED  BY <1>5, <2>1 DEF SyncSaves, TypeOK, Ways, UnderWay
<1>6. CASE Refill(s)
  <2>1. st' \in AppState /\ st'.favorites = st.favorites
    BY <1>6, StateTypes, Defaults DEF Refill, Refilled, TypeOK, AppState
  <2>2. FileTypeOK(Data)'
    BY <1>6, FileTypes DEF Refill
  <2>. QED  BY <1>6, <2>1, <2>2 DEF Refill, TypeOK, Ways, UnderWay, fileVars
<1>7. CASE EndFavicons(s)
  <2>1. st' \in AppState /\ st'.favorites = st.favorites
    BY <1>7, StateTypes, Defaults DEF EndFavicons, TypeOK, AppState
  <2>2. FileTypeOK(Data)'
    BY <1>7, FileTypes DEF EndFavicons
  <2>. QED  BY <1>7, <2>1, <2>2 DEF EndFavicons, TypeOK, Ways, UnderWay,
               fileVars
<1>. QED  BY <1>1, <1>2, <1>3, <1>4, <1>5, <1>6, <1>7 DEF Sync

LEMMA TypeRest ==
  ASSUME TypeInv,
         \/ \E t \in Threads : BeginWrite(t)
         \/ \E c \in Chains : Change(c)
         \/ Restart \/ UNCHANGED vars
  PROVE  TypeInv'
<1>. USE Names DEF TypeInv, Command, SyncStep, sessionVars
<1>1. ASSUME NEW t \in Threads, BeginWrite(t)
      PROVE  TypeInv'
  <2>1. FileTypeOK(Data)' /\ copy' = copy /\ writing' = writing \cup {t}
    BY <1>1, FileTypes DEF BeginWrite, Truncate
  <2>. QED  BY <1>1, <2>1 DEF BeginWrite, TypeOK, Ways, UnderWay
<1>2. ASSUME NEW c \in Chains, Change(c)
      PROVE  TypeInv'
  <2>1. FileTypeOK(Data)'
    BY <1>2, FileTypes DEF Change
  <2>2. server' \in [Chains -> 0..MaxVersion]
    BY <1>2, SessionAssumption DEF Change, TypeOK
  <2>. QED  BY <1>2, <2>1, <2>2 DEF Change, TypeOK, Ways, UnderWay, fileVars
<1>3. CASE Restart
  <2>1. copy' \in [Threads -> Data]
    BY <1>3, Defaults DEF Restart, ProcessEnds
  <2>2. overlapped' \in BOOLEAN /\ interrupted' \in BOOLEAN
    BY <1>3, Zenon DEF Restart, ProcessEnds, TypeOK, FileTypeOK
  <2>3. FileTypeOK(Data)' /\ writing' = {}
    BY <1>3, <2>1, <2>2, Zenon DEF Restart, ProcessEnds, TypeOK, FileTypeOK
  <2>4. st' \in AppState
    BY <1>3, StateTypes, Defaults DEF Restart
  <2>5. locks' \in 0..MaxLocks
    BY <1>3, SessionAssumption DEF Restart, TypeOK
  <2>. QED  BY <1>3, <2>3, <2>4, <2>5 DEF Restart, TypeOK, Ways, UnderWay
<1>4. CASE UNCHANGED vars
  BY <1>4 DEF vars, fileVars, TypeOK, FileTypeOK, Ways, UnderWay
<1>. QED  BY <1>1, <1>2, <1>3, <1>4

LEMMA TypeStep == TypeInv /\ [Next]_vars => TypeInv'
  BY TypeLook, TypeCommand, TypeSync, TypeRest DEF Next, MainThread

\* Type correctness: what is in memory, in the file and in every copy of it is
\* always of the form the code gives it.
THEOREM TypeCorrect == Spec => []TypeOK
  BY TypeInit, TypeStep, PTL DEF Spec, TypeInv
-----------------------------------------------------------------------------
(* The locked vault. *)

LEMMA LockedStep == TypeInv /\ Locked /\ [Next]_vars => Locked'
<1>. SUFFICES ASSUME TypeInv, Locked, [Next]_vars, screen' = "unlock", ~late'
              PROVE  /\ UnderWay' = {}
                     /\ Nothing = st'.passwords /\ Nothing = st'.pw_dtos
                     /\ Nothing = st'.bookmarks
  BY DEF Locked
<1>. USE DEF TypeInv, MainIdle
<1>1. st \in AppState
  BY DEF TypeOK
<1>2. CASE Lock
  BY <1>1, <1>2 DEF Lock, Cleared, AppState, UnderWay
<1>3. CASE Restart
  BY <1>3, Names DEF Restart, Fresh, UnderWay
<1>4. CASE UNCHANGED <<st, pc, screen, late>>
  BY <1>4 DEF Locked, UnderWay
<1>5. CASE EndCommand
  <2>1. screen = "unlock" => pc[main] = "idle"
    BY DEF Ways, Command
  <2>. QED  BY <1>5, <2>1 DEF EndCommand, Command
<1>6. ASSUME NEW s \in Syncs, Sync(s)
      PROVE  FALSE
  <2>1. screen = "unlock" /\ ~late
    BY <1>6 DEF Sync, StartSync, FetchAll, SyncFails, SyncLoads, SyncSaves,
       Refill, StartFavicons, EndFavicons
  <2>2. pc[s] = "idle"
    BY <2>1 DEF Locked, UnderWay
  <2>. QED  BY <1>6, <2>1, <2>2 DEF Sync, SyncStepTo, StartSync, FetchAll,
               SyncFails, SyncLoads, SyncSaves, Refill, StartFavicons,
               EndFavicons
<1>7. ASSUME NEW t \in Threads, BeginWrite(t)
      PROVE  UNCHANGED <<st, pc, screen, late>>
  BY <1>7 DEF BeginWrite, sessionVars
<1>8. ASSUME NEW c \in Chains, Change(c) \/ UNCHANGED vars
      PROVE  UNCHANGED <<st, pc, screen, late>>
  BY <1>8 DEF Change, vars, sessionVars
<1>9. CASE UNCHANGED vars
  BY <1>4, <1>9 DEF vars, sessionVars
<1>10. CASE MainThread /\ ~Lock /\ ~EndCommand
  <2>1. screen' # "unlock"
    BY <1>10 DEF MainThread, Unlock, ChooseScreen, BeginGenerate, BeginJoin,
       BeginToggle
  <2>. QED  BY <2>1
<1>. QED  BY <1>2, <1>3, <1>4, <1>5, <1>6, <1>7, <1>8, <1>9, <1>10 DEF Next

(***************************************************************************)
(* A vault that was locked while no sync was under way holds no passwords  *)
(* and no bookmarks: no call still running fills the lists again, and none *)
(* starts on the lock screen.                                              *)
(***************************************************************************)
THEOREM LockedIsEmptyCorrect == Spec => []LockedIsEmpty
<1>1. Init => Locked
  BY Names DEF Init, Locked, Fresh, UnderWay
<1>2. Locked => LockedIsEmpty
  BY DEF Locked, LockedIsEmpty
<1>. QED  BY <1>1, <1>2, TypeInit, TypeStep, LockedStep, PTL DEF Spec
-----------------------------------------------------------------------------
(* The vault file while no load-to-write spans overlap. *)

LEMMA FileStep == TypeInv /\ FileInv /\ [Next]_vars => FileInv'
<1>. SUFFICES ASSUME TypeInv, FileInv, [Next]_vars
              PROVE  FileInv'
  OBVIOUS
<1>1. copy \in [Threads -> Data] /\ Unreadable \notin Data
  BY Defaults DEF TypeInv, TypeOK, FileTypeOK
<1>2. ASSUME NEW t \in Threads,
             \/ LoadAndLook \/ (\E data : LoadAndSet(t, data)) \/ Truncate(t) \/ Fill(t)
             \/ ProcessEnds \/ UNCHANGED <<file, writing, fresh, overlapped, interrupted>>
      PROVE  FileInv'
  BY <1>1, <1>2, FileInvKept
<1>. USE Names DEF fileVars
<1>3. CASE MainThread
  BY <1>2, <1>3 DEF MainThread, Unlock, ChooseScreen, Lock, BeginGenerate,
     BeginJoin, BeginToggle, EndCommand
<1>4. ASSUME NEW s \in Syncs, Sync(s)
      PROVE  FileInv'
  BY <1>2, <1>4 DEF Sync, StartSync, FetchAll, SyncFails, SyncLoads, SyncSaves,
     Refill, StartFavicons, EndFavicons
<1>5. ASSUME NEW t \in Threads, BeginWrite(t)
      PROVE  FileInv'
  BY <1>2, <1>5 DEF BeginWrite
<1>6. CASE (\E c \in Chains : Change(c)) \/ Restart \/ UNCHANGED vars
  BY <1>2, <1>6 DEF Change, Restart, vars
<1>. QED  BY <1>3, <1>4, <1>5, <1>6 DEF Next

\* What has overlapped stays so.
LEMMA OverlappedBefore ==
  ASSUME [Next]_vars, ~overlapped'
  PROVE  ~overlapped
<1>1. ASSUME NEW t,
             \/ LoadAndLook \/ (\E data : LoadAndSet(t, data)) \/ Truncate(t) \/ Fill(t)
             \/ ProcessEnds \/ UNCHANGED overlapped
      PROVE  ~overlapped
  BY <1>1, Zenon DEF LoadAndLook, LoadAndSet, Truncate, Fill, ProcessEnds
<1>. USE DEF fileVars
<1>2. CASE MainThread
  BY <1>1, <1>2 DEF MainThread, Unlock, ChooseScreen, Lock, BeginGenerate,
     BeginJoin, BeginToggle, EndCommand
<1>3. ASSUME NEW s \in Syncs, Sync(s)
      PROVE  ~overlapped
  BY <1>1, <1>3 DEF Sync, StartSync, FetchAll, SyncFails, SyncLoads, SyncSaves,
     Refill, StartFavicons, EndFavicons
<1>4. ASSUME NEW t \in Threads, BeginWrite(t)
      PROVE  ~overlapped
  BY <1>1, <1>4 DEF BeginWrite
<1>5. CASE (\E c \in Chains : Change(c)) \/ Restart \/ UNCHANGED vars
  BY <1>1, <1>5 DEF Change, Restart, vars
<1>. QED  BY <1>2, <1>3, <1>4, <1>5 DEF Next

LEMMA OneSyncStep == TypeInv /\ OneSync /\ [Next]_vars => OneSync'
<1>. SUFFICES ASSUME TypeInv, OneSync, [Next]_vars, ~racing', NEW q \in UnderWay', NEW r \in UnderWay'
              PROVE  q = r
  BY DEF OneSync
<1>. USE DEF TypeInv
<1>1. q \in Syncs /\ r \in Syncs /\ pc'[q] # "idle" /\ pc'[r] # "idle"
  BY DEF UnderWay
<1>2. ASSUME racing' = racing, \A s \in Syncs : pc'[s] = pc[s]
      PROVE  q = r
  BY <1>1, <1>2 DEF OneSync, UnderWay
<1>3. ASSUME NEW s \in Syncs, Sync(s)
      PROVE  q = r
  <2>1. \A p \in Syncs : p # s => pc'[p] = pc[p]
    BY <1>3, Names DEF Sync, SyncStepTo, StartSync, FetchAll, SyncFails,
       SyncLoads, SyncSaves, Refill, StartFavicons, EndFavicons, TypeOK
  <2>2. CASE StartSync(s)
    <3>1. UnderWay = {}
      BY <2>2 DEF StartSync
    <3>. QED  BY <1>1, <2>1, <3>1 DEF UnderWay
  <2>3. CASE ~StartSync(s)
    <3>1. pc[s] # "idle" /\ racing' = racing
      BY <1>3, <2>3 DEF Sync, SyncStepTo, FetchAll, SyncFails, SyncLoads,
         SyncSaves, Refill, StartFavicons, EndFavicons
    <3>. QED  BY <1>1, <2>1, <3>1 DEF OneSync, UnderWay
  <2>. QED  BY <2>2, <2>3
<1>4. CASE MainThread
  BY <1>2, <1>4, Names DEF MainThread, Unlock, ChooseScreen, Lock,
     BeginGenerate, BeginJoin, BeginToggle, EndCommand, TypeOK
<1>5. ASSUME NEW t \in Threads, BeginWrite(t)
      PROVE  q = r
  BY <1>2, <1>5 DEF BeginWrite, sessionVars
<1>6. CASE (\E c \in Chains : Change(c)) \/ UNCHANGED vars
  BY <1>2, <1>6 DEF Change, vars, sessionVars
<1>7. CASE Restart
  BY <1>1, <1>7, Names DEF Restart
<1>. QED  BY <1>3, <1>4, <1>5, <1>6, <1>7 DEF Next
-----------------------------------------------------------------------------
(* Memory follows the vault: steps that leave the file alone. *)

\* What stays when the vault file is only looked at.
SameFile ==
  /\ Vault' = Vault /\ UNCHANGED <<file, copy, writing, fresh>>
  /\ \A content : Belongs(content)' <=> Belongs(content)

LEMMA FileLooked ==
  ASSUME LoadAndLook \/ UNCHANGED fileVars, ~overlapped'
  PROVE  SameFile
<1>1. Vault' = Vault /\ UNCHANGED <<file, copy, writing, fresh>>
  <2>1. CASE LoadAndLook
    BY <2>1, LookedAt
  <2>2. CASE UNCHANGED fileVars
    BY <2>2 DEF fileVars, Vault
  <2>. QED  BY <2>1, <2>2
<1>. QED  BY <1>1 DEF SameFile, Belongs

LEMMA FollowsUnlock ==
  ASSUME TypeInv, FileInv, Locked, Follows, Unlock, ~overlapped'
  PROVE  Follows'
<1>. USE DEF TypeInv, TypeOK, MainIdle
<1>1. /\ SameFile /\ writing = {} /\ Vault = file /\ pc[main] = "idle"
      /\ UNCHANGED <<pc, snap, got, late, racing>>
      /\ screen = "unlock" /\ screen' = "checking" /\ st \in AppState
  BY FileLooked, LookedAt DEF Unlock
<1>2. IF file = Unreadable
        THEN /\ st'.passwords = st.passwords /\ st'.pw_dtos = st.pw_dtos
             /\ st'.bookmarks = st.bookmarks /\ st'.others = st.others
             /\ st'.mnemonic = None
        ELSE /\ st'.passwords = st.passwords /\ st'.pw_dtos = file.cached
             /\ st'.bookmarks = file.cached /\ st'.others = file.cached
             /\ st'.mnemonic = file.mnemonic /\ st'.favorites = file.favorites
  BY <1>1 DEF Unlock, Opened, AppState, Follows, MnemonicFollows
<1>3. StateBelongs'
  BY <1>1, <1>2 DEF SameFile, Follows, StateBelongs
<1>4. SyncsBelong'
  BY <1>1 DEF SameFile, Follows, SyncsBelong, UnderWay
<1>5. SetupIsEmpty' /\ MnemonicFollows' /\ FavoritesFollow'
  BY <1>1, <1>2 DEF SameFile, SetupIsEmpty, MnemonicFollows, FavoritesFollow
<1>6. FreshCommand' /\ FreshSync'
  BY <1>1 DEF SameFile, Follows, FreshCommand, FreshSync
<1>7. Shown'
  BY <1>1, <1>2 DEF SameFile, Locked, Shown, Landing, UnderWay
<1>. QED  BY <1>3, <1>4, <1>5, <1>6, <1>7 DEF Follows

LEMMA FollowsChoose ==
  ASSUME TypeInv, FileInv, Follows, ChooseScreen, ~overlapped'
  PROVE  Follows'
<1>. USE DEF TypeInv, TypeOK, MainIdle
<1>1. /\ SameFile /\ writing = {} /\ Vault = file /\ pc[main] = "idle"
      /\ UNCHANGED <<st, pc, snap, got, late, racing>>
      /\ screen = "checking" /\ st \in AppState
      /\ screen' = IF HasChain THEN "main" ELSE "setup"
  BY FileLooked, LookedAt DEF ChooseScreen
<1>2. StateBelongs' /\ SyncsBelong'
  BY <1>1 DEF SameFile, Follows, StateBelongs, SyncsBelong, UnderWay
<1>3. SetupIsEmpty'
  <2>1. SUFFICES ASSUME ~HasChain
                 PROVE  /\ UnderWay = {}
                        /\ Nothing = st.passwords /\ Nothing = st.pw_dtos
                        /\ Nothing = st.bookmarks /\ Nothing = st.others
                        /\ Vault # Unreadable => Vault.cached = Nothing
    BY <1>1 DEF SameFile, SetupIsEmpty, UnderWay
  <2>2. Vault = Unreadable \/ Vault.mnemonic \notin Chains
    BY <1>1, <2>1, Names DEF HasChain
  <2>3. UnderWay = {}
    BY <2>2 DEF Follows, SyncsBelong, Ways
  <2>4. \A content \in Content : content # Nothing => content.chain \in Chains
    BY DEF Content
  <2>5. \A content \in Content : Belongs(content) => content = Nothing
    BY <2>2, <2>4 DEF Belongs
  <2>6. /\ st.passwords \in Content /\ st.pw_dtos \in Content
        /\ st.bookmarks \in Content /\ st.others \in Content
        /\ Vault # Unreadable => Vault.cached \in Content
    BY <1>1 DEF AppState, FileTypeOK, Data
  <2>. QED  BY <2>3, <2>5, <2>6 DEF Follows, StateBelongs
<1>4. MnemonicFollows' /\ FavoritesFollow'
  BY <1>1 DEF SameFile, Follows, MnemonicFollows, FavoritesFollow, HasChain
<1>5. FreshCommand' /\ FreshSync'
  BY <1>1 DEF SameFile, Follows, FreshCommand, FreshSync
<1>6. Shown'
  BY <1>1 DEF SameFile, Follows, Shown, Landing
<1>. QED  BY <1>2, <1>3, <1>4, <1>5, <1>6 DEF Follows

LEMMA FollowsLock ==
  ASSUME TypeInv, FileInv, Follows, Lock, ~overlapped'
  PROVE  Follows'
<1>. USE DEF TypeInv, TypeOK, MainIdle
<1>1. /\ SameFile /\ pc[main] = "idle" /\ UNCHANGED <<pc, snap, got, racing>>
      /\ screen' = "unlock"
  BY FileLooked DEF Lock
<1>2. /\ st'.passwords = Nothing /\ st'.pw_dtos = Nothing /\ st'.bookmarks = Nothing
      /\ st'.others = st.others /\ st'.mnemonic = None /\ st'.favorites = st.favorites
  BY DEF Lock, Cleared, AppState
<1>3. StateBelongs'
  BY <1>1, <1>2 DEF SameFile, Follows, StateBelongs, Belongs
<1>4. SyncsBelong'
  BY <1>1 DEF SameFile, Follows, SyncsBelong, UnderWay
<1>5. SetupIsEmpty' /\ MnemonicFollows' /\ FavoritesFollow' /\ Shown'
  BY <1>1, <1>2 DEF SetupIsEmpty, MnemonicFollows, FavoritesFollow, Shown
<1>6. FreshCommand' /\ FreshSync'
  BY <1>1, <1>2 DEF SameFile, Follows, FreshCommand, FreshSync
<1>. QED  BY <1>3, <1>4, <1>5, <1>6 DEF Follows

\* A sync goes on, or ends, and nothing else happens.
LEMMA FollowsSyncStep ==
  ASSUME TypeInv, Locked, OneSync, OneSync', Follows, NEW s \in Syncs,
         StartSync(s) \/ FetchAll(s) \/ SyncFails(s) \/ StartFavicons(s),
         ~overlapped'
  PROVE  Follows'
<1>. USE DEF TypeInv, TypeOK, SyncStepTo
<1>1. /\ SameFile /\ UNCHANGED <<st, screen, late>>
      /\ \A t \in Threads : t # s => pc'[t] = pc[t]
      /\ \A r \in Syncs : r # s => snap'[r] = snap[r] /\ got'[r] = got[r]
      /\ pc'[s] \in {"idle", "fetch", "fetched", "fetchicons"}
      /\ racing => racing'
      /\ s \notin writing
  BY FileLooked, Names DEF StartSync, FetchAll, SyncFails, StartFavicons, Ways,
     Command
<1>2. pc'[main] = pc[main]
  BY <1>1, Names
<1>3. StateBelongs' /\ MnemonicFollows' /\ FavoritesFollow' /\ FreshCommand'
  BY <1>1, <1>2 DEF SameFile, Follows, StateBelongs, MnemonicFollows,
     FavoritesFollow, FreshCommand
<1>4. SyncsBelong'
  <2>1. ASSUME NEW r \in UnderWay', r # s
        PROVE  r \in UnderWay /\ pc'[r] = pc[r] /\ snap'[r] = snap[r] /\ got'[r] = got[r]
    BY <1>1, <2>1, Names DEF UnderWay
  <2>2. CASE StartSync(s)
    <3>1. snap'[s] = st.mnemonic /\ screen = "main" /\ pc'[s] = "fetch"
      BY <2>2, Names DEF StartSync
    <3>2. st.mnemonic # None
      BY <2>2 DEF StartSync
    <3>. QED  BY <1>1, <2>1, <3>1, <3>2 DEF SameFile, Follows, SyncsBelong,
                 MnemonicFollows
  <2>3. CASE FetchAll(s)
    <3>1. /\ snap'[s] = snap[s] /\ got'[s].chain = snap[s] /\ s \in UnderWay
      BY <2>3 DEF FetchAll, UnderWay
    <3>. QED  BY <1>1, <2>1, <3>1 DEF SameFile, Follows, SyncsBelong
  <2>4. CASE SyncFails(s) \/ StartFavicons(s)
    <3>1. snap'[s] = snap[s] /\ s \in UnderWay /\ pc'[s] \in {"idle", "fetchicons"}
      BY <2>4, Names DEF SyncFails, StartFavicons, UnderWay
    <3>. QED  BY <1>1, <2>1, <3>1 DEF SameFile, Follows, SyncsBelong
  <2>. QED  BY <2>2, <2>3, <2>4
<1>5. SetupIsEmpty'
  <2>1. screen = "setup" => UnderWay' = {}
    <3>1. CASE StartSync(s)
      BY <3>1 DEF StartSync
    <3>2. CASE FetchAll(s) \/ SyncFails(s) \/ StartFavicons(s)
      <4>1. s \in UnderWay
        BY <3>2 DEF FetchAll, SyncFails, StartFavicons, UnderWay
      <4>. QED  BY <4>1 DEF Follows, SetupIsEmpty
    <3>. QED  BY <3>1, <3>2
  <2>. QED  BY <1>1, <2>1 DEF SameFile, Follows, SetupIsEmpty
<1>6. FreshSync'
  <2>1. ASSUME NEW r \in Syncs \cap fresh', pc'[r] = "save"
        PROVE  copy[r] = [file EXCEPT !.mnemonic = snap'[r], !.cached = got'[r]]
    <3>1. /\ pc[r] = "save" /\ snap'[r] = snap[r] /\ got'[r] = got[r]
          /\ r \in fresh
      BY <1>1, <2>1, Names DEF SameFile
    <3>. QED  BY <3>1 DEF Follows, FreshSync
  <2>. QED  BY <1>1, <2>1 DEF SameFile, FreshSync
<1>7. Shown'
  <2>1. ASSUME NEW r \in Syncs
        PROVE  /\ Landing(r)' <=> Landing(r)
               /\ Landing(r) => r # s
    <3>1. pc[s] # "refill"
      BY DEF StartSync, FetchAll, SyncFails, StartFavicons
    <3>. QED  BY <1>1, <3>1, Names DEF SameFile, Landing
  <2>2. ASSUME NEW r \in Syncs, pc'[r] \in {"icons", "fetchicons"}
        PROVE  pc[r] \in {"icons", "fetchicons"}
    <3>1. CASE r = s
      BY <2>2, <3>1, Names DEF StartSync, FetchAll, SyncFails, StartFavicons
    <3>2. CASE r # s
      BY <1>1, <2>2, <3>2, Names
    <3>. QED  BY <3>1, <3>2
  <2>. QED  BY <1>1, <2>1, <2>2 DEF SameFile, Follows, Shown
<1>. QED  BY <1>3, <1>4, <1>5, <1>6, <1>7 DEF Follows

\* A sync fills the lists in memory, or the favicon fetch those on the screen.
LEMMA FollowsRefill ==
  ASSUME TypeInv, Locked, OneSync, Follows, NEW s \in Syncs,
         Refill(s) \/ EndFavicons(s), ~overlapped'
  PROVE  Follows'
<1>. USE DEF TypeInv, TypeOK, SyncStepTo
<1>1. /\ SameFile /\ UNCHANGED <<screen, snap, got, late, racing>>
      /\ \A t \in Threads : t # s => pc'[t] = pc[t]
      /\ pc[s] \in {"refill", "fetchicons"} /\ pc'[s] \in {"icons", "idle"}
      /\ s \in UnderWay
  BY FileLooked, Names DEF Refill, EndFavicons, UnderWay
<1>2. /\ pc'[main] = pc[main] /\ pc[main] # "toggle"
      /\ st'.mnemonic = st.mnemonic /\ st'.favorites = st.favorites
  BY <1>1, Names DEF Refill, EndFavicons, Refilled, AppState, StateLocked
<1>3. /\ Refill(s) => /\ st'.passwords = got[s] /\ st'.pw_dtos = got[s]
                      /\ st'.bookmarks = got[s] /\ st'.others = got[s]
                      /\ pc[s] = "refill"
      /\ EndFavicons(s) => /\ st'.passwords = st.passwords
                           /\ st'.pw_dtos = st.passwords
                           /\ st'.bookmarks = st.bookmarks /\ st'.others = st.others
                           /\ pc[s] = "fetchicons" /\ pc'[s] = "idle"
  <2>1. Refill(s) => /\ st'.passwords = got[s] /\ st'.pw_dtos = got[s]
                     /\ st'.bookmarks = got[s] /\ st'.others = got[s]
                     /\ pc[s] = "refill"
    BY Names DEF Refill, Refilled, AppState
  <2>2. EndFavicons(s) => /\ st'.passwords = st.passwords
                          /\ st'.pw_dtos = st.passwords
                          /\ st'.bookmarks = st.bookmarks /\ st'.others = st.others
                          /\ pc[s] = "fetchicons" /\ pc'[s] = "idle"
    BY Names DEF EndFavicons, AppState
  <2>. QED  BY <2>1, <2>2
<1>4. StateBelongs'
  <2>1. Refill(s) => Belongs(got[s])
    BY <1>1, <1>3 DEF Follows, SyncsBelong, Belongs
  <2>. QED  BY <1>1, <1>3, <2>1 DEF SameFile, Follows, StateBelongs
<1>5. SyncsBelong'
  <2>1. ASSUME NEW r \in UnderWay'
        PROVE  /\ r \in UnderWay
               /\ pc'[r] \in {"fetched", "save", "refill"} => pc[r] = pc'[r]
    BY <1>1, Names DEF UnderWay
  <2>. QED  BY <1>1, <2>1 DEF SameFile, Follows, SyncsBelong
<1>6. SetupIsEmpty' /\ MnemonicFollows' /\ FavoritesFollow' /\ FreshCommand'
  BY <1>1, <1>2 DEF SameFile, Follows, SetupIsEmpty, MnemonicFollows,
     FavoritesFollow, FreshCommand
<1>7. FreshSync'
  <2>1. ASSUME NEW r \in Syncs \cap fresh', pc'[r] = "save"
        PROVE  copy[r] = [file EXCEPT !.mnemonic = snap[r], !.cached = got[r]]
    <3>1. pc[r] = "save" /\ r \in fresh
      BY <1>1, <2>1, Names DEF SameFile
    <3>. QED  BY <3>1 DEF Follows, FreshSync
  <2>. QED  BY <1>1, <2>1 DEF SameFile, FreshSync
<1>8. Shown'
  <2>. SUFFICES ASSUME ~late, ~racing, screen # "unlock", Vault # Unreadable
                PROVE  /\ st'.pw_dtos = Vault.cached
                       /\ \A r \in Syncs : Landing(r)' => Vault.cached = got[r]
                       /\ \A r \in Syncs : pc'[r] \in {"icons", "fetchicons"} =>
                                             st'.passwords = st'.pw_dtos
    BY <1>1 DEF SameFile, Shown
  <2>1. \A r \in Syncs : Landing(r) \/ pc[r] # "idle" => r = s
    BY <1>1 DEF OneSync, UnderWay, Landing, Ways, Command
  <2>2. s \notin writing
    BY <1>1, Names DEF Ways, Command
  <2>3. \A r \in Syncs : ~Landing(r)'
    BY <1>1, <2>1, <2>2, Names DEF SameFile, Landing
  <2>4. st'.pw_dtos = Vault.cached
    <3>1. CASE Refill(s)
      BY <1>3, <3>1 DEF Follows, Shown, Landing
    <3>2. CASE EndFavicons(s)
      <4>1. \A r \in Syncs : ~Landing(r)
        BY <1>3, <2>1, <2>2, <3>2 DEF Landing
      <4>. QED  BY <1>3, <3>2, <4>1 DEF Follows, Shown
    <3>. QED  BY <3>1, <3>2
  <2>5. \A r \in Syncs : pc'[r] \in {"icons", "fetchicons"} => st'.passwords = st'.pw_dtos
    BY <1>1, <1>3, <2>1, Names
  <2>. QED  BY <2>3, <2>4, <2>5
<1>. QED  BY <1>4, <1>5, <1>6, <1>7, <1>8 DEF Follows
-----------------------------------------------------------------------------
(* Memory follows the vault: steps that load it to change it, and writes. *)

\* What stays when t loads the file into its copy, and what the copy is then.
Loads(t, data) ==
  /\ Vault' = Vault /\ Vault = file /\ writing = {} /\ UNCHANGED <<file, writing>>
  /\ copy'[t] = data
  /\ \A r \in Threads : r # t => copy'[r] = copy[r]
  /\ fresh' \subseteq fresh \cup {t}
  /\ t \in fresh' => LoadVault = file /\ file \in Data
  /\ \A content : Belongs(content)' <=> Belongs(content)

LEMMA FileLoaded ==
  ASSUME TypeInv, NEW t \in Threads, NEW data, LoadAndSet(t, data), ~overlapped'
  PROVE  Loads(t, data)
<1>1. /\ Vault' = Vault /\ Vault = file /\ writing = {} /\ UNCHANGED <<file, writing>>
      /\ fresh' \subseteq fresh \cup {t} /\ (t \in fresh' => file # Unreadable)
  BY Loaded
<1>2. copy \in [Threads -> Data] /\ file \in Data \cup {Unreadable}
  BY DEF TypeInv, TypeOK, FileTypeOK
<1>3. copy'[t] = data /\ \A r \in Threads : r # t => copy'[r] = copy[r]
  BY <1>2 DEF LoadAndSet
<1>. QED  BY <1>1, <1>2, <1>3 DEF Loads, LoadVault, Belongs

\* generate_chain and join_chain are loaded for on the setup screen.
LEMMA FollowsChoice ==
  ASSUME TypeInv, Follows, NEW c \in Chains, BeginGenerate(c) \/ BeginJoin(c),
         ~overlapped'
  PROVE  Follows'
<1>. USE DEF TypeInv, TypeOK, MainIdle
<1>. DEFINE data == [LoadVault EXCEPT !.mnemonic = c]
<1>1. LoadAndSet(main, data)
  BY DEF BeginGenerate, BeginJoin
<1>2. Loads(main, data)
  BY <1>1, FileLoaded, Names
<1>3. /\ UNCHANGED <<st, screen, snap, got, late, racing>>
      /\ screen = "setup" /\ pc[main] = "idle" /\ pc'[main] \in {"generate", "join"}
      /\ \A s \in Syncs : pc'[s] = pc[s]
  BY Names DEF BeginGenerate, BeginJoin
<1>4. UnderWay' = UnderWay
  BY <1>3 DEF UnderWay
<1>5. StateBelongs' /\ SyncsBelong'
  BY <1>2, <1>3, <1>4 DEF Loads, Follows, StateBelongs, SyncsBelong, UnderWay
<1>6. SetupIsEmpty' /\ MnemonicFollows' /\ FavoritesFollow'
  BY <1>2, <1>3, <1>4 DEF Loads, Follows, SetupIsEmpty, MnemonicFollows,
     FavoritesFollow
<1>7. FreshCommand'
  <2>1. ASSUME main \in fresh'
        PROVE  copy'[main] = [file EXCEPT !.mnemonic = c] /\ copy'[main].mnemonic = c
    BY <1>2, <2>1 DEF Loads, Data
  <2>. QED  BY <1>2, <1>3, <2>1 DEF Loads, FreshCommand
<1>8. FreshSync'
  <2>1. \A s \in Syncs : s \in fresh' => s \in fresh /\ copy'[s] = copy[s]
    BY <1>2, Names DEF Loads
  <2>2. FreshSync /\ UNCHANGED <<file, snap, got>> /\ \A s \in Syncs : pc'[s] = pc[s]
    BY <1>2, <1>3 DEF Loads, Follows
  <2>. QED  BY <2>1, <2>2 DEF FreshSync
<1>9. Shown'
  BY <1>2, <1>3 DEF Loads, Follows, Shown, Landing
<1>. QED  BY <1>5, <1>6, <1>7, <1>8, <1>9 DEF Follows

\* toggle_favorite has changed the list in memory and goes on to the file.
LEMMA FollowsToggle ==
  ASSUME TypeInv, Follows, NEW i \in Ids, BeginToggle(i), ~overlapped'
  PROVE  Follows'
<1>. USE DEF TypeInv, TypeOK, MainIdle
<1>1. PICK favorites :
        /\ st' = [st EXCEPT !.favorites = favorites]
        /\ LoadAndSet(main, [LoadVault EXCEPT !.favorites = favorites])
  BY DEF BeginToggle
<1>2. Loads(main, [LoadVault EXCEPT !.favorites = favorites])
  BY <1>1, FileLoaded, Names
<1>3. /\ UNCHANGED <<screen, snap, got, late, racing>>
      /\ screen = "main" /\ pc[main] = "idle" /\ pc'[main] = "toggle"
      /\ \A s \in Syncs : pc'[s] = pc[s]
  BY Names DEF BeginToggle
<1>4. /\ st'.passwords = st.passwords /\ st'.pw_dtos = st.pw_dtos
      /\ st'.bookmarks = st.bookmarks /\ st'.others = st.others
      /\ st'.mnemonic = st.mnemonic /\ st'.favorites = favorites
  BY <1>1 DEF AppState
<1>5. UnderWay' = UnderWay
  BY <1>3 DEF UnderWay
<1>6. StateBelongs' /\ SyncsBelong'
  BY <1>2, <1>3, <1>4, <1>5 DEF Loads, Follows, StateBelongs, SyncsBelong,
     UnderWay
<1>7. SetupIsEmpty' /\ MnemonicFollows' /\ FavoritesFollow'
  BY <1>2, <1>3, <1>4 DEF Loads, Follows, SetupIsEmpty, MnemonicFollows,
     FavoritesFollow
<1>8. FreshCommand'
  BY <1>2, <1>3, <1>4 DEF Loads, FreshCommand
<1>9. FreshSync'
  <2>1. \A s \in Syncs : s \in fresh' => s \in fresh /\ copy'[s] = copy[s]
    BY <1>2, Names DEF Loads
  <2>2. FreshSync /\ UNCHANGED <<file, snap, got>> /\ \A s \in Syncs : pc'[s] = pc[s]
    BY <1>2, <1>3 DEF Loads, Follows
  <2>. QED  BY <2>1, <2>2 DEF FreshSync
<1>10. Shown'
  BY <1>2, <1>3, <1>4 DEF Loads, Follows, Shown, Landing
<1>. QED  BY <1>6, <1>7, <1>8, <1>9, <1>10 DEF Follows

LEMMA FollowsSyncLoads ==
  ASSUME TypeInv, Follows, NEW s \in Syncs, SyncLoads(s), ~overlapped'
  PROVE  Follows'
<1>. USE DEF TypeInv, TypeOK, SyncStepTo
<1>1. LoadAndSet(s, [LoadVault EXCEPT !.mnemonic = snap[s], !.cached = got[s]])
  BY DEF SyncLoads
<1>2. Loads(s, [LoadVault EXCEPT !.mnemonic = snap[s], !.cached = got[s]])
  BY <1>1, FileLoaded, Names
<1>3. /\ UNCHANGED <<st, screen, snap, got, late, racing>>
      /\ pc[s] = "fetched" /\ pc'[s] = "save"
      /\ \A t \in Threads : t # s => pc'[t] = pc[t]
  BY Names DEF SyncLoads
<1>4. UnderWay' = UnderWay /\ pc'[main] = pc[main]
  BY <1>3, Names DEF UnderWay
<1>5. StateBelongs'
  BY <1>2, <1>3 DEF Loads, Follows, StateBelongs
<1>6. SyncsBelong'
  <2>1. ASSUME NEW r \in UnderWay'
        PROVE  /\ r \in UnderWay
               /\ pc'[r] \in {"fetched", "save", "refill"} =>
                    pc[r] \in {"fetched", "save", "refill"}
    BY <1>3, <1>4, Names DEF UnderWay
  <2>. QED  BY <1>2, <1>3, <2>1 DEF Loads, Follows, SyncsBelong
<1>7. SetupIsEmpty' /\ MnemonicFollows' /\ FavoritesFollow'
  BY <1>2, <1>3, <1>4 DEF Loads, Follows, SetupIsEmpty, MnemonicFollows,
     FavoritesFollow
<1>8. FreshCommand'
  <2>1. main \in fresh' => main \in fresh /\ copy'[main] = copy[main]
    BY <1>2, Names DEF Loads
  <2>. QED  BY <1>2, <1>3, <1>4, <2>1 DEF Loads, Follows, FreshCommand
<1>9. FreshSync'
  <2>1. ASSUME NEW r \in Syncs \cap fresh', pc'[r] = "save"
        PROVE  copy'[r] = [file EXCEPT !.mnemonic = snap[r], !.cached = got[r]]
    <3>1. CASE r = s
      BY <1>2, <2>1, <3>1 DEF Loads
    <3>2. CASE r # s
      <4>1. r \in fresh /\ pc[r] = "save" /\ copy'[r] = copy[r]
        BY <1>2, <1>3, <2>1, <3>2, Names DEF Loads
      <4>. QED  BY <4>1 DEF Follows, FreshSync
    <3>. QED  BY <3>1, <3>2
  <2>. QED  BY <1>2, <1>3, <2>1 DEF Loads, FreshSync
<1>10. Shown'
  <2>1. \A r \in Syncs : Landing(r)' <=> Landing(r)
    BY <1>2, <1>3, Names DEF Loads, Landing
  <2>2. \A r \in Syncs : pc'[r] \in {"icons", "fetchicons"} => pc'[r] = pc[r]
    BY <1>3, Names
  <2>. QED  BY <1>2, <1>3, <2>1, <2>2 DEF Loads, Follows, Shown
<1>. QED  BY <1>5, <1>6, <1>7, <1>8, <1>9, <1>10 DEF Follows

\* A fresh copy is written: of a chain that was chosen, a favorite or a sync.
LEMMA FollowsWrite ==
  ASSUME TypeInv, FileInv, OneSync, Follows, NEW t \in Threads, BeginWrite(t),
         ~overlapped'
  PROVE  Follows'
<1>. USE DEF TypeInv, TypeOK
<1>1. /\ t \in fresh /\ file \in Data /\ writing = {} /\ writing' = {t}
      /\ Vault = file /\ Vault' = copy[t] /\ copy[t] \in Data
      /\ fresh' = {} /\ copy' = copy
  BY Truncated DEF BeginWrite, FileTypeOK
<1>2. UNCHANGED sessionVars /\ Vault # Unreadable /\ Vault' # Unreadable
  BY <1>1, Defaults DEF BeginWrite
<1>. USE <1>2 DEF sessionVars
<1>3. FreshCommand' /\ FreshSync'
  BY <1>1 DEF FreshCommand, FreshSync
<1>4. CASE t = main /\ pc[main] \in {"generate", "join"}
  <2>1. screen = "setup"
    BY <1>4 DEF Ways
  <2>2. Vault'.cached = Vault.cached /\ Vault'.favorites = Vault.favorites
    BY <1>1, <1>4 DEF Follows, FreshCommand, Data
  <2>3. SetupIsEmpty'
    BY <1>1, <2>1, <2>2 DEF Follows, SetupIsEmpty, UnderWay
  <2>4. StateBelongs' /\ SyncsBelong'
    BY <2>1, <2>2 DEF Follows, SetupIsEmpty, StateBelongs, Belongs,
       SyncsBelong, UnderWay
  <2>5. MnemonicFollows' /\ FavoritesFollow'
    BY <1>1, <1>4, <2>1, <2>2 DEF Follows, MnemonicFollows, FavoritesFollow
  <2>6. Shown'
    <3>1. \A r \in Syncs : pc[r] = "idle" /\ r # t
      BY <1>4, <2>1, Names DEF Follows, SetupIsEmpty, UnderWay
    <3>2. st.pw_dtos = Vault'.cached
      BY <2>1, <2>2 DEF Follows, SetupIsEmpty
    <3>. QED  BY <1>1, <3>1, <3>2 DEF Shown, Landing
  <2>. QED  BY <1>3, <2>3, <2>4, <2>5, <2>6 DEF Follows
<1>5. CASE t = main /\ pc[main] = "toggle"
  <2>1. /\ screen = "main" /\ Vault'.cached = Vault.cached
        /\ Vault'.mnemonic = Vault.mnemonic /\ Vault'.favorites = st.favorites
    BY <1>1, <1>5 DEF Follows, FreshCommand, Data, Ways
  <2>2. StateBelongs' /\ SyncsBelong'
    BY <2>1 DEF Follows, StateBelongs, Belongs, SyncsBelong, UnderWay
  <2>3. SetupIsEmpty' /\ MnemonicFollows' /\ FavoritesFollow'
    BY <2>1 DEF Follows, SetupIsEmpty, MnemonicFollows, FavoritesFollow
  <2>4. Shown'
    BY <1>1, <1>5, <2>1, Names DEF Follows, Shown, Landing
  <2>. QED  BY <1>3, <2>2, <2>3, <2>4 DEF Follows
<1>6. CASE t \in Syncs
  <2>1. pc[t] = "save" /\ t \in UnderWay
    BY <1>6, Names DEF BeginWrite, Ways, UnderWay, Command, SyncStep
  <2>2. /\ Vault'.mnemonic = snap[t] /\ Vault'.cached = got[t]
        /\ Vault'.favorites = Vault.favorites
    <3>1. copy[t] = [file EXCEPT !.mnemonic = snap[t], !.cached = got[t]]
      BY <1>1, <1>6, <2>1 DEF Follows, FreshSync
    <3>. QED  BY <1>1, <3>1 DEF Data
  <2>3. snap[t] = Vault.mnemonic /\ got[t].chain = Vault.mnemonic
    BY <2>1 DEF Follows, SyncsBelong
  <2>4. StateBelongs' /\ SyncsBelong'
    BY <2>2, <2>3 DEF Follows, StateBelongs, Belongs, SyncsBelong, UnderWay
  <2>5. SetupIsEmpty' /\ MnemonicFollows'
    BY <2>1, <2>2, <2>3 DEF Follows, SetupIsEmpty, MnemonicFollows, UnderWay
  <2>6. FavoritesFollow'
    BY <1>1, <1>6, <2>2, Names DEF Follows, FavoritesFollow
  <2>7. Shown'
    <3>1. ASSUME ~racing, NEW r \in Syncs, Landing(r)'
          PROVE  r = t
      BY <1>1, <2>1, <3>1 DEF Landing, OneSync, UnderWay
    <3>2. Landing(t)' /\ Vault'.cached = got[t]
      BY <1>1, <2>2 DEF Landing
    <3>. QED  BY <1>6, <3>1, <3>2 DEF Follows, Shown
  <2>. QED  BY <1>3, <2>4, <2>5, <2>6, <2>7 DEF Follows
<1>. QED  BY <1>4, <1>5, <1>6, Names DEF BeginWrite, Ways, Command

\* The end of a write changes nothing in the vault.
SameVault ==
  /\ Vault' = Vault /\ copy' = copy /\ fresh' = {} /\ writing' = {}
  /\ \A content : Belongs(content)' <=> Belongs(content)

LEMMA FileFilled ==
  ASSUME FileInv, NEW t \in Threads, Fill(t), ~overlapped'
  PROVE  SameVault /\ Vault = copy[t] /\ writing = {t}
  BY Filled DEF SameVault, Belongs

LEMMA FollowsEndCommand ==
  ASSUME TypeInv, FileInv, Follows, EndCommand, ~overlapped'
  PROVE  Follows'
<1>. USE DEF TypeInv, TypeOK
<1>1. SameVault /\ Vault = copy[main] /\ writing = {main}
  BY FileFilled, Names DEF EndCommand
<1>2. /\ pc'[main] = "idle" /\ \A s \in Syncs : pc'[s] = pc[s]
      /\ UNCHANGED <<snap, got, late, racing>>
  BY Names DEF EndCommand
<1>3. UnderWay' = UnderWay /\ (\A s \in Syncs : Landing(s)' <=> Landing(s))
  BY <1>1, <1>2, Names DEF UnderWay, SameVault, Landing
<1>4. Vault # Unreadable
  BY <1>1, Names, Defaults DEF FileTypeOK
<1>5. /\ st'.passwords = st.passwords /\ st'.pw_dtos = st.pw_dtos
      /\ st'.bookmarks = st.bookmarks /\ st'.others = st.others
      /\ st'.favorites = st.favorites
      /\ pc[main] = "toggle" => st'.mnemonic = st.mnemonic
      /\ pc[main] # "toggle" => st'.mnemonic = Vault.mnemonic
  BY <1>1 DEF EndCommand, AppState
<1>6. StateBelongs' /\ SyncsBelong'
  <2>1. \A s \in UnderWay : pc'[s] = pc[s]
    BY <1>2 DEF UnderWay
  <2>. QED  BY <1>1, <1>2, <1>3, <1>5, <2>1 DEF SameVault, Follows,
               StateBelongs, SyncsBelong
<1>7. FreshCommand' /\ FreshSync'
  BY <1>1 DEF SameVault, FreshCommand, FreshSync
<1>8. CASE pc[main] \in {"generate", "join"}
  <2>1. screen = "setup" /\ screen' \in {"setup", "main"}
    BY <1>8 DEF EndCommand, Ways
  <2>2. SetupIsEmpty'
    BY <1>1, <1>3, <1>5, <2>1 DEF SameVault, Follows, SetupIsEmpty
  <2>3. FavoritesFollow'
    BY <1>1, <1>5, <2>1, Names DEF SameVault, Follows, FavoritesFollow
  <2>4. MnemonicFollows'
    <3>1. Vault.mnemonic # None
      BY <1>1, <1>8, Names DEF Ways
    <3>. QED  BY <1>1, <1>4, <1>5, <1>8, <2>1, <3>1 DEF SameVault,
                 MnemonicFollows
  <2>5. Shown'
    BY <1>1, <1>2, <1>3, <1>5, <2>1 DEF SameVault, Follows, Shown
  <2>. QED  BY <1>6, <1>7, <2>2, <2>3, <2>4, <2>5 DEF Follows
<1>9. CASE pc[main] = "toggle"
  <2>1. screen = "main" /\ screen' = screen /\ copy[main].favorites = st.favorites
    BY <1>9 DEF EndCommand, Ways
  <2>2. SetupIsEmpty' /\ MnemonicFollows' /\ FavoritesFollow'
    BY <1>1, <1>5, <1>9, <2>1 DEF SameVault, Follows, SetupIsEmpty,
       MnemonicFollows, FavoritesFollow
  <2>3. Shown'
    BY <1>1, <1>2, <1>3, <1>5, <2>1 DEF SameVault, Follows, Shown
  <2>. QED  BY <1>6, <1>7, <2>2, <2>3 DEF Follows
<1>. QED  BY <1>8, <1>9 DEF EndCommand, Command

LEMMA FollowsSyncSaves ==
  ASSUME TypeInv, FileInv, Follows, NEW s \in Syncs, SyncSaves(s), ~overlapped'
  PROVE  Follows'
<1>. USE DEF TypeInv, TypeOK, SyncStepTo
<1>1. SameVault /\ Vault = copy[s] /\ writing = {s}
  BY FileFilled, Names DEF SyncSaves
<1>2. /\ UNCHANGED <<st, screen, snap, got, late, racing>>
      /\ pc[s] = "save" /\ pc'[s] = "refill" /\ pc'[main] = pc[main]
      /\ \A r \in Syncs : r # s => pc'[r] = pc[r]
  BY Names DEF SyncSaves
<1>3. UnderWay' = UnderWay /\ (\A r \in Syncs : Landing(r)' <=> Landing(r))
  BY <1>1, <1>2 DEF UnderWay, SameVault, Landing
<1>4. StateBelongs'
  BY <1>1, <1>2 DEF SameVault, Follows, StateBelongs
<1>5. SyncsBelong'
  <2>1. ASSUME NEW r \in UnderWay'
        PROVE  /\ r \in UnderWay
               /\ pc'[r] \in {"fetched", "save", "refill"} =>
                    pc[r] \in {"fetched", "save", "refill"}
    BY <1>2, <1>3 DEF UnderWay
  <2>. QED  BY <1>1, <1>2, <2>1 DEF SameVault, Follows, SyncsBelong
<1>6. SetupIsEmpty' /\ MnemonicFollows' /\ FavoritesFollow'
  BY <1>1, <1>2, <1>3, Names DEF SameVault, Follows, SetupIsEmpty,
     MnemonicFollows, FavoritesFollow
<1>7. FreshCommand' /\ FreshSync'
  BY <1>1 DEF SameVault, FreshCommand, FreshSync
<1>8. Shown'
  <2>1. \A r \in Syncs : pc'[r] \in {"icons", "fetchicons"} => pc'[r] = pc[r]
    BY <1>2
  <2>. QED  BY <1>1, <1>2, <1>3, <2>1 DEF SameVault, Follows, Shown
<1>. QED  BY <1>4, <1>5, <1>6, <1>7, <1>8 DEF Follows

\* The app starts again; a vault that was being written is not there any more.
LEMMA FollowsRestart ==
  ASSUME TypeInv, FileInv, Follows, Restart, ~overlapped'
  PROVE  Follows'
<1>. USE DEF TypeInv, TypeOK
<1>1. file' = file /\ writing' = {} /\ fresh' = {} /\ Vault' = file
  BY DEF Restart, ProcessEnds, Vault
<1>2. /\ st' = Fresh /\ screen' = "unlock"
      /\ UnderWay' = {} /\ pc'[main] = "idle"
  BY Names DEF Restart, UnderWay
<1>3. StateBelongs'
  <2>1. Vault' # Unreadable => Vault' = Vault
    <3>1. CASE writing = {}
      BY <1>1, <3>1 DEF Vault
    <3>2. CASE writing # {}
      BY <1>1, <3>2 DEF Restart, ProcessEnds, FileInv, OneAtATime
    <3>. QED  BY <3>1, <3>2
  <2>2. /\ Fresh.passwords = Nothing /\ Fresh.pw_dtos = Nothing
        /\ Fresh.bookmarks = Nothing /\ Fresh.others = Nothing
    BY DEF Fresh
  <2>. QED  BY <1>1, <1>2, <2>1, <2>2 DEF Follows, StateBelongs, Belongs
<1>4. SyncsBelong' /\ SetupIsEmpty' /\ FavoritesFollow' /\ Shown'
  BY <1>2 DEF SyncsBelong, SetupIsEmpty, FavoritesFollow, Shown
<1>5. MnemonicFollows'
  BY <1>2 DEF MnemonicFollows, Fresh
<1>6. FreshCommand' /\ FreshSync'
  BY <1>1 DEF FreshCommand, FreshSync
<1>. QED  BY <1>3, <1>4, <1>5, <1>6 DEF Follows

\* Nothing but the server's side of a chain, or nothing at all, changes.
LEMMA FollowsElsewhere ==
  ASSUME Follows, (\E c \in Chains : Change(c)) \/ UNCHANGED vars, ~overlapped'
  PROVE  Follows'
<1>1. SameFile
  BY FileLooked DEF Change, vars
<1>2. UNCHANGED <<st, screen, pc, snap, got, late, racing>> /\ UnderWay' = UnderWay
  BY DEF Change, vars, sessionVars, UnderWay
<1>3. StateBelongs' /\ SyncsBelong' /\ SetupIsEmpty'
  BY <1>1, <1>2 DEF SameFile, Follows, StateBelongs, SyncsBelong, SetupIsEmpty
<1>4. MnemonicFollows' /\ FavoritesFollow' /\ FreshCommand' /\ FreshSync' /\ Shown'
  BY <1>1, <1>2 DEF SameFile, Follows, MnemonicFollows, FavoritesFollow,
     FreshCommand, FreshSync, Shown, Landing
<1>. QED  BY <1>3, <1>4 DEF Follows

LEMMA SessionStep == TypeInv /\ SessionInv /\ [Next]_vars => SessionInv'
<1>. SUFFICES ASSUME TypeInv, SessionInv, [Next]_vars
              PROVE  SessionInv'
  OBVIOUS
<1>1. TypeInv' /\ Ways' /\ FileInv' /\ Locked' /\ OneSync'
  BY TypeStep, FileStep, LockedStep, OneSyncStep DEF SessionInv, TypeInv
<1>2. ASSUME ~overlapped'
      PROVE  Follows'
  <2>1. Follows /\ FileInv /\ Locked /\ OneSync
    BY <1>2, OverlappedBefore DEF SessionInv
  <2>. USE <1>1, <1>2, <2>1
  <2>2. CASE MainThread
    BY <2>2, FollowsUnlock, FollowsChoose, FollowsLock, FollowsChoice,
       FollowsToggle, FollowsEndCommand DEF MainThread
  <2>3. ASSUME NEW s \in Syncs, Sync(s)
        PROVE  Follows'
    BY <2>3, FollowsSyncStep, FollowsSyncLoads, FollowsSyncSaves, FollowsRefill
       DEF Sync
  <2>4. ASSUME NEW t \in Threads, BeginWrite(t)
        PROVE  Follows'
    BY <2>4, FollowsWrite
  <2>5. CASE (\E c \in Chains : Change(c)) \/ Restart \/ UNCHANGED vars
    BY <2>5, FollowsElsewhere, FollowsRestart
  <2>. QED  BY <2>2, <2>3, <2>4, <2>5 DEF Next
<1>. QED  BY <1>1, <1>2 DEF SessionInv

LEMMA SessionInit == Init => SessionInv
<1>. SUFFICES ASSUME Init
              PROVE  SessionInv
  OBVIOUS
<1>1. TypeInv
  BY TypeInit
<1>2. /\ file = DefaultData /\ writing = {} /\ fresh = {} /\ ~overlapped
      /\ st = Fresh /\ screen = "unlock" /\ UnderWay = {} /\ Vault = DefaultData
  BY Names DEF Init, FileInit, UnderWay, Vault
<1>3. FileInv
  BY <1>2, Defaults DEF FileInv, OneAtATime, CutOrWritten
<1>4. Locked /\ OneSync
  BY <1>2 DEF Locked, OneSync, Fresh
<1>5. Follows
  <2>1. StateBelongs /\ SyncsBelong
    BY <1>2, Defaults DEF StateBelongs, SyncsBelong, Belongs, Fresh
  <2>2. MnemonicFollows
    BY <1>2 DEF MnemonicFollows, Fresh
  <2>3. SetupIsEmpty /\ FavoritesFollow /\ FreshCommand /\ FreshSync /\ Shown
    BY <1>2 DEF SetupIsEmpty, FavoritesFollow, FreshCommand, FreshSync, Shown
  <2>. QED  BY <2>1, <2>2, <2>3 DEF Follows
<1>. QED  BY <1>1, <1>3, <1>4, <1>5 DEF SessionInv, TypeInv

LEMMA SessionCorrect == Spec => [](TypeInv /\ SessionInv)
  BY TypeInit, SessionInit, TypeStep, SessionStep, PTL DEF Spec

\* What the vault holds is what is in the file, if the file opens.
LEMMA VaultIsFile ==
  ASSUME FileInv, ~overlapped, file # Unreadable
  PROVE  writing = {} /\ Vault = file
  BY DEF FileInv, OneAtATime, Vault
-----------------------------------------------------------------------------
(* The theorems about what memory and vault hold. *)

(***************************************************************************)
(* As long as no two load-to-write spans of vault.json overlap, no items   *)
(* of one sync chain are in memory, or cached in the file, under the       *)
(* mnemonic of another, however syncs, locks and new chains interleave.    *)
(***************************************************************************)
THEOREM OfOneChainCorrect == Spec => []OfOneChain
<1>1. TypeInv /\ SessionInv => OfOneChain
  <2>. SUFFICES ASSUME TypeInv, SessionInv, ~overlapped
                PROVE  /\ OfChain(st.passwords, st.mnemonic)
                       /\ OfChain(st.pw_dtos, st.mnemonic)
                       /\ OfChain(st.bookmarks, st.mnemonic)
                       /\ OfChain(st.others, st.mnemonic)
                       /\ file # Unreadable => OfChain(file.cached, file.mnemonic)
    BY DEF OfOneChain
  <2>1. FileInv /\ StateBelongs /\ SetupIsEmpty /\ MnemonicFollows
    BY DEF SessionInv, Follows
  <2>2. file # Unreadable => Belongs(Vault.cached) /\ Vault = file
    BY <2>1, VaultIsFile DEF StateBelongs
  <2>3. file # Unreadable => OfChain(file.cached, file.mnemonic)
    BY <2>2 DEF Belongs, OfChain
  <2>4. CASE screen = "setup"
    BY <2>1, <2>3, <2>4 DEF SetupIsEmpty, OfChain
  <2>5. CASE screen # "setup"
    <3>1. st.mnemonic # None => Vault # Unreadable /\ st.mnemonic = Vault.mnemonic
      BY <2>1, <2>5 DEF MnemonicFollows, TypeInv, TypeOK
    <3>. QED  BY <2>1, <2>3, <3>1 DEF StateBelongs, Belongs, OfChain
  <2>. QED  BY <2>4, <2>5
<1>. QED  BY <1>1, SessionCorrect, PTL

(***************************************************************************)
(* Between two commands on the main screen the mnemonic and the favorites  *)
(* in memory are those of the file, whatever a sync wrote in the meantime. *)
(***************************************************************************)
THEOREM InStepCorrect == Spec => []InStep
<1>1. SessionInv => InStep
  BY VaultIsFile DEF SessionInv, Follows, MnemonicFollows, FavoritesFollow,
     InStep, MainIdle
<1>. QED  BY <1>1, SessionCorrect, PTL

(***************************************************************************)
(* At rest the rows on the screen are those the file has cached, if syncs  *)
(* come one at a time and none outlives a lock.                            *)
(***************************************************************************)
THEOREM ShownIsCachedCorrect == Spec => []ShownIsCached
<1>1. TypeInv /\ SessionInv => ShownIsCached
  <2>. SUFFICES ASSUME TypeInv, SessionInv, MainIdle("main"), UnderWay = {},
                       ~overlapped, ~late, ~racing, file # Unreadable
                PROVE  st.pw_dtos = file.cached
    BY DEF ShownIsCached
  <2>1. writing = {} /\ Vault = file
    BY VaultIsFile DEF SessionInv
  <2>2. \A s \in Syncs : ~Landing(s)
    BY <2>1 DEF Landing, UnderWay
  <2>. QED  BY <2>1, <2>2 DEF SessionInv, Follows, Shown, MainIdle
<1>. QED  BY <1>1, SessionCorrect, PTL
=============================================================================
