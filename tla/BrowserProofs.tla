---------------------------- MODULE BrowserProofs ----------------------------
(***************************************************************************)
(* Proofs about what lies around the app, for any jobs, tabs, hosts,       *)
(* handles and bounds: the bridge to the browser, the identities of those  *)
(* who talk to the broker, and the icon cache.                             *)
(*                                                                         *)
(* Each invariant says what holds at every stage of an operation that      *)
(* other actors may run into: of a job from the broker to the page, of a   *)
(* handle from its secret to the vault, of a host from the start of a      *)
(* fetch to its end.                                                       *)
(***************************************************************************)
EXTENDS MCBrowser, VaultFileProofs

-----------------------------------------------------------------------------
(* The invariants. *)

\* A host that a fetch will mark has an icon, or nothing of older rules against
\* it, or the fetch is not through with it.
KeptHasIcon ==
  \A f \in Fetches, h \in Sites : todo[f][h] = "kept" => h \in icon
Pending ==
  \A f \in Fetches : saw[f] # Idle =>
    \A h \in saw[f] : miss[h] = "old" => h \in icon \/ todo[f][h] # "no"
LookedIsEvaluated == \A h \in looked : miss[h] = "old" => h \in icon
FaviconInv == KeptHasIcon /\ Pending /\ LookedIsEvaluated

\* From when an id is drawn there is one.
Chosen ==
  /\ hook \in {"keychain", "write", "fill", "sidecar"} => own \in Ids
  /\ call \in {"write", "fill", "reply", "config"} => drawn \in Ids
IdentTypeInv == IdentTypeOK /\ Chosen

\* Handles for the injector whose secret is in the keychain: those in the file
\* and in every copy that is going to be written, but for the one whose secret
\* is just to be stored.
Ids_of(data) == {h.id : h \in Injectors(data)}
Keyed ==
  /\ file # Unreadable => Ids_of(file) \subseteq hostKeys
  /\ \A t \in {Agent, Desk} : Ids_of(copy[t]) \subseteq hostKeys
  /\ hook = "keychain" => Ids_of(copy[Setup]) \subseteq hostKeys \cup {own}
  /\ hook \in {"write", "fill"} => Ids_of(copy[Setup]) \subseteq hostKeys

\* The handle that a start makes is in its copy.
InCopy ==
  hook \in {"keychain", "write", "fill"} => own \in Ids_of(copy[Setup])

\* What the other threads write keeps every injector's handle.
FreshKeeps ==
  \A t \in {Agent, Desk} \cap fresh : Ids_of(file) \subseteq Ids_of(copy[t])

\* The handle that the host is told of, or is going to be.
Stored(id) == Vault # Unreadable => id \in Ids_of(Vault)
Told ==
  ~overlapped =>
    /\ hook = "sidecar" => Stored(own)
    /\ hook = "up" /\ ~failed => Stored(sidecar)

\* The config is written after the secret.
ConfigHasSecret ==
  /\ call = "config" => drawn \in agentKeys
  /\ config # NoId => config \in agentKeys \/ call = "forget" \/ cut

IdentInv ==
  FileInv /\ Keyed /\ InCopy /\ FreshKeeps /\ Told /\ ConfigHasSecret

\* What a job has, once the extension says that it is done.
Done(j) ==
  /\ order[j] # None
  /\ IF order[j].kind = "fill" THEN filled[j] # {} ELSE order[j].hosts \subseteq permitted

\* What a job is, at each stage of it.
Ordered ==
  /\ \A j \in Jobs :
       /\ order[j] # None /\ order[j].kind = "fill" => Bound(order[j].own, order[j].url)
       /\ task[j] \in {"find", "opened", "loading", "send"} =>
            order[j] # None /\ order[j].kind = "fill"
       /\ task[j] \in {"opened", "loading", "send"} => tab[j] \in Tabs
       /\ task[j] \in {"ask", "cookies"} => order[j] # None /\ order[j].kind = "grab"
  /\ \A p \in Ports : toExt[p] # None => order[toExt[p]] # None
BridgeTypeInv == BridgeTypeOK /\ Ordered

\* Every page that was filled in is of the origin that the job was for.
OnItsOrigin ==
  \A j \in Jobs : \A u \in filled[j] :
    /\ order[j] # None /\ order[j].kind = "fill"
    /\ BrowserOrigin(u) = origin_of(order[j].url)

\* Every answer on its way is true.
AnswersAreTrue ==
  /\ \A j \in Jobs :
       /\ task[j] = "cookies" => order[j].hosts \subseteq permitted
       /\ task[j] = "ok" \/ outcome[j] = "ok" => Done(j)
  /\ \A p \in Ports : \A i \in 1..Len(toHost[p]) :
       toHost[p][i].ok => Done(toHost[p][i].job)

BridgeInv == OnItsOrigin /\ AnswersAreTrue
-----------------------------------------------------------------------------
(* The icon cache. *)

LEMMA FaviconTypeStep == FaviconTypeOK /\ [FaviconNext]_faviconVars => FaviconTypeOK'
<1>. SUFFICES ASSUME FaviconTypeOK, [FaviconNext]_faviconVars
              PROVE  FaviconTypeOK'
  OBVIOUS
<1>. USE DEF FaviconTypeOK
<1>0. current \in BOOLEAN
  BY Zenon
<1>1. ASSUME NEW f \in Fetches, StartFetch(f)
      PROVE  FaviconTypeOK'
  <2>1. PICK hosts \in SUBSET Sites :
          IF Todo(hosts) = {}
            THEN MarkCurrent(Outdated(hosts)) /\ UNCHANGED <<saw, todo>>
            ELSE /\ saw' = [saw EXCEPT ![f] = Outdated(hosts)]
                 /\ todo' = [todo EXCEPT ![f] =
                               [h \in Sites |-> IF h \in Todo(hosts) THEN "queued" ELSE "no"]]
                 /\ UNCHANGED <<current, looked>>
    BY <1>1 DEF StartFetch
  <2>2. UNCHANGED <<icon, title, miss>>
    BY <1>1 DEF StartFetch
  <2>3. Outdated(hosts) \in SUBSET Sites
    BY DEF Outdated
  <2>4. CASE Todo(hosts) = {}
    BY <1>0, <2>1, <2>2, <2>3, <2>4 DEF MarkCurrent
  <2>5. CASE Todo(hosts) # {}
    <3>1. current' = current /\ looked' = looked
      BY <2>1, <2>5
    <3>2. saw' \in [Fetches -> {Idle} \cup SUBSET Sites]
      BY <2>1, <2>3, <2>5
    <3>3. todo' \in [Fetches -> [Sites -> {"no", "queued", "home", "icons", "kept"}]]
      <4>1. PICK first :
              first = [h \in Sites |-> IF h \in Todo(hosts) THEN "queued" ELSE "no"]
        OBVIOUS
      <4>2. first \in [Sites -> {"no", "queued", "home", "icons", "kept"}]
        BY <4>1
      <4>3. todo' = [todo EXCEPT ![f] = first]
        BY <2>1, <2>5, <4>1
      <4>. QED  BY <4>2, <4>3
    <3>. QED  BY <1>0, <2>2, <3>1, <3>2, <3>3
  <2>. QED  BY <2>4, <2>5
<1>2. ASSUME NEW f \in Fetches, EndFetch(f)
      PROVE  FaviconTypeOK'
  BY <1>2 DEF EndFetch, MarkCurrent
<1>3. ASSUME NEW f \in Fetches, NEW h \in Sites, FetchHome(f, h) \/ FetchIcon(f, h)
      PROVE  FaviconTypeOK'
  <2>1. UNCHANGED <<current, saw, looked>>
    BY <1>3 DEF FetchHome, FetchIcon, Work
  <2>2. todo' \in [Fetches -> [Sites -> {"no", "queued", "home", "icons", "kept"}]]
    BY <1>3 DEF FetchHome, FetchIcon, Work
  <2>3. /\ icon' \subseteq Sites /\ title' \subseteq Sites
        /\ miss' \in [Sites -> {"none", "old", "new"}]
    BY <1>3 DEF FetchHome, FetchIcon
  <2>. QED  BY <1>0, <2>1, <2>2, <2>3
<1>4. CASE Closes
  BY <1>0, <1>4 DEF Closes
<1>5. CASE Upgrade
  BY <1>5 DEF Upgrade
<1>6. CASE UNCHANGED faviconVars
  BY <1>0, <1>6 DEF faviconVars
<1>. QED  BY <1>1, <1>2, <1>3, <1>4, <1>5, <1>6 DEF FaviconNext

LEMMA FaviconTypeInit == FaviconInit => FaviconTypeOK
<1>. SUFFICES ASSUME FaviconInit
              PROVE  FaviconTypeOK
  OBVIOUS
<1>1. current \in BOOLEAN
  BY Zenon DEF FaviconInit
<1>2. [h \in Sites |-> "no"] \in [Sites -> {"no", "queued", "home", "icons", "kept"}]
  OBVIOUS
<1>3. /\ saw \in [Fetches -> {Idle} \cup SUBSET Sites]
      /\ todo \in [Fetches -> [Sites -> {"no", "queued", "home", "icons", "kept"}]]
  BY <1>2 DEF FaviconInit
<1>. QED  BY <1>1, <1>3 DEF FaviconInit, FaviconTypeOK

\* Type correctness of the icon cache.
THEOREM FaviconTypeCorrect == FaviconSpec => []FaviconTypeOK
  BY FaviconTypeInit, FaviconTypeStep, PTL DEF FaviconSpec

LEMMA FaviconStart ==
  ASSUME FaviconTypeOK, FaviconInv, NEW f \in Fetches, StartFetch(f)
  PROVE  FaviconInv'
<1>. USE DEF FaviconTypeOK
<1>1. PICK hosts \in SUBSET Sites :
        IF Todo(hosts) = {}
          THEN MarkCurrent(Outdated(hosts)) /\ UNCHANGED <<saw, todo>>
          ELSE /\ saw' = [saw EXCEPT ![f] = Outdated(hosts)]
               /\ todo' = [todo EXCEPT ![f] =
                             [h \in Sites |-> IF h \in Todo(hosts) THEN "queued" ELSE "no"]]
               /\ UNCHANGED <<current, looked>>
  BY DEF StartFetch
<1>2. UNCHANGED <<icon, title, miss>>
  BY DEF StartFetch
\* Under new rules every host without an icon is to be fetched.
<1>3. \A h \in Outdated(hosts) : h \in Sites /\ (h \in icon \/ h \in Todo(hosts))
  BY DEF Outdated, Todo
<1>4. CASE Todo(hosts) = {}
  BY <1>1, <1>2, <1>3, <1>4
     DEF FaviconInv, KeptHasIcon, Pending, LookedIsEvaluated, MarkCurrent
<1>5. CASE Todo(hosts) # {}
  <2>1. looked' = looked /\ \A g \in Fetches : g # f => saw'[g] = saw[g] /\ todo'[g] = todo[g]
    BY <1>1, <1>5
  <2>2. /\ saw'[f] = Outdated(hosts)
        /\ \A h \in Sites : todo'[f][h] = IF h \in Todo(hosts) THEN "queued" ELSE "no"
    BY <1>1, <1>5
  <2>3. KeptHasIcon'
    BY <1>2, <2>1, <2>2 DEF FaviconInv, KeptHasIcon
  <2>4. Pending'
    BY <1>2, <1>3, <2>1, <2>2 DEF FaviconInv, Pending
  <2>. QED  BY <1>2, <2>1, <2>3, <2>4 DEF FaviconInv, LookedIsEvaluated
<1>. QED  BY <1>4, <1>5

LEMMA FaviconWork ==
  ASSUME FaviconTypeOK, FaviconInv, NEW f \in Fetches, NEW h \in Sites,
         FetchHome(f, h) \/ FetchIcon(f, h)
  PROVE  FaviconInv'
<1>. USE DEF FaviconTypeOK
<1>1. /\ icon \subseteq icon' /\ UNCHANGED <<saw, looked>>
      /\ \A g \in Sites : miss'[g] = "old" => miss[g] = "old"
  BY DEF FetchHome, FetchIcon, Work
<1>2. \A e \in Fetches, g \in Sites : <<e, g>> # <<f, h>> => todo'[e][g] = todo[e][g]
  BY DEF FetchHome, FetchIcon, Work
<1>3. /\ todo'[f][h] = "kept" => h \in icon
      /\ todo'[f][h] = "no" /\ miss'[h] = "old" => h \in icon'
  BY DEF FetchHome, FetchIcon, Work, FaviconInv, KeptHasIcon
<1>4. KeptHasIcon'
  BY <1>1, <1>2, <1>3 DEF FaviconInv, KeptHasIcon
<1>5. ASSUME NEW e \in Fetches, saw[e] # Idle, NEW g \in saw[e], miss'[g] = "old"
      PROVE  g \in icon' \/ todo'[e][g] # "no"
  <2>1. g \in Sites /\ (g \in icon \/ todo[e][g] # "no")
    BY <1>1, <1>5 DEF FaviconInv, Pending
  <2>. QED  BY <1>1, <1>2, <1>3, <1>5, <2>1
<1>6. Pending'
  BY <1>1, <1>5 DEF Pending
<1>. QED  BY <1>1, <1>4, <1>6 DEF FaviconInv, LookedIsEvaluated

LEMMA FaviconStep ==
  FaviconTypeOK /\ FaviconInv /\ [FaviconNext]_faviconVars => FaviconInv'
<1>. SUFFICES ASSUME FaviconTypeOK, FaviconInv, [FaviconNext]_faviconVars
              PROVE  FaviconInv'
  OBVIOUS
<1>1. ASSUME NEW f \in Fetches, EndFetch(f)
      PROVE  FaviconInv'
  <2>1. \A h \in saw[f] : h \in Sites /\ (miss[h] = "old" => h \in icon)
    BY <1>1 DEF EndFetch, FaviconInv, Pending, FaviconTypeOK
  <2>2. /\ looked' = looked \cup saw[f] /\ UNCHANGED <<icon, miss, todo>>
        /\ \A g \in Fetches : saw'[g] = saw[g] \/ saw'[g] = Idle
    BY <1>1 DEF EndFetch, MarkCurrent, FaviconTypeOK
  <2>. QED  BY <2>1, <2>2 DEF FaviconInv, KeptHasIcon, Pending,
               LookedIsEvaluated
<1>2. CASE Closes
  BY <1>2 DEF Closes, FaviconInv, KeptHasIcon, Pending, LookedIsEvaluated,
     FaviconTypeOK
<1>3. CASE Upgrade
  BY <1>3 DEF Upgrade, FaviconInv, KeptHasIcon, Pending, LookedIsEvaluated
<1>4. CASE UNCHANGED faviconVars
  BY <1>4 DEF faviconVars, FaviconInv, KeptHasIcon, Pending, LookedIsEvaluated
<1>. QED  BY <1>1, <1>2, <1>3, <1>4, FaviconStart, FaviconWork DEF FaviconNext

\* Once the cache is marked as one of the current rules, none of the hosts that
\* were looked at goes without an icon because of what older rules had found.
THEOREM MarkedIsReevaluatedCorrect == FaviconSpec => []MarkedIsReevaluated
<1>1. FaviconInit => FaviconInv
  BY DEF FaviconInit, FaviconInv, KeptHasIcon, Pending, LookedIsEvaluated
<1>2. FaviconInv => MarkedIsReevaluated
  BY DEF FaviconInv, LookedIsEvaluated, MarkedIsReevaluated
<1>. QED  BY <1>1, <1>2, FaviconStep, FaviconTypeCorrect, PTL DEF FaviconSpec
-----------------------------------------------------------------------------
(* The identities. *)

LEMMA Names ==
  /\ Threads = {Setup, Agent, Desk}
  /\ Setup # Agent /\ Setup # Desk /\ Agent # Desk
  /\ DefaultData = [handles |-> {}] /\ DefaultData \in Data /\ Unreadable \notin Data
  BY IdentitiesAssumption, DataAssumption DEF Data

LEMMA LoadedType ==
  ASSUME IdentTypeOK
  PROVE  LoadVault \in Data
  BY Names DEF IdentTypeOK, FileTypeOK, LoadVault

\* The data that a push or a revocation gives.
LEMMA Pushed ==
  ASSUME NEW data \in Data, NEW id \in Ids, NEW injector \in BOOLEAN
  PROVE  [data EXCEPT !.handles = data.handles \cup
            {[id |-> id, injector |-> injector, revoked |-> FALSE]}] \in Data
<1>1. [id |-> id, injector |-> injector, revoked |-> FALSE] \in Handles
  BY DEF Handles
<1>. QED  BY <1>1 DEF Data

LEMMA Revoked ==
  ASSUME NEW data \in Data, NEW h \in data.handles
  PROVE  [data EXCEPT !.handles =
            (data.handles \ {h}) \cup {[h EXCEPT !.revoked = TRUE]}] \in Data
<1>1. data.handles \subseteq Handles /\ h \in Handles
  BY DEF Data
<1>2. [h EXCEPT !.revoked = TRUE] \in Handles
  BY <1>1 DEF Handles
<1>3. (data.handles \ {h}) \cup {[h EXCEPT !.revoked = TRUE]} \in SUBSET Handles
  BY <1>1, <1>2
<1>. QED  BY <1>3 DEF Data

\* An operation changes the vault's file in one of these ways.
FileStep(t) ==
  \/ \E data \in Data : LoadAndSet(t, data)
  \/ LoadAndLook \/ Truncate(t) \/ Fill(t) \/ ProcessEnds \/ UNCHANGED fileVars

LEMMA FileSteps ==
  ASSUME IdentTypeOK, [IdentNext]_identVars
  PROVE  \E t \in Threads : FileStep(t)
<1>. USE DEF FileStep
<1>1. ASSUME NEW t \in Threads, NEW id \in Ids, NEW injector \in BOOLEAN,
             Push(t, id, injector)
      PROVE  FileStep(t)
  BY <1>1, LoadedType, Pushed DEF Push, SetHandles
<1>2. CASE EnsureHandle
  BY <1>1, <1>2, Names DEF EnsureHandle
<1>3. CASE PersistHandle
  BY <1>3, Names DEF PersistHandle
<1>4. CASE HandleEnroll
  BY <1>1, <1>4, Names DEF HandleEnroll
<1>5. CASE Revoke
  <2>1. ASSUME NEW h \in LoadVault.handles,
               SetHandles(Desk, (LoadVault.handles \ {h}) \cup {[h EXCEPT !.revoked = TRUE]})
        PROVE  FileStep(Desk)
    BY <2>1, LoadedType, Revoked DEF SetHandles
  <2>. QED  BY <1>5, <2>1, Names DEF Revoke
<1>6. CASE AppEnds \/ HostPolls
  BY <1>6, Names DEF AppEnds, HostPolls
<1>7. CASE \/ AppStarts \/ StoreSecret \/ WriteSidecar \/ Enroll \/ SaveHandle \/ Forget
           \/ HostStarts \/ UNCHANGED identVars
  BY <1>7, Names DEF AppStarts, StoreSecret, WriteSidecar, Enroll, SaveHandle,
     Forget, HostStarts, identVars
<1>. QED  BY <1>2, <1>3, <1>4, <1>5, <1>6, <1>7 DEF IdentNext

LEMMA IdentTypeInit == IdentInit => IdentTypeInv
<1>. SUFFICES ASSUME IdentInit
              PROVE  IdentTypeInv
  OBVIOUS
<1>1. overlapped \in BOOLEAN /\ interrupted \in BOOLEAN /\ failed \in BOOLEAN /\ cut \in BOOLEAN
  BY Zenon DEF IdentInit, FileInit
<1>2. [t \in Threads |-> DefaultData] \in [Threads -> Data]
  BY Names
<1>3. FileTypeOK(Data)
  BY <1>1, <1>2, Names DEF IdentInit, FileInit, FileTypeOK
<1>. QED  BY <1>1, <1>3, IdentitiesAssumption DEF IdentInit, IdentTypeInv,
             IdentTypeOK, Chosen

\* The ids that the vault and its copies have are ids.
LEMMA Identified ==
  ASSUME IdentTypeOK, NEW h \in LoadVault.handles
  PROVE  h.id \in Ids
  BY LoadedType DEF Data, Handles

LEMMA IdentTypeStep == IdentTypeInv /\ [IdentNext]_identVars => IdentTypeInv'
<1>. SUFFICES ASSUME IdentTypeInv, [IdentNext]_identVars
              PROVE  IdentTypeInv'
  OBVIOUS
<1>1. FileTypeOK(Data)'
  BY FileSteps, FileTypesKept, Names DEF FileStep, IdentTypeInv, IdentTypeOK
<1>2. failed \in BOOLEAN /\ cut \in BOOLEAN
  BY Zenon DEF IdentTypeInv, IdentTypeOK
<1>3. failed' \in BOOLEAN /\ cut' \in BOOLEAN
  <2>1. UNCHANGED failed \/ failed' = FALSE \/ failed' = TRUE
    BY Zenon DEF IdentNext, AppStarts, EnsureHandle, StoreSecret, GiveUp,
       PersistHandle, WriteSidecar, AppEnds, Enroll, HandleEnroll, SaveHandle,
       Forget, Revoke, HostStarts, HostPolls, identVars, hookVars
  <2>2. UNCHANGED cut \/ cut' = TRUE
    BY Zenon DEF IdentNext, AppStarts, EnsureHandle, StoreSecret,
       PersistHandle, WriteSidecar, AppEnds, Enroll, HandleEnroll, SaveHandle,
       Forget, Revoke, HostStarts, HostPolls, identVars, toolVars
  <2>. QED  BY <1>2, <2>1, <2>2, Zenon
<1>. USE <1>1, <1>3 DEF IdentTypeInv, IdentTypeOK, Chosen
<1>4. CASE AppStarts
  BY <1>4, IdentitiesAssumption DEF AppStarts, toolVars
<1>5. CASE EnsureHandle
  <2>1. /\ own' \in Ids /\ hook' \in {"sidecar", "keychain"}
        /\ UNCHANGED <<desk, hostKeys, sidecar, hostId, starts>>
        /\ UNCHANGED <<drawn, call, agentKeys, config>>
    BY <1>5, Identified DEF EnsureHandle, toolVars, Injectors
  <2>. QED  BY <2>1
<1>6. CASE StoreSecret \/ PersistHandle \/ WriteSidecar
  BY <1>6 DEF StoreSecret, PersistHandle, WriteSidecar, GiveUp, toolVars
<1>7. CASE AppEnds
  BY <1>7 DEF AppEnds, ToolEnds
<1>8. CASE Enroll \/ HandleEnroll
  BY <1>8 DEF Enroll, HandleEnroll, ToolEnds, CallStep, hookVars
<1>9. CASE SaveHandle \/ Forget
  BY <1>9 DEF SaveHandle, Forget, ToolEnds, CallStep, hookVars
<1>10. CASE Revoke \/ HostStarts \/ HostPolls
  BY <1>10 DEF Revoke, HostStarts, HostPolls, hookVars, toolVars
<1>11. CASE UNCHANGED identVars
  BY <1>11 DEF identVars
<1>. QED  BY <1>4, <1>5, <1>6, <1>7, <1>8, <1>9, <1>10, <1>11 DEF IdentNext

LEMMA IdentTypes == IdentSpec => []IdentTypeInv
  BY IdentTypeInit, IdentTypeStep, PTL DEF IdentSpec

\* Type correctness of the identities.
THEOREM IdentTypeCorrect == IdentSpec => []IdentTypeOK
  BY IdentTypes, PTL DEF IdentTypeInv

LEMMA IdentFileInv == IdentTypeOK /\ FileInv /\ [IdentNext]_identVars => FileInv'
<1>. SUFFICES ASSUME IdentTypeOK, FileInv, [IdentNext]_identVars
              PROVE  FileInv'
  OBVIOUS
<1>1. copy \in [Threads -> Data]
  BY DEF IdentTypeOK, FileTypeOK
<1>2. PICK t \in Threads : FileStep(t)
  BY FileSteps
<1>. QED  BY <1>1, <1>2, FileInvKept, Names DEF FileStep, fileVars

\* The ids that a push, or a revocation, leaves in the copy that it makes.
LEMMA PushedIds ==
  ASSUME IdentTypeOK, NEW t \in Threads, NEW id \in Ids, NEW injector \in BOOLEAN,
         Push(t, id, injector)
  PROVE  /\ LoadAndSet(t, copy'[t])
         /\ Ids_of(copy'[t]) = Ids_of(LoadVault) \cup (IF injector THEN {id} ELSE {})
         /\ \A r \in Threads : r # t => copy'[r] = copy[r]
<1>. DEFINE new == [id |-> id, injector |-> injector, revoked |-> FALSE]
            data == [LoadVault EXCEPT !.handles = LoadVault.handles \cup {new}]
<1>1. copy \in [Threads -> Data] /\ LoadVault \in Data
  BY LoadedType DEF IdentTypeOK, FileTypeOK
<1>2. LoadAndSet(t, data)
  BY DEF Push, SetHandles
<1>3. copy' = [copy EXCEPT ![t] = data]
  BY <1>2 DEF LoadAndSet
<1>4. data.handles = LoadVault.handles \cup {new}
  BY <1>1 DEF Data
<1>5. new.id = id /\ new.injector = injector
  OBVIOUS
<1>. HIDE DEF new
<1>6. Ids_of(data) = Ids_of(LoadVault) \cup (IF injector THEN {id} ELSE {})
  <2>. HIDE DEF data
  <2>. QED  BY <1>4, <1>5 DEF Ids_of, Injectors
<1>. QED  BY <1>1, <1>2, <1>3, <1>6

LEMMA RevokedIds ==
  ASSUME IdentTypeOK, NEW h \in LoadVault.handles,
         SetHandles(Desk, (LoadVault.handles \ {h}) \cup {[h EXCEPT !.revoked = TRUE]})
  PROVE  /\ LoadAndSet(Desk, copy'[Desk])
         /\ Ids_of(copy'[Desk]) = Ids_of(LoadVault)
         /\ \A r \in Threads : r # Desk => copy'[r] = copy[r]
<1>. DEFINE new == [h EXCEPT !.revoked = TRUE]
            data == [LoadVault EXCEPT !.handles = (LoadVault.handles \ {h}) \cup {new}]
<1>1. copy \in [Threads -> Data] /\ LoadVault \in Data
  BY LoadedType DEF IdentTypeOK, FileTypeOK
<1>2. LoadAndSet(Desk, data)
  BY DEF SetHandles
<1>3. copy' = [copy EXCEPT ![Desk] = data]
  BY <1>2 DEF LoadAndSet
<1>4. data.handles = (LoadVault.handles \ {h}) \cup {new}
  BY <1>1 DEF Data
<1>5. new.id = h.id /\ new.injector = h.injector
  <2>1. h \in Handles
    BY <1>1 DEF Data
  <2>. QED  BY <2>1 DEF Handles
<1>. HIDE DEF new
<1>6. Ids_of(data) = Ids_of(LoadVault)
  <2>. HIDE DEF data
  <2>. QED  BY <1>4, <1>5 DEF Ids_of, Injectors
<1>. QED  BY <1>1, <1>2, <1>3, <1>6, Names

\* The keys and copies, under each way in which a thread uses the file.
CopiesInv == Keyed /\ InCopy /\ FreshKeeps

LEMMA LoadedIds ==
  ASSUME Keyed
  PROVE  Ids_of(LoadVault) \subseteq hostKeys
  BY Names DEF Keyed, LoadVault, Ids_of, Injectors

LEMMA CopiesHook ==
  ASSUME IdentTypeInv, CopiesInv,
         AppStarts \/ EnsureHandle \/ StoreSecret \/ PersistHandle \/ WriteSidecar \/ AppEnds
  PROVE  CopiesInv'
<1>. USE Names DEF CopiesInv, Keyed, InCopy, FreshKeeps
<1>1. CASE AppStarts \/ WriteSidecar
  BY <1>1 DEF AppStarts, WriteSidecar, GiveUp, fileVars
<1>2. CASE EnsureHandle
  <2>1. CASE LoadAndLook /\ hook' = "sidecar"
    BY <1>2, <2>1 DEF EnsureHandle, LoadAndLook
  <2>2. CASE hook' = "keychain"
    <3>1. PICK id \in Ids : own' = id /\ Push(Setup, id, TRUE)
      BY <1>2, <2>2 DEF EnsureHandle
    <3>2. /\ LoadAndSet(Setup, copy'[Setup])
          /\ Ids_of(copy'[Setup]) = Ids_of(LoadVault) \cup {own'}
          /\ copy'[Agent] = copy[Agent] /\ copy'[Desk] = copy[Desk]
      BY <3>1, PushedIds DEF IdentTypeInv
    <3>3. hostKeys' = hostKeys /\ file' = file /\ fresh' \subseteq fresh \cup {Setup}
      BY <1>2, <3>2 DEF EnsureHandle, LoadAndSet
    <3>4. Ids_of(copy'[Setup]) \subseteq hostKeys' \cup {own'} /\ own' \in Ids_of(copy'[Setup])
      BY <3>2, <3>3, LoadedIds
    <3>. QED  BY <2>2, <3>2, <3>3, <3>4
  <2>. QED  BY <1>2, <2>1, <2>2 DEF EnsureHandle
<1>3. CASE StoreSecret
  BY <1>3 DEF StoreSecret, GiveUp, fileVars
<1>4. CASE PersistHandle
  <2>1. CASE hook = "write"
    BY <1>4, <2>1 DEF PersistHandle, GiveUp, fileVars, Truncate
  <2>2. CASE hook = "fill"
    BY <1>4, <2>2 DEF PersistHandle, Fill
  <2>. QED  BY <1>4, <2>1, <2>2 DEF PersistHandle
<1>5. CASE AppEnds
  <2>1. /\ hook' = "down" /\ hostKeys' = hostKeys /\ file' = file /\ fresh' = {}
        /\ copy'[Agent] = DefaultData /\ copy'[Desk] = DefaultData
    BY <1>5 DEF AppEnds, ProcessEnds
  <2>2. Ids_of(DefaultData) = {}
    BY DEF Ids_of, Injectors
  <2>. QED  BY <2>1, <2>2
<1>. QED  BY <1>1, <1>2, <1>3, <1>4, <1>5

LEMMA CopiesTool ==
  ASSUME IdentTypeInv, CopiesInv, Enroll \/ HandleEnroll \/ SaveHandle \/ Forget
  PROVE  CopiesInv'
<1>. USE Names DEF CopiesInv, Keyed, InCopy, FreshKeeps
<1>0. UNCHANGED hookVars
  BY DEF Enroll, HandleEnroll, SaveHandle, Forget
<1>1. CASE UNCHANGED fileVars
  BY <1>0, <1>1 DEF hookVars, fileVars
<1>2. ASSUME NEW id \in Ids, Push(Agent, id, FALSE)
      PROVE  CopiesInv'
  <2>1. /\ LoadAndSet(Agent, copy'[Agent]) /\ Ids_of(copy'[Agent]) = Ids_of(LoadVault)
        /\ copy'[Setup] = copy[Setup] /\ copy'[Desk] = copy[Desk]
    <3>1. /\ LoadAndSet(Agent, copy'[Agent])
          /\ Ids_of(copy'[Agent]) = Ids_of(LoadVault) \cup (IF FALSE THEN {id} ELSE {})
          /\ \A r \in Threads : r # Agent => copy'[r] = copy[r]
      <4>. HIDE Names
      <4>1. FALSE \in BOOLEAN /\ Agent \in Threads
        BY Names
      <4>. QED  BY <1>2, <4>1, PushedIds, Zenon DEF IdentTypeInv
    <3>. QED  BY <3>1
  <2>2. file' = file /\ fresh' \subseteq fresh \cup {Agent}
    BY <2>1 DEF LoadAndSet
  <2>3. Agent \in fresh' => LoadVault = file
    BY <2>1 DEF LoadAndSet, LoadVault
  <2>. QED  BY <1>0, <2>1, <2>2, <2>3, LoadedIds DEF hookVars
<1>3. CASE Truncate(Agent)
  BY <1>0, <1>3 DEF Truncate, hookVars
<1>4. CASE Fill(Agent)
  BY <1>0, <1>4 DEF Fill, hookVars
<1>. QED  BY <1>1, <1>2, <1>3, <1>4 DEF Enroll, HandleEnroll, SaveHandle,
             Forget

LEMMA CopiesDesk ==
  ASSUME IdentTypeInv, CopiesInv, Revoke \/ HostStarts \/ HostPolls \/ UNCHANGED identVars
  PROVE  CopiesInv'
<1>. USE Names DEF CopiesInv, Keyed, InCopy, FreshKeeps
<1>0. UNCHANGED hookVars
  BY DEF Revoke, HostStarts, HostPolls, identVars, hookVars
<1>1. CASE UNCHANGED fileVars \/ LoadAndLook
  BY <1>0, <1>1 DEF hookVars, fileVars, LoadAndLook
<1>2. ASSUME NEW h \in LoadVault.handles,
             SetHandles(Desk, (LoadVault.handles \ {h}) \cup {[h EXCEPT !.revoked = TRUE]})
      PROVE  CopiesInv'
  <2>1. /\ LoadAndSet(Desk, copy'[Desk]) /\ Ids_of(copy'[Desk]) = Ids_of(LoadVault)
        /\ copy'[Setup] = copy[Setup] /\ copy'[Agent] = copy[Agent]
    BY <1>2, RevokedIds DEF IdentTypeInv
  <2>2. file' = file /\ fresh' \subseteq fresh \cup {Desk}
    BY <2>1 DEF LoadAndSet
  <2>3. Desk \in fresh' => LoadVault = file
    BY <2>1 DEF LoadAndSet, LoadVault
  <2>. QED  BY <1>0, <2>1, <2>2, <2>3, LoadedIds DEF hookVars
<1>3. CASE Truncate(Desk)
  BY <1>0, <1>3 DEF Truncate, hookVars
<1>4. CASE Fill(Desk)
  BY <1>0, <1>4 DEF Fill, hookVars
<1>. QED  BY <1>1, <1>2, <1>3, <1>4 DEF Revoke, HostStarts, HostPolls,
             identVars

LEMMA CopiesStep == IdentTypeInv /\ CopiesInv /\ [IdentNext]_identVars => CopiesInv'
  BY CopiesHook, CopiesTool, CopiesDesk DEF IdentNext

\* The agent's secret.
LEMMA SecretStep ==
  IdentTypeInv /\ ConfigHasSecret /\ [IdentNext]_identVars => ConfigHasSecret'
<1>. SUFFICES ASSUME IdentTypeInv, ConfigHasSecret, [IdentNext]_identVars
              PROVE  ConfigHasSecret'
  OBVIOUS
<1>. USE DEF ConfigHasSecret
<1>1. CASE UNCHANGED toolVars
  BY <1>1 DEF toolVars
<1>2. CASE AppEnds
  BY <1>2, Zenon DEF AppEnds, ToolEnds
<1>3. CASE Enroll
  BY <1>3, Zenon DEF Enroll, CallStep
<1>4. CASE HandleEnroll
  <2>1. call' # "config" /\ UNCHANGED <<agentKeys, config, cut>> /\ call # "forget"
    BY <1>4 DEF HandleEnroll, CallStep, ToolEnds
  <2>. QED  BY <2>1
<1>5. CASE SaveHandle
  BY <1>5 DEF SaveHandle, CallStep, ToolEnds
<1>6. CASE Forget
  BY <1>6 DEF Forget, CallStep
<1>. QED  BY <1>1, <1>2, <1>3, <1>4, <1>5, <1>6 DEF IdentNext, AppStarts,
             EnsureHandle, StoreSecret, PersistHandle, WriteSidecar, Revoke,
             HostStarts, HostPolls, identVars, toolVars

\* What is stored stays so, whoever writes the vault.
LEMMA StoredStays ==
  ASSUME IdentTypeOK, FileInv, FreshKeeps, ~overlapped', NEW id, Stored(id),
         NEW t \in Threads,
         \/ LoadAndLook \/ UNCHANGED fileVars \/ (\E data : LoadAndSet(t, data))
         \/ t \in {Agent, Desk} /\ Truncate(t)
         \/ t \in {Agent, Desk} /\ Fill(t)
  PROVE  ~overlapped /\ Stored(id)'
<1>1. CASE LoadAndLook
  BY <1>1, LookedAt DEF Stored
<1>2. CASE UNCHANGED fileVars
  BY <1>2 DEF fileVars, Stored, Vault
<1>3. ASSUME NEW data, LoadAndSet(t, data)
      PROVE  ~overlapped /\ Stored(id)'
  BY <1>3, Loaded DEF Stored
<1>4. CASE t \in {Agent, Desk} /\ Truncate(t)
  <2>1. /\ ~overlapped /\ t \in fresh /\ file # Unreadable
        /\ Vault = file /\ Vault' = copy[t]
    BY <1>4, Truncated
  <2>2. id \in Ids_of(copy[t])
    BY <1>4, <2>1 DEF Stored, FreshKeeps
  <2>. QED  BY <2>1, <2>2 DEF Stored
<1>5. CASE Fill(t)
  BY <1>5, Filled DEF Stored
<1>. QED  BY <1>1, <1>2, <1>3, <1>4, <1>5

LEMMA ToldEnsure ==
  ASSUME IdentTypeInv, IdentInv, EnsureHandle
  PROVE  Told'
<1>. SUFFICES ASSUME ~overlapped', hook' = "sidecar"
              PROVE  Stored(own)'
  BY DEF Told, EnsureHandle
<1>1. LoadAndLook /\ \E h \in Injectors(LoadVault) : own' = h.id
  BY DEF EnsureHandle
<1>2. LoadVault = file
  BY <1>1, Names DEF LoadVault, Injectors
<1>3. own' \in Ids_of(file)
  BY <1>1, <1>2 DEF Ids_of
<1>4. Vault' = file
  BY <1>1, LookedAt
<1>. QED  BY <1>3, <1>4 DEF Stored

LEMMA ToldPersist ==
  ASSUME IdentTypeInv, IdentInv, PersistHandle
  PROVE  Told'
<1>. SUFFICES ASSUME ~overlapped', hook' = "sidecar" \/ (hook' = "up" /\ ~failed')
              PROVE  hook' = "sidecar" /\ Stored(own)' /\ own' = own
  BY DEF Told
<1>1. Fill(Setup) /\ hook = "fill" /\ hook' = "sidecar" /\ own' = own
  BY Zenon DEF PersistHandle, GiveUp
<1>2. Vault' = copy[Setup]
  BY <1>1, Filled, Names DEF IdentInv
<1>3. own \in Ids_of(copy[Setup])
  BY <1>1 DEF IdentInv, InCopy
<1>. QED  BY <1>1, <1>2, <1>3 DEF Stored

LEMMA ToldStep == IdentTypeInv /\ IdentInv /\ [IdentNext]_identVars => Told'
<1>. SUFFICES ASSUME IdentTypeInv, IdentInv, [IdentNext]_identVars
              PROVE  Told'
  OBVIOUS
<1>1. ASSUME UNCHANGED hookVars, NEW t \in Threads,
             \/ LoadAndLook \/ UNCHANGED fileVars \/ (\E data : LoadAndSet(t, data))
             \/ t \in {Agent, Desk} /\ Truncate(t)
             \/ t \in {Agent, Desk} /\ Fill(t)
      PROVE  Told'
  <2>. SUFFICES ASSUME ~overlapped'
                PROVE  Told'
    BY DEF Told
  <2>1. ASSUME NEW id, Stored(id)
        PROVE  ~overlapped /\ Stored(id)'
    BY <1>1, <2>1, StoredStays DEF IdentInv, IdentTypeInv
  <2>2. ~overlapped
    BY <1>1 DEF LoadAndLook, LoadAndSet, Truncate, Fill, fileVars
  <2>3. hook' = hook /\ failed' = failed /\ own' = own /\ sidecar' = sidecar
    BY <1>1 DEF hookVars
  <2>. QED  BY <2>1, <2>2, <2>3 DEF Told, IdentInv, Stored
<1>2. CASE WriteSidecar
  <2>1. UNCHANGED fileVars /\ hook = "sidecar" /\ hook' = "up"
    BY <1>2 DEF WriteSidecar, GiveUp
  <2>2. failed' = TRUE \/ sidecar' = own
    BY <1>2, Zenon DEF WriteSidecar, GiveUp
  <2>3. Vault' = Vault /\ overlapped' = overlapped
    BY <2>1 DEF Vault, fileVars
  <2>. QED  BY <2>1, <2>2, <2>3 DEF Told, Stored, IdentInv
<1>3. CASE StoreSecret
  BY <1>3, Zenon DEF StoreSecret, GiveUp, Told
<1>4. CASE AppStarts \/ AppEnds
  BY <1>4 DEF AppStarts, AppEnds, Told
<1>. USE Names
<1>5. CASE Enroll \/ SaveHandle \/ Forget \/ HostStarts \/ HostPolls \/ UNCHANGED identVars
  BY <1>1, <1>5 DEF Enroll, SaveHandle, Forget, HostStarts, HostPolls,
     identVars, hookVars
<1>6. CASE HandleEnroll
  BY <1>1, <1>6 DEF HandleEnroll, Push, SetHandles
<1>7. CASE Revoke
  BY <1>1, <1>7 DEF Revoke, SetHandles
<1>. QED  BY <1>2, <1>3, <1>4, <1>5, <1>6, <1>7, ToldEnsure, ToldPersist
             DEF IdentNext

LEMMA IdentInvInit == IdentInit => IdentInv
<1>. SUFFICES ASSUME IdentInit
              PROVE  IdentInv
  OBVIOUS
<1>1. FileInv
  BY Names DEF IdentInit, FileInit, FileInv, OneAtATime, CutOrWritten
<1>2. Ids_of(DefaultData) = {}
  BY Names DEF Ids_of, Injectors
<1>. QED  BY <1>1, <1>2, Names DEF IdentInit, FileInit, IdentInv, Keyed,
             InCopy, FreshKeeps, Told, ConfigHasSecret

LEMMA IdentInvStep == IdentTypeInv /\ IdentInv /\ [IdentNext]_identVars => IdentInv'
  BY IdentFileInv, CopiesStep, ToldStep, SecretStep
     DEF IdentInv, IdentTypeInv, CopiesInv

\* Whoever is told to be somebody can prove it: the vault never has a handle of
\* the injector without its secret in the keychain, a start that went well has
\* told the host of such a handle, and the agent has the secret of its own.
THEOREM HolderCanProveCorrect == IdentSpec => []HolderCanProve
<1>1. IdentInv => HolderCanProve
  <2>. SUFFICES ASSUME IdentInv
                PROVE  HolderCanProve
    OBVIOUS
  <2>1. \A h \in Injectors(LoadVault) : h.id \in hostKeys
    BY LoadedIds DEF IdentInv, Ids_of
  <2>2. ASSUME hook = "up", ~failed, file # Unreadable, ~overlapped
        PROVE  sidecar \in hostKeys /\ \E h \in Injectors(file) : h.id = sidecar
    <3>1. Vault = file
      BY <2>2 DEF IdentInv, FileInv, OneAtATime, Vault
    <3>2. sidecar \in Ids_of(file)
      BY <2>2, <3>1 DEF IdentInv, Told, Stored
    <3>. QED  BY <2>2, <3>2 DEF IdentInv, Keyed, Ids_of
  <2>. QED  BY <2>1, <2>2 DEF HolderCanProve, IdentInv, ConfigHasSecret
<1>. QED  BY <1>1, IdentInvInit, IdentInvStep, IdentTypes, PTL DEF IdentSpec
-----------------------------------------------------------------------------
(* The bridge to the browser. *)

\* What a job asks for is one of the two kinds, once it asks for something.
LEMMA Kinds ==
  ASSUME BridgeTypeOK, NEW j \in Jobs, order[j] # None
  PROVE  \/ order[j].kind = "fill" /\ order[j] \in FillJob
         \/ order[j].kind = "grab" /\ order[j] \in GrabJob /\ order[j].hosts \subseteq Hosts
<1>1. order[j] \in FillJob \/ order[j] \in GrabJob
  BY DEF BridgeTypeOK
<1>2. \A g \in Grants : g \subseteq Hosts
  BY BridgeAssumption DEF Hosts
<1>. QED  BY <1>1, <1>2 DEF FillJob, GrabJob

\* The variables by what changes them together.
BrokerTypeOK == order \in [Jobs -> FillJob \cup GrabJob \cup {None}]
HostTypeOK ==
  /\ port \in Ports \cup {None} /\ opened \in 0..MaxPorts
  /\ open \subseteq Ports
  /\ host \in [Ports -> {"none", "poll", "wait", "dead"}]
  /\ serves \in [Ports -> Jobs \cup {None}]
  /\ toExt \in [Ports -> Jobs \cup {None}]
  /\ toHost \in [Ports -> Seq([job : Jobs, ok : BOOLEAN])]
  /\ outcome \in [Jobs -> {"none", "ok", "failed"}]
TaskTypeOK ==
  /\ task \in [Jobs -> {"none", "find", "opened", "loading", "send", "ask", "cookies",
                        "ok", "failed", "over"}]
  /\ tab \in [Jobs -> Tabs \cup {None}]
  /\ permitted \subseteq Hosts
  /\ filled \in [Jobs -> SUBSET Urls]
TabTypeOK ==
  /\ page \in [Tabs -> Urls \cup {None}] /\ loading \subseteq Tabs
  /\ moves \in 0..MaxMoves
  /\ missed \in BOOLEAN

LEMMA BridgeTypes ==
  /\ BridgeTypeOK => BrokerTypeOK /\ HostTypeOK /\ TaskTypeOK /\ TabTypeOK
  /\ BrokerTypeOK' /\ HostTypeOK' /\ TaskTypeOK' /\ TabTypeOK' => BridgeTypeOK'
  BY Zenon DEF BridgeTypeOK, BrokerTypeOK, HostTypeOK, TaskTypeOK, TabTypeOK

LEMMA BridgeStays ==
  /\ BrokerTypeOK /\ UNCHANGED order => BrokerTypeOK'
  /\ HostTypeOK /\ UNCHANGED hostVars => HostTypeOK'
  /\ TaskTypeOK /\ UNCHANGED taskVars => TaskTypeOK'
  /\ TabTypeOK /\ UNCHANGED tabVars => TabTypeOK'
<1>1. BrokerTypeOK /\ UNCHANGED order => BrokerTypeOK'
  BY DEF BrokerTypeOK
<1>2. HostTypeOK /\ UNCHANGED hostVars => HostTypeOK'
  BY DEF HostTypeOK, hostVars
<1>3. TaskTypeOK /\ UNCHANGED taskVars => TaskTypeOK'
  BY DEF TaskTypeOK, taskVars
<1>4. TabTypeOK /\ UNCHANGED tabVars => TabTypeOK'
  BY Zenon DEF TabTypeOK, tabVars
<1>. QED  BY <1>1, <1>2, <1>3, <1>4

LEMMA BridgeTypeBroker ==
  ASSUME BridgeTypeOK, NEW j \in Jobs,
         \/ \E item \in Urls \cup {None}, url \in Urls : Perform(j, item, url)
         \/ \E hosts \in Grants : GrabSession(j, hosts)
  PROVE  BridgeTypeOK'
<1>1. UNCHANGED hostVars /\ UNCHANGED taskVars /\ UNCHANGED tabVars
  BY DEF Perform, GrabSession
<1>2. BrokerTypeOK'
  BY BridgeTypes DEF BrokerTypeOK, Perform, GrabSession, FillJob, GrabJob
<1>. QED  BY <1>1, <1>2, BridgeStays, BridgeTypes

LEMMA BridgeTypeHost ==
  ASSUME BridgeTypeOK,
         \/ Connect \/ Disconnected
         \/ \E p \in Ports : \/ HostDies(p) \/ HostReads(p)
                             \/ \E j \in Jobs : TakeJob(p, j)
  PROVE  BridgeTypeOK'
<1>. USE BridgeTypes DEF HostTypeOK
<1>1. UNCHANGED order /\ UNCHANGED taskVars /\ UNCHANGED tabVars
  BY DEF Connect, HostDies, Disconnected, TakeJob, HostReads
<1>2. CASE Connect
  <2>1. opened' \in Ports /\ opened' \in 0..MaxPorts
    BY <1>2, BridgeAssumption DEF Connect, Ports
  <2>2. HostTypeOK'
    BY <1>2, <2>1 DEF Connect
  <2>. QED  BY <1>1, <2>2, BridgeStays
<1>3. ASSUME NEW p \in Ports, HostDies(p)
      PROVE  BridgeTypeOK'
  <2>1. <<>> \in Seq([job : Jobs, ok : BOOLEAN])
    OBVIOUS
  <2>2. HostTypeOK'
    BY <1>3, <2>1 DEF HostDies
  <2>. QED  BY <1>1, <2>2, BridgeStays
<1>4. CASE Disconnected
  <2>1. HostTypeOK'
    BY <1>4 DEF Disconnected
  <2>. QED  BY <1>1, <2>1, BridgeStays
<1>5. ASSUME NEW p \in Ports, NEW j \in Jobs, TakeJob(p, j)
      PROVE  BridgeTypeOK'
  <2>1. serves' \in [Ports -> Jobs \cup {None}]
    BY <1>5 DEF TakeJob
  <2>2. /\ host' \in [Ports -> {"none", "poll", "wait", "dead"}]
        /\ toExt' \in [Ports -> Jobs \cup {None}]
        /\ outcome' \in [Jobs -> {"none", "ok", "failed"}]
    <3>1. \/ /\ host' = [host EXCEPT ![p] = "wait"] /\ toExt' = [toExt EXCEPT ![p] = j]
             /\ outcome' = outcome
          \/ /\ outcome' = [outcome EXCEPT ![j] = "failed"]
             /\ host' = host /\ toExt' = toExt
      BY <1>5 DEF TakeJob
    <3>2. CASE /\ host' = [host EXCEPT ![p] = "wait"] /\ toExt' = [toExt EXCEPT ![p] = j]
               /\ outcome' = outcome
      BY <3>2
    <3>3. CASE /\ outcome' = [outcome EXCEPT ![j] = "failed"]
               /\ host' = host /\ toExt' = toExt
      BY <3>3
    <3>. QED  BY <3>1, <3>2, <3>3
  <2>3. UNCHANGED <<port, opened, open, toHost>>
    BY <1>5 DEF TakeJob
  <2>4. HostTypeOK'
    BY <2>1, <2>2, <2>3
  <2>. QED  BY <1>1, <2>4, BridgeStays
<1>6. ASSUME NEW p \in Ports, HostReads(p)
      PROVE  BridgeTypeOK'
  <2>1. toHost' \in [Ports -> Seq([job : Jobs, ok : BOOLEAN])]
    <3>1. toHost[p] \in Seq([job : Jobs, ok : BOOLEAN])
      OBVIOUS
    <3>2. toHost[p] # <<>> => Tail(toHost[p]) \in Seq([job : Jobs, ok : BOOLEAN])
      BY <3>1
    <3>. QED  BY <1>6, <3>2 DEF HostReads
  <2>2. /\ outcome' \in [Jobs -> {"none", "ok", "failed"}]
        /\ host' \in [Ports -> {"none", "poll", "wait", "dead"}]
    <3>1. ASSUME NEW ok, Report(p, ok)
          PROVE  /\ outcome' \in [Jobs -> {"none", "ok", "failed"}]
                 /\ host' \in [Ports -> {"none", "poll", "wait", "dead"}]
      BY <3>1 DEF Report
    <3>2. (\E ok : Report(p, ok)) \/ UNCHANGED <<outcome, host>>
      BY <1>6 DEF HostReads
    <3>. QED  BY <3>1, <3>2
  <2>3. UNCHANGED <<port, opened, open, serves, toExt>>
    BY <1>6 DEF HostReads
  <2>4. HostTypeOK'
    BY <2>1, <2>2, <2>3
  <2>. QED  BY <1>1, <2>4, BridgeStays
<1>. QED  BY <1>2, <1>3, <1>4, <1>5, <1>6

LEMMA BridgeTypeTask ==
  ASSUME BridgeTypeInv,
         \/ GrantAccess
         \/ \E j \in Jobs : Listen(j) \/ SendFill(j) \/ Permit(j) \/ ReadCookies(j)
  PROVE  BridgeTypeOK'
<1>. USE BridgeTypes DEF TaskTypeOK, BridgeTypeInv
<1>1. UNCHANGED order /\ UNCHANGED hostVars /\ UNCHANGED tabVars
  BY DEF Listen, SendFill, Permit, GrantAccess, ReadCookies
<1>2. ASSUME NEW j \in Jobs, Listen(j) \/ ReadCookies(j)
      PROVE  BridgeTypeOK'
  BY <1>1, <1>2, BridgeStays DEF Listen, ReadCookies, Step
<1>3. ASSUME NEW j \in Jobs, SendFill(j)
      PROVE  BridgeTypeOK'
  <2>1. task[j] = "send" => tab[j] \in Tabs
    BY DEF Ordered
  <2>2. TaskTypeOK'
    BY <1>3, <2>1 DEF SendFill, Step, TabTypeOK
  <2>. QED  BY <1>1, <2>2, BridgeStays
<1>4. ASSUME NEW j \in Jobs, Permit(j)
      PROVE  BridgeTypeOK'
  <2>1. order[j].hosts \subseteq Hosts
    BY <1>4, Kinds DEF Permit, Ordered
  <2>2. TaskTypeOK'
    BY <1>4, <2>1 DEF Permit, Step
  <2>. QED  BY <1>1, <2>2, BridgeStays
<1>5. CASE GrantAccess
  <2>1. \A g \in Grants : g \subseteq Hosts
    BY BridgeAssumption DEF Hosts
  <2>2. TaskTypeOK'
    BY <1>5, <2>1 DEF GrantAccess
  <2>. QED  BY <1>1, <2>2, BridgeStays
<1>. QED  BY <1>2, <1>3, <1>4, <1>5

LEMMA BridgeTypeRest ==
  ASSUME BridgeTypeInv,
         \/ WorkerStops
         \/ \E p \in Ports : Receive(p)
         \/ \E j \in Jobs : FindTab(j) \/ Answer(j)
         \/ \E t \in Tabs : Complete(t) \/ Close(t) \/ \E u \in Urls : Navigate(t, u)
  PROVE  BridgeTypeOK'
<1>. USE BridgeTypes DEF BridgeTypeInv
<1>1. UNCHANGED order
  BY DEF WorkerStops, Receive, FindTab, Answer, Complete, Close, Navigate
<1>2. missed \in BOOLEAN /\ \A j \in Jobs : (task[j] = "ok") \in BOOLEAN
  BY Zenon DEF TabTypeOK
<1>3. CASE WorkerStops
  <2>1. HostTypeOK'
    BY <1>3 DEF WorkerStops, HostTypeOK
  <2>2. TaskTypeOK'
    BY <1>3 DEF WorkerStops, TaskTypeOK
  <2>3. UNCHANGED tabVars
    BY <1>3 DEF WorkerStops
  <2>. QED  BY <1>1, <2>1, <2>2, <2>3, BridgeStays
<1>4. ASSUME NEW p \in Ports, Receive(p)
      PROVE  BridgeTypeOK'
  <2>1. HostTypeOK'
    BY <1>4 DEF Receive, HostTypeOK
  <2>2. TaskTypeOK'
    BY <1>4 DEF Receive, Step, TaskTypeOK
  <2>3. UNCHANGED tabVars
    BY <1>4 DEF Receive
  <2>. QED  BY <1>1, <2>1, <2>2, <2>3, BridgeStays
<1>5. ASSUME NEW j \in Jobs, FindTab(j)
      PROVE  BridgeTypeOK'
  <2>1. OnOrigin(j) \subseteq Tabs
    BY DEF OnOrigin
  <2>2. TaskTypeOK'
    BY <1>5, <2>1 DEF FindTab, Step, TaskTypeOK
  <2>3. /\ page' \in [Tabs -> Urls \cup {None}] /\ loading' \subseteq Tabs
        /\ moves' = moves /\ missed' = missed
    BY <1>5 DEF FindTab, TabTypeOK
  <2>4. TabTypeOK'
    BY <1>2, <2>3 DEF TabTypeOK
  <2>5. UNCHANGED hostVars
    BY <1>5 DEF FindTab
  <2>. QED  BY <1>1, <2>2, <2>4, <2>5, BridgeStays
<1>6. ASSUME NEW j \in Jobs, Answer(j)
      PROVE  BridgeTypeOK'
  <2>1. Reply(j) \in [job : Jobs, ok : BOOLEAN]
    BY <1>2 DEF Reply
  <2>2. toHost' \in [Ports -> Seq([job : Jobs, ok : BOOLEAN])]
    <3>1. ASSUME NEW q \in Ports
          PROVE  Append(toHost[q], Reply(j)) \in Seq([job : Jobs, ok : BOOLEAN])
      <4>1. toHost[q] \in Seq([job : Jobs, ok : BOOLEAN])
        BY DEF HostTypeOK
      <4>. QED  BY <2>1, <4>1
    <3>2. \/ toHost' = toHost
          \/ port \in Ports /\ toHost' = [toHost EXCEPT ![port] = Append(toHost[port], Reply(j))]
      BY <1>6 DEF Answer, HostTypeOK
    <3>. QED  BY <3>1, <3>2 DEF HostTypeOK
  <2>3. HostTypeOK'
    BY <1>6, <2>2 DEF Answer, HostTypeOK
  <2>4. TaskTypeOK'
    BY <1>6 DEF Answer, Step, TaskTypeOK
  <2>5. UNCHANGED tabVars
    BY <1>6 DEF Answer
  <2>. QED  BY <1>1, <2>3, <2>4, <2>5, BridgeStays
<1>7. ASSUME NEW t \in Tabs,
             Complete(t) \/ Close(t) \/ (\E u \in Urls : Navigate(t, u))
      PROVE  BridgeTypeOK'
  <2>1. missed' \in BOOLEAN
    BY <1>2, <1>7, Zenon DEF Complete, Close, Navigate
  <2>2. /\ page' \in [Tabs -> Urls \cup {None}] /\ loading' \subseteq Tabs
        /\ moves' \in 0..MaxMoves
    BY <1>7, BridgeAssumption DEF Complete, Close, Navigate, TabTypeOK
  <2>3. TaskTypeOK'
    BY <1>7 DEF Complete, Close, Navigate, TaskTypeOK, taskVars
  <2>4. UNCHANGED hostVars
    BY <1>7 DEF Complete, Close, Navigate
  <2>5. TabTypeOK'
    BY <2>1, <2>2 DEF TabTypeOK
  <2>. QED  BY <1>1, <2>3, <2>4, <2>5, BridgeStays
<1>. QED  BY <1>3, <1>4, <1>5, <1>6, <1>7

LEMMA BridgeTypeStep == BridgeTypeInv /\ [BridgeNext]_bridgeVars => BridgeTypeOK'
<1>. SUFFICES ASSUME BridgeTypeInv, [BridgeNext]_bridgeVars
              PROVE  BridgeTypeOK'
  OBVIOUS
<1>1. CASE UNCHANGED bridgeVars
  <2>1. /\ UNCHANGED order /\ UNCHANGED hostVars /\ UNCHANGED taskVars /\ UNCHANGED tabVars
    BY <1>1 DEF bridgeVars, hostVars, taskVars, tabVars
  <2>. QED  BY <2>1, BridgeStays, BridgeTypes DEF BridgeTypeInv
<1>. QED  BY <1>1, BridgeTypeBroker, BridgeTypeHost, BridgeTypeTask,
             BridgeTypeRest DEF BridgeNext, Extension, BridgeTypeInv

LEMMA OrderedStep == BridgeTypeInv /\ [BridgeNext]_bridgeVars => Ordered'
<1>. SUFFICES ASSUME BridgeTypeInv, [BridgeNext]_bridgeVars
              PROVE  Ordered'
  OBVIOUS
<1>. USE DEF Ordered, BridgeTypeInv
<1>1. CASE UNCHANGED <<order, toExt, task, tab>>
  BY <1>1
<1>2. ASSUME NEW j \in Jobs, NEW item \in Urls \cup {None}, NEW url \in Urls,
             Perform(j, item, url)
      PROVE  Ordered'
  <2>1. UNCHANGED <<toExt, task, tab>>
    BY <1>2 DEF Perform, hostVars, taskVars
  <2>2. /\ order[j] = None /\ order'[j].kind = "fill"
        /\ Bound(order'[j].own, order'[j].url)
        /\ \A i \in Jobs : i # j => order'[i] = order[i]
        /\ \A i \in Jobs : order[i] # None => order'[i] = order[i]
    BY <1>2 DEF Perform, BridgeTypeOK
  <2>3. \A p \in Ports : toExt[p] # None => toExt[p] \in Jobs
    BY DEF BridgeTypeOK
  <2>. QED  BY <2>1, <2>2, <2>3
<1>3. ASSUME NEW j \in Jobs, NEW hosts \in Grants, GrabSession(j, hosts)
      PROVE  Ordered'
  <2>1. UNCHANGED <<toExt, task, tab>>
    BY <1>3 DEF GrabSession, hostVars, taskVars
  <2>2. /\ order[j] = None /\ order'[j].kind = "grab"
        /\ \A i \in Jobs : i # j => order'[i] = order[i]
        /\ \A i \in Jobs : order[i] # None => order'[i] = order[i]
    BY <1>3 DEF GrabSession, BridgeTypeOK
  <2>3. \A p \in Ports : toExt[p] # None => toExt[p] \in Jobs
    BY DEF BridgeTypeOK
  <2>. QED  BY <2>1, <2>2, <2>3
<1>4. CASE WorkerStops \/ Disconnected
  <2>1. order' = order /\ \A p \in Ports : toExt'[p] = toExt[p] \/ toExt'[p] = None
    BY <1>4 DEF WorkerStops, Disconnected, BridgeTypeOK
  <2>2. \A j \in Jobs : \/ task'[j] \in {"none", "over"}
                        \/ task'[j] = task[j] /\ tab'[j] = tab[j]
    BY <1>4 DEF WorkerStops, Disconnected, taskVars
  <2>. QED  BY <2>1, <2>2
<1>5. ASSUME NEW p \in Ports, NEW j \in Jobs, TakeJob(p, j)
      PROVE  Ordered'
  BY <1>5 DEF TakeJob, taskVars, BridgeTypeOK
<1>6. ASSUME NEW p \in Ports, Receive(p)
      PROVE  Ordered'
  <2>1. toExt[p] \in Jobs /\ order[toExt[p]] # None
    BY <1>6 DEF Receive, BridgeTypeOK
  <2>2. order[toExt[p]].kind \in {"fill", "grab"}
    BY <2>1, Kinds
  <2>. QED  BY <1>6, <2>1, <2>2 DEF Receive, Step, BridgeTypeOK
<1>7. ASSUME NEW j \in Jobs, FindTab(j) \/ Listen(j)
      PROVE  Ordered'
  <2>1. OnOrigin(j) \subseteq Tabs
    BY DEF OnOrigin
  <2>2. /\ tab'[j] \in Tabs /\ \A i \in Jobs : i # j => tab'[i] = tab[i] /\ task'[i] = task[i]
        /\ task[j] \in {"find", "opened"} /\ task'[j] \in {"send", "opened", "loading"}
    BY <1>7, <2>1 DEF FindTab, Listen, Step, BridgeTypeOK
  <2>3. order' = order /\ toExt' = toExt
    BY <1>7 DEF FindTab, Listen, hostVars
  <2>. QED  BY <2>2, <2>3
<1>8. ASSUME NEW j \in Jobs, SendFill(j) \/ Permit(j) \/ ReadCookies(j) \/ Answer(j)
      PROVE  Ordered'
  <2>1. /\ \A i \in Jobs : i # j => tab'[i] = tab[i] /\ task'[i] = task[i]
        /\ task'[j] \in {"cookies", "ok", "failed", "over"}
        /\ task'[j] = "cookies" => task[j] = "ask"
    BY <1>8 DEF SendFill, Permit, ReadCookies, Answer, Step, BridgeTypeOK
  <2>2. order' = order /\ toExt' = toExt
    BY <1>8 DEF SendFill, Permit, ReadCookies, Answer, hostVars
  <2>. QED  BY <2>1, <2>2
<1>9. ASSUME NEW t \in Tabs, Complete(t)
      PROVE  Ordered'
  BY <1>9 DEF Complete, Users, hostVars, BridgeTypeOK
<1>10. ASSUME NEW p \in Ports, HostDies(p) \/ HostReads(p)
       PROVE  Ordered'
  BY <1>1, <1>10 DEF HostDies, HostReads, taskVars
<1>11. CASE Connect \/ GrantAccess \/ UNCHANGED bridgeVars
  BY <1>1, <1>11 DEF Connect, GrantAccess, taskVars, hostVars, bridgeVars
<1>12. ASSUME NEW t \in Tabs, Close(t) \/ \E u \in Urls : Navigate(t, u)
       PROVE  Ordered'
  BY <1>1, <1>12 DEF Close, Navigate, taskVars, hostVars
<1>. QED  BY <1>2, <1>3, <1>4, <1>5, <1>6, <1>7, <1>8, <1>9, <1>10, <1>11,
             <1>12 DEF BridgeNext, Extension

LEMMA BridgeTypeInit == BridgeInit => BridgeTypeInv
<1>. SUFFICES ASSUME BridgeInit
              PROVE  BridgeTypeInv
  OBVIOUS
<1>1. BrokerTypeOK /\ TaskTypeOK
  BY DEF BridgeInit, BrokerTypeOK, TaskTypeOK
<1>2. HostTypeOK
  <2>1. <<>> \in Seq([job : Jobs, ok : BOOLEAN])
    OBVIOUS
  <2>. QED  BY <2>1, BridgeAssumption DEF BridgeInit, HostTypeOK
<1>3. TabTypeOK
  <2>1. missed \in BOOLEAN
    BY Zenon DEF BridgeInit
  <2>. QED  BY <2>1, BridgeAssumption DEF BridgeInit, TabTypeOK
<1>4. BridgeTypeOK
  BY <1>1, <1>2, <1>3, Zenon DEF BridgeTypeOK, BrokerTypeOK, HostTypeOK,
     TaskTypeOK, TabTypeOK
<1>. QED  BY <1>4 DEF BridgeInit, BridgeTypeInv, Ordered

LEMMA BridgeTyped == BridgeSpec => []BridgeTypeInv
<1>1. BridgeTypeInv /\ [BridgeNext]_bridgeVars => BridgeTypeInv'
  BY BridgeTypeStep, OrderedStep DEF BridgeTypeInv
<1>. QED  BY <1>1, BridgeTypeInit, PTL DEF BridgeSpec

\* Type correctness of the bridge.
THEOREM BridgeTypeCorrect == BridgeSpec => []BridgeTypeOK
  BY BridgeTyped, PTL DEF BridgeTypeInv

\* What a job asks for stays, and so does what it has: a page that was filled
\* in, a permission.
LEMMA DoneStays ==
  ASSUME BridgeTypeInv, [BridgeNext]_bridgeVars, NEW j \in Jobs, order[j] # None
  PROVE  /\ order'[j] = order[j] /\ filled[j] \subseteq filled'[j]
         /\ permitted \subseteq permitted'
         /\ Done(j) => Done(j)'
<1>. USE DEF BridgeTypeInv, BridgeTypeOK
<1>1. order'[j] = order[j]
  <2>1. CASE UNCHANGED order
    BY <2>1
  <2>2. ASSUME NEW i \in Jobs, order[i] = None, NEW x, order' = [order EXCEPT ![i] = x]
        PROVE  order'[j] = order[j]
    BY <2>2
  <2>. QED  BY <2>1, <2>2 DEF BridgeNext, Extension, Perform, GrabSession,
               Connect, WorkerStops, HostDies, Disconnected, TakeJob,
               HostReads, Receive, FindTab, Listen, SendFill, Permit,
               GrantAccess, ReadCookies, Answer, Complete, Navigate, Close,
               bridgeVars
<1>2. filled[j] \subseteq filled'[j]
  <2>1. CASE UNCHANGED filled
    BY <2>1
  <2>2. ASSUME NEW i \in Jobs, SendFill(i)
        PROVE  filled[j] \subseteq filled'[j]
    BY <2>2 DEF SendFill
  <2>. QED  BY <2>1, <2>2 DEF BridgeNext, Extension, Perform, GrabSession,
               Connect, WorkerStops, HostDies, Disconnected, TakeJob,
               HostReads, Receive, FindTab, Listen, taskVars, Permit,
               GrantAccess, ReadCookies, Answer, Complete, Navigate, Close,
               bridgeVars
<1>3. permitted \subseteq permitted'
  BY DEF BridgeNext, Extension, Perform, GrabSession, Connect, WorkerStops,
     SendFill, HostDies, Disconnected, TakeJob, HostReads, Receive, FindTab,
     Listen, taskVars, Permit, GrantAccess, ReadCookies, Answer, Complete,
     Navigate, Close, bridgeVars
<1>. QED  BY <1>1, <1>2, <1>3 DEF Done

\* The content script fills in a page of the origin that the job is for.
LEMMA OnItsOriginStep ==
  BridgeTypeInv /\ OnItsOrigin /\ [BridgeNext]_bridgeVars => OnItsOrigin'
<1>. SUFFICES ASSUME BridgeTypeInv, OnItsOrigin, [BridgeNext]_bridgeVars,
                     NEW j \in Jobs, NEW u \in filled'[j]
              PROVE  /\ order'[j] # None /\ order'[j].kind = "fill"
                     /\ BrowserOrigin(u) = origin_of(order'[j].url)
  BY DEF OnItsOrigin
<1>1. CASE u \in filled[j]
  <2>1. /\ order[j] # None /\ order[j].kind = "fill"
        /\ BrowserOrigin(u) = origin_of(order[j].url)
    BY <1>1 DEF OnItsOrigin
  <2>. QED  BY <2>1, DoneStays
<1>2. CASE u \notin filled[j]
  <2>1. SendFill(j)
    <3>1. ASSUME NEW i \in Jobs, SendFill(i)
          PROVE  SendFill(j)
      BY <1>2, <3>1 DEF SendFill, BridgeTypeInv, BridgeTypeOK
    <3>. QED  BY <1>2, <3>1 DEF BridgeNext, Extension, Perform, GrabSession,
                 Connect, WorkerStops, HostDies, Disconnected, TakeJob,
                 HostReads, Receive, FindTab, Listen, taskVars, Permit,
                 GrantAccess, ReadCookies, Answer, Complete, Navigate, Close,
                 bridgeVars
  <2>2. task[j] = "send" /\ u = page[tab[j]] /\ Guarded(j) /\ order' = order
    BY <1>2, <2>1 DEF SendFill, Step, BridgeTypeInv, BridgeTypeOK
  <2>3. order[j] # None /\ order[j].kind = "fill"
    BY <2>2 DEF BridgeTypeInv, Ordered
  <2>. QED  BY <2>2, <2>3 DEF Guarded
<1>. QED  BY <1>1, <1>2

\* One step of a job, and of what the hosts are told of the jobs.
LEMMA TasksStep ==
  ASSUME BridgeTypeInv, AnswersAreTrue, [BridgeNext]_bridgeVars, NEW j \in Jobs
  PROVE  /\ task'[j] = "cookies" => order'[j].hosts \subseteq permitted'
         /\ task'[j] = "ok" => Done(j)'
<1>. USE DEF BridgeTypeInv
<1>1. order[j] # None =>
        /\ order'[j] = order[j] /\ permitted \subseteq permitted'
        /\ Done(j) => Done(j)'
  BY DoneStays
<1>2. CASE task'[j] = task[j]
  <2>1. task[j] = "cookies" => order[j] # None /\ order[j].hosts \subseteq permitted
    BY DEF AnswersAreTrue, Ordered
  <2>2. task[j] = "ok" => order[j] # None /\ Done(j)
    BY DEF AnswersAreTrue, Done
  <2>. QED  BY <1>1, <1>2, <2>1, <2>2
<1>3. CASE task'[j] \notin {"cookies", "ok"}
  BY <1>3
<1>4. CASE task'[j] # task[j] /\ task'[j] \in {"cookies", "ok"}
  <2>1. SendFill(j) \/ Permit(j) \/ ReadCookies(j)
    <3>1. ASSUME NEW i \in Jobs,
                 FindTab(i) \/ Listen(i) \/ SendFill(i) \/ Permit(i) \/ ReadCookies(i) \/ Answer(i)
          PROVE  SendFill(j) \/ Permit(j) \/ ReadCookies(j)
      <4>1. i = j
        BY <1>4, <3>1 DEF FindTab, Listen, SendFill, Permit, ReadCookies,
           Answer, Step, BridgeTypeOK
      <4>2. ~(FindTab(j) \/ Listen(j) \/ Answer(j))
        BY <1>4 DEF FindTab, Listen, Answer, Step, BridgeTypeOK
      <4>. QED  BY <3>1, <4>1, <4>2
    <3>2. ASSUME NEW p \in Ports, Receive(p)
          PROVE  FALSE
      BY <1>4, <3>2 DEF Receive, Step, BridgeTypeOK
    <3>3. ASSUME NEW t \in Tabs, Complete(t)
          PROVE  FALSE
      BY <1>4, <3>3 DEF Complete, BridgeTypeOK
    <3>4. ~WorkerStops
      BY <1>4 DEF WorkerStops
    <3>. QED  BY <1>4, <3>1, <3>2, <3>3, <3>4 DEF BridgeNext, Extension,
                 Perform, GrabSession, Connect, HostDies, Disconnected,
                 TakeJob, HostReads, taskVars, GrantAccess, Navigate, Close,
                 bridgeVars
  <2>2. CASE SendFill(j)
    <3>0. task'[j] = "ok" /\ task[j] = "send" /\ order' = order
      BY <1>4, <2>2 DEF SendFill, Step, BridgeTypeOK
    <3>1. filled'[j] # {}
      <4>1. filled' = [filled EXCEPT ![j] = filled[j] \cup {page[tab[j]]}]
        BY <2>2, <3>0 DEF SendFill, Step, BridgeTypeOK
      <4>2. filled'[j] = filled[j] \cup {page[tab[j]]}
        BY <4>1 DEF BridgeTypeOK
      <4>. QED  BY <4>2
    <3>2. order[j] # None /\ order[j].kind = "fill"
      BY <3>0 DEF Ordered
    <3>. QED  BY <3>0, <3>1, <3>2 DEF Done
  <2>3. CASE Permit(j)
    BY <1>4, <2>3 DEF Permit, Step, BridgeTypeOK
  <2>4. CASE ReadCookies(j)
    <3>1. task[j] = "cookies" /\ task'[j] = "ok" /\ UNCHANGED <<order, permitted>>
      BY <1>4, <2>4 DEF ReadCookies, Step, BridgeTypeOK
    <3>2. /\ order[j] # None /\ order[j].kind = "grab"
          /\ order[j].hosts \subseteq permitted
      BY <3>1 DEF Ordered, AnswersAreTrue
    <3>. QED  BY <3>1, <3>2 DEF Done
  <2>. QED  BY <2>1, <2>2, <2>3, <2>4
<1>. QED  BY <1>2, <1>3, <1>4

\* A host passes on an answer to its own job, as it came.
LEMMA OutcomesStep ==
  ASSUME BridgeTypeInv, AnswersAreTrue, [BridgeNext]_bridgeVars,
         NEW j \in Jobs, outcome'[j] = "ok"
  PROVE  Done(j)'
<1>. USE DEF BridgeTypeInv
<1>1. CASE outcome[j] = "ok"
  <2>1. order[j] # None /\ Done(j)
    BY <1>1 DEF AnswersAreTrue, Done
  <2>. QED  BY <2>1, DoneStays
<1>2. CASE outcome[j] # "ok"
  <2>1. ASSUME NEW p \in Ports, HostReads(p)
        PROVE  Done(j)'
    <3>1. /\ toHost[p] # <<>> /\ Mine(p, Head(toHost[p]))
          /\ serves[p] = j /\ Head(toHost[p]).ok
      <4>1. ASSUME NEW ok, Report(p, ok)
            PROVE  ok /\ serves[p] = j
        BY <1>2, <4>1 DEF Report, BridgeTypeOK
      <4>2. toHost[p] # <<>>
        <5>1. ~Report(p, FALSE)
          BY <4>1
        <5>. QED  BY <1>2, <2>1, <5>1 DEF HostReads
      <4>3. Mine(p, Head(toHost[p])) /\ Report(p, Head(toHost[p]).ok)
        BY <1>2, <2>1, <4>2 DEF HostReads
      <4>. QED  BY <4>1, <4>2, <4>3
    <3>2. 1 \in 1..Len(toHost[p]) /\ toHost[p][1] = Head(toHost[p])
      BY <3>1 DEF BridgeTypeOK
    <3>3. Done(j)
      BY <3>1, <3>2 DEF AnswersAreTrue, Mine
    <3>. QED  BY <3>3, DoneStays DEF Done
  <2>2. ASSUME NEW p \in Ports, NEW i \in Jobs, TakeJob(p, i)
        PROVE  FALSE
    BY <1>2, <2>2 DEF TakeJob, BridgeTypeOK
  <2>. QED  BY <1>2, <2>1, <2>2 DEF BridgeNext, Extension, Perform,
               GrabSession, Connect, WorkerStops, SendFill, HostDies,
               Disconnected, Receive, FindTab, Listen, hostVars, Permit,
               GrantAccess, ReadCookies, Answer, Complete, Navigate, Close,
               bridgeVars
<1>. QED  BY <1>1, <1>2

\* Every answer on its way was there before, or is given now.
LEMMA OnTheirWayStep ==
  ASSUME BridgeTypeInv, AnswersAreTrue, [BridgeNext]_bridgeVars,
         NEW p \in Ports, NEW i \in 1..Len(toHost'[p]), NEW m, m = toHost'[p][i], m.ok
  PROVE  Done(m.job)'
<1>. USE DEF BridgeTypeInv
<1>0. \A q \in Ports : toHost[q] \in Seq([job : Jobs, ok : BOOLEAN])
  BY DEF BridgeTypeOK
<1>1. ASSUME NEW k \in 1..Len(toHost[p]), m = toHost[p][k]
      PROVE  Done(m.job)'
  <2>1. m.job \in Jobs
    <3>1. m \in [job : Jobs, ok : BOOLEAN]
      <4>. DEFINE Msg == [job : Jobs, ok : BOOLEAN]
      <4>1. toHost[p] \in Seq(Msg)
        BY <1>0
      <4>. HIDE DEF Msg
      <4>2. toHost[p][k] \in Msg
        BY <1>1, <4>1
      <4>. QED  BY <1>1, <4>2 DEF Msg
    <3>. QED  BY <3>1
  <2>2. Done(m.job)
    BY <1>1 DEF AnswersAreTrue
  <2>. QED  BY <2>1, <2>2, DoneStays DEF Done
<1>2. CASE toHost' = toHost
  BY <1>1, <1>2
<1>3. CASE WorkerStops
  BY <1>1, <1>3 DEF WorkerStops
<1>4. ASSUME NEW q \in Ports, HostDies(q)
      PROVE  Done(m.job)'
  <2>1. p # q /\ toHost'[p] = toHost[p]
    BY <1>4 DEF HostDies, BridgeTypeOK
  <2>. QED  BY <1>1, <2>1
<1>5. ASSUME NEW q \in Ports, HostReads(q)
      PROVE  Done(m.job)'
  <2>1. CASE toHost'[p] = toHost[p]
    BY <1>1, <2>1
  <2>2. CASE toHost'[p] = Tail(toHost[p]) /\ toHost[p] # <<>>
    <3>1. i + 1 \in 1..Len(toHost[p]) /\ m = toHost[p][i + 1]
      BY <1>0, <2>2
    <3>. QED  BY <1>1, <3>1
  <2>3. \/ toHost' = toHost
        \/ toHost[q] # <<>> /\ toHost' = [toHost EXCEPT ![q] = Tail(toHost[q])]
    BY <1>5 DEF HostReads
  <2>4. CASE toHost' = toHost
    BY <2>1, <2>4
  <2>5. CASE toHost[q] # <<>> /\ toHost' = [toHost EXCEPT ![q] = Tail(toHost[q])]
    <3>1. CASE p = q
      BY <2>2, <2>5, <3>1 DEF BridgeTypeOK
    <3>2. CASE p # q
      BY <2>1, <2>5, <3>2 DEF BridgeTypeOK
    <3>. QED  BY <3>1, <3>2
  <2>. QED  BY <2>3, <2>4, <2>5
<1>6. ASSUME NEW j \in Jobs, Answer(j)
      PROVE  Done(m.job)'
  <2>1. CASE toHost'[p] = toHost[p]
    BY <1>1, <2>1
  <2>2. CASE toHost'[p] = Append(toHost[p], Reply(j))
    <3>1. CASE i \in 1..Len(toHost[p])
      <4>1. m = toHost[p][i]
        BY <1>0, <2>2, <3>1
      <4>. QED  BY <1>1, <3>1, <4>1
    <3>2. CASE i \notin 1..Len(toHost[p])
      <4>1. m = Reply(j)
        BY <1>0, <2>2, <3>2
      <4>2. m.job = j /\ task[j] = "ok"
        <5>1. Reply(j).job = j /\ Reply(j).ok = (task[j] = "ok")
          BY Zenon DEF Reply
        <5>. QED  BY <4>1, <5>1
      <4>3. Done(j)
        BY <4>2 DEF AnswersAreTrue
      <4>. QED  BY <4>2, <4>3, DoneStays DEF Done
    <3>. QED  BY <3>1, <3>2
  <2>. QED  BY <1>6, <2>1, <2>2 DEF Answer, BridgeTypeOK
<1>. QED  BY <1>2, <1>3, <1>4, <1>5, <1>6 DEF BridgeNext, Extension, Perform,
             GrabSession, Connect, SendFill, Disconnected, TakeJob, Receive,
             FindTab, Listen, hostVars, Permit, GrantAccess, ReadCookies,
             Complete, Navigate, Close, bridgeVars

LEMMA AnswersStep ==
  BridgeTypeInv /\ AnswersAreTrue /\ [BridgeNext]_bridgeVars => AnswersAreTrue'
<1>. SUFFICES ASSUME BridgeTypeInv, AnswersAreTrue, [BridgeNext]_bridgeVars
              PROVE  AnswersAreTrue'
  OBVIOUS
<1>1. ASSUME NEW p \in Ports, NEW i \in 1..Len(toHost'[p]), toHost'[p][i].ok
      PROVE  /\ order'[toHost'[p][i].job] # None
             /\ IF order'[toHost'[p][i].job].kind = "fill"
                  THEN filled'[toHost'[p][i].job] # {}
                  ELSE order'[toHost'[p][i].job].hosts \subseteq permitted'
  <2>1. PICK m : m = toHost'[p][i]
    OBVIOUS
  <2>2. Done(m.job)'
    BY <1>1, <2>1, OnTheirWayStep
  <2>. QED  BY <2>1, <2>2 DEF Done
<1>. QED  BY <1>1, TasksStep, OutcomesStep DEF AnswersAreTrue, Done

LEMMA BridgeCorrect == BridgeSpec => [](BridgeTypeInv /\ BridgeInv)
<1>1. BridgeInit => BridgeInv
  BY DEF BridgeInit, BridgeInv, OnItsOrigin, AnswersAreTrue
<1>2. BridgeTypeInv /\ BridgeInv /\ [BridgeNext]_bridgeVars => BridgeInv'
  BY OnItsOriginStep, AnswersStep DEF BridgeInv
<1>. QED  BY <1>1, <1>2, BridgeTyped, PTL DEF BridgeSpec

\* A page that was filled in is of the origin of the item, however the ports of
\* the two were written.
LEMMA SameOrigin ==
  ASSUME NEW u \in Urls, NEW item \in Urls, BrowserOrigin(u) = origin_of(item)
  PROVE  BrowserOrigin(u) = BrowserOrigin(item)
<1>1. /\ u.scheme = item.scheme /\ u.host = item.host
      /\ item.port = IF u.port = (IF u.scheme = "https" THEN 443 ELSE 80) THEN 0 ELSE u.port
  BY DEF BrowserOrigin, origin_of
<1>. QED  BY <1>1 DEF BrowserOrigin

\* A fill lands on the origin of the item it is of, wherever tabs went since a
\* tab was chosen, and a host that reports a job as done passes on what the
\* extension did for that job.
THEOREM FillIsTrueCorrect == BridgeSpec => []FillIsTrue
<1>1. BridgeTypeInv /\ BridgeInv => FillIsTrue
  <2>. SUFFICES ASSUME BridgeTypeInv, BridgeInv, NEW j \in Jobs
                PROVE  /\ \A u \in filled[j] :
                            order[j].own # None => BrowserOrigin(u) = BrowserOrigin(order[j].own)
                       /\ outcome[j] = "ok" =>
                            IF order[j].kind = "fill" THEN filled[j] # {}
                            ELSE order[j].hosts \subseteq permitted
    BY DEF FillIsTrue
  <2>1. ASSUME NEW u \in filled[j], order[j].own # None
        PROVE  BrowserOrigin(u) = BrowserOrigin(order[j].own)
    <3>1. /\ order[j] # None /\ order[j].kind = "fill"
          /\ BrowserOrigin(u) = origin_of(order[j].url)
      BY DEF BridgeInv, OnItsOrigin
    <3>2. origin_of(order[j].url) = origin_of(order[j].own)
      BY <2>1, <3>1 DEF BridgeTypeInv, Ordered, Bound
    <3>3. u \in Urls /\ order[j].own \in Urls
      BY <2>1, <3>1, Kinds DEF BridgeTypeInv, BridgeTypeOK, FillJob
    <3>. QED  BY <3>1, <3>2, <3>3, SameOrigin
  <2>2. outcome[j] = "ok" => Done(j)
    BY DEF BridgeInv, AnswersAreTrue
  <2>. QED  BY <2>1, <2>2 DEF Done
<1>. QED  BY <1>1, BridgeCorrect, PTL
-----------------------------------------------------------------------------
(* The three together, as they are run. *)

\* A run of the three is one of each: what is proved of a part holds in it.
THEOREM BrowserParts == BrowserSpec => BridgeSpec /\ IdentSpec /\ FaviconSpec
<1>1. BrowserInit => BridgeInit /\ IdentInit /\ FaviconInit
  BY DEF BrowserInit
<1>2. [BrowserNext]_<<bridgeVars, identVars, faviconVars, part>> =>
        [BridgeNext]_bridgeVars /\ [IdentNext]_identVars /\ [FaviconNext]_faviconVars
  BY DEF BrowserNext
<1>. QED  BY <1>1, <1>2, PTL DEF BrowserSpec, BridgeSpec, IdentSpec, FaviconSpec

\* Every part of what lies around the app has its type.
THEOREM BrowserTypeCorrect == BrowserSpec => []BrowserTypeOK
<1>1. BridgeTypeOK /\ IdentTypeOK /\ FaviconTypeOK => BrowserTypeOK
  BY DEF BrowserTypeOK
<1>. QED  BY <1>1, BrowserParts, BridgeTypeCorrect, IdentTypeCorrect, FaviconTypeCorrect, PTL
=============================================================================
