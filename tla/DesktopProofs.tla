---------------------------- MODULE DesktopProofs ----------------------------
(***************************************************************************)
(* Proofs about the two small machines of the desktop app: the purge of    *)
(* stale devices (Purge) for any devices, names and calls, and the list on *)
(* the main screen (ListView) for any views, handlers and requests; and    *)
(* about the app as it is run, with the session (MCDesktop).               *)
(***************************************************************************)
EXTENDS MCDesktop, AppSessionProofs

-----------------------------------------------------------------------------
(* Purge: type correctness. *)

LEMMA PurgeTypeInit == PurgeInit => PurgeTypeOK
<1>. SUFFICES ASSUME PurgeInit
              PROVE  PurgeTypeOK
  OBVIOUS
<1>1. records \subseteq Record
  BY PurgeAssumption DEF PurgeInit, Record
<1>2. cancel \in BOOLEAN
  BY Zenon DEF PurgeInit
<1>. QED  BY <1>1, <1>2, PurgeAssumption DEF PurgeInit, PurgeTypeOK

LEMMA PurgeTypeStep == PurgeTypeOK /\ [PurgeNext]_purgeVars => PurgeTypeOK'
<1>. SUFFICES ASSUME PurgeTypeOK, [PurgeNext]_purgeVars
              PROVE  PurgeTypeOK'
  OBVIOUS
<1>0. cancel \in BOOLEAN
  BY Zenon DEF PurgeTypeOK
<1>. USE PurgeAssumption DEF PurgeTypeOK
<1>1. ASSUME NEW p \in Purges, PressPurge(p)
      PROVE  PurgeTypeOK'
  <2>1. cancel' \in BOOLEAN
    BY <1>1, Zenon DEF PressPurge
  <2>. QED  BY <1>1, <2>1 DEF PressPurge, PurgeGoes, Running
<1>2. ASSUME NEW p \in Purges, FetchDevices(p)
      PROVE  PurgeTypeOK'
  BY <1>2 DEF FetchDevices, PurgeGoes
<1>3. ASSUME NEW p \in Purges, NextVictim(p)
      PROVE  PurgeTypeOK'
  <2>1. CASE victims[p] = {} \/ cancel
    BY <1>3, <2>1 DEF NextVictim
  <2>2. CASE ~(victims[p] = {} \/ cancel)
    <3>1. PICK r \in victims[p] :
            /\ step' = [step EXCEPT ![p] = "commit"]
            /\ victim' = [victim EXCEPT ![p] = {r}]
            /\ victims' = [victims EXCEPT ![p] = @ \ {r}]
      BY <1>3, <2>2 DEF NextVictim
    <3>. QED  BY <1>3, <3>1 DEF NextVictim
  <2>. QED  BY <2>1, <2>2
<1>4. ASSUME NEW p \in Purges
      PROVE  {r.device : r \in victim[p]} \subseteq Devices
  BY DEF Record
<1>5. ASSUME NEW p \in Purges, Taken(p) \/ UNCHANGED <<records, purged>>
      PROVE  records' \subseteq Record /\ purged' \subseteq Devices
  BY <1>4, <1>5 DEF Taken
<1>6. ASSUME NEW p \in Purges, Tombstone(p)
      PROVE  PurgeTypeOK'
  <2>1. records' \subseteq Record /\ purged' \subseteq Devices
    BY <1>5, <1>6 DEF Tombstone
  <2>2. removed[p] \cup {r.device : r \in victim[p]} \in SUBSET Devices
    BY <1>4
  <2>3. removed' \in [Purges -> SUBSET Devices]
    BY <1>6, <2>2 DEF Tombstone
  <2>4. victim' \in [Purges -> SUBSET Record]
    BY <1>6 DEF Tombstone
  <2>. QED  BY <1>6, <2>1, <2>3, <2>4 DEF Tombstone, PurgeGoes
<1>7. ASSUME NEW p \in Purges, NEW taken \in BOOLEAN, PurgeFails(p, taken)
      PROVE  PurgeTypeOK'
  <2>1. records' \subseteq Record /\ purged' \subseteq Devices
    BY <1>5, <1>7 DEF PurgeFails
  <2>2. untold' \subseteq Devices
    BY <1>7, <2>1 DEF PurgeFails
  <2>. QED  BY <1>7, <2>1, <2>2 DEF PurgeFails, LocalsGone
<1>8. ASSUME NEW p \in Purges, Report(p)
      PROVE  PurgeTypeOK'
  BY <1>8 DEF Report, PurgeGoes, LocalsGone
<1>9. CASE PressCancel \/ Remount
  <2>1. cancel' \in BOOLEAN
    BY <1>0, <1>9, Zenon DEF PressCancel, Remount
  <2>. QED  BY <1>9, <2>1 DEF PressCancel, Remount, Running
<1>10. CASE SyncFetches \/ SyncLands
  BY <1>10 DEF SyncFetches, SyncLands, OnChain, Record
<1>11. ASSUME NEW d \in Devices, RemoveDevice(d)
       PROVE  PurgeTypeOK'
  BY <1>11 DEF RemoveDevice
<1>12. ASSUME NEW d \in Devices, DeviceSyncs(d)
       PROVE  PurgeTypeOK'
  <2>1. [device |-> d, seen |-> "recent", version |-> updates'] \in Record
    BY <1>12 DEF DeviceSyncs, Record, Seen
  <2>. QED  BY <1>12, <2>1 DEF DeviceSyncs
<1>13. CASE UNCHANGED purgeVars
  BY <1>13 DEF purgeVars
<1>. QED  BY <1>1, <1>2, <1>3, <1>6, <1>7, <1>8, <1>9, <1>10, <1>11, <1>12,
             <1>13 DEF PurgeNext, PurgeStep

\* Type correctness: records, lists and the locals of every purge keep the form
\* commit_delete_stale_devices gives them.
THEOREM PurgeTypeCorrect == PurgeSpec => []PurgeTypeOK
  BY PurgeTypeInit, PurgeTypeStep, PTL DEF PurgeSpec
-----------------------------------------------------------------------------
(* Purge: what goes, when it stops, and what the list shows. *)

\* What a purge has still to do it chose as stale, and only such devices went.
ChosenAreStale ==
  /\ \A p \in Purges : \A r \in victims[p] \cup victim[p] : Stale(r)
  /\ Current \notin purged

\* A purge that was cancelled, and that no other outran, finds the flag set.
FlagIsSet ==
  /\ \A p \in stopped : step[p] # "idle"
  /\ \A p \in stopped \ restarted : p \in Running => cancel

PurgeInv == ChosenAreStale /\ FlagIsSet /\ PurgedIsUnlisted

\* The record that a purge takes off the chain is the stale one it chose.
LEMMA TakenIsStale ==
  ASSUME ChosenAreStale, NEW p \in Purges, Taken(p), ServerTakes(p)
  PROVE  \A d \in purged' \ purged :
           \E r \in records : r.device = d /\ d # Current /\ r.seen = "old"
  BY DEF ChosenAreStale, Taken, ServerTakes, Stale

LEMMA ChosenStep ==
  PurgeTypeOK /\ ChosenAreStale /\ [PurgeNext]_purgeVars => ChosenAreStale'
<1>. SUFFICES ASSUME PurgeTypeOK, ChosenAreStale, [PurgeNext]_purgeVars
              PROVE  ChosenAreStale'
  OBVIOUS
<1>. USE DEF PurgeTypeOK, ChosenAreStale
<1>1. ASSUME NEW p \in Purges, FetchDevices(p)
      PROVE  ChosenAreStale'
  BY <1>1 DEF FetchDevices, Stale
<1>2. ASSUME NEW p \in Purges, NextVictim(p)
      PROVE  ChosenAreStale'
  <2>1. \A q \in Purges :
          victims'[q] \cup victim'[q] \subseteq victims[q] \cup victim[q]
    BY <1>2 DEF NextVictim
  <2>. QED  BY <1>2, <2>1 DEF NextVictim, Stale
<1>3. ASSUME NEW p \in Purges,
             Tombstone(p) \/ (\E taken \in BOOLEAN : PurgeFails(p, taken))
      PROVE  ChosenAreStale'
  <2>1. \A q \in Purges :
          victims'[q] \cup victim'[q] \subseteq victims[q] \cup victim[q]
    BY <1>3 DEF Tombstone, PurgeFails, LocalsGone
  <2>2. purged' = purged \/ (Taken(p) /\ ServerTakes(p))
    BY <1>3 DEF Tombstone, PurgeFails
  <2>3. Current \notin purged'
    BY <2>2, TakenIsStale
  <2>. QED  BY <2>1, <2>3 DEF Stale
<1>4. ASSUME NEW p \in Purges, Report(p)
      PROVE  ChosenAreStale'
  BY <1>4 DEF Report, LocalsGone, Stale
<1>5. ASSUME NEW d \in Devices, DeviceSyncs(d)
      PROVE  ChosenAreStale'
  BY <1>5 DEF DeviceSyncs, Stale
<1>6. CASE UNCHANGED <<victims, victim, purged>>
  BY <1>6 DEF Stale
<1>7. CASE \/ \E p \in Purges : PressPurge(p)
           \/ PressCancel \/ Remount \/ SyncFetches \/ SyncLands
           \/ \E d \in Devices : RemoveDevice(d)
           \/ UNCHANGED purgeVars
  BY <1>6, <1>7 DEF PressPurge, PressCancel, Remount, SyncFetches, SyncLands,
     RemoveDevice, purgeVars
<1>. QED  BY <1>1, <1>2, <1>3, <1>4, <1>5, <1>7 DEF PurgeNext, PurgeStep

LEMMA FlagStep == PurgeTypeOK /\ FlagIsSet /\ [PurgeNext]_purgeVars => FlagIsSet'
<1>. SUFFICES ASSUME PurgeTypeOK, FlagIsSet, [PurgeNext]_purgeVars
              PROVE  FlagIsSet'
  OBVIOUS
<1>. USE DEF PurgeTypeOK, Running
<1>1. ASSUME NEW p \in Purges, PressPurge(p)
      PROVE  FlagIsSet'
  <2>1. ASSUME NEW q \in stopped'
        PROVE  /\ step'[q] # "idle"
               /\ q \notin restarted' => q \notin Running'
    <3>1. q \in stopped /\ step[q] # "idle" /\ q # p /\ step'[q] = step[q]
      BY <1>1, <2>1 DEF PressPurge, PurgeGoes, FlagIsSet
    <3>. QED  BY <1>1, <3>1 DEF PressPurge
  <2>. QED  BY <2>1 DEF FlagIsSet
<1>2. ASSUME \/ UNCHANGED step
             \/ \E p \in Purges : /\ \A q \in Purges : q # p => step'[q] = step[q]
                                  /\ step[p] \notin {"idle", "done"}
                                  /\ step'[p] # "idle",
             UNCHANGED <<cancel, stopped, restarted>>
      PROVE  FlagIsSet'
  <2>1. \A q \in Purges : /\ step[q] # "idle" => step'[q] # "idle"
                          /\ q \in Running' => q \in Running \/ step[q] = "idle"
    BY <1>2
  <2>2. \A q \in stopped : q \in Running' => q \in Running
    BY <2>1 DEF FlagIsSet
  <2>. QED  BY <1>2, <2>1, <2>2 DEF FlagIsSet
<1>3. ASSUME NEW p \in Purges,
             \/ FetchDevices(p) \/ NextVictim(p) \/ Tombstone(p) \/ Report(p)
             \/ \E taken \in BOOLEAN : PurgeFails(p, taken)
      PROVE  FlagIsSet'
  <2>1. /\ UNCHANGED <<cancel, stopped, restarted>>
        /\ step[p] \notin {"idle", "done"}
        /\ \E to \in {"next", "commit", "report", "done"} :
             step' = [step EXCEPT ![p] = to]
    BY <1>3 DEF FetchDevices, NextVictim, Tombstone, Report, PurgeFails, PurgeGoes
  <2>. QED  BY <1>2, <2>1
<1>4. CASE PressCancel
  BY <1>4 DEF PressCancel, FlagIsSet
<1>5. CASE \/ Remount \/ SyncFetches \/ SyncLands
           \/ \E d \in Devices : RemoveDevice(d) \/ DeviceSyncs(d)
           \/ UNCHANGED purgeVars
  BY <1>2, <1>5 DEF Remount, SyncFetches, SyncLands, RemoveDevice, DeviceSyncs,
     purgeVars
<1>. QED  BY <1>1, <1>3, <1>4, <1>5 DEF PurgeNext, PurgeStep

LEMMA UnlistedStep ==
  /\ PurgeTypeOK /\ ChosenAreStale /\ PurgedIsUnlisted /\ [PurgeNext]_purgeVars
  => PurgedIsUnlisted'
<1>. SUFFICES ASSUME PurgeTypeOK, ChosenAreStale, PurgedIsUnlisted,
                     [PurgeNext]_purgeVars, NEW d \in (purged \cap listed)'
              PROVE  d \in untold' \/ \E p \in Running' : d \in removed'[p]
  BY DEF PurgedIsUnlisted
<1>. USE DEF PurgeTypeOK, Running
<1>1. ASSUME d \in purged, d \in listed, untold \subseteq untold',
             \A q \in Purges : q \in Running /\ d \in removed[q] =>
                                 q \in Running' /\ d \in removed'[q]
      PROVE  d \in untold' \/ \E p \in Running' : d \in removed'[p]
  BY <1>1 DEF PurgedIsUnlisted
<1>2. ASSUME NEW p \in Purges, PressPurge(p) \/ FetchDevices(p) \/ NextVictim(p)
      PROVE  d \in untold' \/ \E q \in Running' : d \in removed'[q]
  <2>1. /\ UNCHANGED <<purged, listed, untold, removed>>
        /\ \E to \in {"fetch", "next", "commit", "report"} :
             step' = [step EXCEPT ![p] = to]
    BY <1>2 DEF PressPurge, FetchDevices, NextVictim, PurgeGoes
  <2>. QED  BY <1>1, <2>1
<1>3. ASSUME NEW p \in Purges, Tombstone(p)
      PROVE  d \in untold' \/ \E q \in Running' : d \in removed'[q]
  <2>1. /\ UNCHANGED <<listed, untold>> /\ p \in Running'
        /\ \A q \in Running : q \in Running'
        /\ \A q \in Purges : removed[q] \subseteq removed'[q]
        /\ {r.device : r \in victim[p]} \subseteq removed'[p]
    BY <1>3 DEF Tombstone, PurgeGoes
  <2>2. d \in purged \/ d \in {r.device : r \in victim[p]}
    BY <1>3 DEF Tombstone, Taken
  <2>. QED  BY <1>1, <2>1, <2>2
<1>4. ASSUME NEW p \in Purges, NEW taken \in BOOLEAN, PurgeFails(p, taken)
      PROVE  d \in untold' \/ \E q \in Running' : d \in removed'[q]
  <2>1. /\ UNCHANGED listed
        /\ untold' = untold \cup removed[p] \cup (purged' \ purged)
        /\ \A q \in Purges : q # p => step'[q] = step[q] /\ removed'[q] = removed[q]
    BY <1>4 DEF PurgeFails, LocalsGone
  <2>. QED  BY <2>1 DEF PurgedIsUnlisted
<1>5. ASSUME NEW p \in Purges, Report(p)
      PROVE  d \in untold' \/ \E q \in Running' : d \in removed'[q]
  <2>1. /\ UNCHANGED <<purged, untold>> /\ listed' = listed \ Dropped(p)
        /\ \A q \in Purges : q # p => step'[q] = step[q] /\ removed'[q] = removed[q]
    BY <1>5 DEF Report, LocalsGone, PurgeGoes
  <2>2. d # Current /\ d \in listed /\ d \notin Dropped(p)
    BY <2>1 DEF ChosenAreStale
  <2>3. d \notin removed[p]
    BY <2>2 DEF Dropped
  <2>. QED  BY <2>1, <2>3 DEF PurgedIsUnlisted
<1>6. CASE SyncLands
  BY <1>6 DEF SyncLands
<1>7. CASE \/ PressCancel \/ Remount \/ SyncFetches
           \/ \E e \in Devices : RemoveDevice(e) \/ DeviceSyncs(e)
           \/ UNCHANGED purgeVars
  <2>1. purged' \subseteq purged /\ UNCHANGED <<listed, untold, removed, step>>
    BY <1>7 DEF PressCancel, Remount, SyncFetches, RemoveDevice, DeviceSyncs,
       purgeVars
  <2>. QED  BY <1>1, <2>1
<1>. QED  BY <1>2, <1>3, <1>4, <1>5, <1>6, <1>7 DEF PurgeNext, PurgeStep

LEMMA PurgeInvInit == PurgeInit => PurgeInv
  BY DEF PurgeInit, PurgeInv, ChosenAreStale, FlagIsSet, PurgedIsUnlisted

LEMMA PurgeInvStep == PurgeTypeOK /\ PurgeInv /\ [PurgeNext]_purgeVars => PurgeInv'
  BY ChosenStep, FlagStep, UnlistedStep DEF PurgeInv

(***************************************************************************)
(* A device that a purge takes off the chain is not this one, and its      *)
(* record is a dated, old one at the moment it goes, whatever the devices  *)
(* write while commit_delete_stale_devices goes through its list.          *)
(***************************************************************************)
THEOREM OnlyStaleGoCorrect == PurgeSpec => OnlyStaleGo
<1>1. PurgeInv /\ [PurgeNext]_purgeVars =>
        [\A d \in purged' \ purged :
           \E r \in records : r.device = d /\ d # Current /\ r.seen = "old"]_purgeVars
  <2>. SUFFICES ASSUME ChosenAreStale, PurgeNext
                PROVE  \A d \in purged' \ purged : \E r \in records :
                         r.device = d /\ d # Current /\ r.seen = "old"
    BY DEF PurgeInv
  <2>1. ASSUME NEW p \in Purges,
               Tombstone(p) \/ (\E taken \in BOOLEAN : PurgeFails(p, taken))
        PROVE  purged' = purged \/ (Taken(p) /\ ServerTakes(p))
    BY <2>1 DEF Tombstone, PurgeFails
  <2>2. \/ purged' \subseteq purged
        \/ \E p \in Purges : Taken(p) /\ ServerTakes(p)
    BY <2>1 DEF PurgeNext, PurgeStep, PressPurge, FetchDevices, NextVictim,
       Report, PressCancel, Remount, SyncFetches, SyncLands, RemoveDevice,
       DeviceSyncs
  <2>. QED  BY <2>2, TakenIsStale
<1>. QED  BY <1>1, PurgeTypeInit, PurgeTypeStep, PurgeInvInit, PurgeInvStep, PTL
          DEF PurgeSpec, OnlyStaleGo

(***************************************************************************)
(* A purge that was cancelled takes up no other device, unless a second    *)
(* purge has cleared the flag the two share.                               *)
(***************************************************************************)
THEOREM CancelStopsCorrect == PurgeSpec => CancelStops
<1>1. PurgeTypeOK /\ PurgeInv /\ [PurgeNext]_purgeVars =>
        [\A p \in stopped \ restarted :
           step[p] = "next" => step'[p] # "commit"]_purgeVars
  <2>. SUFFICES ASSUME PurgeTypeOK, FlagIsSet, PurgeNext,
                       NEW p \in stopped \ restarted, step[p] = "next"
                PROVE  step'[p] # "commit"
    BY DEF PurgeInv
  <2>. USE DEF PurgeTypeOK
  <2>1. cancel
    BY DEF FlagIsSet, Running
  <2>2. ASSUME NEW q \in Purges, PurgeStep(q)
        PROVE  step'[p] # "commit"
    BY <2>1, <2>2 DEF PurgeStep, PressPurge, FetchDevices, NextVictim, Tombstone,
       Report, PurgeFails, PurgeGoes
  <2>3. CASE UNCHANGED step
    BY <2>3
  <2>. QED  BY <2>2, <2>3 DEF PurgeNext, PressCancel, Remount, SyncFetches,
               SyncLands, RemoveDevice, DeviceSyncs
<1>. QED  BY <1>1, PurgeTypeInit, PurgeTypeStep, PurgeInvInit, PurgeInvStep, PTL
          DEF PurgeSpec, CancelStops

(***************************************************************************)
(* A purged device is off the list once its purge has returned, whether it *)
(* finished or was cancelled, but for what a purge that failed lost and    *)
(* what a sync had fetched before.                                         *)
(***************************************************************************)
THEOREM PurgedIsUnlistedCorrect == PurgeSpec => []PurgedIsUnlisted
  BY PurgeTypeInit, PurgeTypeStep, PurgeInvInit, PurgeInvStep, PTL
     DEF PurgeSpec, PurgeInv
-----------------------------------------------------------------------------
(* ListView. *)

\* No request has a number that was not given out yet.
InOrder == \A r \in requests : r.seq <= reqSeq

\* Unless the view changed under a handler or a request, every handler will
\* list the view, and so did the latest request: its rows are on the screen or
\* on their way there.
OfTheView ==
  ~outdated =>
    /\ \A h \in Handlers : InFlight(h) => captured[h] = view
    /\ view = Agents => requests = {} /\ items = Agents
    /\ \A r \in requests : Latest(r) => r.view = view
    /\ items = view \/ \E r \in requests : Latest(r)

ListInv == ListTypeOK /\ InOrder /\ OfTheView

LEMMA ListInitInv == ListInit => ListInv
<1>. SUFFICES ASSUME ListInit
              PROVE  ListInv
  OBVIOUS
<1>. USE ListAssumption DEF ListInit, AllViews
<1>1. outdated \in BOOLEAN
  BY Zenon
<1>2. ListTypeOK
  BY <1>1 DEF ListTypeOK, Request
<1>. QED  BY <1>2 DEF ListInv, InOrder, OfTheView, InFlight, Latest

\* What refresh asks for becomes the latest request, or is there at once.
LEMMA Refreshed ==
  ASSUME ListTypeOK, InOrder, NEW v \in AllViews, Refresh(v)
  PROVE  /\ items' \in AllViews /\ reqSeq' \in 0..MaxSeq
         /\ requests' \subseteq Request /\ InOrder'
         /\ v = Agents => items' = Agents /\ requests' = requests
         /\ v # Agents => /\ \A r \in requests' : Latest(r)' => r.view = v
                          /\ \E r \in requests' : Latest(r)'
<1>. USE ListAssumption DEF ListTypeOK, AllViews, Request, Latest, InOrder
<1>1. CASE v = Agents
  BY <1>1 DEF Refresh
<1>2. CASE v # Agents
  <2>. DEFINE new == [seq |-> reqSeq + 1, view |-> v]
  <2>1. /\ reqSeq < MaxSeq /\ reqSeq' = reqSeq + 1 /\ items' = items
        /\ requests' = requests \cup {new}
    BY <1>2 DEF Refresh
  <2>2. new \in Request /\ new \in requests' /\ new.seq = reqSeq' /\ new.view = v
    BY <1>2, <2>1
  <2>3. \A r \in requests : r.seq <= reqSeq /\ r.seq \in Nat
    OBVIOUS
  <2>. HIDE DEF new
  <2>. QED  BY <1>2, <2>1, <2>2, <2>3
<1>. QED  BY <1>1, <1>2

LEMMA ListStep == ListInv /\ [ListNext]_listVars => ListInv'
<1>. SUFFICES ASSUME ListTypeOK, InOrder, OfTheView, [ListNext]_listVars
              PROVE  ListInv'
  BY DEF ListInv
<1>. USE ListAssumption DEF ListInv, InFlight
<1>1. ASSUME NEW v \in AllViews, ChangeView(v)
      PROVE  ListInv'
  <2>1. /\ items' \in AllViews /\ reqSeq' \in 0..MaxSeq
        /\ requests' \subseteq Request /\ InOrder'
        /\ v = Agents => items' = Agents /\ requests' = requests
        /\ v # Agents => /\ \A r \in requests' : Latest(r)' => r.view = v
                         /\ \E r \in requests' : Latest(r)'
    BY <1>1, Refreshed DEF ChangeView
  <2>2. /\ view' = v /\ UNCHANGED <<stage, captured>>
        /\ outdated' = (\/ \E h \in Handlers : InFlight(h)
                        \/ v = Agents /\ requests # {})
    BY <1>1 DEF ChangeView
  <2>3. ListTypeOK'
    BY <2>1, <2>2 DEF ListTypeOK
  <2>4. OfTheView'
    BY <2>1, <2>2 DEF OfTheView
  <2>. QED  BY <2>1, <2>3, <2>4
<1>2. ASSUME NEW r \in requests, Answer(r)
      PROVE  ListInv'
  <2>1. /\ UNCHANGED <<view, reqSeq, stage, captured, outdated>>
        /\ requests' = requests \ {r}
        /\ items' = IF Latest(r) THEN r.view ELSE items
    BY <1>2 DEF Answer
  <2>2. ListTypeOK'
    BY <2>1 DEF ListTypeOK, Request, AllViews
  <2>3. InOrder'
    BY <2>1 DEF InOrder
  <2>4. OfTheView'
    BY <2>1 DEF OfTheView, Latest
  <2>. QED  BY <2>2, <2>3, <2>4
<1>3. ASSUME NEW h \in Handlers, Done(h)
      PROVE  ListInv'
  <2>. DEFINE v == captured[h]
  <2>1. v \in AllViews
    BY DEF ListTypeOK
  <2>2. /\ items' \in AllViews /\ reqSeq' \in 0..MaxSeq
        /\ requests' \subseteq Request /\ InOrder'
        /\ v = Agents => items' = Agents /\ requests' = requests
        /\ v # Agents => /\ \A r \in requests' : Latest(r)' => r.view = v
                         /\ \E r \in requests' : Latest(r)'
    <3>. HIDE DEF v
    <3>1. Refresh(v)
      BY <1>3 DEF Done, v
    <3>. QED  BY <2>1, <3>1, Refreshed
  <2>3. /\ UNCHANGED <<view, captured, outdated>> /\ InFlight(h)
        /\ \A k \in Handlers : InFlight(k)' => InFlight(k)
    BY <1>3 DEF Done, ListTypeOK
  <2>4. ListTypeOK'
    BY <1>3, <2>2 DEF Done, ListTypeOK
  <2>5. OfTheView'
    BY <2>2, <2>3 DEF OfTheView
  <2>. QED  BY <2>2, <2>4, <2>5
<1>4. ASSUME NEW h \in Handlers,
             \/ \E kind \in {"commit", "sync", "purge"} : StartHandler(h, kind)
             \/ Reconcile(h) \/ EndQuietly(h)
      PROVE  ListInv'
  <2>1. /\ UNCHANGED <<view, items, reqSeq, requests, outdated>>
        /\ \A k \in Handlers : InFlight(k)' =>
             captured'[k] = view \/ (InFlight(k) /\ captured'[k] = captured[k])
        /\ ListTypeOK'
    BY <1>4 DEF StartHandler, Reconcile, EndQuietly, ListTypeOK
  <2>. QED  BY <2>1 DEF OfTheView, Latest, InOrder
<1>5. CASE UNCHANGED listVars
  BY <1>5 DEF listVars, ListTypeOK, InOrder, OfTheView, Latest
<1>. QED  BY <1>1, <1>2, <1>3, <1>4, <1>5 DEF ListNext

\* Type correctness: requests, rows and handlers keep their form.
THEOREM ListTypeCorrect == ListSpec => []ListTypeOK
  BY ListInitInv, ListStep, PTL DEF ListSpec, ListInv

(***************************************************************************)
(* With no request under way the rows on the screen are those of the view  *)
(* that was chosen, in whatever order changes of the view, refreshes and   *)
(* answers of list_items come, unless the view last changed under a        *)
(* handler or to the agents view under a request.                          *)
(***************************************************************************)
THEOREM RowsAreOfTheViewCorrect == ListSpec => []RowsAreOfTheView
<1>1. ListInv => RowsAreOfTheView
  BY DEF ListInv, OfTheView, RowsAreOfTheView
<1>. QED  BY <1>1, ListInitInv, ListStep, PTL DEF ListSpec
-----------------------------------------------------------------------------
(* The three together, as they are run. *)

\* A run of the three is one of each: what is proved of a part holds in it.
THEOREM DesktopParts == DesktopSpec => Spec /\ PurgeSpec /\ ListSpec
<1>1. DesktopInit => Init /\ PurgeInit /\ ListInit
  BY DEF DesktopInit
<1>2. [DesktopNext]_<<vars, purgeVars, listVars, part>> =>
        [Next]_vars /\ [PurgeNext]_purgeVars /\ [ListNext]_listVars
  BY DEF DesktopNext
<1>. QED  BY <1>1, <1>2, PTL DEF DesktopSpec, Spec, PurgeSpec, ListSpec

\* Every part of the app's state has its type, whatever its tasks do.
THEOREM DesktopTypeCorrect == DesktopSpec => []DesktopTypeOK
<1>1. TypeOK /\ PurgeTypeOK /\ ListTypeOK => DesktopTypeOK
  BY DEF DesktopTypeOK
<1>. QED  BY <1>1, DesktopParts, TypeCorrect, PurgeTypeCorrect, ListTypeCorrect, PTL
=============================================================================
