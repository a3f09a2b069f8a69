-------------------------------- MODULE Purge --------------------------------
(***************************************************************************)
(* Removing devices from the sync chain: purge_stale_devices with its      *)
(* cancel flag (lib.rs), commit_delete_stale_devices (session.rs), which   *)
(* goes through the stale devices one commit at a time, and the buttons of *)
(* App.jsx that start and cancel it.  The UI starts no second purge while  *)
(* it is busy, but its main screen forgets that when it is mounted again.  *)
(***************************************************************************)
EXTENDS Naturals

CONSTANTS
  Devices,      \* the devices that may be on the chain, by cache_guid
  Current,      \* this app's own
  DeviceName,   \* DeviceName[d]: two devices may have one name
  FirstSeen,    \* FirstSeen[d]: what its record says to begin with
  Purges,       \* calls of purge_stale_devices
  MaxUpdates,   \* bound on other changes to the records
  MaxMounts     \* bound on how often the main screen is mounted again

Seen == {"unknown", "old", "recent"}

ASSUME PurgeAssumption ==
  /\ Current \in Devices
  /\ FirstSeen \in [Devices -> Seen]
  /\ MaxUpdates \in Nat /\ MaxMounts \in Nat

VARIABLES
  records,      \* the DeviceInfo records on the chain
  listed,       \* AppState.devices, and the rows made of it
  cancel,       \* PurgeCancel
  step,         \* where each purge is
  victims,      \* to_remove: the stale records it has not come to yet
  victim,       \* the record whose tombstone it is committing
  removed,      \* the devices it counts as removed
  busy,         \* the purge the main screen waits for, if any
  fetched,      \* the list a sync under way has fetched, if any
  updates, mounts,
  purged,       \* history: devices a purge took off the chain, not back since
  untold,       \* history: purged devices the list was not told of, or was
                \* filled with again by a sync that had fetched them before
  stopped,      \* history: the purges under way when the user cancelled
  restarted     \* history: the purges under way when another one started

purgeVars == <<records, listed, cancel, step, victims, victim, removed, busy,
               fetched, updates, mounts, purged,
                 untold, stopped, restarted>>

Record == [device : Devices, seen : Seen, version : 0..MaxUpdates]

PurgeTypeOK ==
  /\ records \subseteq Record
  /\ listed \subseteq Devices
  /\ cancel \in BOOLEAN
  /\ step \in [Purges -> {"idle", "fetch", "next", "commit", "report", "done"}]
  /\ victims \in [Purges -> SUBSET Record]
  /\ victim \in [Purges -> SUBSET Record]
  /\ removed \in [Purges -> SUBSET Devices]
  /\ busy \subseteq Purges
  /\ fetched \subseteq SUBSET Devices
  /\ updates \in 0..MaxUpdates /\ mounts \in 0..MaxMounts
  /\ purged \cup untold \subseteq Devices
  /\ stopped \cup restarted \subseteq Purges

OnChain == {r.device : r \in records}

PurgeInit ==
  /\ records = {[device |-> d, seen |-> FirstSeen[d], version |-> 0] : d \in Devices}
  /\ listed = Devices
  /\ cancel = FALSE
  /\ step = [p \in Purges |-> "idle"]
  /\ victims = [p \in Purges |-> {}]
  /\ victim = [p \in Purges |-> {}]
  /\ removed = [p \in Purges |-> {}]
  /\ busy = {}
  /\ fetched = {}
  /\ updates = 0 /\ mounts = 0
  /\ purged = {} /\ untold = {} /\ stopped = {} /\ restarted = {}

Running == {p \in Purges : step[p] \notin {"idle", "done"}}

PurgeGoes(p, from, to) ==
  /\ step[p] = from
  /\ step' = [step EXCEPT ![p] = to]
-----------------------------------------------------------------------------
(* The buttons. *)

\* purge_stale_devices clears the cancel flag, whoever it was meant for.
PressPurge(p) ==
  /\ PurgeGoes(p, "idle", "fetch")
  /\ busy = {}
  /\ busy' = {p}
  /\ cancel' = FALSE
  /\ restarted' = restarted \cup Running
  /\ UNCHANGED <<records, listed, victims, victim, removed, fetched, updates,
                 mounts, purged, untold, stopped>>

\* The button is there while the screen knows of a purge.
PressCancel ==
  /\ busy # {}
  /\ cancel' = TRUE
  /\ stopped' = stopped \cup Running
  /\ UNCHANGED <<records, listed, step, victims, victim, removed, busy, fetched,
                 updates, mounts, purged, untold, restarted>>

\* The vault is locked and unlocked: a new main screen, the purge goes on.
Remount ==
  /\ mounts < MaxMounts
  /\ mounts' = mounts + 1
  /\ busy' = {}
  /\ UNCHANGED <<records, listed, cancel, step, victims, victim, removed, fetched,
                 updates, purged, untold, stopped, restarted>>

\* removeDevice, delete_device and commit_delete_device as one step: the record
\* with this cache_guid goes.  The row follows with the next sync.
RemoveDevice(d) ==
  /\ busy = {}
  /\ d \in OnChain /\ d \in listed
  /\ updates < MaxUpdates
  /\ updates' = updates + 1
  /\ records' = {r \in records : r.device # d}
  /\ UNCHANGED <<listed, cancel, step, victims, victim, removed, busy, fetched, mounts,
                 purged, untold, stopped, restarted>>
-----------------------------------------------------------------------------
(* commit_delete_stale_devices. *)

\* Mutant of Stale: last_updated_unix >= 0.
StaleOrUnknown(r) == r.device # Current /\ r.seen # "recent"

\* Not this device, and dated before the cutoff: a record without a date stays.
Stale(r) == r.device # Current /\ r.seen = "old"

\* Mutant of FetchDevices: the flag is cleared once the work is known.
FetchAndClear(p) ==
  /\ PurgeGoes(p, "fetch", "next")
  /\ cancel' = FALSE
  /\ victims' = [victims EXCEPT ![p] = {r \in records : Stale(r)}]
  /\ UNCHANGED <<records, listed, victim, removed, busy, fetched, updates,
                 mounts, purged, untold,
                 stopped, restarted>>

FetchDevices(p) ==
  /\ PurgeGoes(p, "fetch", "next")
  /\ victims' = [victims EXCEPT ![p] = {r \in records : Stale(r)}]
  /\ UNCHANGED <<records, listed, cancel, victim, removed, busy, fetched, updates,
                 mounts, purged, untold,
                 stopped, restarted>>

\* The flag is polled between two devices.
NextVictim(p) ==
  /\ step[p] = "next"
  /\ IF victims[p] = {} \/ cancel
       THEN /\ step' = [step EXCEPT ![p] = "report"]
            /\ UNCHANGED <<victims, victim>>
       ELSE \E r \in victims[p] :
              /\ step' = [step EXCEPT ![p] = "commit"]
              /\ victim' = [victim EXCEPT ![p] = {r}]
              /\ victims' = [victims EXCEPT ![p] = @ \ {r}]
  /\ UNCHANGED <<records, listed, cancel, removed, busy, fetched, updates, mounts,
                 purged, untold, stopped, restarted>>

\* The server replaces the record the tombstone was made of, and only that.
ServerTakes(p) == victim[p] \subseteq records

Taken(p) ==
  /\ records' = {q \in records : \A r \in victim[p] : q.device # r.device}
  /\ purged' = purged \cup {r.device : r \in victim[p]}

\* The tombstone is committed.  commit_entity does not decode the server's
\* verdict: a record that was written again meanwhile stays and is counted as
\* removed all the same.
Tombstone(p) ==
  /\ PurgeGoes(p, "commit", "next")
  /\ removed' = [removed EXCEPT ![p] = @ \cup {r.device : r \in victim[p]}]
  /\ IF ServerTakes(p) THEN Taken(p) ELSE UNCHANGED <<records, purged>>
  /\ victim' = [victim EXCEPT ![p] = {}]
  /\ UNCHANGED <<listed, cancel, victims, busy, fetched, updates, mounts,
                 untold, stopped, restarted>>

LocalsGone(p) ==
  /\ victims' = [victims EXCEPT ![p] = {}]
  /\ victim' = [victim EXCEPT ![p] = {}]
  /\ removed' = [removed EXCEPT ![p] = {}]

\* An error at the fetch or at one device ends the purge; the names of those
\* removed before are lost with it.  The tombstone may have been taken before
\* its answer was lost.
PurgeFails(p, taken) ==
  /\ step[p] \in {"fetch", "commit"}
  /\ step' = [step EXCEPT ![p] = "done"]
  /\ IF taken
       THEN step[p] = "commit" /\ ServerTakes(p) /\ Taken(p)
       ELSE UNCHANGED <<records, purged>>
  /\ untold' = untold \cup removed[p] \cup (purged' \ purged)
  /\ LocalsGone(p)
  /\ busy' = busy \ {p}
  /\ UNCHANGED <<listed, cancel, fetched, updates, mounts, stopped, restarted>>

Dropped(p) ==
  {d \in listed : d # Current /\ \E e \in removed[p] : DeviceName[e] = DeviceName[d]}

\* Mutant of Report: a cancelled purge returns before the list is brought up to
\* date.
ReportIfFinished(p) ==
  /\ PurgeGoes(p, "report", "done")
  /\ listed' = IF cancel THEN listed ELSE listed \ Dropped(p)
  /\ LocalsGone(p)
  /\ busy' = busy \ {p}
  /\ UNCHANGED <<records, cancel, fetched, updates, mounts, purged,
                 untold, stopped, restarted>>

\* Rows leave the list by name.
Report(p) ==
  /\ PurgeGoes(p, "report", "done")
  /\ listed' = listed \ Dropped(p)
  /\ LocalsGone(p)
  /\ busy' = busy \ {p}
  /\ UNCHANGED <<records, cancel, fetched, updates, mounts, purged,
                 untold, stopped, restarted>>
-----------------------------------------------------------------------------
(* A sync fills the list, and devices write their records. *)

SyncFetches ==
  /\ fetched = {}
  /\ fetched' = {OnChain}
  /\ UNCHANGED <<records, listed, cancel, step, victims, victim, removed, busy,
                 updates, mounts, purged,
                 untold, stopped, restarted>>

SyncLands ==
  /\ fetched # {}
  /\ listed' = UNION fetched
  /\ fetched' = {}
  /\ untold' = (untold \cup purged) \cap listed'
  /\ UNCHANGED <<records, cancel, step, victims, victim, removed, busy, updates,
                 mounts, purged, stopped, restarted>>

\* A device syncs: it writes its record, also one that was taken off.
DeviceSyncs(d) ==
  /\ updates < MaxUpdates
  /\ updates' = updates + 1
  /\ records' = {r \in records : r.device # d}
                  \cup {[device |-> d, seen |-> "recent", version |-> updates']}
  /\ purged' = purged \ {d}
  /\ UNCHANGED <<listed, cancel, step, victims, victim, removed, busy, fetched,
                 mounts, untold, stopped, restarted>>

PurgeStep(p) ==
  \/ PressPurge(p) \/ FetchDevices(p) \/ NextVictim(p)
  \/ Tombstone(p) \/ Report(p)
  \/ \E taken \in BOOLEAN : PurgeFails(p, taken)

PurgeNext ==
  \/ \E p \in Purges : PurgeStep(p)
  \/ PressCancel \/ Remount \/ SyncFetches \/ SyncLands
  \/ \E d \in Devices : RemoveDevice(d) \/ DeviceSyncs(d)

PurgeSpec == PurgeInit /\ [][PurgeNext]_purgeVars
-----------------------------------------------------------------------------
(* Properties. *)

\* "so we only ever purge records we can positively date as stale": whatever
\* devices do while the purge goes through its list, one that a purge takes off
\* the chain is not this one, and its record is an old one at that moment.
OnlyStaleGo ==
  [][\A d \in purged' \ purged :
       \E r \in records : r.device = d /\ d # Current /\ r.seen = "old"]_purgeVars

\* "The purge stops before the next device": a purge that was cancelled takes
\* up no other device, unless a second purge has cleared the flag.
CancelStops ==
  [][\A p \in stopped \ restarted :
       step[p] = "next" => step'[p] # "commit"]_purgeVars

\* What was purged is off the list once its purge has returned, but for what a
\* failed purge did not report and what a sync had fetched before.
PurgedIsUnlisted ==
  \A d \in purged \cap listed :
    d \in untold \/ \E p \in Running : d \in removed[p]
=============================================================================
