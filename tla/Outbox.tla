------------------------------- MODULE Outbox -------------------------------
(***************************************************************************)
(* The durable outbox (lib.rs): every mutation is queued in the vault file *)
(* before it is committed to the sync server and removed once the commit   *)
(* succeeded; replay_outbox commits what an earlier run left behind.       *)
(*                                                                         *)
(* A command is one call of save_item, save_bookmark, save_identity,       *)
(* delete_item or delete_device; it runs commit_durable once.  Commands,   *)
(* replays and the other users of the vault file run at the same time.     *)
(***************************************************************************)
EXTENDS VaultFile, Sequences

CONSTANTS
  Commands,     \* the mutations the user makes
  Replays,      \* runs of replay_outbox that may overlap: one per main window
  Others,       \* calls that write back the vault for another section's sake
  Op,           \* Op[c]: the OutboxOp of a command
  Keys,         \* what identifies an item: realm and user name, or a guid
  InitialKeys,  \* the items on the chain to begin with
  None,
  MaxFaults,    \* bound on failures of the network
  MaxRestarts   \* bound on restarts of the app

OpType == [kind : {"new", "edit", "delete", "unsendable"}, key : Keys, to : Keys]

ASSUME OpAssumption == Op \in [Commands -> OpType]
ASSUME ThreadsAssumption ==
  /\ Threads = Commands \cup Replays \cup Others
  /\ Commands \cap Replays = {}
  /\ Commands \cap Others = {}
  /\ Replays \cap Others = {}
ASSUME InitialAssumption ==
  InitialKeys \subseteq Keys /\ Keys \cap Nat = {} /\ None \notin Commands
ASSUME DataAssumption ==
  DefaultData = <<>> /\ Unreadable \notin Seq(Commands)
ASSUME BoundsAssumption == MaxFaults \in Nat /\ MaxRestarts \in Nat

VARIABLES
  pc,
  todo,        \* replay_outbox: the entries of its snapshot it has yet to do
  target,      \* the entity a commit found on the server, and will replace
  server,      \* the live entities of the sync chain
  created,     \* how many entities were created on the chain
  faults,
  restarts,
  queued,      \* history: the commands whose entry reached the vault file
  applied,     \* history: the commands the server carried out at least once
  conflicted   \* history: the commands the server dropped as out of date

serverVars == <<server, created, applied, conflicted>>
vars == <<fileVars, pc, todo, target, server, created, faults, restarts, queued,
          applied, conflicted>>

\* An entity: val is the command that last set its contents, None for nobody.
\* An initial entity is identified by its key, a later one by a number.
Entity == [id : Keys \cup Nat, key : Keys, val : Commands \cup {None},
           version : Nat]

\* Waiting to write the vault back.
Saving == {"push", "clear", "save"}
PC == {"idle", "fetch", "post", "acked", "done", "failed"} \cup Saving

TypeOK ==
  /\ FileTypeOK(Seq(Commands))
  /\ pc \in [Threads -> PC]
  /\ todo \in [Replays -> Seq(Commands)]
  /\ target \in [Threads -> Entity \cup {None}]
  /\ server \subseteq Entity
  /\ created \in Nat
  /\ faults \in 0..MaxFaults
  /\ restarts \in 0..MaxRestarts
  /\ queued \subseteq Commands
  /\ applied \subseteq Commands
  /\ conflicted \subseteq Commands

Init ==
  /\ FileInit(<<>>)
  /\ pc = [t \in Threads |-> "idle"]
  /\ todo = [r \in Replays |-> <<>>]
  /\ target = [t \in Threads |-> None]
  /\ server = {[id |-> k, key |-> k, val |-> None, version |-> 0] : k \in InitialKeys}
  /\ created = 0
  /\ faults = 0
  /\ restarts = 0
  /\ queued = {}
  /\ applied = {}
  /\ conflicted = {}

Contains(outbox, c) == \E i \in 1..Len(outbox) : outbox[i] = c

\* retain(|e| e.id != c).  An id is pushed once, so there is one entry to drop.
Without(outbox, c) ==
  LET i == CHOOSE i \in 1..Len(outbox) : outbox[i] = c
  IN  [n \in 1..Len(outbox) - 1 |->
         IF n < i THEN outbox[n] ELSE outbox[n + 1]]

\* The command a thread commits: its own, or the next of the snapshot.
Job(t) == IF t \in Replays THEN Head(todo[t]) ELSE t

Goto(t, from, to) ==
  /\ pc[t] = from
  /\ pc' = [pc EXCEPT ![t] = to]
-----------------------------------------------------------------------------
(* outbox_push, outbox_remove and the other writers of the vault file. *)

\* Mutant of Submit: the entry takes the place of the queue.
SubmitAlone(c) ==
  /\ Goto(c, "idle", "push")
  /\ LoadAndSet(c, <<c>>)
  /\ UNCHANGED <<todo, target, serverVars, faults, restarts, queued>>

\* commit_durable begins: load the vault and append the entry.
Submit(c) ==
  /\ Goto(c, "idle", "push")
  /\ LoadAndSet(c, Append(LoadVault, c))
  /\ UNCHANGED <<todo, target, serverVars, faults, restarts, queued>>

\* Mutant of LoadOther: no unwrap_or_default.
LoadRaw(o) ==
  /\ Goto(o, "idle", "save")
  /\ LoadAndSet(o, file)
  /\ UNCHANGED <<todo, target, serverVars, faults, restarts, queued>>

\* sync, toggle_favorite, an agent request: load the vault, change a section
\* other than the outbox.
LoadOther(o) ==
  /\ Goto(o, "idle", "save")
  /\ LoadAndSet(o, LoadVault)
  /\ UNCHANGED <<todo, target, serverVars, faults, restarts, queued>>

BeginWrite(t) ==
  /\ pc[t] \in Saving
  /\ Truncate(t)
  /\ UNCHANGED <<pc, todo, target, serverVars, faults, restarts, queued>>

\* A command or a replay is past the entry it committed.
NextEntry(t) ==
  IF t \in Replays
    THEN /\ todo' = [todo EXCEPT ![t] = Tail(@)]
         /\ pc' = [pc EXCEPT ![t] = IF Len(todo[t]) = 1 THEN "idle" ELSE "fetch"]
    ELSE /\ pc' = [pc EXCEPT ![t] = "done"]
         /\ UNCHANGED todo

EndPush(c) ==
  /\ Goto(c, "push", "fetch")
  /\ Fill(c)
  /\ queued' = queued \cup {c}
  /\ UNCHANGED <<todo, target, serverVars, faults, restarts>>

EndClear(t) ==
  /\ pc[t] = "clear"
  /\ Fill(t)
  /\ NextEntry(t)
  /\ UNCHANGED <<target, serverVars, faults, restarts, queued>>

EndSave(o) ==
  /\ Goto(o, "save", "done")
  /\ Fill(o)
  /\ UNCHANGED <<todo, target, serverVars, faults, restarts, queued>>

\* Mutant of Remove: the first entry is dropped, not the entry by its id.
RemoveFirst(t) ==
  /\ Goto(t, "acked", "clear")
  /\ LoadVault # <<>>
  /\ LoadAndSet(t, Tail(LoadVault))
  /\ UNCHANGED <<todo, target, serverVars, faults, restarts, queued>>

\* outbox_remove after a commit that succeeded: retain the other entries, and
\* write only if there was something to remove.
Remove(t) ==
  /\ pc[t] = "acked"
  /\ IF Contains(LoadVault, Job(t))
       THEN /\ LoadAndSet(t, Without(LoadVault, Job(t)))
            /\ pc' = [pc EXCEPT ![t] = "clear"]
            /\ UNCHANGED todo
       ELSE /\ NextEntry(t)
            /\ LoadAndLook
  /\ UNCHANGED <<target, serverVars, faults, restarts, queued>>
-----------------------------------------------------------------------------
(* apply_outbox_op: a Session fetches the chain and commits one entity. *)

\* Mutant of StartReplay: off by one in the test for an empty outbox.
StartReplayOfTwo(r) ==
  /\ Goto(r, "idle", "fetch")
  /\ LoadVault # <<>>
  /\ Tail(LoadVault) # <<>>
  /\ todo' = [todo EXCEPT ![r] = LoadVault]
  /\ LoadAndLook
  /\ UNCHANGED <<target, serverVars, faults, restarts, queued>>

\* replay_outbox takes a snapshot of the outbox; nothing to do if it is empty.
StartReplay(r) ==
  /\ Goto(r, "idle", "fetch")
  /\ LoadVault # <<>>
  /\ todo' = [todo EXCEPT ![r] = LoadVault]
  /\ LoadAndLook
  /\ UNCHANGED <<target, serverVars, faults, restarts, queued>>

\* Mutant of GiveUp: a replay goes on with the entries behind the failed one.
SkipEntry(t) ==
  IF t \in Replays
    THEN NextEntry(t)
    ELSE pc' = [pc EXCEPT ![t] = "failed"] /\ UNCHANGED todo

\* An Err: commit_durable returns it and the entry stays; a replay breaks off
\* and leaves this entry and the ones behind it.
GiveUp(t) ==
  /\ pc' = [pc EXCEPT ![t] = IF t \in Replays THEN "idle" ELSE "failed"]
  /\ todo' = IF t \in Replays THEN [todo EXCEPT ![t] = <<>>] ELSE todo

\* commit_new builds a fresh entity; edits and deletes by key or guid fetch the
\* chain and take an entity that matches.
Fetch(t) ==
  /\ Goto(t, "fetch", "post")
  /\ \/ /\ Op[Job(t)].kind = "new"
        /\ target' = [target EXCEPT ![t] = None]
     \/ /\ Op[Job(t)].kind \in {"edit", "delete"}
        /\ \E e \in server : /\ e.key = Op[Job(t)].key
                             /\ target' = [target EXCEPT ![t] = e]
  /\ UNCHANGED <<fileVars, todo, serverVars, faults, restarts, queued>>

\* "item not found", or a new item without a website.
NotApplicable(t) ==
  /\ pc[t] = "fetch"
  /\ \/ Op[Job(t)].kind = "unsendable"
     \/ /\ Op[Job(t)].kind \in {"edit", "delete"}
        /\ \A e \in server : e.key # Op[Job(t)].key
  /\ GiveUp(t)
  /\ UNCHANGED <<fileVars, target, serverVars, faults, restarts, queued>>

\* The request does not reach the server.
NetworkFails(t) ==
  /\ pc[t] \in {"fetch", "post"}
  /\ faults < MaxFaults
  /\ faults' = faults + 1
  /\ GiveUp(t)
  /\ UNCHANGED <<fileVars, target, serverVars, restarts, queued>>

\* What the server holds after it accepted the commit of op over entity e.
Accepted(c, e) ==
  CASE Op[c].kind = "new" ->
         server \cup {[id |-> created + 1, key |-> Op[c].key, val |-> c,
                       version |-> 0]}
    [] Op[c].kind = "edit" ->
         (server \ {e}) \cup {[id |-> e.id, key |-> Op[c].to, val |-> c,
                               version |-> e.version + 1]}
    [] OTHER -> server \ {e}

\* The server accepts; the answer arrives, or is lost on the way.
ServerAccepts(t, lost) ==
  /\ pc[t] = "post"
  /\ Op[Job(t)].kind # "new" => target[t] \in server
  /\ server' = Accepted(Job(t), target[t])
  /\ created' = IF Op[Job(t)].kind = "new" THEN created + 1 ELSE created
  /\ applied' = applied \cup {Job(t)}
  /\ IF lost
       THEN faults < MaxFaults /\ faults' = faults + 1 /\ GiveUp(t)
       ELSE Goto(t, "post", "acked") /\ UNCHANGED <<todo, faults>>
  /\ UNCHANGED <<fileVars, target, restarts, queued, conflicted>>

\* Somebody else committed to the entity since it was fetched.  The server says
\* so in a part of CommitResponse that commit_entity does not decode.
ServerConflict(t) ==
  /\ Goto(t, "post", "acked")
  /\ Op[Job(t)].kind # "new"
  /\ target[t] \notin server
  /\ conflicted' = conflicted \cup {Job(t)}
  /\ UNCHANGED <<fileVars, todo, target, server, created, faults, restarts,
                 queued, applied>>
-----------------------------------------------------------------------------
\* The app is closed and started again: what ran is gone, unstarted commands
\* may still come.
Restart ==
  /\ restarts < MaxRestarts
  /\ restarts' = restarts + 1
  /\ ProcessEnds
  /\ pc' = [t \in Threads |->
       IF t \in Replays \/ pc[t] \in {"idle", "done", "failed"}
         THEN IF t \in Replays THEN "idle" ELSE pc[t]
         ELSE "failed"]
  /\ todo' = [r \in Replays |-> <<>>]
  /\ target' = [t \in Threads |-> None]
  /\ UNCHANGED <<serverVars, faults, queued>>

Commit(t) ==
  \/ Fetch(t) \/ NotApplicable(t) \/ NetworkFails(t)
  \/ \E lost \in BOOLEAN : ServerAccepts(t, lost)
  \/ ServerConflict(t)
  \/ Remove(t) \/ EndClear(t)

Next ==
  \/ \E c \in Commands : Submit(c) \/ EndPush(c)
  \/ \E t \in Commands \cup Replays : Commit(t)
  \/ \E r \in Replays : StartReplay(r)
  \/ \E o \in Others : LoadOther(o) \/ EndSave(o)
  \/ \E t \in Threads : BeginWrite(t)
  \/ Restart

Spec == Init /\ [][Next]_vars

\* Threads keep running and what the server can answer it does; the user goes
\* on opening the main window, which starts a replay.  No command has to be
\* made, and neither faults nor restarts have to happen.
Progress(t) ==
  \/ Fetch(t) \/ NotApplicable(t) \/ ServerAccepts(t, FALSE)
  \/ ServerConflict(t) \/ Remove(t) \/ EndClear(t) \/ BeginWrite(t)

Fairness ==
  /\ \A c \in Commands : WF_vars(Progress(c) \/ EndPush(c))
  /\ \A r \in Replays : WF_vars(Progress(r)) /\ WF_vars(StartReplay(r))
  /\ \A o \in Others : WF_vars(BeginWrite(o) \/ EndSave(o))

FairSpec == Spec /\ Fairness
-----------------------------------------------------------------------------
(* Properties. *)

\* The entry of c is in the vault file, or in what is being written to it.
InVault(c) ==
  \/ file # Unreadable /\ Contains(file, c)
  \/ \E t \in writing : Contains(copy[t], c)

\* Nothing has gone wrong with the file as a whole.
Serial == ~overlapped /\ ~interrupted

\* A queued mutation stays in the vault until the server has answered for it,
\* through any failures, lost answers, replays and restarts: as long as no two
\* load-to-write spans overlapped and no write was cut short.
QueuedUntilAnswered ==
  Serial => \A c \in queued : InVault(c) \/ c \in applied \cup conflicted

\* A commit_durable that returned Ok left no entry for a later replay to run
\* again, even while other commands and a replay clear theirs.
DoneIsCleared ==
  Serial => \A c \in Commands : pc[c] = "done" => ~InVault(c)

\* A replay carries a mutation out only after those queued before it: what it
\* gets past is what the server answered for.
ReplayKeepsOrder ==
  [][\A r \in Replays :
       Serial /\ pc[r] = "post" /\ pc'[r] = "acked" /\ file # Unreadable =>
         \A i, k \in 1..Len(file) :
           i < k /\ file[k] = Job(r) => file[i] \in applied \cup conflicted]_vars

\* Whatever is queued is cleared in the end.
OutboxDrains == \A c \in Commands : InVault(c) ~> ~InVault(c)

-----------------------------------------------------------------------------
(* What a comment says and the code does not do. *)

\* "an edit is never silently lost": a queued mutation is in the vault file or
\* reached the server.
NeverLost == \A c \in queued : InVault(c) \/ c \in applied
=============================================================================
