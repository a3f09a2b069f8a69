---------------------------- MODULE OutboxProofs ----------------------------
(***************************************************************************)
(* Proofs about Outbox for any commands, replays and other writers, any    *)
(* operations and any bounds: the state is well typed, a queued mutation   *)
(* stays in the vault until the server has answered for it, a mutation     *)
(* whose commit_durable returned Ok is in the vault no more, and a replay  *)
(* carries mutations out in the order they were queued in.                 *)
(***************************************************************************)
EXTENDS Outbox, TLAPS

(***************************************************************************)
(* The inductive invariant.  What the threads' copies hold of the outbox,  *)
(* and, as long as the vault file is written one load-to-write span at a   *)
(* time (Serial), how a copy that is fresh compares with the file: it      *)
(* keeps every entry but those the server answered for, and adds at most   *)
(* the entry of the command that pushes it.                                *)
(***************************************************************************)
Answered(c) == c \in applied \cup conflicted

Distinct(outbox) ==
  \A i, k \in 1..Len(outbox) : outbox[i] = outbox[k] => i = k

\* The threads that work on a job.
Workers == Commands \cup Replays
Working == {"fetch", "post", "acked", "clear"}

\* A replay that works has an entry to work on.
JobsToDo == \A r \in Replays : pc[r] \in Working => todo[r] # <<>>

\* A command that has not begun has no entry anywhere, so its entry is pushed
\* once, and no outbox holds an entry twice.
PushedOnce ==
  /\ \A c \in Commands : pc[c] = "idle" =>
       /\ file # Unreadable => ~Contains(file, c)
       /\ \A t \in Threads : ~Contains(copy[t], c)
  /\ file # Unreadable => Distinct(file)
  /\ \A t \in Threads : Distinct(copy[t])

\* Entries are cleared after the answer only.
ClearedAfterAnswer ==
  \A t \in Workers : pc[t] \in {"acked", "clear"} => Answered(Job(t))

\* The copies hold what their threads are about to write.
CopiesReady ==
  /\ \A c \in Commands : pc[c] = "push" => Contains(copy[c], c)
  /\ \A t \in Workers : pc[t] = "clear" => ~Contains(copy[t], Job(t))
  /\ \A t \in fresh : pc[t] \in Saving

OneWriter ==
  Serial => /\ file = Unreadable <=> writing # {}
            /\ \A s, t \in writing : s = t
            /\ writing # {} => fresh = {}

FreshCopies ==
  Serial =>
    \A t \in fresh, c \in Commands :
      /\ Contains(file, c) => Contains(copy[t], c) \/ Answered(c)
      /\ Contains(copy[t], c) => Contains(file, c) \/ (c = t /\ pc[t] = "push")

TypeInv == TypeOK /\ JobsToDo
JobInv == ClearedAfterAnswer /\ CopiesReady
FileInv == PushedOnce /\ OneWriter /\ FreshCopies
Durable == QueuedUntilAnswered /\ DoneIsCleared

IInv == TypeInv /\ JobInv /\ FileInv /\ Durable
-----------------------------------------------------------------------------
(* The operators on outboxes. *)

LEMMA LoadedType ==
  ASSUME TypeOK
  PROVE  LoadVault \in Seq(Commands)
  BY DataAssumption DEF TypeOK, FileTypeOK, LoadVault

LEMMA AppendLemma ==
  ASSUME NEW outbox \in Seq(Commands), NEW c \in Commands
  PROVE  /\ Append(outbox, c) \in Seq(Commands)
         /\ \A d : Contains(Append(outbox, c), d) <=> Contains(outbox, d) \/ d = c
         /\ ~Contains(outbox, c) /\ Distinct(outbox) => Distinct(Append(outbox, c))
<1>. DEFINE longer == Append(outbox, c)
<1>1. /\ Len(outbox) \in Nat
      /\ longer \in Seq(Commands)
      /\ Len(longer) = Len(outbox) + 1
      /\ longer[Len(outbox) + 1] = c
      /\ \A i \in 1..Len(outbox) : longer[i] = outbox[i]
  OBVIOUS
<1>2. ASSUME NEW d
      PROVE  Contains(longer, d) <=> Contains(outbox, d) \/ d = c
  <2>1. 1..Len(longer) = (1..Len(outbox)) \cup {Len(outbox) + 1}
    BY <1>1
  <2>. HIDE DEF longer
  <2>. QED  BY <1>1, <2>1 DEF Contains
<1>3. ~Contains(outbox, c) /\ Distinct(outbox) => Distinct(longer)
  <2>1. 1..Len(longer) = (1..Len(outbox)) \cup {Len(outbox) + 1}
    BY <1>1
  <2>. HIDE DEF longer
  <2>. QED  BY <1>1, <2>1 DEF Contains, Distinct
<1>. QED  BY <1>1, <1>2, <1>3

\* Without drops the one entry of c and keeps the others.
LEMMA WithoutLemma ==
  ASSUME NEW outbox \in Seq(Commands), NEW c, Contains(outbox, c)
  PROVE  /\ Without(outbox, c) \in Seq(Commands)
         /\ \A d : d # c =>
              (Contains(Without(outbox, c), d) <=> Contains(outbox, d))
         /\ Distinct(outbox) => /\ ~Contains(Without(outbox, c), c)
                               /\ Distinct(Without(outbox, c))
<1>. DEFINE at == CHOOSE i \in 1..Len(outbox) : outbox[i] = c
            n == Len(outbox)
            rest == [k \in 1..n - 1 |-> IF k < at THEN outbox[k] ELSE outbox[k + 1]]
<1>1. at \in 1..n /\ outbox[at] = c /\ n \in Nat
  BY DEF Contains
<1>2. Without(outbox, c) = rest
  BY DEF Without
<1>. HIDE DEF at
<1>3. rest \in Seq(Commands) /\ Len(rest) = n - 1
  <2>1. n - 1 \in Nat
    BY <1>1
  <2>2. rest \in [1..n - 1 -> Commands]
    BY <1>1
  <2>. QED  BY <2>1, <2>2
<1>4. ASSUME NEW d, d # c, Contains(outbox, d)
      PROVE  Contains(rest, d)
  <2>1. PICK i \in 1..n : outbox[i] = d
    BY <1>4 DEF Contains
  <2>2. i # at
    BY <1>1, <1>4, <2>1
  <2>3. CASE i < at
    <3>1. i \in 1..n - 1 /\ rest[i] = d
      BY <1>1, <2>1, <2>3
    <3>. QED  BY <1>3, <3>1 DEF Contains
  <2>4. CASE i > at
    <3>1. i - 1 \in 1..n - 1 /\ rest[i - 1] = d
      BY <1>1, <2>1, <2>4
    <3>. QED  BY <1>3, <3>1 DEF Contains
  <2>. QED  BY <1>1, <2>1, <2>2, <2>3, <2>4
<1>5. ASSUME NEW d, Contains(rest, d)
      PROVE  \E i \in 1..n : i # at /\ outbox[i] = d
  <2>1. PICK k \in 1..n - 1 : rest[k] = d
    BY <1>3, <1>5 DEF Contains
  <2>2. CASE k < at
    BY <1>1, <2>1, <2>2
  <2>3. CASE ~(k < at)
    <3>1. k + 1 \in 1..n /\ k + 1 # at /\ outbox[k + 1] = d
      BY <1>1, <2>1, <2>3
    <3>. QED  BY <3>1
  <2>. QED  BY <2>2, <2>3
<1>6. ASSUME Distinct(outbox)
      PROVE  ~Contains(rest, c) /\ Distinct(rest)
  <2>1. ~Contains(rest, c)
    BY <1>1, <1>5, <1>6 DEF Distinct
  <2>2. ASSUME NEW k \in 1..n - 1, NEW l \in 1..n - 1, rest[k] = rest[l]
        PROVE  k = l
    <3>. DEFINE old(m) == IF m < at THEN m ELSE m + 1
    <3>1. old(k) \in 1..n /\ old(l) \in 1..n
      BY <1>1
    <3>2. outbox[old(k)] = outbox[old(l)]
      BY <2>2
    <3>3. old(k) = old(l)
      BY <1>6, <3>1, <3>2 DEF Distinct
    <3>. QED  BY <1>1, <3>3
  <2>. QED  BY <1>3, <2>1, <2>2 DEF Distinct
<1>7. \A d : d # c => (Contains(rest, d) <=> Contains(outbox, d))
  BY <1>4, <1>5 DEF Contains
<1>. QED  BY <1>2, <1>3, <1>6, <1>7
-----------------------------------------------------------------------------
(* Type correctness, together with JobsToDo: a replay never runs past the end *)
(* of its snapshot.                                                           *)

LEMMA TypeInit == Init => TypeInv
<1>1. Init => TypeOK
  <2>1. <<>> \in Seq(Commands)
    OBVIOUS
  <2>2. Init => FileTypeOK(Seq(Commands))
    BY <2>1, DataAssumption DEF Init, FileInit, FileTypeOK
  <2>3. Init => server \subseteq Entity
    BY InitialAssumption DEF Init, Entity
  <2>. QED  BY <2>1, <2>2, <2>3, BoundsAssumption DEF Init, TypeOK, PC, Saving
<1>2. Init => JobsToDo
  BY ThreadsAssumption DEF Init, JobsToDo, Working
<1>. QED  BY <1>1, <1>2 DEF TypeInv

LEMMA JobType ==
  ASSUME TypeInv, NEW t \in Workers, pc[t] \in Working
  PROVE  Job(t) \in Commands
  BY DEF TypeInv, TypeOK, JobsToDo, Job, Workers

\* Loading and writing keep the file and the copies typed.
LEMMA FileTypes ==
  ASSUME TypeOK, NEW t \in Threads,
         \/ \E data \in Seq(Commands) : LoadAndSet(t, data)
         \/ LoadAndLook \/ Truncate(t) \/ Fill(t) \/ ProcessEnds
  PROVE  FileTypeOK(Seq(Commands))'
<1>. USE DEF LoadAndSet, LoadAndLook, Truncate, Fill, ProcessEnds
<1>1. overlapped' \in BOOLEAN /\ interrupted' \in BOOLEAN
  <2>1. overlapped \in BOOLEAN /\ interrupted \in BOOLEAN
    BY Zenon DEF TypeOK, FileTypeOK
  <2>2. ASSUME NEW data, LoadAndSet(t, data)
        PROVE  overlapped' \in BOOLEAN /\ interrupted' \in BOOLEAN
    BY <2>1, <2>2, Zenon
  <2>3. CASE LoadAndLook \/ Truncate(t)
    BY <2>1, <2>3, Zenon
  <2>4. CASE Fill(t) \/ ProcessEnds
    BY <2>1, <2>4, Zenon
  <2>. QED  BY <2>2, <2>3, <2>4, Zenon
<1>2. copy' \in [Threads -> Seq(Commands)]
  <2>1. DefaultData \in Seq(Commands)
    BY DataAssumption
  <2>2. [s \in Threads |-> DefaultData] \in [Threads -> Seq(Commands)]
    BY <2>1
  <2>. QED  BY <2>2 DEF TypeOK, FileTypeOK
<1>3. file' \in Seq(Commands) \cup {Unreadable}
  BY DEF TypeOK, FileTypeOK
<1>4. writing' \subseteq Threads /\ fresh' \subseteq Threads
  BY DEF TypeOK, FileTypeOK
<1>. QED  BY <1>1, <1>2, <1>3, <1>4, Zenon DEF FileTypeOK

LEMMA NextEntryTypes ==
  ASSUME TypeInv, NEW t \in Workers, pc[t] \in Working, NextEntry(t)
  PROVE  /\ pc' \in [Threads -> PC]
         /\ todo' \in [Replays -> Seq(Commands)]
         /\ JobsToDo'
<1>. USE DEF TypeInv, TypeOK, PC, Saving
<1>1. CASE t \in Replays
  <2>1. todo[t] \in Seq(Commands) /\ todo[t] # <<>>
    BY <1>1 DEF JobsToDo
  <2>2. /\ Tail(todo[t]) \in Seq(Commands)
        /\ Len(todo[t]) # 1 => Tail(todo[t]) # <<>>
    <3>1. ASSUME NEW outbox \in Seq(Commands), outbox # <<>>
          PROVE  /\ Tail(outbox) \in Seq(Commands)
                 /\ Len(outbox) # 1 => Len(Tail(outbox)) # 0
      BY <3>1
    <3>. QED  BY <2>1, <3>1
  <2>3. /\ todo' = [todo EXCEPT ![t] = Tail(todo[t])]
        /\ pc' = [pc EXCEPT ![t] = IF Len(todo[t]) = 1 THEN "idle" ELSE "fetch"]
    BY <1>1 DEF NextEntry
  <2>4. JobsToDo'
    BY <1>1, <2>2, <2>3, ThreadsAssumption DEF JobsToDo, Working
  <2>. QED  BY <2>2, <2>3, <2>4
<1>2. CASE t \notin Replays
  <2>1. pc' = [pc EXCEPT ![t] = "done"] /\ todo' = todo
    BY <1>2 DEF NextEntry
  <2>. QED  BY <1>2, <2>1, ThreadsAssumption DEF JobsToDo
<1>. QED  BY <1>1, <1>2

LEMMA GiveUpTypes ==
  ASSUME TypeInv, NEW t \in Workers, GiveUp(t)
  PROVE  /\ pc' \in [Threads -> PC]
         /\ todo' \in [Replays -> Seq(Commands)]
         /\ JobsToDo'
<1>. DEFINE over == IF t \in Replays THEN "idle" ELSE "failed"
<1>1. pc' = [pc EXCEPT ![t] = over] /\ over \in PC \ Working
  BY DEF GiveUp, PC, Working
<1>2. /\ todo' \in [Replays -> Seq(Commands)]
      /\ \A r \in Replays : r # t => todo'[r] = todo[r]
  BY DEF TypeInv, TypeOK, GiveUp
<1>. HIDE DEF over
<1>3. pc' \in [Threads -> PC]
  BY <1>1 DEF TypeInv, TypeOK
<1>4. JobsToDo'
  BY <1>1, <1>2, ThreadsAssumption DEF TypeInv, TypeOK, JobsToDo
<1>. QED  BY <1>2, <1>3, <1>4

LEMMA AcceptedType ==
  ASSUME TypeOK, NEW c \in Commands, NEW e,
         Op[c].kind # "new" => e \in server
  PROVE  Accepted(c, e) \subseteq Entity
<1>1. Op[c] \in OpType
  BY OpAssumption
<1>2. /\ Op[c].kind \in {"new", "edit", "delete", "unsendable"}
      /\ Op[c].key \in Keys /\ Op[c].to \in Keys
  BY <1>1 DEF OpType
<1>3. CASE Op[c].kind = "new"
  BY <1>2, <1>3 DEF Accepted, TypeOK, Entity
<1>4. CASE Op[c].kind = "edit"
  <2>1. e \in Entity
    BY <1>4 DEF TypeOK
  <2>2. [id |-> e.id, key |-> Op[c].to, val |-> c, version |-> e.version + 1]
          \in Entity
    BY <1>2, <2>1 DEF Entity
  <2>. QED  BY <1>4, <2>2 DEF Accepted, TypeOK
<1>5. CASE Op[c].kind \notin {"new", "edit"}
  BY <1>5 DEF Accepted, TypeOK
<1>. QED  BY <1>3, <1>4, <1>5

\* commit_durable and the writers of other sections.
LEMMA TypeWriters ==
  ASSUME TypeInv, NEW t \in Threads,
         \/ t \in Commands /\ (Submit(t) \/ EndPush(t))
         \/ t \in Others /\ (LoadOther(t) \/ EndSave(t))
         \/ BeginWrite(t)
  PROVE  TypeInv'
<1>. USE DEF TypeInv, TypeOK, PC, Saving, serverVars
<1>1. CASE t \in Commands /\ Submit(t)
  <2>1. FileTypeOK(Seq(Commands))'
    <3>1. Append(LoadVault, t) \in Seq(Commands)
      BY <1>1, LoadedType, AppendLemma
    <3>. QED  BY <1>1, <3>1, FileTypes DEF Submit
  <2>2. pc' = [pc EXCEPT ![t] = "push"]
    BY <1>1 DEF Submit, Goto
  <2>3. JobsToDo'
    BY <1>1, <2>2 DEF JobsToDo, Working, Submit
  <2>. QED  BY <1>1, <2>1, <2>2, <2>3 DEF Submit
<1>2. CASE t \in Commands /\ EndPush(t)
  <2>1. FileTypeOK(Seq(Commands))'
    BY <1>2, FileTypes DEF EndPush
  <2>2. pc' = [pc EXCEPT ![t] = "fetch"]
    BY <1>2 DEF EndPush, Goto
  <2>3. JobsToDo'
    BY <1>2, <2>2, ThreadsAssumption DEF JobsToDo, Working, EndPush
  <2>. QED  BY <1>2, <2>1, <2>2, <2>3 DEF EndPush
<1>3. CASE t \in Others /\ LoadOther(t)
  <2>1. FileTypeOK(Seq(Commands))'
    BY <1>3, LoadedType, FileTypes DEF LoadOther
  <2>2. pc' = [pc EXCEPT ![t] = "save"]
    BY <1>3 DEF LoadOther, Goto
  <2>3. JobsToDo'
    BY <1>3, <2>2 DEF JobsToDo, Working, LoadOther
  <2>. QED  BY <1>3, <2>1, <2>2, <2>3 DEF LoadOther
<1>4. CASE t \in Others /\ EndSave(t)
  <2>1. FileTypeOK(Seq(Commands))'
    BY <1>4, FileTypes DEF EndSave
  <2>2. pc' = [pc EXCEPT ![t] = "done"]
    BY <1>4 DEF EndSave, Goto
  <2>3. JobsToDo'
    BY <1>4, <2>2 DEF JobsToDo, Working, EndSave
  <2>. QED  BY <1>4, <2>1, <2>2, <2>3 DEF EndSave
<1>5. CASE BeginWrite(t)
  <2>1. FileTypeOK(Seq(Commands))'
    BY <1>5, FileTypes DEF BeginWrite
  <2>. QED  BY <1>5, <2>1 DEF BeginWrite, JobsToDo
<1>. QED  BY <1>1, <1>2, <1>3, <1>4, <1>5

\* The commit of one entry, by its command or by a replay.
LEMMA TypeCommit ==
  ASSUME TypeInv, NEW t \in Workers, Commit(t)
  PROVE  TypeInv'
<1>. USE DEF TypeInv, TypeOK, PC, Saving, serverVars, fileVars
<1>t. t \in Threads
  BY ThreadsAssumption DEF Workers
<1>0. UNCHANGED fileVars => FileTypeOK(Seq(Commands))'
  BY DEF FileTypeOK
<1>1. CASE Fetch(t)
  <2>1. pc' = [pc EXCEPT ![t] = "post"] /\ todo' = todo /\ pc[t] = "fetch"
    BY <1>1 DEF Fetch, Goto
  <2>2. JobsToDo'
    BY <2>1 DEF JobsToDo, Working
  <2>3. target' \in [Threads -> Entity \cup {None}]
    BY <1>1 DEF Fetch
  <2>. QED  BY <1>0, <1>1, <2>1, <2>2, <2>3 DEF Fetch
<1>2. CASE NotApplicable(t)
  BY <1>0, <1>2, GiveUpTypes DEF NotApplicable
<1>3. CASE NetworkFails(t)
  <2>1. faults' \in 0..MaxFaults
    BY <1>3, BoundsAssumption DEF NetworkFails
  <2>. QED  BY <1>0, <1>3, <2>1, GiveUpTypes DEF NetworkFails
<1>4. ASSUME NEW lost \in BOOLEAN, ServerAccepts(t, lost)
      PROVE  TypeInv'
  <2>1. Job(t) \in Commands
    BY <1>4, JobType DEF ServerAccepts, Working
  <2>2. server' \subseteq Entity
    BY <1>4, <2>1, AcceptedType DEF ServerAccepts
  <2>3. created' \in Nat /\ applied' \subseteq Commands
    BY <1>4, <2>1 DEF ServerAccepts
  <2>4. CASE lost
    <3>1. GiveUp(t) /\ faults' \in 0..MaxFaults
      BY <1>4, <2>4, BoundsAssumption DEF ServerAccepts
    <3>. QED  BY <1>0, <1>4, <2>2, <2>3, <3>1, GiveUpTypes DEF ServerAccepts
  <2>5. CASE ~lost
    <3>1. /\ pc' = [pc EXCEPT ![t] = "acked"] /\ pc[t] = "post"
          /\ UNCHANGED <<todo, faults>>
      BY <1>4, <2>5 DEF ServerAccepts, Goto
    <3>2. JobsToDo'
      BY <3>1 DEF JobsToDo, Working
    <3>. QED  BY <1>0, <1>4, <2>2, <2>3, <3>1, <3>2 DEF ServerAccepts
  <2>. QED  BY <2>4, <2>5
<1>5. CASE ServerConflict(t)
  <2>1. Job(t) \in Commands
    BY <1>5, JobType DEF ServerConflict, Goto, Working
  <2>2. pc' = [pc EXCEPT ![t] = "acked"] /\ todo' = todo /\ pc[t] = "post"
    BY <1>5 DEF ServerConflict, Goto
  <2>3. JobsToDo'
    BY <2>2 DEF JobsToDo, Working
  <2>. QED  BY <1>0, <1>5, <2>1, <2>2, <2>3 DEF ServerConflict
<1>6. CASE Remove(t)
  <2>1. CASE Contains(LoadVault, Job(t))
    <3>1. Without(LoadVault, Job(t)) \in Seq(Commands)
      BY <2>1, LoadedType, WithoutLemma
    <3>2. FileTypeOK(Seq(Commands))'
      BY <1>t, <1>6, <2>1, <3>1, FileTypes DEF Remove
    <3>3. pc' = [pc EXCEPT ![t] = "clear"] /\ todo' = todo /\ pc[t] = "acked"
      BY <1>6, <2>1 DEF Remove
    <3>4. JobsToDo'
      BY <3>3 DEF JobsToDo, Working
    <3>. QED  BY <1>6, <3>2, <3>3, <3>4 DEF Remove
  <2>2. CASE ~Contains(LoadVault, Job(t))
    <3>1. NextEntry(t) /\ LoadAndLook /\ pc[t] = "acked"
      BY <1>6, <2>2 DEF Remove
    <3>2. FileTypeOK(Seq(Commands))'
      BY <1>t, <3>1, FileTypes
    <3>3. /\ pc' \in [Threads -> PC]
          /\ todo' \in [Replays -> Seq(Commands)]
          /\ JobsToDo'
      BY <3>1, NextEntryTypes DEF Working
    <3>. QED  BY <1>6, <3>2, <3>3 DEF Remove
  <2>. QED  BY <2>1, <2>2
<1>7. CASE EndClear(t)
  <2>1. FileTypeOK(Seq(Commands))'
    BY <1>t, <1>7, FileTypes DEF EndClear
  <2>2. /\ pc' \in [Threads -> PC]
        /\ todo' \in [Replays -> Seq(Commands)]
        /\ JobsToDo'
    BY <1>7, NextEntryTypes DEF EndClear, Working
  <2>. QED  BY <1>7, <2>1, <2>2 DEF EndClear
<1>. QED  BY <1>1, <1>2, <1>3, <1>4, <1>5, <1>6, <1>7 DEF Commit

LEMMA TypeStartReplay ==
  ASSUME TypeInv, NEW r \in Replays, StartReplay(r)
  PROVE  TypeInv'
<1>. USE DEF TypeInv, TypeOK, PC, Saving, serverVars
<1>1. FileTypeOK(Seq(Commands))'
  BY FileTypes, ThreadsAssumption DEF StartReplay
<1>2. LoadVault \in Seq(Commands) /\ LoadVault # <<>>
  BY LoadedType DEF StartReplay
<1>3. /\ pc' = [pc EXCEPT ![r] = "fetch"]
      /\ todo' = [todo EXCEPT ![r] = LoadVault]
  BY DEF StartReplay, Goto
<1>4. JobsToDo'
  BY <1>2, <1>3 DEF JobsToDo, Working
<1>. QED  BY <1>1, <1>2, <1>3, <1>4 DEF StartReplay

LEMMA TypeRestart ==
  ASSUME TypeInv, Restart
  PROVE  TypeInv'
<1>. USE DEF TypeInv, TypeOK, PC, Saving, serverVars
<1>1. FileTypeOK(Seq(Commands))'
  BY DataAssumption DEF Restart, ProcessEnds, FileTypeOK
<1>2. restarts' \in 0..MaxRestarts
  BY BoundsAssumption DEF Restart
<1>3. pc' \in [Threads -> PC] /\ todo' \in [Replays -> Seq(Commands)]
  BY DEF Restart
<1>4. JobsToDo'
  BY ThreadsAssumption DEF Restart, JobsToDo, Working
<1>. QED  BY <1>1, <1>2, <1>3, <1>4 DEF Restart

LEMMA TypeNext == TypeInv /\ [Next]_vars => TypeInv'
<1>1. TypeInv /\ UNCHANGED vars => TypeInv'
  BY DEF TypeInv, TypeOK, FileTypeOK, JobsToDo, vars, fileVars
<1>2. Commands \subseteq Threads /\ Others \subseteq Threads
  BY ThreadsAssumption
<1>. QED
  BY <1>1, <1>2, TypeWriters, TypeCommit, TypeStartReplay, TypeRestart
     DEF Next, Workers

\* The state of the outbox and of whoever works on it is well typed, for any
\* commands, replays and writers of vault.json.
THEOREM TypeCorrect == Spec => []TypeOK
<1>1. TypeInv => TypeOK
  BY DEF TypeInv
<1>. QED  BY <1>1, TypeInit, TypeNext, PTL DEF Spec
-----------------------------------------------------------------------------
(* The inductive invariant: what the steps on the file do to it. *)

LEMMA InitInv == Init => IInv
<1>1. ASSUME Init
      PROVE  JobInv /\ FileInv /\ Durable
  <2>1. \A c : ~Contains(<<>>, c)
    BY DEF Contains
  <2>2. Distinct(<<>>)
    BY DEF Distinct
  <2>3. /\ file = <<>> /\ writing = {} /\ fresh = {} /\ queued = {}
        /\ \A t \in Threads : copy[t] = <<>> /\ pc[t] = "idle"
    BY <1>1, DataAssumption DEF Init, FileInit
  <2>4. file # Unreadable
    <3>1. file \in Seq(Commands)
      BY <2>3
    <3>. QED  BY <3>1, DataAssumption
  <2>. QED
    BY <2>1, <2>2, <2>3, <2>4, ThreadsAssumption
       DEF JobInv, ClearedAfterAnswer, CopiesReady, FileInv, PushedOnce, OneWriter,
           FreshCopies, Durable, QueuedUntilAnswered, DoneIsCleared, InVault, Workers
<1>. QED  BY <1>1, TypeInit DEF IInv

\* A load that keeps the file serial finds nobody writing.
LEMMA LoadStep ==
  ASSUME IInv, NEW t \in Threads,
         LoadAndLook \/ \E data : LoadAndSet(t, data)
  PROVE  /\ OneWriter'
         /\ Serial' => Serial /\ writing = {} /\ file # Unreadable
<1>. USE DEF IInv, FileInv, OneWriter, Serial
<1>1. CASE LoadAndLook
  BY <1>1 DEF LoadAndLook
<1>2. ASSUME NEW data, LoadAndSet(t, data)
      PROVE  /\ OneWriter'
             /\ Serial' => Serial /\ writing = {} /\ file # Unreadable
  BY <1>2 DEF LoadAndSet
<1>. QED  BY <1>1, <1>2

\* A write that keeps the file serial begins with a fresh copy, alone.
LEMMA TruncateStep ==
  ASSUME IInv, NEW t \in Threads, Truncate(t)
  PROVE  /\ OneWriter'
         /\ Serial' => /\ Serial /\ t \in fresh /\ writing = {}
                       /\ file # Unreadable /\ writing' = {t}
  BY DEF IInv, FileInv, OneWriter, Serial, Truncate

LEMMA FillStep ==
  ASSUME IInv, NEW t \in Threads, Fill(t)
  PROVE  /\ OneWriter'
         /\ Serial' => /\ Serial /\ writing = {t} /\ file = Unreadable
                       /\ file' = copy[t] /\ file' # Unreadable
                       /\ writing' = {}
<1>1. Serial' = Serial
  BY DEF Serial, Fill
<1>2. copy[t] # Unreadable
  BY DataAssumption DEF IInv, TypeInv, TypeOK, FileTypeOK
<1>3. ASSUME Serial
      PROVE  /\ writing = {t} /\ file = Unreadable /\ file' = copy[t]
             /\ writing' = {}
  BY <1>3 DEF IInv, FileInv, OneWriter, Fill
<1>4. OneWriter'
  BY <1>1, <1>2, <1>3 DEF OneWriter, Fill
<1>. QED  BY <1>1, <1>2, <1>3, <1>4

\* Loading keeps PushedOnce when the new copy repeats nothing and holds no
\* command that has not begun.
LEMMA LoadPushedOnce ==
  ASSUME IInv, NEW t \in Threads, NEW data, LoadAndSet(t, data),
         Distinct(data), \A c \in Commands : pc'[c] = "idle" => pc[c] = "idle",
         \A c \in Commands : pc'[c] = "idle" => ~Contains(data, c)
  PROVE  PushedOnce'
<1>1. \A s \in Threads : copy'[s] = IF s = t THEN data ELSE copy[s]
  BY DEF LoadAndSet, IInv, TypeInv, TypeOK, FileTypeOK
<1>2. file' = file
  BY DEF LoadAndSet
<1>. QED
  BY <1>1, <1>2 DEF IInv, FileInv, PushedOnce

LEMMA WritePushedOnce ==
  ASSUME IInv, NEW t \in Threads, Truncate(t) \/ Fill(t),
         \A c \in Commands : pc'[c] = "idle" => pc[c] = "idle"
  PROVE  PushedOnce'
<1>1. copy' = copy /\ file' \in {copy[t], Unreadable}
  BY DEF Truncate, Fill
<1>. QED  BY <1>1 DEF IInv, FileInv, PushedOnce

\* What is loaded repeats nothing and holds no command that has not begun.
LEMMA LoadedOnce ==
  ASSUME IInv
  PROVE  /\ Distinct(LoadVault)
         /\ \A c \in Commands : pc[c] = "idle" => ~Contains(LoadVault, c)
<1>1. Distinct(<<>>) /\ \A c : ~Contains(<<>>, c)
  BY DEF Distinct, Contains
<1>. QED
  BY <1>1, DataAssumption DEF IInv, FileInv, PushedOnce, LoadVault

\* Under Serial an entry is in the file, or in the one copy being written.
LEMMA InFile ==
  ASSUME OneWriter, Serial, file # Unreadable, NEW c
  PROVE  InVault(c) <=> Contains(file, c)
  BY DEF OneWriter, InVault
-----------------------------------------------------------------------------
(* Each kind of step preserves the invariant. *)

\* t loads the vault and changes its copy, to write it back later.
LEMMA InvLoad ==
  ASSUME IInv, TypeInv', NEW t \in Threads, NEW data, NEW x \in Saving,
         LoadAndSet(t, data), pc' = [pc EXCEPT ![t] = x],
         UNCHANGED <<todo, applied, conflicted, queued>>,
         Distinct(data),
         \A c \in Commands : pc[c] = "idle" /\ c # t => ~Contains(data, c),
         t \in Commands /\ x = "push" => Contains(data, t),
         t \in Workers /\ x = "clear" =>
           ~Contains(data, Job(t)) /\ Answered(Job(t)),
         \A c \in Commands :
           /\ Contains(LoadVault, c) => Contains(data, c) \/ Answered(c)
           /\ Contains(data, c) => Contains(LoadVault, c) \/ (c = t /\ x = "push")
  PROVE  IInv'
<1>1. \A s \in Threads : pc'[s] = IF s = t THEN x ELSE pc[s]
  BY DEF IInv, TypeInv, TypeOK
<1>2. \A s \in Threads : copy'[s] = IF s = t THEN data ELSE copy[s]
  BY DEF LoadAndSet, IInv, TypeInv, TypeOK, FileTypeOK
<1>3. file' = file /\ writing' = writing /\ fresh' \subseteq fresh \cup {t}
  BY DEF LoadAndSet
<1>4. \A s \in Workers : s \in Threads /\ Job(s)' = Job(s)
  BY ThreadsAssumption DEF Workers, Job
<1>5. OneWriter' /\ (Serial' => Serial /\ writing = {} /\ file # Unreadable)
  BY LoadStep
<1>6. PushedOnce'
  <2>1. \A c \in Commands : pc'[c] = "idle" => pc[c] = "idle" /\ c # t
    BY <1>1, ThreadsAssumption DEF Saving
  <2>. QED  BY <2>1, LoadPushedOnce
<1>7. JobInv'
  <2>1. ClearedAfterAnswer'
    BY <1>1, <1>4 DEF IInv, JobInv, ClearedAfterAnswer, Answered, Saving
  <2>2. CopiesReady'
    BY <1>1, <1>2, <1>3, <1>4, ThreadsAssumption
       DEF IInv, JobInv, CopiesReady, Saving
  <2>. QED  BY <2>1, <2>2 DEF JobInv
<1>8. FreshCopies'
  <2>. SUFFICES ASSUME Serial', NEW s \in fresh', NEW c \in Commands
                PROVE  /\ Contains(file, c) => Contains(copy'[s], c) \/ Answered(c)
                       /\ Contains(copy'[s], c) =>
                            Contains(file, c) \/ (c = s /\ pc'[s] = "push")
    BY <1>3 DEF FreshCopies, Answered
  <2>1. Serial /\ LoadVault = file /\ s \in Threads
    BY <1>3, <1>5 DEF LoadVault, TypeInv, TypeOK, FileTypeOK
  <2>. QED  BY <1>1, <1>2, <1>3, <2>1 DEF IInv, FileInv, FreshCopies
<1>9. Durable'
  <2>1. ASSUME Serial', NEW c \in Commands
        PROVE  Serial /\ (InVault(c)' <=> InVault(c))
    BY <1>3, <1>5, <2>1 DEF InVault
  <2>2. \A c \in Commands : pc'[c] = "done" => pc[c] = "done"
    BY <1>1, ThreadsAssumption DEF Saving
  <2>. QED
    BY <2>1, <2>2 DEF IInv, Durable, QueuedUntilAnswered, DoneIsCleared, TypeInv,
       TypeOK
<1>. QED  BY <1>5, <1>6, <1>7, <1>8, <1>9 DEF IInv, FileInv

\* t fills the file and goes on.
LEMMA InvFill ==
  ASSUME IInv, TypeInv', NEW t \in Threads, NEW x \in {"fetch", "idle", "done"},
         Fill(t), pc' = [pc EXCEPT ![t] = x],
         \A r \in Replays : r # t => todo'[r] = todo[r],
         UNCHANGED <<applied, conflicted>>,
         x = "idle" => t \notin Commands,
         t \in Commands /\ x = "done" => ~Contains(copy[t], t),
         \/ queued' = queued
         \/ t \in Commands /\ queued' = queued \cup {t} /\ Contains(copy[t], t)
  PROVE  IInv'
<1>1. \A s \in Threads : pc'[s] = IF s = t THEN x ELSE pc[s]
  BY DEF IInv, TypeInv, TypeOK
<1>2. copy' = copy /\ fresh' = {}
  BY DEF Fill
<1>3. \A s \in Workers : s \in Threads /\ (s # t => Job(s)' = Job(s))
  BY ThreadsAssumption DEF Workers, Job
<1>4. /\ OneWriter'
      /\ Serial' => /\ Serial /\ writing = {t} /\ file = Unreadable
                    /\ file' = copy[t] /\ file' # Unreadable
  BY FillStep
<1>5. PushedOnce'
  <2>1. \A c \in Commands : pc'[c] = "idle" => pc[c] = "idle"
    BY <1>1, ThreadsAssumption
  <2>. QED  BY <2>1, WritePushedOnce
<1>6. JobInv'
  <2>1. ClearedAfterAnswer'
    BY <1>1, <1>3 DEF IInv, JobInv, ClearedAfterAnswer, Answered
  <2>2. CopiesReady'
    BY <1>1, <1>2, <1>3, ThreadsAssumption DEF IInv, JobInv, CopiesReady
  <2>. QED  BY <2>1, <2>2 DEF JobInv
<1>7. FreshCopies'
  BY <1>2 DEF FreshCopies
<1>8. Durable'
  <2>1. ASSUME Serial', NEW c \in Commands
        PROVE  /\ Serial
               /\ InVault(c)' <=> Contains(copy[t], c)
               /\ InVault(c) <=> Contains(copy[t], c)
    <3>1. InVault(c)' <=> Contains(file', c)
      BY <1>4, <2>1 DEF OneWriter, InVault
    <3>2. InVault(c) <=> Contains(copy[t], c)
      BY <1>4, <2>1 DEF InVault
    <3>. QED  BY <1>4, <2>1, <3>1, <3>2
  <2>2. \A c \in Commands : pc'[c] = "done" => pc[c] = "done" \/ (c = t /\ x = "done")
    BY <1>1, ThreadsAssumption
  <2>3. QueuedUntilAnswered'
    BY <2>1 DEF IInv, Durable, QueuedUntilAnswered, TypeInv, TypeOK
  <2>4. DoneIsCleared'
    BY <2>1, <2>2 DEF IInv, Durable, DoneIsCleared
  <2>. QED  BY <2>3, <2>4 DEF Durable
<1>. QED  BY <1>4, <1>5, <1>6, <1>7, <1>8 DEF IInv, FileInv

\* t goes on without writing.
LEMMA InvStay ==
  ASSUME IInv, TypeInv', OneWriter', NEW t \in Workers,
         NEW x \in {"fetch", "post", "acked", "failed", "idle", "done"},
         pc[t] \notin Saving, pc' = [pc EXCEPT ![t] = x],
         UNCHANGED <<file, copy, writing, fresh, queued>>, Serial' => Serial,
         \A r \in Replays : r # t => todo'[r] = todo[r],
         applied \subseteq applied', conflicted \subseteq conflicted',
         x = "idle" => t \notin Commands,
         x = "acked" => Answered(Job(t))',
         Serial' /\ t \in Commands /\ x = "done" => ~InVault(t)
  PROVE  IInv'
<1>1. \A s \in Threads : pc'[s] = IF s = t THEN x ELSE pc[s]
  BY DEF IInv, TypeInv, TypeOK
<1>2. \A s \in Workers : s \in Threads /\ (s # t => Job(s)' = Job(s))
  BY ThreadsAssumption DEF Workers, Job
<1>3. \A c : Answered(c) => Answered(c)'
  BY DEF Answered
<1>4. t \notin fresh
  BY DEF IInv, JobInv, CopiesReady
<1>5. PushedOnce'
  BY <1>1, ThreadsAssumption DEF IInv, FileInv, PushedOnce
<1>6. JobInv'
  <2>1. ClearedAfterAnswer'
    BY <1>1, <1>2, <1>3 DEF IInv, JobInv, ClearedAfterAnswer
  <2>2. CopiesReady'
    BY <1>1, <1>2, <1>4, ThreadsAssumption
       DEF IInv, JobInv, CopiesReady, TypeInv, TypeOK, FileTypeOK
  <2>. QED  BY <2>1, <2>2 DEF JobInv
<1>7. FreshCopies'
  BY <1>1, <1>3, <1>4
     DEF IInv, FileInv, FreshCopies, TypeInv, TypeOK, FileTypeOK
<1>8. Durable'
  <2>1. \A c : InVault(c)' <=> InVault(c)
    BY DEF InVault
  <2>2. \A c \in Commands : pc'[c] = "done" => pc[c] = "done" \/ (c = t /\ x = "done")
    BY <1>1, ThreadsAssumption
  <2>3. QueuedUntilAnswered'
    BY <2>1, <1>3 DEF IInv, Durable, QueuedUntilAnswered, Answered
  <2>4. DoneIsCleared'
    BY <2>1, <2>2 DEF IInv, Durable, DoneIsCleared
  <2>. QED  BY <2>3, <2>4 DEF Durable
<1>. QED  BY <1>5, <1>6, <1>7, <1>8 DEF IInv, FileInv
-----------------------------------------------------------------------------
(* The actions are steps of these kinds. *)

LEMMA InvSubmit ==
  ASSUME IInv, TypeInv', NEW c \in Commands, Submit(c)
  PROVE  IInv'
<1>. DEFINE data == Append(LoadVault, c)
<1>1. /\ pc[c] = "idle" /\ pc' = [pc EXCEPT ![c] = "push"]
      /\ LoadAndSet(c, data)
      /\ UNCHANGED <<todo, applied, conflicted, queued>>
  BY DEF Submit, Goto, serverVars
<1>2. /\ Distinct(data)
      /\ \A d : Contains(data, d) <=> Contains(LoadVault, d) \/ d = c
  BY <1>1, LoadedType, LoadedOnce, AppendLemma DEF IInv, TypeInv
<1>3. c \in Threads /\ "push" \in Saving
  BY ThreadsAssumption DEF Saving
<1>. HIDE DEF data
<1>. QED  BY <1>1, <1>2, <1>3, LoadedOnce, InvLoad

LEMMA InvLoadOther ==
  ASSUME IInv, TypeInv', NEW o \in Others, LoadOther(o)
  PROVE  IInv'
<1>1. /\ pc' = [pc EXCEPT ![o] = "save"]
      /\ LoadAndSet(o, LoadVault)
      /\ UNCHANGED <<todo, applied, conflicted, queued>>
  BY DEF LoadOther, Goto, serverVars
<1>2. o \in Threads /\ o \notin Workers /\ "save" \in Saving
  BY ThreadsAssumption DEF Saving, Workers
<1>. HIDE DEF LoadVault
<1>. QED  BY <1>1, <1>2, LoadedOnce, InvLoad DEF Workers

LEMMA InvBeginWrite ==
  ASSUME IInv, TypeInv', NEW t \in Threads, BeginWrite(t)
  PROVE  IInv'
<1>1. /\ Truncate(t) /\ file' = Unreadable /\ fresh' = {}
      /\ UNCHANGED <<copy, pc, todo, applied, conflicted, queued>>
  BY DEF BeginWrite, Truncate, serverVars
<1>2. /\ OneWriter'
      /\ Serial' => /\ Serial /\ t \in fresh /\ writing = {}
                    /\ file # Unreadable /\ writing' = {t}
  BY <1>1, TruncateStep
<1>3. PushedOnce'
  BY <1>1, WritePushedOnce
<1>4. JobInv'
  BY <1>1 DEF IInv, JobInv, ClearedAfterAnswer, CopiesReady, Answered, Job
<1>5. FreshCopies'
  BY <1>1 DEF FreshCopies
<1>6. Durable'
  <2>1. ASSUME Serial', NEW c \in Commands
        PROVE  /\ Serial
               /\ InVault(c) <=> Contains(file, c)
               /\ InVault(c)' <=> Contains(copy[t], c)
               /\ Contains(file, c) => Contains(copy[t], c) \/ Answered(c)
               /\ Contains(copy[t], c) => Contains(file, c) \/ pc[c] = "push"
    <3>1. InVault(c) <=> Contains(file, c)
      BY <1>2, <2>1 DEF InVault
    <3>2. InVault(c)' <=> Contains(copy[t], c)
      BY <1>1, <1>2, <2>1 DEF InVault
    <3>. QED  BY <1>2, <2>1, <3>1, <3>2 DEF IInv, FileInv, FreshCopies
  <2>2. QueuedUntilAnswered'
    BY <1>1, <2>1 DEF IInv, Durable, QueuedUntilAnswered, Answered, TypeInv, TypeOK
  <2>3. DoneIsCleared'
    BY <1>1, <2>1 DEF IInv, Durable, DoneIsCleared
  <2>. QED  BY <2>2, <2>3 DEF Durable
<1>. QED  BY <1>2, <1>3, <1>4, <1>5, <1>6 DEF IInv, FileInv

LEMMA InvEndPush ==
  ASSUME IInv, TypeInv', NEW c \in Commands, EndPush(c)
  PROVE  IInv'
<1>1. /\ pc[c] = "push" /\ pc' = [pc EXCEPT ![c] = "fetch"] /\ Fill(c)
      /\ queued' = queued \cup {c}
      /\ UNCHANGED <<todo, applied, conflicted>>
  BY DEF EndPush, Goto, serverVars
<1>2. c \in Threads /\ Contains(copy[c], c)
  BY <1>1, ThreadsAssumption DEF IInv, JobInv, CopiesReady
<1>. QED  BY <1>1, <1>2, InvFill

LEMMA InvEndSave ==
  ASSUME IInv, TypeInv', NEW o \in Others, EndSave(o)
  PROVE  IInv'
<1>1. /\ pc' = [pc EXCEPT ![o] = "done"] /\ Fill(o)
      /\ UNCHANGED <<todo, applied, conflicted, queued>>
  BY DEF EndSave, Goto, serverVars
<1>2. o \in Threads /\ o \notin Commands
  BY ThreadsAssumption
<1>. QED  BY <1>1, <1>2, InvFill

\* Past an entry a command is done and a replay is not.
LEMMA NextEntryStep ==
  ASSUME NEW t \in Workers, NextEntry(t)
  PROVE  /\ \A r \in Replays : TypeOK /\ r # t => todo'[r] = todo[r]
         /\ \E x \in {"fetch", "idle", "done"} :
              /\ pc' = [pc EXCEPT ![t] = x]
              /\ x = "idle" => t \notin Commands
              /\ x = "done" => t \in Commands
<1>1. CASE t \in Replays
  <2>1. t \notin Commands
    BY <1>1, ThreadsAssumption
  <2>. QED  BY <1>1, <2>1 DEF NextEntry, TypeOK
<1>2. CASE t \notin Replays
  BY <1>2 DEF NextEntry, Workers
<1>. QED  BY <1>1, <1>2

LEMMA InvRemove ==
  ASSUME IInv, TypeInv', NEW t \in Workers, Remove(t)
  PROVE  IInv'
<1>1. /\ pc[t] = "acked" /\ UNCHANGED <<server, applied, conflicted, queued>>
      /\ t \in Threads
  BY ThreadsAssumption DEF Remove, serverVars, Workers
<1>2. Answered(Job(t))
  BY <1>1 DEF IInv, JobInv, ClearedAfterAnswer
<1>3. CASE Contains(LoadVault, Job(t))
  <2>. DEFINE data == Without(LoadVault, Job(t))
  <2>1. /\ LoadAndSet(t, data) /\ pc' = [pc EXCEPT ![t] = "clear"]
        /\ todo' = todo
    BY <1>3 DEF Remove
  <2>2. /\ \A d : d # Job(t) => (Contains(data, d) <=> Contains(LoadVault, d))
        /\ ~Contains(data, Job(t)) /\ Distinct(data)
    BY <1>3, LoadedType, LoadedOnce, WithoutLemma DEF IInv, TypeInv
  <2>3. \A d : Contains(data, d) => Contains(LoadVault, d)
    BY <2>2
  <2>4. "clear" \in Saving
    BY DEF Saving
  <2>. HIDE DEF data
  <2>. QED  BY <1>1, <1>2, <2>1, <2>2, <2>3, <2>4, LoadedOnce, InvLoad
<1>4. CASE ~Contains(LoadVault, Job(t))
  <2>1. LoadAndLook /\ NextEntry(t)
    BY <1>4 DEF Remove
  <2>2. /\ OneWriter'
        /\ Serial' => Serial /\ writing = {} /\ file # Unreadable
    BY <1>1, <2>1, LoadStep
  <2>3. Serial' /\ t \in Commands => ~InVault(t)
    <3>1. t \in Commands => Job(t) = t
      BY ThreadsAssumption DEF Job
    <3>. QED  BY <1>4, <2>2, <3>1 DEF InVault, LoadVault
  <2>4. PICK x \in {"fetch", "idle", "done"} :
              /\ pc' = [pc EXCEPT ![t] = x]
              /\ x = "idle" => t \notin Commands
              /\ x = "done" => t \in Commands
    BY <2>1, NextEntryStep
  <2>5. \A r \in Replays : r # t => todo'[r] = todo[r]
    BY <2>1, NextEntryStep DEF IInv, TypeInv
  <2>6. UNCHANGED <<file, copy, writing, fresh, queued>> /\ pc[t] \notin Saving
    BY <1>1, <2>1 DEF LoadAndLook, Saving
  <2>. QED  BY <1>1, <2>2, <2>3, <2>4, <2>5, <2>6, InvStay
<1>. QED  BY <1>3, <1>4

LEMMA InvEndClear ==
  ASSUME IInv, TypeInv', NEW t \in Workers, EndClear(t)
  PROVE  IInv'
<1>1. /\ pc[t] = "clear" /\ Fill(t) /\ NextEntry(t) /\ t \in Threads
      /\ UNCHANGED <<applied, conflicted, queued>>
  BY ThreadsAssumption DEF EndClear, serverVars, Workers
<1>2. t \in Commands => ~Contains(copy[t], t)
  BY <1>1, ThreadsAssumption DEF IInv, JobInv, CopiesReady, Job
<1>3. PICK x \in {"fetch", "idle", "done"} :
            /\ pc' = [pc EXCEPT ![t] = x]
            /\ x = "idle" => t \notin Commands
            /\ x = "done" => t \in Commands
  BY <1>1, NextEntryStep
<1>4. \A r \in Replays : r # t => todo'[r] = todo[r]
  BY <1>1, NextEntryStep DEF IInv, TypeInv
<1>. QED  BY <1>1, <1>2, <1>3, <1>4, InvFill

\* What a commit does with the server leaves the vault file alone.
LEMMA InvServer ==
  ASSUME IInv, TypeInv', NEW t \in Workers,
         \/ Fetch(t) \/ NotApplicable(t) \/ NetworkFails(t)
         \/ \E lost \in BOOLEAN : ServerAccepts(t, lost)
         \/ ServerConflict(t)
  PROVE  IInv'
<1>1. UNCHANGED <<fileVars, queued>> /\ pc[t] \in {"fetch", "post"}
  BY DEF Fetch, NotApplicable, NetworkFails, ServerAccepts, ServerConflict, Goto,
     GiveUp
<1>2. OneWriter' /\ Serial' = Serial /\ pc[t] \notin Saving
  BY <1>1 DEF IInv, FileInv, OneWriter, Serial, fileVars, Saving
<1>3. applied \subseteq applied' /\ conflicted \subseteq conflicted'
  BY DEF Fetch, NotApplicable, NetworkFails, ServerAccepts, ServerConflict,
     serverVars
<1>4. /\ \A r \in Replays : r # t => todo'[r] = todo[r]
      /\ \E x \in {"post", "acked", "failed", "idle"} :
           /\ pc' = [pc EXCEPT ![t] = x]
           /\ x = "idle" => t \notin Commands
           /\ x = "acked" => Answered(Job(t))'
  <2>1. CASE Fetch(t)
    BY <2>1 DEF Fetch, Goto
  <2>2. CASE GiveUp(t)
    BY <2>2, ThreadsAssumption DEF GiveUp, IInv, TypeInv, TypeOK
  <2>3. ASSUME NEW lost \in BOOLEAN, ServerAccepts(t, lost), ~GiveUp(t)
        PROVE  /\ todo' = todo /\ pc' = [pc EXCEPT ![t] = "acked"]
               /\ Answered(Job(t))'
    BY <2>3 DEF ServerAccepts, Goto, Answered, Job
  <2>4. CASE ServerConflict(t)
    BY <2>4 DEF ServerConflict, Goto, Answered, Job
  <2>. QED  BY <2>1, <2>2, <2>3, <2>4 DEF NotApplicable, NetworkFails
<1>. QED  BY <1>1, <1>2, <1>3, <1>4, InvStay DEF fileVars

LEMMA InvStartReplay ==
  ASSUME IInv, TypeInv', NEW r \in Replays, StartReplay(r)
  PROVE  IInv'
<1>1. /\ LoadAndLook /\ r \in Threads /\ r \in Workers
      /\ pc[r] \notin Saving /\ pc' = [pc EXCEPT ![r] = "fetch"]
      /\ todo' = [todo EXCEPT ![r] = LoadVault]
      /\ UNCHANGED <<applied, conflicted, queued>>
  BY ThreadsAssumption DEF StartReplay, Goto, Saving, serverVars, Workers
<1>2. OneWriter' /\ (Serial' => Serial)
  BY <1>1, LoadStep
<1>3. \A s \in Replays : s # r => todo'[s] = todo[s]
  BY <1>1 DEF IInv, TypeInv, TypeOK
<1>4. UNCHANGED <<file, copy, writing, fresh, queued>>
  BY <1>1 DEF LoadAndLook
<1>. QED  BY <1>1, <1>2, <1>3, <1>4, InvStay

LEMMA InvRestart ==
  ASSUME IInv, TypeInv', Restart
  PROVE  IInv'
<1>1. /\ file' = file /\ writing' = {} /\ fresh' = {}
      /\ \A t \in Threads : copy'[t] = <<>>
      /\ UNCHANGED <<applied, conflicted, queued>>
  BY DataAssumption DEF Restart, ProcessEnds, serverVars
<1>2. \A t \in Threads :
        pc'[t] = IF t \in Replays THEN "idle"
                 ELSE IF pc[t] \in {"idle", "done", "failed"} THEN pc[t]
                 ELSE "failed"
  BY DEF Restart
<1>3. Serial' => Serial /\ writing = {}
  BY DEF Restart, ProcessEnds, Serial
<1>4. PushedOnce'
  <2>1. Distinct(<<>>) /\ \A c : ~Contains(<<>>, c)
    BY DEF Distinct, Contains
  <2>2. \A c \in Commands : pc'[c] = "idle" => pc[c] = "idle"
    BY <1>2, ThreadsAssumption
  <2>. QED  BY <1>1, <2>1, <2>2 DEF IInv, FileInv, PushedOnce
<1>5. OneWriter'
  BY <1>1, <1>3 DEF IInv, FileInv, OneWriter
<1>6. JobInv'
  BY <1>1, <1>2, ThreadsAssumption
     DEF JobInv, ClearedAfterAnswer, CopiesReady, Workers
<1>7. FreshCopies'
  BY <1>1 DEF FreshCopies
<1>8. Durable'
  <2>1. ASSUME Serial', NEW c
        PROVE  Serial /\ (InVault(c)' <=> InVault(c))
    BY <1>1, <1>3, <2>1 DEF InVault
  <2>2. \A c \in Commands : pc'[c] = "done" => pc[c] = "done"
    BY <1>2, ThreadsAssumption
  <2>. QED  BY <1>1, <2>1, <2>2 DEF IInv, Durable, QueuedUntilAnswered, DoneIsCleared
<1>. QED  BY <1>4, <1>5, <1>6, <1>7, <1>8 DEF IInv, FileInv

LEMMA NextInv == IInv /\ [Next]_vars => IInv'
<1>. SUFFICES ASSUME IInv, [Next]_vars
              PROVE  IInv'
  OBVIOUS
<1>1. TypeInv'
  BY TypeNext DEF IInv
<1>2. CASE UNCHANGED vars
  <2>1. JobInv' /\ FileInv' /\ Durable'
    BY <1>2 DEF IInv, vars, fileVars, JobInv, ClearedAfterAnswer, CopiesReady, Job,
       Answered, FileInv, PushedOnce, OneWriter, FreshCopies, Serial, Durable,
       QueuedUntilAnswered, DoneIsCleared, InVault
  <2>. QED  BY <1>1, <2>1 DEF IInv
<1>3. ASSUME NEW c \in Commands, Submit(c) \/ EndPush(c)
      PROVE  IInv'
  BY <1>1, <1>3, InvSubmit, InvEndPush
<1>4. ASSUME NEW t \in Workers, Commit(t)
      PROVE  IInv'
  BY <1>1, <1>4, InvServer, InvRemove, InvEndClear DEF Commit
<1>5. ASSUME NEW r \in Replays, StartReplay(r)
      PROVE  IInv'
  BY <1>1, <1>5, InvStartReplay
<1>6. ASSUME NEW o \in Others, LoadOther(o) \/ EndSave(o)
      PROVE  IInv'
  BY <1>1, <1>6, InvLoadOther, InvEndSave
<1>7. ASSUME NEW t \in Threads, BeginWrite(t)
      PROVE  IInv'
  BY <1>1, <1>7, InvBeginWrite
<1>8. CASE Restart
  BY <1>1, <1>8, InvRestart
<1>. QED  BY <1>2, <1>3, <1>4, <1>5, <1>6, <1>7, <1>8 DEF Next, Workers

\* While the load-to-write spans of vault.json do not overlap and no write is
\* cut short, a mutation commit_durable has pushed stays in the outbox until
\* the server answered for it: through failures, lost answers, replays and
\* restarts, for any commands and any number of each.
THEOREM QueuedUntilAnsweredCorrect == Spec => []QueuedUntilAnswered
<1>1. IInv => QueuedUntilAnswered
  BY DEF IInv, Durable
<1>. QED  BY <1>1, InitInv, NextInv, PTL DEF Spec

\* Under the same proviso, a commit_durable that returned Ok leaves no entry
\* behind, whatever replays and other commands do.
THEOREM DoneIsClearedCorrect == Spec => []DoneIsCleared
<1>1. IInv => DoneIsCleared
  BY DEF IInv, Durable
<1>. QED  BY <1>1, InitInv, NextInv, PTL DEF Spec
-----------------------------------------------------------------------------
(* The order of a replay. *)

\* d stands before c.
Ahead(outbox, d, c) ==
  \E i, k \in 1..Len(outbox) : i < k /\ outbox[i] = d /\ outbox[k] = c

AheadInVault(d, c) ==
  \/ file # Unreadable /\ Ahead(file, d, c)
  \/ \E t \in writing : Ahead(copy[t], d, c)

\* Until its entry is in the file a command is in nobody else's copy, and in no
\* snapshot; no snapshot repeats an entry.
Unpushed ==
  /\ \A c \in Commands : pc[c] \in {"idle", "push"} =>
       /\ file # Unreadable => ~Contains(file, c)
       /\ \A t \in Threads : t # c => ~Contains(copy[t], c)
       /\ \A r \in Replays : ~Contains(todo[r], c)
  /\ \A r \in Replays : Distinct(todo[r])

\* Whoever writes the file back keeps its order and adds at the end.
FreshOrder ==
  Serial => \A t \in fresh : \A d, c \in Commands :
    Ahead(copy[t], d, c) => Ahead(file, d, c) \/ (c = t /\ pc[t] = "push")

\* What stands in the vault before an entry that a replay has yet to do was
\* answered for, or the replay does it before.
ReplayOrder ==
  Serial => \A r \in Replays : \A d, c \in Commands :
    AheadInVault(d, c) /\ Contains(todo[r], c) =>
      Answered(d) \/ Ahead(todo[r], d, c)

OrderInv == Unpushed /\ FreshOrder /\ ReplayOrder

LEMMA AppendOrder ==
  ASSUME NEW outbox \in Seq(Commands), NEW c \in Commands, NEW d, NEW e,
         Ahead(Append(outbox, c), d, e)
  PROVE  Ahead(outbox, d, e) \/ e = c
<1>. DEFINE longer == Append(outbox, c)
<1>1. /\ Len(outbox) \in Nat /\ Len(longer) = Len(outbox) + 1
      /\ longer[Len(outbox) + 1] = c
      /\ \A i \in 1..Len(outbox) : longer[i] = outbox[i]
  OBVIOUS
<1>2. PICK i \in 1..Len(longer), k \in 1..Len(longer) :
            i < k /\ longer[i] = d /\ longer[k] = e
  BY DEF Ahead
<1>. HIDE DEF longer
<1>3. CASE k = Len(outbox) + 1
  BY <1>1, <1>2, <1>3
<1>4. CASE k # Len(outbox) + 1
  <2>1. i \in 1..Len(outbox) /\ k \in 1..Len(outbox)
    BY <1>1, <1>2, <1>4
  <2>. QED  BY <1>1, <1>2, <2>1 DEF Ahead
<1>. QED  BY <1>3, <1>4

LEMMA WithoutOrder ==
  ASSUME NEW outbox \in Seq(Commands), NEW c, Contains(outbox, c), NEW d, NEW e,
         Ahead(Without(outbox, c), d, e)
  PROVE  Ahead(outbox, d, e)
<1>. DEFINE at == CHOOSE i \in 1..Len(outbox) : outbox[i] = c
            n == Len(outbox)
            rest == [m \in 1..n - 1 |-> IF m < at THEN outbox[m] ELSE outbox[m + 1]]
            old(m) == IF m < at THEN m ELSE m + 1
<1>1. at \in 1..n /\ n \in Nat
  BY DEF Contains
<1>2. Without(outbox, c) = rest
  BY DEF Without
<1>. HIDE DEF at
<1>3. Len(rest) = n - 1
  <2>1. n - 1 \in Nat
    BY <1>1
  <2>2. rest \in [1..n - 1 -> Commands]
    BY <1>1
  <2>. QED  BY <2>1, <2>2
<1>4. PICK i \in 1..n - 1, k \in 1..n - 1 : i < k /\ rest[i] = d /\ rest[k] = e
  BY <1>2, <1>3 DEF Ahead
<1>5. old(i) \in 1..n /\ old(k) \in 1..n /\ old(i) < old(k)
  BY <1>1, <1>4
<1>6. outbox[old(i)] = d /\ outbox[old(k)] = e
  BY <1>4
<1>. HIDE DEF old
<1>. QED  BY <1>5, <1>6 DEF Ahead

LEMMA TailOrder ==
  ASSUME NEW outbox \in Seq(Commands), outbox # <<>>
  PROVE  /\ \A c : Contains(Tail(outbox), c) => Contains(outbox, c)
         /\ \A c, d : Ahead(outbox, d, c) =>
                        d = Head(outbox) \/ Ahead(Tail(outbox), d, c)
         /\ Distinct(outbox) => Distinct(Tail(outbox))
<1>. DEFINE n == Len(outbox)
            rest == Tail(outbox)
<1>1. /\ n \in Nat /\ n >= 1 /\ Len(rest) = n - 1 /\ outbox[1] = Head(outbox)
      /\ \A i \in 1..n - 1 : rest[i] = outbox[i + 1]
  OBVIOUS
<1>. HIDE DEF rest
<1>2. ASSUME NEW c, Contains(rest, c)
      PROVE  Contains(outbox, c)
  <2>1. PICK i \in 1..n - 1 : rest[i] = c
    BY <1>1, <1>2 DEF Contains
  <2>2. i + 1 \in 1..n /\ outbox[i + 1] = c
    BY <1>1, <2>1
  <2>. QED  BY <2>2 DEF Contains
<1>3. ASSUME NEW c, NEW d, Ahead(outbox, d, c), d # Head(outbox)
      PROVE  Ahead(rest, d, c)
  <2>1. PICK i \in 1..n, k \in 1..n : i < k /\ outbox[i] = d /\ outbox[k] = c
    BY <1>3 DEF Ahead
  <2>2. i # 1
    BY <1>1, <1>3, <2>1
  <2>3. /\ i - 1 \in 1..n - 1 /\ k - 1 \in 1..n - 1 /\ i - 1 < k - 1
        /\ rest[i - 1] = d /\ rest[k - 1] = c
    BY <1>1, <2>1, <2>2
  <2>. QED  BY <1>1, <2>3 DEF Ahead
<1>4. ASSUME Distinct(outbox)
      PROVE  Distinct(rest)
  <2>1. ASSUME NEW i \in 1..n - 1, NEW k \in 1..n - 1, rest[i] = rest[k]
        PROVE  i = k
    <3>1. i + 1 \in 1..n /\ k + 1 \in 1..n /\ outbox[i + 1] = outbox[k + 1]
      BY <1>1, <2>1
    <3>2. i + 1 = k + 1
      BY <1>4, <3>1 DEF Distinct
    <3>. QED  BY <1>1, <3>2
  <2>. QED  BY <1>1, <2>1 DEF Distinct
<1>. QED  BY <1>2, <1>3, <1>4 DEF rest

\* What is empty holds nothing and puts nothing in an order.
LEMMA NothingAhead ==
  Distinct(<<>>) /\ \A c, d : ~Contains(<<>>, c) /\ ~Ahead(<<>>, d, c)
  BY DEF Distinct, Contains, Ahead

LEMMA OrderInit == Init => OrderInv
<1>. SUFFICES ASSUME Init
              PROVE  OrderInv
  OBVIOUS
<1>1. /\ file = <<>> /\ writing = {} /\ fresh = {}
      /\ \A t \in Threads : copy[t] = <<>>
      /\ \A r \in Replays : todo[r] = <<>>
  BY DataAssumption DEF Init, FileInit
<1>. QED  BY <1>1, NothingAhead DEF OrderInv, Unpushed, FreshOrder, ReplayOrder

\* t loads the vault and changes its copy, to write it back later.
LEMMA OrderLoad ==
  ASSUME IInv, OrderInv, NEW t \in Threads, NEW data, NEW x \in Saving,
         LoadAndSet(t, data), pc' = [pc EXCEPT ![t] = x],
         pc[t] # "push", t \in Commands /\ x = "push" => pc[t] = "idle",
         UNCHANGED <<todo, applied, conflicted>>,
         \A c \in Commands : Contains(data, c) =>
           Contains(LoadVault, c) \/ (c = t /\ x = "push"),
         \A d, c \in Commands : Ahead(data, d, c) =>
           Ahead(LoadVault, d, c) \/ (c = t /\ x = "push")
  PROVE  OrderInv'
<1>1. \A s \in Threads : pc'[s] = IF s = t THEN x ELSE pc[s]
  BY DEF IInv, TypeInv, TypeOK
<1>2. \A s \in Threads : copy'[s] = IF s = t THEN data ELSE copy[s]
  BY DEF LoadAndSet, IInv, TypeInv, TypeOK, FileTypeOK
<1>3. file' = file /\ writing' = writing /\ fresh' \subseteq fresh \cup {t}
  BY DEF LoadAndSet
<1>4. Serial' => Serial /\ writing = {} /\ file # Unreadable
  BY LoadStep
<1>5. Unpushed'
  <2>1. ASSUME NEW c \in Commands, pc'[c] \in {"idle", "push"}
        PROVE  /\ file # Unreadable => ~Contains(file, c)
               /\ \A s \in Threads : s # c => ~Contains(copy'[s], c)
               /\ \A r \in Replays : ~Contains(todo[r], c)
    <3>1. c \in Threads /\ pc[c] \in {"idle", "push"}
      BY <1>1, <2>1, ThreadsAssumption DEF Saving
    <3>2. ~Contains(LoadVault, c)
      BY <3>1, NothingAhead, DataAssumption DEF OrderInv, Unpushed, LoadVault
    <3>. QED  BY <1>2, <3>1, <3>2 DEF OrderInv, Unpushed
  <2>. QED  BY <1>3, <2>1 DEF OrderInv, Unpushed
<1>6. FreshOrder'
  <2>1. ASSUME Serial', NEW s \in fresh', NEW d \in Commands, NEW c \in Commands,
               Ahead(copy'[s], d, c)
        PROVE  Ahead(file, d, c) \/ (c = s /\ pc'[s] = "push")
    <3>1. Serial /\ LoadVault = file /\ s \in Threads
      BY <1>3, <1>4, <2>1 DEF LoadVault, IInv, TypeInv, TypeOK, FileTypeOK
    <3>. QED  BY <1>1, <1>2, <1>3, <2>1, <3>1 DEF OrderInv, FreshOrder
  <2>. QED  BY <1>3, <2>1 DEF FreshOrder
<1>7. ReplayOrder'
  <2>1. ASSUME Serial', NEW d, NEW c, AheadInVault(d, c)'
        PROVE  AheadInVault(d, c)
    BY <1>3, <1>4, <2>1 DEF AheadInVault
  <2>. QED  BY <1>4, <2>1 DEF OrderInv, ReplayOrder, Answered
<1>. QED  BY <1>5, <1>6, <1>7 DEF OrderInv

\* A copy that is fresh keeps the order of the file it replaces.
LEMMA OrderWrite ==
  ASSUME IInv, OrderInv, NEW t \in Threads, BeginWrite(t)
  PROVE  OrderInv'
<1>1. /\ Truncate(t) /\ file' = Unreadable /\ fresh' = {}
      /\ UNCHANGED <<copy, pc, todo, applied, conflicted>>
  BY DEF BeginWrite, Truncate, serverVars
<1>2. Serial' => /\ Serial /\ t \in fresh /\ file # Unreadable
                 /\ writing' = {t}
  BY <1>1, TruncateStep
<1>3. Unpushed' /\ FreshOrder'
  BY <1>1 DEF OrderInv, Unpushed, FreshOrder
<1>4. ReplayOrder'
  <2>1. ASSUME Serial', NEW r \in Replays, NEW d \in Commands,
               NEW c \in Commands, AheadInVault(d, c)', Contains(todo[r], c)
        PROVE  Answered(d) \/ Ahead(todo[r], d, c)
    <3>1. Ahead(copy[t], d, c)
      BY <1>1, <1>2, <2>1 DEF AheadInVault
    <3>2. c # t \/ pc[t] # "push"
      BY <2>1 DEF OrderInv, Unpushed
    <3>3. Ahead(file, d, c)
      BY <1>2, <2>1, <3>1, <3>2 DEF OrderInv, FreshOrder
    <3>. QED  BY <1>2, <2>1, <3>3 DEF OrderInv, ReplayOrder, AheadInVault
  <2>. QED  BY <1>1, <2>1 DEF ReplayOrder, Answered
<1>. QED  BY <1>3, <1>4 DEF OrderInv

\* What becomes of the snapshots: they stay, one of them is over or loses its
\* first entry, which was answered for.
Shorter ==
  \A r \in Replays :
    \/ todo'[r] = todo[r]
    \/ todo'[r] = <<>>
    \/ todo[r] # <<>> /\ todo'[r] = Tail(todo[r]) /\ Answered(Head(todo[r]))

LEMMA ShorterOrder ==
  ASSUME TypeOK, Shorter, NEW r \in Replays
  PROVE  /\ Distinct(todo[r]) => Distinct(todo'[r])
         /\ \A c : Contains(todo'[r], c) => Contains(todo[r], c)
         /\ \A d, c : Ahead(todo[r], d, c) /\ Contains(todo'[r], c) =>
                        Answered(d) \/ Ahead(todo'[r], d, c)
<1>1. todo[r] \in Seq(Commands)
  BY DEF TypeOK
<1>2. CASE todo'[r] = todo[r]
  BY <1>2
<1>3. CASE todo'[r] = <<>>
  BY <1>3, NothingAhead
<1>4. CASE todo[r] # <<>> /\ todo'[r] = Tail(todo[r]) /\ Answered(Head(todo[r]))
  BY <1>1, <1>4, TailOrder
<1>. QED  BY <1>2, <1>3, <1>4 DEF Shorter

LEMMA NextEntryShorter ==
  ASSUME IInv, NEW t \in Workers, pc[t] \in {"acked", "clear"}, NextEntry(t)
  PROVE  Shorter
<1>1. CASE t \in Replays
  <2>1. todo[t] # <<>>
    BY <1>1 DEF IInv, TypeInv, JobsToDo, Working
  <2>2. Answered(Head(todo[t]))
    BY <1>1 DEF IInv, JobInv, ClearedAfterAnswer, Job
  <2>3. todo' = [todo EXCEPT ![t] = Tail(todo[t])]
    BY <1>1 DEF NextEntry
  <2>. QED  BY <2>1, <2>2, <2>3 DEF Shorter, IInv, TypeInv, TypeOK
<1>2. CASE t \notin Replays
  BY <1>2 DEF NextEntry, Shorter
<1>. QED  BY <1>1, <1>2

\* t fills the file with what the vault was to hold already.
LEMMA OrderFill ==
  ASSUME IInv, OrderInv, NEW t \in Threads, NEW x \in {"fetch", "idle", "done"},
         Fill(t), pc' = [pc EXCEPT ![t] = x], x = "idle" => t \notin Commands,
         pc[t] = "push" => x = "fetch", Shorter,
         UNCHANGED <<applied, conflicted>>
  PROVE  OrderInv'
<1>1. \A s \in Threads : pc'[s] = IF s = t THEN x ELSE pc[s]
  BY DEF IInv, TypeInv, TypeOK
<1>2. copy' = copy /\ fresh' = {} /\ file' \in {copy[t], Unreadable}
  BY DEF Fill
<1>3. Serial' => /\ Serial /\ writing = {t} /\ file' = copy[t] /\ writing' = {}
  BY FillStep
<1>4. Unpushed'
  <2>1. ASSUME NEW c \in Commands, pc'[c] \in {"idle", "push"}
        PROVE  pc[c] = pc'[c] /\ c # t
    BY <1>1, <2>1, ThreadsAssumption
  <2>2. \A r \in Replays : /\ Distinct(todo[r]) => Distinct(todo'[r])
                           /\ \A c : Contains(todo'[r], c) => Contains(todo[r], c)
    BY ShorterOrder DEF IInv, TypeInv
  <2>. QED  BY <1>2, <2>1, <2>2 DEF OrderInv, Unpushed
<1>5. FreshOrder'
  BY <1>2 DEF FreshOrder
<1>6. ReplayOrder'
  <2>1. ASSUME Serial', NEW r \in Replays, NEW d \in Commands,
               NEW c \in Commands, AheadInVault(d, c)', Contains(todo'[r], c)
        PROVE  Answered(d) \/ Ahead(todo'[r], d, c)
    <3>1. AheadInVault(d, c)
      BY <1>2, <1>3, <2>1 DEF AheadInVault
    <3>2. Contains(todo[r], c)
      BY <2>1, ShorterOrder DEF IInv, TypeInv
    <3>3. Answered(d) \/ Ahead(todo[r], d, c)
      BY <1>3, <2>1, <3>1, <3>2 DEF OrderInv, ReplayOrder
    <3>. QED  BY <2>1, <3>3, ShorterOrder DEF IInv, TypeInv
  <2>. QED  BY <2>1 DEF ReplayOrder, Answered
<1>. QED  BY <1>4, <1>5, <1>6 DEF OrderInv

\* Nobody writes, loads or pushes; snapshots get shorter, answers more.
LEMMA OrderStay ==
  ASSUME IInv, OrderInv, UNCHANGED <<file, copy, writing, fresh>>,
         Serial' => Serial, Shorter,
         \A c \in Commands : pc'[c] \in {"idle", "push"} => pc'[c] = pc[c],
         \A s \in fresh : pc'[s] = pc[s],
         applied \subseteq applied', conflicted \subseteq conflicted'
  PROVE  OrderInv'
<1>1. Unpushed'
  <2>1. \A r \in Replays : /\ Distinct(todo[r]) => Distinct(todo'[r])
                           /\ \A c : Contains(todo'[r], c) => Contains(todo[r], c)
    BY ShorterOrder DEF IInv, TypeInv
  <2>. QED  BY <2>1 DEF OrderInv, Unpushed
<1>2. FreshOrder'
  BY DEF OrderInv, FreshOrder
<1>3. ReplayOrder'
  <2>1. ASSUME Serial', NEW r \in Replays, NEW d \in Commands,
               NEW c \in Commands, AheadInVault(d, c)', Contains(todo'[r], c)
        PROVE  Answered(d)' \/ Ahead(todo'[r], d, c)
    <3>1. AheadInVault(d, c)
      BY <2>1 DEF AheadInVault
    <3>2. Contains(todo[r], c)
      BY <2>1, ShorterOrder DEF IInv, TypeInv
    <3>3. Answered(d) \/ Ahead(todo[r], d, c)
      BY <2>1, <3>1, <3>2 DEF OrderInv, ReplayOrder
    <3>4. Answered(d) => Answered(d)'
      BY DEF Answered
    <3>. QED  BY <2>1, <3>3, <3>4, ShorterOrder DEF IInv, TypeInv
  <2>. QED  BY <2>1 DEF ReplayOrder
<1>. QED  BY <1>1, <1>2, <1>3 DEF OrderInv

\* The threads that wait to write do not move when another does.
LEMMA FreshStay ==
  ASSUME IInv, NEW t \in Threads, pc[t] \notin Saving, NEW x,
         pc' = [pc EXCEPT ![t] = x]
  PROVE  \A s \in fresh : pc'[s] = pc[s]
  BY DEF IInv, JobInv, CopiesReady, TypeInv, TypeOK, FileTypeOK

LEMMA OrderSubmit ==
  ASSUME IInv, OrderInv, NEW c \in Commands, Submit(c)
  PROVE  OrderInv'
<1>. DEFINE data == Append(LoadVault, c)
<1>1. /\ pc[c] = "idle" /\ pc' = [pc EXCEPT ![c] = "push"]
      /\ LoadAndSet(c, data) /\ UNCHANGED <<todo, applied, conflicted>>
  BY DEF Submit, Goto, serverVars
<1>2. /\ \A d : Contains(data, d) => Contains(LoadVault, d) \/ d = c
      /\ \A d, e : Ahead(data, d, e) => Ahead(LoadVault, d, e) \/ e = c
  BY LoadedType, AppendLemma, AppendOrder DEF IInv, TypeInv
<1>3. c \in Threads /\ "push" \in Saving
  BY ThreadsAssumption DEF Saving
<1>. HIDE DEF data
<1>. QED  BY <1>1, <1>2, <1>3, OrderLoad

LEMMA OrderLoadOther ==
  ASSUME IInv, OrderInv, NEW o \in Others, LoadOther(o)
  PROVE  OrderInv'
<1>1. /\ pc[o] = "idle" /\ pc' = [pc EXCEPT ![o] = "save"]
      /\ LoadAndSet(o, LoadVault) /\ UNCHANGED <<todo, applied, conflicted>>
  BY DEF LoadOther, Goto, serverVars
<1>2. o \in Threads /\ o \notin Commands /\ "save" \in Saving
  BY ThreadsAssumption DEF Saving
<1>. HIDE DEF LoadVault
<1>. QED  BY <1>1, <1>2, OrderLoad

LEMMA OrderRemove ==
  ASSUME IInv, OrderInv, NEW t \in Workers, Remove(t)
  PROVE  OrderInv'
<1>1. /\ pc[t] = "acked" /\ UNCHANGED <<applied, conflicted>> /\ t \in Threads
  BY ThreadsAssumption DEF Remove, serverVars, Workers
<1>2. CASE Contains(LoadVault, Job(t))
  <2>. DEFINE data == Without(LoadVault, Job(t))
  <2>1. /\ LoadAndSet(t, data) /\ pc' = [pc EXCEPT ![t] = "clear"]
        /\ todo' = todo
    BY <1>2 DEF Remove
  <2>2. /\ \A d : Contains(data, d) => Contains(LoadVault, d)
        /\ \A d, e : Ahead(data, d, e) => Ahead(LoadVault, d, e)
    BY <1>2, LoadedType, WithoutLemma, WithoutOrder DEF IInv, TypeInv
  <2>3. "clear" \in Saving
    BY DEF Saving
  <2>. HIDE DEF data
  <2>. QED  BY <1>1, <2>1, <2>2, <2>3, OrderLoad
<1>3. CASE ~Contains(LoadVault, Job(t))
  <2>1. LoadAndLook /\ NextEntry(t)
    BY <1>3 DEF Remove
  <2>2. UNCHANGED <<file, copy, writing, fresh>> /\ (Serial' => Serial)
    BY <1>1, <2>1, LoadStep DEF LoadAndLook
  <2>3. PICK x \in {"fetch", "idle", "done"} :
          /\ pc' = [pc EXCEPT ![t] = x]
          /\ x = "idle" => t \notin Commands
    BY <2>1, NextEntryStep
  <2>4. Shorter
    BY <1>1, <2>1, NextEntryShorter
  <2>5. \A c \in Commands : pc'[c] \in {"idle", "push"} => pc'[c] = pc[c]
    BY <2>3, ThreadsAssumption DEF IInv, TypeInv, TypeOK
  <2>6. \A s \in fresh : pc'[s] = pc[s]
    BY <1>1, <2>3, FreshStay DEF Saving
  <2>. QED  BY <1>1, <2>2, <2>4, <2>5, <2>6, OrderStay
<1>. QED  BY <1>2, <1>3

LEMMA OrderEndWrite ==
  ASSUME IInv, OrderInv,
         \/ \E c \in Commands : EndPush(c)
         \/ \E t \in Workers : EndClear(t)
         \/ \E o \in Others : EndSave(o)
  PROVE  OrderInv'
<1>1. ASSUME NEW c \in Commands, EndPush(c)
      PROVE  OrderInv'
  <2>1. /\ Fill(c) /\ pc' = [pc EXCEPT ![c] = "fetch"] /\ Shorter
        /\ UNCHANGED <<applied, conflicted>>
    BY <1>1 DEF EndPush, Goto, serverVars, Shorter
  <2>2. c \in Threads
    BY ThreadsAssumption
  <2>. QED  BY <2>1, <2>2, OrderFill
<1>2. ASSUME NEW t \in Workers, EndClear(t)
      PROVE  OrderInv'
  <2>1. /\ Fill(t) /\ NextEntry(t) /\ pc[t] = "clear" /\ t \in Threads
        /\ UNCHANGED <<applied, conflicted>>
    BY <1>2, ThreadsAssumption DEF EndClear, serverVars, Workers
  <2>2. Shorter
    BY <2>1, NextEntryShorter
  <2>3. PICK x \in {"fetch", "idle", "done"} :
          /\ pc' = [pc EXCEPT ![t] = x]
          /\ x = "idle" => t \notin Commands
    BY <2>1, NextEntryStep
  <2>. QED  BY <2>1, <2>2, <2>3, OrderFill
<1>3. ASSUME NEW o \in Others, EndSave(o)
      PROVE  OrderInv'
  <2>1. /\ Fill(o) /\ pc[o] = "save" /\ pc' = [pc EXCEPT ![o] = "done"]
        /\ Shorter /\ UNCHANGED <<applied, conflicted>>
    BY <1>3 DEF EndSave, Goto, serverVars, Shorter
  <2>2. o \in Threads
    BY ThreadsAssumption
  <2>. QED  BY <2>1, <2>2, OrderFill
<1>. QED  BY <1>1, <1>2, <1>3

LEMMA OrderServer ==
  ASSUME IInv, OrderInv, NEW t \in Workers,
         \/ Fetch(t) \/ NotApplicable(t) \/ NetworkFails(t)
         \/ \E lost \in BOOLEAN : ServerAccepts(t, lost)
         \/ ServerConflict(t)
  PROVE  OrderInv'
<1>1. UNCHANGED fileVars /\ pc[t] \in {"fetch", "post"} /\ t \in Threads
  BY ThreadsAssumption
     DEF Fetch, NotApplicable, NetworkFails, ServerAccepts, ServerConflict, Goto,
         GiveUp, Workers
<1>2. applied \subseteq applied' /\ conflicted \subseteq conflicted'
  BY DEF Fetch, NotApplicable, NetworkFails, ServerAccepts, ServerConflict,
     serverVars
<1>3. /\ Shorter
      /\ \E x \in {"post", "acked", "failed", "idle"} :
           pc' = [pc EXCEPT ![t] = x] /\ (x = "idle" => t \notin Commands)
  <2>1. CASE GiveUp(t)
    BY <2>1, ThreadsAssumption DEF GiveUp, Shorter, IInv, TypeInv, TypeOK
  <2>2. CASE todo' = todo /\ (Goto(t, "fetch", "post") \/ Goto(t, "post", "acked"))
    BY <2>2 DEF Goto, Shorter
  <2>. QED  BY <2>1, <2>2 DEF Fetch, NotApplicable, NetworkFails, ServerAccepts,
               ServerConflict
<1>4. PICK x \in {"post", "acked", "failed", "idle"} :
             pc' = [pc EXCEPT ![t] = x] /\ (x = "idle" => t \notin Commands)
  BY <1>3
<1>5. \A c \in Commands : pc'[c] \in {"idle", "push"} => pc'[c] = pc[c]
  BY <1>4, ThreadsAssumption DEF IInv, TypeInv, TypeOK
<1>6. \A s \in fresh : pc'[s] = pc[s]
  BY <1>1, <1>4, FreshStay DEF Saving
<1>. QED  BY <1>1, <1>2, <1>3, <1>5, <1>6, OrderStay DEF fileVars, Serial

\* The snapshot is the file: what stands before an entry there does so here.
LEMMA OrderStartReplay ==
  ASSUME IInv, OrderInv, NEW r \in Replays, StartReplay(r)
  PROVE  OrderInv'
<1>1. /\ LoadAndLook /\ r \in Threads /\ pc[r] = "idle"
      /\ pc' = [pc EXCEPT ![r] = "fetch"]
      /\ todo' = [todo EXCEPT ![r] = LoadVault]
      /\ UNCHANGED <<applied, conflicted>>
  BY ThreadsAssumption DEF StartReplay, Goto, serverVars
<1>2. UNCHANGED <<file, copy, writing, fresh>>
  BY <1>1 DEF LoadAndLook
<1>3. Serial' => Serial /\ writing = {} /\ file # Unreadable
  BY <1>1, LoadStep
<1>4. \A s \in Replays : todo'[s] = IF s = r THEN LoadVault ELSE todo[s]
  BY <1>1 DEF IInv, TypeInv, TypeOK
<1>5. \A c \in Commands : pc'[c] = pc[c]
  BY <1>1, ThreadsAssumption DEF IInv, TypeInv, TypeOK
<1>6. Unpushed'
  <2>1. \A c \in Commands : pc[c] \in {"idle", "push"} => ~Contains(LoadVault, c)
    BY NothingAhead, DataAssumption DEF OrderInv, Unpushed, LoadVault
  <2>. QED  BY <1>2, <1>4, <1>5, <2>1, LoadedOnce DEF OrderInv, Unpushed
<1>7. FreshOrder'
  <2>1. \A s \in fresh : pc'[s] = pc[s]
    BY <1>1, FreshStay DEF Saving
  <2>. QED  BY <1>2, <1>3, <2>1 DEF OrderInv, FreshOrder
<1>8. ReplayOrder'
  <2>1. ASSUME Serial', NEW d, NEW c, AheadInVault(d, c)'
        PROVE  AheadInVault(d, c) /\ Ahead(LoadVault, d, c)
    BY <1>2, <1>3, <2>1 DEF AheadInVault, LoadVault
  <2>. QED  BY <1>1, <1>3, <1>4, <2>1 DEF OrderInv, ReplayOrder, Answered
<1>. QED  BY <1>6, <1>7, <1>8 DEF OrderInv

LEMMA OrderRestart ==
  ASSUME IInv, OrderInv, Restart
  PROVE  OrderInv'
<1>1. /\ file' = file /\ writing' = {} /\ fresh' = {}
      /\ \A t \in Threads : copy'[t] = <<>>
      /\ \A r \in Replays : todo'[r] = <<>>
  BY DataAssumption DEF Restart, ProcessEnds
<1>2. \A c \in Commands : pc'[c] \in {"idle", "push"} => pc'[c] = pc[c]
  BY ThreadsAssumption DEF Restart
<1>. QED  BY <1>1, <1>2, NothingAhead DEF OrderInv, Unpushed, FreshOrder, ReplayOrder

LEMMA OrderNext == IInv /\ OrderInv /\ [Next]_vars => OrderInv'
<1>. SUFFICES ASSUME IInv, OrderInv, [Next]_vars
              PROVE  OrderInv'
  OBVIOUS
<1>1. CASE UNCHANGED vars
  BY <1>1 DEF vars, fileVars, OrderInv, Unpushed, FreshOrder, ReplayOrder,
     AheadInVault, Answered, Serial
<1>2. ASSUME NEW t \in Workers, Commit(t)
      PROVE  OrderInv'
  BY <1>2, OrderServer, OrderRemove, OrderEndWrite DEF Commit
<1>. QED  BY <1>1, <1>2, OrderSubmit, OrderEndWrite, OrderStartReplay,
          OrderLoadOther, OrderWrite, OrderRestart DEF Next, Workers

\* replay_outbox carries a mutation out only after those queued before it: the
\* server has answered for whatever stands before it in the file, also when
\* commands push and clear entries, and other replays run, at the same time.
THEOREM ReplayKeepsOrderCorrect == Spec => ReplayKeepsOrder
<1>1. IInv /\ OrderInv => \A r \in Replays :
        Serial /\ pc[r] = "post" /\ file # Unreadable =>
          \A i, k \in 1..Len(file) :
            i < k /\ file[k] = Job(r) => file[i] \in applied \cup conflicted
  <2>. SUFFICES ASSUME IInv, OrderInv, NEW r \in Replays, Serial, pc[r] = "post",
                       file # Unreadable, NEW i \in 1..Len(file),
                       NEW k \in 1..Len(file), i < k, file[k] = Job(r)
                PROVE  Answered(file[i])
    BY DEF Answered
  <2>1. todo[r] # <<>> /\ todo[r] \in Seq(Commands) /\ file \in Seq(Commands)
    BY DEF IInv, TypeInv, JobsToDo, Working, TypeOK, FileTypeOK
  <2>2. /\ Len(todo[r]) \in Nat /\ 1 \in 1..Len(todo[r])
        /\ todo[r][1] = Head(todo[r])
        /\ file[i] \in Commands /\ file[k] \in Commands
    BY <2>1
  <2>3. AheadInVault(file[i], file[k]) /\ Contains(todo[r], file[k])
    BY <2>2 DEF AheadInVault, Ahead, Contains, Job
  <2>4. ~Ahead(todo[r], file[i], file[k])
    <3>1. Distinct(todo[r]) /\ file[k] = todo[r][1]
      BY <2>2 DEF OrderInv, Unpushed, Job
    <3>. QED  BY <2>2, <3>1 DEF Ahead, Distinct
  <2>. QED  BY <2>2, <2>3, <2>4 DEF OrderInv, ReplayOrder
<1>2. IInv /\ OrderInv /\ [Next]_vars =>
        [\A r \in Replays :
           Serial /\ pc[r] = "post" /\ pc'[r] = "acked" /\ file # Unreadable =>
             \A i, k \in 1..Len(file) :
               i < k /\ file[k] = Job(r) => file[i] \in applied \cup conflicted]_vars
  BY <1>1
<1>. QED  BY <1>2, InitInv, NextInv, OrderInit, OrderNext, PTL
          DEF Spec, ReplayKeepsOrder
=============================================================================
