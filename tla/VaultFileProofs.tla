--------------------------- MODULE VaultFileProofs ---------------------------
(***************************************************************************)
(* What VaultFile keeps as long as no load-to-write spans overlap, for any *)
(* threads and any data: one thread writes at a time, and what the vault   *)
(* holds, or will hold once the write under way is over, changes only when *)
(* a thread whose copy is fresh begins to write that copy.  The proofs     *)
(* about the modules that extend VaultFile rest on these lemmas.           *)
(***************************************************************************)
EXTENDS VaultFile, TLAPS

\* Whatever a thread does with the vault, the file and the copies stay typed.
LEMMA FileTypesKept ==
  ASSUME NEW Data, DefaultData \in Data, FileTypeOK(Data), NEW t \in Threads,
         \/ \E data \in Data : LoadAndSet(t, data)
         \/ LoadAndLook \/ Truncate(t) \/ Fill(t) \/ ProcessEnds \/ UNCHANGED fileVars
  PROVE  FileTypeOK(Data)'
<1>. USE DEF LoadAndSet, LoadAndLook, Truncate, Fill, ProcessEnds, fileVars
<1>1. overlapped' \in BOOLEAN /\ interrupted' \in BOOLEAN
  <2>1. overlapped \in BOOLEAN /\ interrupted \in BOOLEAN
    BY Zenon DEF FileTypeOK
  <2>2. ASSUME NEW data, LoadAndSet(t, data)
        PROVE  overlapped' \in BOOLEAN /\ interrupted' \in BOOLEAN
    BY <2>1, <2>2, Zenon
  <2>3. CASE LoadAndLook \/ Truncate(t)
    BY <2>1, <2>3, Zenon
  <2>4. CASE Fill(t) \/ UNCHANGED fileVars
    BY <2>1, <2>4, Zenon
  <2>5. CASE ProcessEnds
    BY <2>1, <2>5, Zenon
  <2>. QED  BY <2>2, <2>3, <2>4, <2>5, Zenon
<1>2. copy' \in [Threads -> Data]
  BY DEF FileTypeOK
<1>3. file' \in Data \cup {Unreadable}
  BY DEF FileTypeOK
<1>4. writing' \subseteq Threads /\ fresh' \subseteq Threads
  BY DEF FileTypeOK
<1>. QED  BY <1>1, <1>2, <1>3, <1>4, Zenon DEF FileTypeOK

\* What is in the file, or will be when the thread that writes has filled it.
Vault == IF writing = {} THEN file ELSE copy[CHOOSE t \in writing : TRUE]

\* One thread writes at a time, on a truncated file; nobody's copy is fresh then.
OneAtATime ==
  ~overlapped => /\ \A s, t \in writing : s = t
                 /\ writing # {} => file = Unreadable /\ fresh = {}
                 /\ fresh # {} => file # Unreadable

\* A file that does not open is being written, unless a write was cut short.
CutOrWritten ==
  ~overlapped /\ ~interrupted /\ file = Unreadable => writing # {}

FileInv == OneAtATime /\ CutOrWritten

LEMMA WriterHasVault ==
  ASSUME FileInv, ~overlapped, NEW t \in writing
  PROVE  Vault = copy[t] /\ writing = {t}
<1>1. \A s \in writing : s = t
  BY DEF FileInv, OneAtATime
<1>. QED  BY <1>1 DEF Vault

\* Looking and loading leave the vault as it is, and see all of it.
LEMMA LookedAt ==
  ASSUME LoadAndLook, ~overlapped'
  PROVE  /\ ~overlapped /\ writing = {} /\ Vault = file /\ Vault' = Vault
         /\ UNCHANGED <<file, copy, writing, fresh, interrupted>>
  BY DEF LoadAndLook, Vault

LEMMA Loaded ==
  ASSUME NEW t \in Threads, NEW data, LoadAndSet(t, data), ~overlapped'
  PROVE  /\ ~overlapped /\ writing = {} /\ Vault = file /\ Vault' = Vault
         /\ UNCHANGED <<file, writing, interrupted>>
         /\ fresh' \subseteq fresh \cup {t}
         /\ t \in fresh' => file # Unreadable
  BY DEF LoadAndSet, Vault

\* The copy that is written is fresh: from now on it is what the vault holds.
LEMMA Truncated ==
  ASSUME FileInv, NEW t \in Threads, Truncate(t), ~overlapped'
  PROVE  /\ ~overlapped /\ t \in fresh /\ file # Unreadable
         /\ writing = {} /\ writing' = {t} /\ Vault = file /\ Vault' = copy[t]
         /\ file' = Unreadable /\ fresh' = {} /\ UNCHANGED <<copy, interrupted>>
<1>1. ~overlapped /\ t \in fresh
  BY DEF Truncate
<1>2. file # Unreadable /\ writing = {}
  BY <1>1 DEF FileInv, OneAtATime
<1>3. /\ writing' = {t} /\ file' = Unreadable /\ fresh' = {}
      /\ copy' = copy /\ interrupted' = interrupted
  BY <1>2 DEF Truncate
<1>. QED  BY <1>1, <1>2, <1>3 DEF Vault

LEMMA Filled ==
  ASSUME FileInv, NEW t \in Threads, Fill(t), ~overlapped'
  PROVE  /\ ~overlapped /\ writing = {t} /\ writing' = {} /\ fresh' = {}
         /\ file = Unreadable /\ file' = copy[t]
         /\ Vault = copy[t] /\ Vault' = copy[t]
         /\ UNCHANGED <<copy, interrupted>>
<1>1. ~overlapped /\ t \in writing /\ UNCHANGED <<copy, interrupted>> /\ fresh' = {}
  BY DEF Fill
<1>2. writing = {t} /\ Vault = copy[t]
  BY <1>1, WriterHasVault
<1>3. file = Unreadable /\ file' = copy[t] /\ writing' = {}
  BY <1>1, <1>2 DEF FileInv, OneAtATime, Fill
<1>. QED  BY <1>1, <1>2, <1>3 DEF Vault

\* A process that ends in the middle of no write leaves the vault as it is.
LEMMA Ended ==
  ASSUME ProcessEnds, ~overlapped'
  PROVE  /\ ~overlapped /\ file' = file /\ writing' = {} /\ fresh' = {}
         /\ copy' = [t \in Threads |-> DefaultData]
         /\ ~interrupted' => ~interrupted /\ writing = {} /\ Vault = file
                             /\ Vault' = Vault
  BY DEF ProcessEnds, Vault

LEMMA FileInvKept ==
  ASSUME FileInv, NEW Data, Unreadable \notin Data, copy \in [Threads -> Data],
         NEW t \in Threads,
         \/ LoadAndLook \/ (\E data : LoadAndSet(t, data)) \/ Truncate(t) \/ Fill(t)
         \/ ProcessEnds \/ UNCHANGED <<file, writing, fresh, overlapped, interrupted>>
  PROVE  FileInv'
<1>. SUFFICES ASSUME ~overlapped'
              PROVE  FileInv'
  BY DEF FileInv, OneAtATime, CutOrWritten
<1>. USE DEF FileInv, OneAtATime, CutOrWritten
<1>1. CASE LoadAndLook
  BY <1>1, LookedAt
<1>2. ASSUME NEW data, LoadAndSet(t, data)
      PROVE  FileInv'
  BY <1>2, Loaded DEF LoadAndSet
<1>3. CASE Truncate(t)
  BY <1>3, Truncated
<1>4. CASE Fill(t)
  BY <1>4, Filled
<1>5. CASE ProcessEnds
  <2>1. /\ ~overlapped /\ file' = file /\ writing' = {} /\ fresh' = {}
        /\ ~interrupted' => ~interrupted /\ writing = {}
    BY <1>5, Ended
  <2>. QED  BY <2>1
<1>6. CASE UNCHANGED <<file, writing, fresh, overlapped, interrupted>>
  BY <1>6
<1>. QED  BY <1>1, <1>2, <1>3, <1>4, <1>5, <1>6
=============================================================================
