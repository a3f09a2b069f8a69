------------------------------ MODULE VaultFile ------------------------------
(***************************************************************************)
(* vault.json as every part of the app uses it: load_vault, change the     *)
(* whole VaultData in memory, write_vault.  No lock is held from the load  *)
(* to the write, and fs::write truncates the file before it writes, so a   *)
(* thread may load the file while another is between the two.  A file that *)
(* does not open is as good as none: load_vault().unwrap_or_default().     *)
(*                                                                         *)
(* The module says what a load and the two halves of a write do; what a    *)
(* thread changes in its copy is for the modules that extend it.           *)
(***************************************************************************)
EXTENDS Naturals

CONSTANTS
  Threads,      \* whatever runs in the app's process and uses the vault
  DefaultData,  \* VaultData::default()
  Unreadable    \* a truncated, torn or missing file

VARIABLES
  file,         \* the data in vault.json, or Unreadable
  copy,         \* the VaultData a thread has in memory
  writing,      \* the threads between truncating the file and filling it
  fresh,        \* history: the threads whose copy is of the file's last version
  overlapped,   \* history: a thread wrote back a copy that was not fresh, or
                \* loaded the file while another was writing it
  interrupted   \* history: the process ended between truncating and filling

fileVars == <<file, copy, writing, fresh, overlapped, interrupted>>

FileTypeOK(Data) ==
  /\ file \in Data \cup {Unreadable}
  /\ copy \in [Threads -> Data]
  /\ writing \subseteq Threads
  /\ fresh \subseteq Threads
  /\ overlapped \in BOOLEAN
  /\ interrupted \in BOOLEAN

FileInit(data) ==
  /\ file = data
  /\ copy = [t \in Threads |-> DefaultData]
  /\ writing = {}
  /\ fresh = {}
  /\ overlapped = FALSE
  /\ interrupted = FALSE

\* load_vault().unwrap_or_default()
LoadVault == IF file = Unreadable THEN DefaultData ELSE file

\* t loads the vault and changes its copy to data.
LoadAndSet(t, data) ==
  /\ copy' = [copy EXCEPT ![t] = data]
  /\ fresh' = IF file = Unreadable THEN fresh \ {t} ELSE fresh \cup {t}
  /\ overlapped' = (overlapped \/ writing # {})
  /\ UNCHANGED <<file, writing, interrupted>>

\* t loads the vault only to look at it.
LoadAndLook ==
  /\ overlapped' = (overlapped \/ writing # {})
  /\ UNCHANGED <<file, copy, writing, fresh, interrupted>>

\* write_vault, first half: fs::write opens the file and truncates it.
Truncate(t) ==
  /\ t \notin writing
  /\ file' = Unreadable
  /\ writing' = writing \cup {t}
  /\ fresh' = {}
  /\ overlapped' = (overlapped \/ t \notin fresh)
  /\ UNCHANGED <<copy, interrupted>>

\* write_vault, second half.  When another thread filled the file meanwhile,
\* the longer of the two texts may stick out and the file no longer opens.
Fill(t) ==
  /\ t \in writing
  /\ \/ file' = copy[t]
     \/ file # Unreadable /\ file' = Unreadable
  /\ writing' = writing \ {t}
  /\ fresh' = {}
  /\ UNCHANGED <<copy, overlapped, interrupted>>

\* The process ends: copies are gone, the file stays as it is.
ProcessEnds ==
  /\ copy' = [t \in Threads |-> DefaultData]
  /\ writing' = {}
  /\ fresh' = {}
  /\ interrupted' = (interrupted \/ writing # {})
  /\ UNCHANGED <<file, overlapped>>
=============================================================================
