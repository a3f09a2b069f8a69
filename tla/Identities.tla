----------------------------- MODULE Identities -----------------------------
(***************************************************************************)
(* Who may talk to the broker: the injector's handle, which the app makes  *)
(* for itself whenever it starts (injector.rs), and an agent's, which the  *)
(* user enrolls (handle_enroll, cmd_enroll).  Each has a record in the     *)
(* vault, a secret in the keychain of the program it is for, and a small   *)
(* file that tells this program which handle is its own.  The three are    *)
(* written one after the other, by up to two programs, and the app may     *)
(* close, a write fail or a tool be killed between any two of them.        *)
(***************************************************************************)
EXTENDS VaultFile, FiniteSets

CONSTANTS
  Ids,        \* handle ids, drawn at random and never twice
  Setup,      \* the app's setup hook
  Agent,      \* the connection of the agent's command-line tool
  Desk,       \* the user's commands in the window
  NoId,
  MaxStarts   \* bound on how often the app is started

ASSUME IdentitiesAssumption ==
  /\ Threads = {Setup, Agent, Desk}
  /\ Setup # Agent /\ Setup # Desk /\ Agent # Desk
  /\ DefaultData = [handles |-> {}]
  /\ NoId \notin Ids
  /\ MaxStarts \in Nat

VARIABLES
  hook,       \* how far the app's start is: "down", the steps of provision, "up"
  own,        \* the id that the start is about
  call,       \* how far the tool is with enroll or forget
  desk,       \* how far the window is with revoking a handle
  drawn,      \* the id that the enrollment is about
  hostKeys,   \* the secrets in the keychain, under the injector's name
  agentKeys,  \* those under the agent's
  sidecar,    \* what injector.json names, NoId when it does not parse
  config,     \* what agent.json names
  hostId,     \* the handle that a running injector host uses
  starts,
  failed,     \* history: a step of this start has failed
  cut         \* history: the tool was killed inside forget

identVars == <<fileVars, hook, own, call, desk, drawn, hostKeys, agentKeys, sidecar,
               config, hostId, starts, failed, cut>>
toolVars == <<call, drawn, agentKeys, config, cut>>
hookVars == <<hook, own, hostKeys, sidecar, starts, failed>>

Handles == [id : Ids, injector : BOOLEAN, revoked : BOOLEAN]
Data == [handles : SUBSET Handles]

ASSUME DataAssumption == Unreadable \notin Data

IdentTypeOK ==
  /\ FileTypeOK(Data)
  /\ hook \in {"down", "ensure", "keychain", "write", "fill", "sidecar", "up"}
  /\ own \in Ids \cup {NoId} /\ drawn \in Ids \cup {NoId}
  /\ call \in {"idle", "prompt", "write", "fill", "reply", "config", "forget"}
  /\ desk \in {"idle", "write", "fill"}
  /\ hostKeys \subseteq Ids /\ agentKeys \subseteq Ids
  /\ sidecar \in Ids \cup {NoId} /\ config \in Ids \cup {NoId}
  /\ hostId \in Ids \cup {NoId}
  /\ starts \in 0..MaxStarts
  /\ failed \in BOOLEAN /\ cut \in BOOLEAN

\* A vault that was never written is read as an empty one, like this file.
IdentInit ==
  /\ FileInit(DefaultData)
  /\ hook = "down" /\ own = NoId
  /\ call = "idle" /\ drawn = NoId /\ desk = "idle"
  /\ hostKeys = {} /\ agentKeys = {}
  /\ sidecar = NoId /\ config = NoId /\ hostId = NoId
  /\ starts = 0 /\ failed = FALSE /\ cut = FALSE

\* new_handle_id: an id nothing has ever been called by.
FreshId(id) ==
  /\ id \notin hostKeys \cup agentKeys \cup {own, drawn, sidecar, config, hostId}
  /\ \A data \in {LoadVault} \cup {copy[t] : t \in Threads} :
       \A h \in data.handles : h.id # id

\* What t writes is what it has loaded, with other handles.
SetHandles(t, handles) == LoadAndSet(t, [LoadVault EXCEPT !.handles = handles])

Push(t, id, injector) ==
  SetHandles(t, LoadVault.handles \cup
                  {[id |-> id, injector |-> injector, revoked |-> FALSE]})
\* enroll is over, one way or the other.
ToolEnds == call' = "idle" /\ drawn' = NoId
-----------------------------------------------------------------------------
(* The start of the app: provision, then the broker and the window. *)

AppStarts ==
  /\ hook = "down" /\ starts < MaxStarts
  /\ starts' = starts + 1
  /\ hook' = "ensure"
  /\ failed' = FALSE
  /\ UNCHANGED <<fileVars, own, desk, toolVars, hostKeys, sidecar, hostId>>

\* Mutant of Injectors: any handle will do.
AnyHandles(data) == data.handles

\* is_injector; a revoked handle counts.
Injectors(data) == {h \in data.handles : h.injector}

\* ensure_handle: the handle of an earlier start, or the id of a new one.
EnsureHandle ==
  /\ hook = "ensure"
  /\ LET found == Injectors(LoadVault) IN
       \/ /\ \E h \in found : own' = h.id
          /\ hook' = "sidecar"
          /\ LoadAndLook
       \/ /\ found = {}
          /\ \E id \in Ids :
               /\ FreshId(id)
               /\ own' = id
               /\ Push(Setup, id, TRUE)
          /\ hook' = "keychain"
  /\ UNCHANGED <<desk, toolVars, hostKeys, sidecar, hostId, starts, failed>>

\* A step that fails ends ensure_handle and with it provision.
GiveUp ==
  /\ hook' = "up" /\ own' = NoId
  /\ failed' = TRUE

\* entry.set_password, "before persisting the handle"
StoreSecret ==
  /\ hook = "keychain"
  /\ \/ /\ hostKeys' = hostKeys \cup {own}
        /\ hook' = "write"
        /\ UNCHANGED <<own, failed>>
     \/ GiveUp /\ UNCHANGED hostKeys
  /\ UNCHANGED <<fileVars, desk, toolVars, sidecar, hostId, starts>>

PersistHandle ==
  /\ \/ /\ hook = "write"
        /\ \/ Truncate(Setup) /\ hook' = "fill" /\ UNCHANGED <<own, failed>>
           \/ GiveUp /\ UNCHANGED fileVars
     \/ /\ hook = "fill"
        /\ Fill(Setup)
        /\ hook' = "sidecar"
        /\ UNCHANGED <<own, failed>>
  /\ UNCHANGED <<desk, toolVars, hostKeys, sidecar, hostId, starts>>

\* write_sidecar; what the host is started by does not matter here.
WriteSidecar ==
  /\ hook = "sidecar"
  /\ \/ sidecar' = own /\ hook' = "up" /\ own' = NoId /\ UNCHANGED failed
     \/ sidecar' \in {sidecar, NoId} /\ GiveUp
  /\ UNCHANGED <<fileVars, desk, toolVars, hostKeys, hostId, starts>>

\* The app ends: its threads and connections are gone.  An answer that was on
\* its way to the tool may still get there.
AppEnds ==
  /\ hook # "down"
  /\ ProcessEnds
  /\ hook' = "down" /\ own' = NoId
  /\ hostId' = NoId /\ desk' = "idle"
  /\ \/ call \in {"prompt", "write", "fill", "reply"} /\ ToolEnds
     \/ call \in {"idle", "reply", "config", "forget"} /\ UNCHANGED <<call, drawn>>
  /\ UNCHANGED <<hostKeys, agentKeys, sidecar, config, starts, failed, cut>>
-----------------------------------------------------------------------------
(* The agent's tool. *)

CallStep(from, to) ==
  /\ call = from
  /\ call' = to

\* cmd_enroll sends the request, which waits for the user.
Enroll ==
  /\ hook = "up"
  /\ CallStep("idle", "prompt")
  /\ UNCHANGED <<fileVars, hookVars, desk, drawn, agentKeys, config, hostId, cut>>

\* handle_enroll, once the user has answered, or the time is up.
HandleEnroll ==
  /\ \/ call = "prompt" /\ ToolEnds /\ UNCHANGED fileVars
     \/ /\ CallStep("prompt", "write")
        /\ \E id \in Ids :
             /\ FreshId(id)
             /\ drawn' = id
             /\ Push(Agent, id, FALSE)
     \/ CallStep("write", "fill") /\ Truncate(Agent) /\ UNCHANGED drawn
     \/ call = "write" /\ ToolEnds /\ UNCHANGED fileVars
     \/ CallStep("fill", "reply") /\ Fill(Agent) /\ UNCHANGED drawn
  /\ UNCHANGED <<hookVars, desk, agentKeys, config, hostId, cut>>

\* save_handle: the secret, then the config file; either may fail.
SaveHandle ==
  /\ \/ /\ CallStep("reply", "config")
        /\ agentKeys' = agentKeys \cup {drawn}
        /\ UNCHANGED <<drawn, config>>
     \/ /\ call = "config" /\ ToolEnds
        /\ config' = drawn
        /\ UNCHANGED agentKeys
     \/ /\ call \in {"reply", "config"} /\ ToolEnds
        /\ UNCHANGED <<agentKeys, config>>
  /\ UNCHANGED <<fileVars, hookVars, desk, hostId, cut>>

\* forget: the secret, if the keychain gives it away, then the config file.
Forget ==
  /\ \/ /\ config # NoId
        /\ CallStep("idle", "forget")
        /\ agentKeys' \in {agentKeys \ {config}, agentKeys}
        /\ UNCHANGED <<config, cut>>
     \/ /\ CallStep("forget", "idle")
        /\ \/ config' = NoId /\ UNCHANGED cut
           \/ cut' = TRUE /\ UNCHANGED config
        /\ UNCHANGED agentKeys
  /\ UNCHANGED <<fileVars, hookVars, desk, drawn, hostId>>
-----------------------------------------------------------------------------
(* The window, and the injector host. *)

\* agent_revoke_handle, for a handle that agent_list_handles shows.
Revoke ==
  /\ hook = "up"
  /\ \/ /\ desk = "idle" /\ desk' = "write"
        /\ \E h \in LoadVault.handles :
             /\ ~h.revoked
             /\ SetHandles(Desk, (LoadVault.handles \ {h}) \cup {[h EXCEPT !.revoked = TRUE]})
     \/ desk = "write" /\ desk' = "fill" /\ Truncate(Desk)
     \/ desk = "fill" /\ desk' = "idle" /\ Fill(Desk)
  /\ UNCHANGED <<hookVars, toolVars, hostId>>

\* store::handle_id, store::secret_for, Broker::connect and hello
HostStarts ==
  /\ hostId = NoId /\ hook = "up"
  /\ sidecar \in hostKeys
  /\ hostId' = sidecar
  /\ UNCHANGED <<fileVars, hookVars, desk, toolVars>>

\* handle_await_job: authed_handle with the proof of HELLO; an error of the
\* broker ends the host.
HostPolls ==
  /\ hostId # NoId /\ hook = "up"
  /\ IF \E h \in Injectors(LoadVault) : h.id = hostId /\ ~h.revoked
       THEN UNCHANGED hostId
       ELSE hostId' = NoId
  /\ LoadAndLook
  /\ UNCHANGED <<hookVars, desk, toolVars>>

IdentNext ==
  \/ AppStarts \/ EnsureHandle \/ StoreSecret \/ PersistHandle \/ WriteSidecar \/ AppEnds
  \/ Enroll \/ HandleEnroll \/ SaveHandle \/ Forget
  \/ Revoke \/ HostStarts \/ HostPolls

IdentSpec == IdentInit /\ [][IdentNext]_identVars
-----------------------------------------------------------------------------
(* Property. *)

\* Whoever is told to be somebody can prove it.  The vault never keeps a handle
\* for the injector "whose secret we can't recover", whatever was cut short.  An
\* app that is up, no step of whose start failed, has told the host of a handle
\* that is in the vault and whose secret the host has: a start makes good what
\* earlier ones left half done.  And the agent has the secret of the handle its
\* config names, unless the tool was killed inside forget.
HolderCanProve ==
  /\ \A h \in Injectors(LoadVault) : h.id \in hostKeys
  /\ hook = "up" /\ ~failed /\ file # Unreadable /\ ~overlapped =>
       sidecar \in hostKeys /\ \E h \in Injectors(file) : h.id = sidecar
  /\ config # NoId => config \in agentKeys \/ call = "forget" \/ cut
=============================================================================
