------------------------------- MODULE Access -------------------------------
(***************************************************************************)
(* What agents may do with the vault (broker.rs and the Agents panel's     *)
(* commands in lib.rs): handles, the grants issued to them by the user, by *)
(* a policy or ahead of time, their redemption, and their revocation, all  *)
(* kept in the vault file by calls that run at the same time.              *)
(*                                                                         *)
(* The vault file is VaultFile's, and a fill or a grab by the injector is  *)
(* what InjectPromise says of it: a job and its call share a name.         *)
(***************************************************************************)
EXTENDS VaultFile, InjectPromise, FiniteSets

CONSTANTS
  Calls,       \* requests to the broker and commands of the Agents panel
  Handles,
  Enrolled,    \* the handles the vault holds to begin with
  Things,      \* vault items and sets of origins
  Asks,        \* what agents and the user ask for
  Policy,      \* HandlePolicy: the things and actions allowed with no prompt
  Answers,     \* what the user chooses in an approval popup
  NoAnswer,
  MaxRestarts  \* bound on restarts of the app

Actions == {"reveal", "use", "session"}
Kinds == {"enroll", "request", "redeem", "precreate", "revoke_grant",
          "revoke_handle", "other"}
Ask == [kind : Kinds, handle : Handles, thing : Things, action : Actions]
Answer == [approved : BOOLEAN, uses : Nat]

\* A grant is named after the call it was issued to.  When it expires is left
\* open.
Grant == [id : Calls, handle : Handles, thing : Things, action : Actions,
          uses : Nat]
VaultData == [present : SUBSET Handles, revoked : SUBSET Handles,
              grants : SUBSET Grant, log : SUBSET Calls]

ASSUME AccessAssumption ==
  /\ Threads = Calls /\ Jobs = Calls
  /\ Enrolled \subseteq Handles
  /\ Asks \subseteq Ask /\ NoAnswer \notin Asks
  /\ Policy \in [Handles -> SUBSET (Things \X Actions)]
  /\ Answers \subseteq Answer /\ NoAnswer \notin Answer
  /\ DefaultData = [present |-> {}, revoked |-> {}, grants |-> {}, log |-> {}]
  /\ Unreadable \notin VaultData
  /\ MaxRestarts \in Nat

VARIABLES
  pc,
  ask,       \* what a call asks for
  target,    \* the grant a redeem or a revocation is about
  pending,   \* BrokerHandle::pending: the calls whose popup can be answered
  response,  \* what the user answered
  reply,     \* what a call will answer, as soon as that is settled
  expired,   \* the grants whose expires_unix has passed
  restarts,
  issued     \* history: the grants as they were when first written

callVars == <<ask, target, pending, response>>
vars == <<fileVars, promiseVars, pc, callVars, reply, expired, restarts, issued>>

\* Waiting to write the vault back.
Saving == {"touching", "minting", "spending", "logging", "saving"}
PC == {"idle", "asked", "authed", "prompting", "unregister", "mint", "opened",
       "perform", "waiting", "spend", "unlogged", "done", "dead"} \cup Saving
Replies == {"none", "ok", "grant", "timedout", "error"}

TypeOK ==
  /\ FileTypeOK(VaultData)
  /\ answer \in [Calls -> {"none", "ok", "error"}] /\ acted \in [Calls -> {0, 1}]
  /\ pc \in [Calls -> PC]
  /\ ask \in [Calls -> Asks \cup {NoAnswer}]
  /\ target \in [Calls -> Calls]
  /\ pending \subseteq Calls
  /\ response \in [Calls -> Answer \cup {NoAnswer}]
  /\ reply \in [Calls -> Replies]
  /\ expired \subseteq Calls
  /\ restarts \in 0..MaxRestarts
  /\ issued \subseteq Grant

Init ==
  /\ FileInit([DefaultData EXCEPT !.present = Enrolled])
  /\ PromiseInit
  /\ pc = [c \in Calls |-> "idle"]
  /\ ask = [c \in Calls |-> NoAnswer]
  /\ target = [c \in Calls |-> c]
  /\ pending = {}
  /\ response = [c \in Calls |-> NoAnswer]
  /\ reply = [c \in Calls |-> "none"]
  /\ expired = {}
  /\ restarts = 0
  /\ issued = {}

Goto(c, from, to) ==
  /\ pc[c] = from
  /\ pc' = [pc EXCEPT ![c] = to]

\* The call is over, but for what it may have to log.
Settle(c, from, to, r) ==
  /\ Goto(c, from, to)
  /\ reply' = [reply EXCEPT ![c] = r]

\* A call of some kind is made: ask'[c] is what it asks for.
Begin(c, kind, to) ==
  /\ Goto(c, "idle", to)
  /\ \E a \in Asks : a.kind = kind /\ ask' = [ask EXCEPT ![c] = a]

Active(data, h) == h \in data.present \ data.revoked
Live(g) == g.uses > 0 /\ g.id \notin expired
Named(data, id) == {g \in data.grants : g.id = id}

\* Mutant of Spend: the last use is not taken off.
SpendAllButOne(data, id) ==
  [data EXCEPT !.grants =
     {g \in @ : g.id # id \/ g.uses = 1}
       \cup {[g EXCEPT !.uses = @ - 1] : g \in {g \in Named(data, id) : g.uses > 1}}]

\* GrantRecord::consume, and an exhausted grant is removed.
Spend(data, id) ==
  [data EXCEPT !.grants =
     (@ \ Named(data, id))
       \cup {[g EXCEPT !.uses = @ - 1] : g \in {g \in Named(data, id) : g.uses > 1}}]

\* mint_grant_scoped; a use count of 0 stands for 1.
Mint(c, a, answered) ==
  [id |-> c, handle |-> a.handle, thing |-> a.thing, action |-> a.action,
   uses |-> IF answered.uses = 0 THEN 1 ELSE answered.uses]

AddGrant(data, g) == [data EXCEPT !.grants = @ \cup {g}]
-----------------------------------------------------------------------------
(* REQUEST: handle_request and handle_session_request. *)

\* The handle is unknown or revoked, the vault is locked, or the item does not
\* resolve to one thing.
RefuseRequest(c) ==
  /\ Begin(c, "request", "done")
  /\ reply' = [reply EXCEPT ![c] = "error"]
  /\ LoadAndLook
  /\ UNCHANGED <<promiseVars, target, pending, response, expired, restarts, issued>>

Request(c) ==
  /\ Begin(c, "request", "asked")
  /\ Active(LoadVault, ask'[c].handle)
  /\ LoadAndLook
  /\ UNCHANGED <<promiseVars, target, pending, response, reply, expired, restarts,
                 issued>>

\* touch_handle_last_used writes the vault if the handle is still there.
Touch(c) ==
  /\ pc[c] = "asked"
  /\ IF ask[c].handle \in LoadVault.present
       THEN Goto(c, "asked", "touching") /\ LoadAndSet(c, LoadVault)
       ELSE Goto(c, "asked", "authed") /\ LoadAndLook
  /\ UNCHANGED <<promiseVars, callVars, reply, expired, restarts, issued>>

\* decide: a live grant of the handle covers the request.
Matching(c) ==
  {g \in LoadVault.grants : /\ g.handle = ask[c].handle /\ Live(g)
                            /\ g.thing = ask[c].thing /\ g.action = ask[c].action}
Permitted(c) == <<ask[c].thing, ask[c].action>> \in Policy[ask[c].handle]

\* Mutant of MatchGrant: no audit when nothing was minted.
MatchQuietly(c) ==
  /\ Settle(c, "authed", "done", "grant")
  /\ ask[c].action # "session"
  /\ Matching(c) # {}
  /\ LoadAndLook
  /\ UNCHANGED <<promiseVars, callVars, expired, restarts, issued>>

MatchGrant(c) ==
  /\ Settle(c, "authed", "unlogged", "grant")
  /\ ask[c].action # "session"
  /\ Matching(c) # {}
  /\ LoadAndLook
  /\ UNCHANGED <<promiseVars, callVars, expired, restarts, issued>>

AutoApprove(c) ==
  /\ Goto(c, "authed", "mint")
  /\ ask[c].action # "session"
  /\ Matching(c) = {} /\ Permitted(c)
  /\ response' = [response EXCEPT ![c] = [approved |-> TRUE, uses |-> 1]]
  /\ LoadAndLook
  /\ UNCHANGED <<promiseVars, ask, target, pending, reply, expired, restarts, issued>>

\* prompt_user registers the request and raises the popup.
Prompt(c) ==
  /\ Goto(c, "authed", "prompting")
  /\ IF ask[c].action = "session"
       THEN UNCHANGED fileVars
       ELSE Matching(c) = {} /\ ~Permitted(c) /\ LoadAndLook
  /\ pending' = pending \cup {c}
  /\ UNCHANGED <<promiseVars, ask, target, response, reply, expired, restarts, issued>>
-----------------------------------------------------------------------------
(* The approval popup: prompt_user and agent_respond. *)

\* agent_respond finds the request pending, however late it is.
Respond(c, answered) ==
  /\ c \in pending
  /\ pending' = pending \ {c}
  /\ response' = [response EXCEPT ![c] = answered]
  /\ UNCHANGED <<fileVars, promiseVars, pc, ask, target, reply, expired, restarts,
                 issued>>

\* Mutant of Approved: any answer will do.
Answered(c) ==
  /\ Goto(c, "prompting", "mint")
  /\ response[c] # NoAnswer
  /\ UNCHANGED <<fileVars, promiseVars, callVars, reply, expired, restarts, issued>>

\* The user allows it.
Approved(c) ==
  /\ Goto(c, "prompting", "mint")
  /\ response[c] # NoAnswer /\ response[c].approved
  /\ UNCHANGED <<fileVars, promiseVars, callVars, reply, expired, restarts, issued>>

\* A refused request is logged, a refused enrolment is not.
Denied(c) ==
  /\ response[c] # NoAnswer /\ ~response[c].approved
  /\ Settle(c, "prompting", IF ask[c].kind = "enroll" THEN "done" ELSE "unlogged",
            "error")
  /\ UNCHANGED <<fileVars, promiseVars, callVars, expired, restarts, issued>>

\* APPROVAL_TIMEOUT_SECS have passed and nothing is in the channel.
PromptTimesOut(c) ==
  /\ Goto(c, "prompting", "unregister")
  /\ response[c] = NoAnswer
  /\ UNCHANGED <<fileVars, promiseVars, callVars, reply, expired, restarts, issued>>

\* An answer may have come since: nobody reads it.
Unregister(c) ==
  /\ Settle(c, "unregister", "done", "error")
  /\ pending' = pending \ {c}
  /\ UNCHANGED <<fileVars, promiseVars, ask, target, response, expired, restarts,
                 issued>>

\* The grant or the new handle goes into the vault as it is by now.
LoadAndMint(c) ==
  /\ Goto(c, "mint", "minting")
  /\ LoadAndSet(c, IF ask[c].kind = "enroll"
                     THEN [LoadVault EXCEPT !.present = @ \cup {ask[c].handle}]
                     ELSE AddGrant(LoadVault, Mint(c, ask[c], response[c])))
  /\ UNCHANGED <<promiseVars, callVars, reply, expired, restarts, issued>>

\* audit: one more load and write of the whole vault.
Audit(c) ==
  /\ Goto(c, "unlogged", "logging")
  /\ LoadAndSet(c, [LoadVault EXCEPT !.log = @ \cup {c}])
  /\ UNCHANGED <<promiseVars, callVars, reply, expired, restarts, issued>>
-----------------------------------------------------------------------------
(* CONSUME, PERFORM and GRAB_SESSION. *)

\* The grant is in the vault, live, and for this action.
Redeemable(a, id) ==
  \E g \in Named(LoadVault, id) : g.action = a.action /\ Live(g)

\* Load the vault and keep it for the whole call.
OpenGrant(c, id) ==
  /\ Begin(c, "redeem", "opened")
  /\ target' = [target EXCEPT ![c] = id]
  /\ Redeemable(ask'[c], id)
  /\ LoadAndSet(c, LoadVault)
  /\ UNCHANGED <<promiseVars, pending, response, reply, expired, restarts, issued>>

RefuseRedeem(c, id) ==
  /\ Begin(c, "redeem", "done")
  /\ reply' = [reply EXCEPT ![c] = "error"]
  /\ target' = [target EXCEPT ![c] = id]
  /\ ~Redeemable(ask'[c], id)
  /\ LoadAndLook
  /\ UNCHANGED <<promiseVars, pending, response, expired, restarts, issued>>

\* authed_handle loads the vault anew: the grant's owner is active and makes
\* the call.
Owner(c) == \A g \in Named(copy[c], target[c]) :
              g.handle = ask[c].handle /\ Active(LoadVault, g.handle)

Authenticate(c) ==
  /\ Goto(c, "opened", IF ask[c].action = "reveal" THEN "spend" ELSE "perform")
  /\ Owner(c)
  /\ LoadAndLook
  /\ UNCHANGED <<promiseVars, callVars, reply, expired, restarts, issued>>

\* Not the owner or no more active; or the vault is locked, or the item gone,
\* which a session grab does not look at.
FailToAuthenticate(c) ==
  /\ Settle(c, "opened", "done", "error")
  /\ Owner(c) => ask[c].action # "session"
  /\ LoadAndLook
  /\ UNCHANGED <<promiseVars, callVars, expired, restarts, issued>>

\* dispatch_inject; the clipboard is a browser that answers at once.
Dispatch(c) ==
  /\ Goto(c, "perform", "waiting")
  /\ UNCHANGED <<fileVars, promiseVars, callVars, reply, expired, restarts, issued>>

\* The browser does the job while it is waited for, or after that was given up.
BrowserActs(c) ==
  /\ pc[c] = "waiting" \/ reply[c] = "timedout"
  /\ Act(c)
  /\ UNCHANGED <<fileVars, pc, callVars, reply, expired, restarts, issued>>

Performed(c) ==
  /\ Goto(c, "waiting", "spend")
  /\ Succeed(c)
  /\ UNCHANGED <<fileVars, callVars, reply, expired, restarts, issued>>

\* No injector, a target of another origin, or the injector reports a failure:
\* the grant keeps its uses.
PerformFails(c) ==
  /\ \/ Settle(c, "perform", "unlogged", "error")
     \/ Settle(c, "waiting", "unlogged", "error")
  /\ Fail(c)
  /\ UNCHANGED <<fileVars, callVars, expired, restarts, issued>>

\* INJECT_TIMEOUT_SECS have passed.  A grab that timed out is not logged.
PerformTimesOut(c) ==
  /\ Settle(c, "waiting", IF ask[c].action = "use" THEN "unlogged" ELSE "done",
            "timedout")
  /\ Fail(c)
  /\ UNCHANGED <<fileVars, callVars, expired, restarts, issued>>

\* One use is taken off in the copy loaded when the call began.
Consume(c) ==
  /\ Goto(c, "spend", "spending")
  /\ copy' = [copy EXCEPT ![c] = Spend(@, target[c])]
  /\ UNCHANGED <<file, writing, fresh, overlapped, interrupted, promiseVars,
                 callVars, reply, expired, restarts, issued>>
-----------------------------------------------------------------------------
(* Enrolment, the commands of the Agents panel, and other writers. *)

Enroll(c) ==
  /\ Begin(c, "enroll", "prompting")
  /\ \A d \in Calls : pc[d] # "idle" /\ ask[d].kind = "enroll" =>
                        ask[d].handle # ask'[c].handle
  /\ ask'[c].handle \notin Enrolled
  /\ pending' = pending \cup {c}
  /\ UNCHANGED <<fileVars, promiseVars, target, response, reply, expired, restarts,
                 issued>>

\* agent_precreate_grant, for an active handle and something that resolves; it
\* does nothing otherwise.
Precreate(c, answered) ==
  /\ Begin(c, "precreate", "saving")
  /\ ask'[c].action # "session" /\ answered.approved
  /\ Active(LoadVault, ask'[c].handle)
  /\ response' = [response EXCEPT ![c] = answered]
  /\ LoadAndSet(c, [AddGrant(LoadVault, Mint(c, ask'[c], answered))
                      EXCEPT !.log = @ \cup {c}])
  /\ UNCHANGED <<promiseVars, target, pending, reply, expired, restarts, issued>>

\* agent_revoke_grant: the panel names a grant it was shown.
RevokeGrant(c, id) ==
  /\ Begin(c, "revoke_grant", "saving")
  /\ target' = [target EXCEPT ![c] = id]
  /\ LoadAndSet(c, [LoadVault EXCEPT !.grants = @ \ Named(LoadVault, id)])
  /\ UNCHANGED <<promiseVars, pending, response, reply, expired, restarts, issued>>

\* The handles the panel may have been shown: those there are from the start,
\* and those that were enrolled.
Listed ==
  Enrolled \cup {ask[d].handle : d \in {d \in Calls : /\ ask[d] # NoAnswer
                                                   /\ ask[d].kind = "enroll"
                                                   /\ reply[d] = "grant"}}

\* Mutant of RevokeHandle: the grants go, the handle stays active.
KeepHandle(c) ==
  /\ Begin(c, "revoke_handle", "saving")
  /\ ask'[c].handle \in Listed
  /\ LoadAndSet(c, [LoadVault EXCEPT
       !.grants = {g \in @ : g.handle # ask'[c].handle},
       !.log = @ \cup {c}])
  /\ UNCHANGED <<promiseVars, target, pending, response, reply, expired, restarts,
                 issued>>

\* agent_revoke_handle drops the grants as well.
RevokeHandle(c) ==
  /\ Begin(c, "revoke_handle", "saving")
  /\ ask'[c].handle \in Listed
  /\ LoadAndSet(c, [LoadVault EXCEPT
       !.revoked = @ \cup ({ask'[c].handle} \cap LoadVault.present),
       !.grants = {g \in @ : g.handle # ask'[c].handle},
       !.log = @ \cup {c}])
  /\ UNCHANGED <<promiseVars, target, pending, response, reply, expired, restarts,
                 issued>>

\* Mutant of LoadOther: no unwrap_or_default.
LoadRaw(c) ==
  /\ Begin(c, "other", "saving")
  /\ LoadAndSet(c, file)
  /\ UNCHANGED <<promiseVars, target, pending, response, reply, expired, restarts,
                 issued>>

\* The outbox, a sync, a favourite: another section of the vault changes.
LoadOther(c) ==
  /\ Begin(c, "other", "saving")
  /\ LoadAndSet(c, LoadVault)
  /\ UNCHANGED <<promiseVars, target, pending, response, reply, expired, restarts,
                 issued>>
-----------------------------------------------------------------------------
(* Every write of the vault. *)

BeginWrite(c) ==
  /\ pc[c] \in Saving
  /\ Truncate(c)
  /\ UNCHANGED <<promiseVars, pc, callVars, reply, expired, restarts, issued>>

AfterWrite(c) ==
  CASE pc[c] = "touching" -> "authed"
    [] pc[c] \in {"minting", "spending"} -> "unlogged"
    [] OTHER -> "done"

Settled(c) ==
  CASE pc[c] = "minting" -> "grant"
    [] pc[c] \in {"spending", "saving"} -> "ok"
    [] OTHER -> reply[c]

EndWrite(c) ==
  /\ pc[c] \in Saving
  /\ Fill(c)
  /\ pc' = [pc EXCEPT ![c] = AfterWrite(c)]
  /\ reply' = [reply EXCEPT ![c] = Settled(c)]
  /\ issued' = IF pc[c] \in {"minting", "saving"}
                 THEN issued \cup Named(copy[c], c) ELSE issued
  /\ UNCHANGED <<promiseVars, callVars, expired, restarts>>

\* The time of a grant runs out.
Expire(id) ==
  /\ id \in {g.id : g \in issued} \ expired
  /\ expired' = expired \cup {id}
  /\ UNCHANGED <<fileVars, promiseVars, pc, callVars, reply, restarts, issued>>

\* The app is closed and started again; a host may still hold a job.
Restart ==
  /\ restarts < MaxRestarts
  /\ restarts' = restarts + 1
  /\ ProcessEnds
  /\ pc' = [c \in Calls |-> IF pc[c] \in {"idle", "done"} THEN pc[c] ELSE "dead"]
  /\ reply' = [c \in Calls |-> IF pc[c] = "waiting" THEN "timedout" ELSE reply[c]]
  /\ pending' = {}
  /\ UNCHANGED <<promiseVars, ask, target, response, expired, issued>>
-----------------------------------------------------------------------------
Known == {g.id : g \in issued}

Start(c) ==
  \/ RefuseRequest(c) \/ Request(c) \/ Enroll(c)
  \/ \E id \in Known : OpenGrant(c, id) \/ RefuseRedeem(c, id) \/ RevokeGrant(c, id)
  \/ \E answered \in Answers : Precreate(c, answered)
  \/ RevokeHandle(c) \/ LoadOther(c)

Continue(c) ==
  \/ Touch(c) \/ MatchGrant(c) \/ AutoApprove(c) \/ Prompt(c)
  \/ Approved(c) \/ Denied(c) \/ PromptTimesOut(c) \/ Unregister(c)
  \/ LoadAndMint(c) \/ Audit(c)
  \/ Authenticate(c) \/ FailToAuthenticate(c)
  \/ Dispatch(c) \/ Performed(c) \/ PerformFails(c) \/ PerformTimesOut(c)
  \/ Consume(c) \/ BeginWrite(c) \/ EndWrite(c)

Next ==
  \/ \E c \in Calls : Start(c) \/ Continue(c) \/ BrowserActs(c)
  \/ \E c \in Calls, answered \in Answers : Respond(c, answered)
  \/ \E id \in Calls : Expire(id)
  \/ Restart

Spec == Init /\ [][Next]_vars
-----------------------------------------------------------------------------
(* Properties. *)

Serial == ~overlapped /\ ~interrupted
Intact == Serial /\ file # Unreadable

Of(kind) == {c \in Calls : pc[c] # "idle" /\ ask[c].kind = kind}

\* The redemptions of a grant that took a use off it.
Uses(id) == {c \in Of("redeem") : target[c] = id /\ reply[c] = "ok"}

\* The user revoked the grant, or its handle.
Revoked(g) ==
  \/ \E c \in Of("revoke_grant") : target[c] = g.id /\ reply[c] = "ok"
  \/ \E c \in Of("revoke_handle") : ask[c].handle = g.handle /\ reply[c] = "ok"

\* Every use is accounted for: what is left of a grant in the vault is what was
\* issued less the redemptions that succeeded, until it is revoked; and
\* a revocation adds nothing.  So it is used no more often than it was issued
\* for, and nothing but its use or its revocation takes it away.
UsesAccounted ==
  Intact => \A g \in issued :
    LET left == {h.uses : h \in Named(file, g.id)}
        due == g.uses - Cardinality(Uses(g.id))
    IN  /\ due >= 0
        /\ left \subseteq {due}
        /\ left = {} => due = 0 \/ Revoked(g)

\* A revocation that was reported done stays: the handle is not active again,
\* and a grant that was revoked by name does not come back.
RevocationSticks ==
  Intact =>
    /\ \A c \in Of("revoke_handle") : reply[c] = "ok" => ~Active(file, ask[c].handle)
    /\ \A c \in Of("revoke_grant") : reply[c] = "ok" => Named(file, target[c]) = {}

\* "Every grant and every use is logged": a request that was granted and a
\* redemption that succeeded, once answered, are in the audit log.
AccessIsLogged ==
  Intact => \A c \in Of("request") \cup Of("redeem") :
    pc[c] = "done" /\ reply[c] \in {"grant", "ok"} => c \in file.log

\* g was issued, or is about to be, to that handle for that thing and action,
\* with no fewer uses; and somebody sanctioned it: the user in a popup that was
\* still waited for, the user ahead of time, or the handle's policy.
Sanctioned(g) ==
  LET a == ask[g.id] IN
    /\ a # NoAnswer /\ a.kind \in {"request", "precreate"}
    /\ response[g.id] # NoAnswer /\ response[g.id].approved
    /\ <<g.handle, g.thing, g.action>> = <<a.handle, a.thing, a.action>>
    /\ \A h \in issued : h.id = g.id => g.uses \in 1..h.uses

\* Whatever overlaps or is cut short, the vault and what threads are about to
\* write to it hold no grants but sanctioned ones.
OnlySanctioned ==
  /\ file # Unreadable => \A g \in file.grants : Sanctioned(g)
  /\ \A c \in Calls : \A g \in copy[c].grants : Sanctioned(g)

-----------------------------------------------------------------------------
(* What the documents say and the code does not do. *)

\* "single-use" and "invalidated after one use": with no overlap at all, the
\* redemptions of a grant that succeeded or that the browser carried out are no
\* more than it was issued for.
UsedAsIssued ==
  Serial => \A g \in issued :
    LET acts == {c \in Of("redeem") : target[c] = g.id /\ acted[c] = 1}
    IN  Cardinality(Uses(g.id) \cup acts) <= g.uses

\* "Its grants are dropped too, so any in-flight capability dies immediately":
\* no redemption succeeds once the revocation of its handle is done.
DiesImmediately ==
  [][\A c \in Of("redeem"), r \in Of("revoke_handle") :
       reply[r] = "ok" /\ ask[r].handle = ask[c].handle /\ reply[c] # "ok"
         => reply'[c] # "ok"]_vars
=============================================================================
