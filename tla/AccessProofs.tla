---------------------------- MODULE AccessProofs ----------------------------
(***************************************************************************)
(* Proofs about Access for any calls, handles, things and bounds.  With    *)
(* nothing assumed of how calls overlap, the state is well typed and the   *)
(* vault holds no grant that nobody sanctioned.  As long as no two of them *)
(* overlap and no write is cut short, revocations stay, every use of a     *)
(* grant is accounted for, and all that was granted or used is logged.     *)
(***************************************************************************)
EXTENDS Access, VaultFileProofs, FiniteSetTheorems

(***************************************************************************)
(* TypeInv and BookInv below are the inductive invariant of                *)
(* OnlySanctioned.  A grant is in the file, in a copy or among those       *)
(* issued only when the call it is named after has come to mint it; from   *)
(* there on nothing changes what that call asked for or what was answered, *)
(* so what both say of the grant stays true.                               *)
(***************************************************************************)
Minted == {"minting", "saving", "unlogged", "logging", "done", "dead"}

\* What was asked and answered, by how far a call has come.
Stages ==
  \A c \in Calls :
    /\ pc[c] \in {"idle", "asked", "touching", "authed"} => response[c] = NoAnswer
    /\ pc[c] \in {"asked", "touching", "authed"} =>
         ask[c] \in Asks /\ ask[c].kind = "request"
    /\ pc[c] \in {"prompting", "unregister", "mint"} =>
         ask[c] \in Asks /\ ask[c].kind \in {"request", "enroll"}
    /\ pc[c] = "mint" => response[c] # NoAnswer /\ response[c].approved
    /\ c \in pending => /\ pc[c] \in {"prompting", "unregister"}
                        /\ response[c] = NoAnswer

\* The call that g is named after minted it, and g has no more uses since.
Entitled(g) ==
  LET c == g.id IN
    /\ pc[c] \in Minted
    /\ ask[c] \in Asks /\ ask[c].kind \in {"request", "precreate"}
    /\ response[c] # NoAnswer /\ response[c].approved
    /\ g.handle = ask[c].handle /\ g.thing = ask[c].thing
    /\ g.action = ask[c].action
    /\ g.uses \in 1..Mint(c, ask[c], response[c]).uses

FileEntitled == file # Unreadable => \A g \in file.grants : Entitled(g)
CopiesEntitled == \A c \in Calls : \A g \in copy[c].grants : Entitled(g)

\* A grant is first written as it was minted.
FirstAsMinted ==
  \A c \in Calls : pc[c] \in {"minting", "saving"} =>
    \A g \in Named(copy[c], c) : g = Mint(c, ask[c], response[c])
IssuedAsMinted ==
  \A g \in issued : /\ pc[g.id] \in Minted
                    /\ g = Mint(g.id, ask[g.id], response[g.id])
-----------------------------------------------------------------------------
(* Type correctness. *)

LEMMA Names == Threads = Calls /\ Jobs = Calls
  BY AccessAssumption

LEMMA DataTypes ==
  /\ DefaultData \in VaultData /\ DefaultData.grants = {}
  /\ [DefaultData EXCEPT !.present = Enrolled] \in VaultData
  /\ [DefaultData EXCEPT !.present = Enrolled].grants = {}
  BY AccessAssumption DEF VaultData

LEMMA LoadedType ==
  ASSUME TypeOK
  PROVE  LoadVault \in VaultData
  BY DataTypes DEF TypeOK, FileTypeOK, LoadVault

LEMMA TypeInit == Init => TypeOK
<1>1. Init => FileTypeOK(VaultData)
  <2>. DEFINE first == [DefaultData EXCEPT !.present = Enrolled]
  <2>1. first \in VaultData
    BY DataTypes
  <2>2. [c \in Threads |-> DefaultData] \in [Threads -> VaultData]
    BY DataTypes
  <2>3. Init => FileInit(first)
    BY DEF Init
  <2>. HIDE DEF first
  <2>. QED  BY <2>1, <2>2, <2>3 DEF FileInit, FileTypeOK
<1>2. Init => /\ answer \in [Calls -> {"none", "ok", "error"}]
              /\ acted \in [Calls -> {0, 1}]
  BY AccessAssumption DEF Init, PromiseInit
<1>. QED  BY <1>1, <1>2, AccessAssumption DEF Init, TypeOK, PC, Saving, Replies

\* Loading and writing keep the file and the copies typed.
LEMMA FileTypes ==
  ASSUME TypeOK, NEW c \in Calls,
         \/ \E data \in VaultData : LoadAndSet(c, data)
         \/ LoadAndLook \/ Truncate(c) \/ Fill(c) \/ UNCHANGED fileVars
  PROVE  FileTypeOK(VaultData)'
  BY FileTypesKept, DataTypes, Names DEF TypeOK

LEMMA PromiseTypes ==
  ASSUME TypeOK, NEW c \in Calls,
         Act(c) \/ Succeed(c) \/ Fail(c) \/ UNCHANGED promiseVars
  PROVE  /\ answer' \in [Calls -> {"none", "ok", "error"}]
         /\ acted' \in [Calls -> {0, 1}]
  BY DEF TypeOK, Act, Succeed, Fail, promiseVars

LEMMA MintType ==
  ASSUME NEW c \in Calls, NEW a \in Asks, NEW r \in Answer
  PROVE  /\ Mint(c, a, r) \in Grant
         /\ Mint(c, a, r).uses \in Nat \ {0}
  BY AccessAssumption DEF Mint, Grant, Ask, Answer

\* What a call makes of the vault it loaded.
LEMMA Changes ==
  ASSUME NEW data \in VaultData, NEW c \in Calls
  PROVE  /\ \A h \in Handles :
              /\ [data EXCEPT !.present = @ \cup {h}] \in VaultData
              /\ [data EXCEPT !.present = @ \cup {h}].grants = data.grants
         /\ \A g \in Grant :
              /\ AddGrant(data, g) \in VaultData
              /\ AddGrant(data, g).grants = data.grants \cup {g}
         /\ [data EXCEPT !.log = @ \cup {c}] \in VaultData
         /\ [data EXCEPT !.log = @ \cup {c}].grants = data.grants
  BY DEF VaultData, AddGrant

LEMMA Removals ==
  ASSUME NEW data \in VaultData, NEW c \in Calls, NEW revoked \in SUBSET Handles,
         NEW grants \in SUBSET data.grants
  PROVE  /\ [data EXCEPT !.grants = grants] \in VaultData
         /\ [data EXCEPT !.grants = grants].grants = grants
         /\ [data EXCEPT !.revoked = @ \cup revoked, !.grants = grants,
                         !.log = @ \cup {c}] \in VaultData
         /\ [data EXCEPT !.revoked = @ \cup revoked, !.grants = grants,
                         !.log = @ \cup {c}].grants = grants
  BY DEF VaultData

LEMMA SpendType ==
  ASSUME NEW data \in VaultData, NEW id
  PROVE  /\ Spend(data, id) \in VaultData
         /\ \A g \in Spend(data, id).grants :
              \/ g \in data.grants
              \/ \E h \in data.grants : /\ g = [h EXCEPT !.uses = @ - 1]
                                        /\ h \in Grant /\ h.uses > 1
<1>. DEFINE spent == {[g EXCEPT !.uses = @ - 1] : g \in {g \in Named(data, id) : g.uses > 1}}
            left == (data.grants \ Named(data, id)) \cup spent
<1>1. data.grants \subseteq Grant
  BY DEF VaultData
<1>2. \A g \in spent : \E h \in data.grants : /\ g = [h EXCEPT !.uses = @ - 1]
                                              /\ h \in Grant /\ h.uses > 1
  BY <1>1 DEF Named
<1>3. spent \subseteq Grant
  BY <1>2 DEF Grant
<1>4. left \subseteq Grant /\ \A g \in left : g \in data.grants \/ g \in spent
  BY <1>1, <1>3
<1>5. Spend(data, id) = [data EXCEPT !.grants = left]
  BY DEF Spend
<1>. HIDE DEF left, spent
<1>6. /\ [data EXCEPT !.grants = left] \in VaultData
      /\ [data EXCEPT !.grants = left].grants = left
  BY <1>4 DEF VaultData
<1>. QED  BY <1>2, <1>4, <1>5, <1>6
-----------------------------------------------------------------------------
(* Type correctness, together with Stages, action by action. *)

TypeInv == TypeOK /\ Stages

LEMMA TypeRequest ==
  ASSUME TypeInv, NEW c \in Calls,
         RefuseRequest(c) \/ Request(c) \/ Touch(c) \/ MatchGrant(c)
  PROVE  TypeInv'
<1>. USE DEF TypeInv, PC, Saving, Replies, callVars, promiseVars
<1>1. FileTypeOK(VaultData)'
  BY LoadedType, FileTypes DEF RefuseRequest, Request, Touch, MatchGrant
<1>2. CASE RefuseRequest(c)
  BY <1>1, <1>2 DEF TypeOK, Stages, RefuseRequest, Begin, Goto
<1>3. CASE Request(c)
  BY <1>1, <1>3 DEF TypeOK, Stages, Request, Begin, Goto
<1>4. CASE Touch(c)
  BY <1>1, <1>4 DEF TypeOK, Stages, Touch, Goto
<1>5. CASE MatchGrant(c)
  BY <1>1, <1>5 DEF TypeOK, Stages, MatchGrant, Settle, Goto
<1>. QED  BY <1>2, <1>3, <1>4, <1>5

LEMMA TypeApproval ==
  ASSUME TypeInv, NEW c \in Calls,
         \/ AutoApprove(c) \/ Prompt(c) \/ Approved(c) \/ Denied(c)
         \/ PromptTimesOut(c) \/ Unregister(c)
         \/ \E answered \in Answers : Respond(c, answered)
  PROVE  TypeInv'
<1>. USE DEF TypeInv, PC, Saving, Replies, callVars, promiseVars
<1>1. FileTypeOK(VaultData)'
  BY FileTypes DEF AutoApprove, Prompt, Approved, Denied, PromptTimesOut,
                   Unregister, Respond
<1>2. CASE AutoApprove(c)
  <2>1. [approved |-> TRUE, uses |-> 1] \in Answer /\ NoAnswer \notin Answer
    BY AccessAssumption DEF Answer
  <2>. QED  BY <1>1, <1>2, <2>1 DEF TypeOK, Stages, AutoApprove, Goto
<1>3. CASE Prompt(c)
  BY <1>1, <1>3 DEF TypeOK, Stages, Prompt, Goto
<1>4. CASE Approved(c)
  BY <1>1, <1>4 DEF TypeOK, Stages, Approved, Goto
<1>5. CASE Denied(c)
  BY <1>1, <1>5 DEF TypeOK, Stages, Denied, Settle, Goto
<1>6. CASE PromptTimesOut(c)
  BY <1>1, <1>6 DEF TypeOK, Stages, PromptTimesOut, Goto
<1>7. CASE Unregister(c)
  BY <1>1, <1>7 DEF TypeOK, Stages, Unregister, Settle, Goto
<1>8. ASSUME NEW answered \in Answers, Respond(c, answered)
      PROVE  TypeInv'
  BY <1>1, <1>8, AccessAssumption DEF TypeOK, Stages, Respond
<1>. QED  BY <1>2, <1>3, <1>4, <1>5, <1>6, <1>7, <1>8

LEMMA TypeRedeem ==
  ASSUME TypeInv, NEW c \in Calls, NEW id \in Calls,
         \/ OpenGrant(c, id) \/ RefuseRedeem(c, id) \/ Authenticate(c)
         \/ FailToAuthenticate(c) \/ Consume(c)
  PROVE  TypeInv'
<1>. USE DEF TypeInv, PC, Saving, Replies, callVars, promiseVars
<1>1. CASE OpenGrant(c, id)
  BY <1>1, LoadedType, FileTypes DEF TypeOK, Stages, OpenGrant, Begin, Goto
<1>2. CASE RefuseRedeem(c, id)
  BY <1>2, FileTypes DEF TypeOK, Stages, RefuseRedeem, Begin, Goto
<1>3. CASE Authenticate(c)
  BY <1>3, FileTypes DEF TypeOK, Stages, Authenticate, Goto
<1>4. CASE FailToAuthenticate(c)
  BY <1>4, FileTypes DEF TypeOK, Stages, FailToAuthenticate, Settle, Goto
<1>5. CASE Consume(c)
  <2>1. FileTypeOK(VaultData)'
    <3>1. copy[c] \in VaultData
      BY Names DEF TypeOK, FileTypeOK
    <3>2. Spend(copy[c], target[c]) \in VaultData
      BY <3>1, SpendType
    <3>. QED  BY <1>5, <3>2, Names DEF TypeOK, FileTypeOK, Consume
  <2>. QED  BY <1>5, <2>1 DEF TypeOK, Stages, Consume, Goto
<1>. QED  BY <1>1, <1>2, <1>3, <1>4, <1>5

LEMMA TypePerform ==
  ASSUME TypeInv, NEW c \in Calls,
         \/ Dispatch(c) \/ BrowserActs(c) \/ Performed(c) \/ PerformFails(c)
         \/ PerformTimesOut(c)
  PROVE  TypeInv'
<1>. USE DEF TypeInv, PC, Saving, Replies, callVars
<1>1. FileTypeOK(VaultData)'
  BY FileTypes DEF Dispatch, BrowserActs, Performed, PerformFails, PerformTimesOut
<1>2. /\ answer' \in [Calls -> {"none", "ok", "error"}]
      /\ acted' \in [Calls -> {0, 1}]
  BY PromiseTypes DEF Dispatch, BrowserActs, Performed, PerformFails,
                      PerformTimesOut
<1>3. CASE Dispatch(c)
  BY <1>1, <1>2, <1>3 DEF TypeOK, Stages, Dispatch, Goto
<1>4. CASE BrowserActs(c)
  BY <1>1, <1>2, <1>4 DEF TypeOK, Stages, BrowserActs
<1>5. CASE Performed(c)
  BY <1>1, <1>2, <1>5 DEF TypeOK, Stages, Performed, Goto
<1>6. CASE PerformFails(c)
  BY <1>1, <1>2, <1>6 DEF TypeOK, Stages, PerformFails, Settle, Goto
<1>7. CASE PerformTimesOut(c)
  BY <1>1, <1>2, <1>7 DEF TypeOK, Stages, PerformTimesOut, Settle, Goto
<1>. QED  BY <1>3, <1>4, <1>5, <1>6, <1>7

LEMMA TypeWriters ==
  ASSUME TypeInv, NEW c \in Calls,
         \/ LoadAndMint(c) \/ Audit(c) \/ BeginWrite(c) \/ EndWrite(c)
         \/ LoadOther(c)
  PROVE  TypeInv'
<1>. USE DEF TypeInv, PC, Saving, Replies, callVars, promiseVars
<1>1. CASE LoadAndMint(c)
  <2>. DEFINE data == IF ask[c].kind = "enroll"
                        THEN [LoadVault EXCEPT !.present = @ \cup {ask[c].handle}]
                        ELSE AddGrant(LoadVault, Mint(c, ask[c], response[c]))
  <2>1. /\ ask[c] \in Asks /\ response[c] \in Answer
        /\ LoadAndSet(c, data)
    BY <1>1 DEF TypeOK, Stages, LoadAndMint, Goto
  <2>2. ask[c].handle \in Handles
    BY <2>1, AccessAssumption DEF Ask
  <2>3. data \in VaultData
    BY <2>1, <2>2, LoadedType, MintType, Changes
  <2>. HIDE DEF data
  <2>4. FileTypeOK(VaultData)'
    BY <2>1, <2>3, FileTypes
  <2>. QED  BY <1>1, <2>4 DEF TypeOK, Stages, LoadAndMint, Goto
<1>2. CASE Audit(c)
  <2>1. FileTypeOK(VaultData)'
    BY <1>2, LoadedType, Changes, FileTypes DEF Audit
  <2>. QED  BY <1>2, <2>1 DEF TypeOK, Stages, Audit, Goto
<1>3. CASE BeginWrite(c)
  BY <1>3, FileTypes DEF TypeOK, Stages, BeginWrite
<1>4. CASE EndWrite(c)
  <2>1. FileTypeOK(VaultData)'
    BY <1>4, FileTypes DEF EndWrite
  <2>2. issued' \subseteq Grant
    <3>1. copy[c].grants \subseteq Grant
      BY Names DEF TypeOK, FileTypeOK, VaultData
    <3>. QED  BY <1>4, <3>1 DEF TypeOK, EndWrite, Named
  <2>3. AfterWrite(c) \in {"authed", "unlogged", "done"} /\ Settled(c) \in Replies
        /\ (AfterWrite(c) = "authed" => pc[c] = "touching")
    BY DEF TypeOK, AfterWrite, Settled
  <2>. QED  BY <1>4, <2>1, <2>2, <2>3 DEF TypeOK, Stages, EndWrite
<1>5. CASE LoadOther(c)
  BY <1>5, LoadedType, FileTypes DEF TypeOK, Stages, LoadOther, Begin, Goto
<1>. QED  BY <1>1, <1>2, <1>3, <1>4, <1>5

LEMMA TypePanel ==
  ASSUME TypeInv, NEW c \in Calls, NEW id \in Calls,
         \/ Enroll(c) \/ RevokeGrant(c, id) \/ RevokeHandle(c)
         \/ \E answered \in Answers : Precreate(c, answered)
  PROVE  TypeInv'
<1>. USE DEF TypeInv, PC, Saving, Replies, callVars, promiseVars
<1>1. CASE Enroll(c)
  BY <1>1, FileTypes DEF TypeOK, Stages, Enroll, Begin, Goto
<1>2. CASE RevokeGrant(c, id)
  <2>1. [LoadVault EXCEPT !.grants = @ \ Named(LoadVault, id)] \in VaultData
    BY LoadedType, Removals
  <2>2. FileTypeOK(VaultData)'
    BY <1>2, <2>1, FileTypes DEF RevokeGrant
  <2>. QED  BY <1>2, <2>2 DEF TypeOK, Stages, RevokeGrant, Begin, Goto
<1>3. CASE RevokeHandle(c)
  <2>. DEFINE gone == {ask'[c].handle} \cap LoadVault.present
              left == {g \in LoadVault.grants : g.handle # ask'[c].handle}
              data == [LoadVault EXCEPT !.revoked = @ \cup gone, !.grants = left,
                                        !.log = @ \cup {c}]
  <2>1. gone \in SUBSET Handles /\ left \in SUBSET LoadVault.grants
    BY LoadedType DEF VaultData
  <2>2. data \in VaultData
    BY <2>1, LoadedType, Removals
  <2>3. LoadAndSet(c, data)
    BY <1>3 DEF RevokeHandle
  <2>. HIDE DEF data
  <2>4. FileTypeOK(VaultData)'
    BY <2>2, <2>3, FileTypes
  <2>. QED  BY <1>3, <2>4 DEF TypeOK, Stages, RevokeHandle, Begin, Goto
<1>4. ASSUME NEW answered \in Answers, Precreate(c, answered)
      PROVE  TypeInv'
  <2>. DEFINE data == [AddGrant(LoadVault, Mint(c, ask'[c], answered))
                         EXCEPT !.log = @ \cup {c}]
  <2>1. ask'[c] \in Asks /\ answered \in Answer
    BY <1>4, AccessAssumption DEF TypeOK, Precreate, Begin
  <2>2. data \in VaultData
    BY <2>1, LoadedType, MintType, Changes
  <2>3. LoadAndSet(c, data)
    BY <1>4 DEF Precreate
  <2>. HIDE DEF data
  <2>4. FileTypeOK(VaultData)'
    BY <2>2, <2>3, FileTypes
  <2>. QED  BY <1>4, <2>1, <2>4 DEF TypeOK, Stages, Precreate, Begin, Goto
<1>. QED  BY <1>1, <1>2, <1>3, <1>4

LEMMA TypeRest ==
  ASSUME TypeInv,
         (\E id \in Calls : Expire(id)) \/ Restart \/ UNCHANGED vars
  PROVE  TypeInv'
<1>. USE DEF TypeInv, PC, Saving, Replies, callVars, promiseVars
<1>1. ASSUME NEW id \in Calls, Expire(id)
      PROVE  TypeInv'
  BY <1>1, FileTypes DEF TypeOK, Stages, Expire
<1>2. CASE Restart
  <2>1. FileTypeOK(VaultData)'
    <3>1. [c \in Threads |-> DefaultData] \in [Threads -> VaultData]
      BY DataTypes
    <3>2. interrupted \in BOOLEAN /\ interrupted' \in BOOLEAN
      BY <1>2, Zenon DEF TypeOK, FileTypeOK, Restart, ProcessEnds
    <3>. QED  BY <1>2, <3>1, <3>2 DEF TypeOK, FileTypeOK, Restart, ProcessEnds
  <2>. QED  BY <1>2, <2>1, AccessAssumption DEF TypeOK, Stages, Restart
<1>3. CASE UNCHANGED vars
  BY <1>3 DEF TypeOK, Stages, vars, FileTypeOK, fileVars
<1>. QED  BY <1>1, <1>2, <1>3

LEMMA TypeStep == TypeInv /\ [Next]_vars => TypeInv'
<1>. SUFFICES ASSUME TypeInv, [Next]_vars
              PROVE  TypeInv'
  OBVIOUS
<1>1. Known \subseteq Calls
  BY DEF Known, TypeInv, TypeOK, Grant
<1>2. ASSUME NEW c \in Calls, Start(c)
      PROVE  TypeInv'
  BY <1>1, <1>2, TypeRequest, TypeRedeem, TypePanel, TypeWriters DEF Start
<1>3. ASSUME NEW c \in Calls, Continue(c)
      PROVE  TypeInv'
  BY <1>3, TypeRequest, TypeApproval, TypeRedeem, TypePerform, TypeWriters
     DEF Continue
<1>. QED  BY <1>2, <1>3, TypeApproval, TypePerform, TypeRest DEF Next

(***************************************************************************)
(* The calls, the vault and the approvals are well typed, whatever calls   *)
(* are made and however they overlap or are cut off by a restart.          *)
(***************************************************************************)
THEOREM TypeCorrect == Spec => []TypeOK
<1>1. Init => TypeInv
  BY TypeInit DEF TypeInv, Init, Stages
<1>. QED  BY <1>1, TypeStep, PTL DEF Spec, TypeInv
-----------------------------------------------------------------------------
(* Only sanctioned grants. *)

\* The invariant beside its types.
BookInv == FileEntitled /\ CopiesEntitled /\ FirstAsMinted /\ IssuedAsMinted

\* A step that changes nothing of what a minted grant rests on.
MintedStay ==
  \A d \in Calls : pc[d] \in Minted =>
    /\ pc'[d] \in Minted
    /\ ask'[d] = ask[d] /\ response'[d] = response[d]

LEMMA EntitledStays ==
  ASSUME MintedStay, NEW g \in Grant, Entitled(g)
  PROVE  Entitled(g)'
<1>1. g.id \in Calls
  BY DEF Grant
<1>. QED  BY <1>1 DEF Entitled, MintedStay, Mint

LEMMA LoadedEntitled ==
  ASSUME TypeInv, BookInv
  PROVE  \A g \in LoadVault.grants : g \in Grant /\ Entitled(g)
<1>1. LoadVault.grants \subseteq Grant
  BY LoadedType DEF TypeInv, VaultData
<1>. QED  BY <1>1, DataTypes DEF BookInv, FileEntitled, LoadVault

LEMMA CopyTypes ==
  ASSUME TypeInv, NEW c \in Calls
  PROVE  copy[c] \in VaultData /\ copy[c].grants \subseteq Grant
  BY Names DEF TypeInv, TypeOK, FileTypeOK, VaultData

\* A call changes its own copy at most, and writes none but its own.
LEMMA Kept ==
  ASSUME TypeInv, BookInv, MintedStay, NEW c \in Calls,
         file' \in {file, Unreadable} \/ file' = copy[c],
         \A d \in Calls : d # c => copy'[d] = copy[d],
         \A g \in copy'[c].grants : Entitled(g)',
         \A d \in Calls : d # c => pc'[d] = pc[d],
         pc'[c] \in {"minting", "saving"} =>
           \A g \in Named(copy'[c], c) : g = Mint(c, ask'[c], response'[c]),
         issued' = issued
  PROVE  BookInv'
<1>1. FileEntitled'
  <2>1. ASSUME file' # Unreadable, NEW g \in file'.grants
        PROVE  g \in Grant /\ Entitled(g)
    <3>1. CASE file' = file
      <4>1. g \in LoadVault.grants
        BY <2>1, <3>1 DEF LoadVault
      <4>. QED  BY <4>1, LoadedEntitled
    <3>2. CASE file' = copy[c]
      BY <2>1, <3>2, CopyTypes DEF BookInv, CopiesEntitled
    <3>. QED  BY <2>1, <3>1, <3>2
  <2>. QED  BY <2>1, EntitledStays DEF FileEntitled
<1>2. CopiesEntitled'
  <2>1. ASSUME NEW d \in Calls, d # c, NEW g \in copy[d].grants
        PROVE  Entitled(g)'
    BY <2>1, CopyTypes, EntitledStays DEF BookInv, CopiesEntitled
  <2>. QED  BY <2>1 DEF CopiesEntitled
<1>3. FirstAsMinted'
  <2>1. ASSUME NEW d \in Calls, d # c, pc'[d] \in {"minting", "saving"},
               NEW g \in Named(copy'[d], d)
        PROVE  g = Mint(d, ask'[d], response'[d])
    BY <2>1 DEF BookInv, FirstAsMinted, MintedStay, Minted
  <2>. QED  BY <2>1 DEF FirstAsMinted
<1>4. IssuedAsMinted'
  BY DEF BookInv, IssuedAsMinted, MintedStay, TypeInv, TypeOK, Grant
<1>. QED  BY <1>1, <1>2, <1>3, <1>4 DEF BookInv

\* Steps that mint nothing.
LEMMA KeptByOthers ==
  ASSUME TypeInv, BookInv, MintedStay, NEW c \in Calls,
         \/ LoadAndLook \/ Truncate(c) \/ Fill(c) \/ UNCHANGED fileVars
         \/ \E data \in VaultData : /\ LoadAndSet(c, data)
                                    /\ data.grants \subseteq LoadVault.grants,
         \A d \in Calls : d # c => pc'[d] = pc[d],
         pc'[c] \in {"minting", "saving"} =>
           pc[c] \notin Minted \/ (pc'[c] = pc[c] /\ copy' = copy),
         issued' = issued
  PROVE  BookInv'
<1>1. CASE LoadAndLook \/ Truncate(c) \/ Fill(c) \/ UNCHANGED fileVars
  <2>1. /\ copy' = copy
        /\ file' \in {file, Unreadable} \/ file' = copy[c]
    BY <1>1 DEF LoadAndLook, Truncate, Fill, fileVars
  <2>2. \A g \in copy'[c].grants : Entitled(g)'
    BY <2>1, CopyTypes, EntitledStays DEF BookInv, CopiesEntitled
  <2>3. ASSUME pc'[c] \in {"minting", "saving"}, NEW g \in Named(copy[c], c)
        PROVE  g = Mint(c, ask'[c], response'[c])
    <3>1. Entitled(g) /\ g.id = c
      BY <2>3 DEF BookInv, CopiesEntitled, Named
    <3>2. pc[c] \in Minted
      BY <3>1 DEF Entitled
    <3>. QED  BY <2>3, <3>2 DEF BookInv, FirstAsMinted, MintedStay
  <2>. QED  BY <2>1, <2>2, <2>3, Kept
<1>2. ASSUME NEW data \in VaultData, LoadAndSet(c, data),
             data.grants \subseteq LoadVault.grants
      PROVE  BookInv'
  <2>1. /\ file' = file /\ copy'[c] = data
        /\ \A d \in Calls : d # c => copy'[d] = copy[d]
    BY <1>2, Names DEF LoadAndSet, TypeInv, TypeOK, FileTypeOK
  <2>2. \A g \in data.grants : Entitled(g) /\ Entitled(g)'
    BY <1>2, LoadedEntitled, EntitledStays
  <2>3. ASSUME pc'[c] \in {"minting", "saving"}, NEW g \in Named(data, c)
        PROVE  g = Mint(c, ask'[c], response'[c])
    <3>1. Entitled(g) /\ g.id = c
      BY <2>2, <2>3 DEF Named
    <3>2. pc[c] \in Minted
      BY <3>1 DEF Entitled
    <3>3. pc'[c] = pc[c] /\ copy'[c] = copy[c]
      BY <2>3, <3>2
    <3>. QED  BY <2>1, <2>3, <3>2, <3>3 DEF BookInv, FirstAsMinted, MintedStay
  <2>. QED  BY <2>1, <2>2, <2>3, Kept
<1>. QED  BY <1>1, <1>2

LEMMA BookRequest ==
  ASSUME TypeInv, BookInv, NEW c \in Calls,
         RefuseRequest(c) \/ Request(c) \/ Touch(c) \/ MatchGrant(c)
  PROVE  BookInv'
<1>. USE DEF callVars, promiseVars, Minted, MintedStay, TypeInv
<1>1. /\ MintedStay
      /\ \A d \in Calls : d # c => pc'[d] = pc[d]
      /\ pc'[c] \notin {"minting", "saving"}
      /\ issued' = issued
  BY DEF TypeOK, RefuseRequest, Request, Touch, MatchGrant, Begin, Settle, Goto
<1>2. LoadAndLook \/ LoadAndSet(c, LoadVault)
  BY DEF RefuseRequest, Request, Touch, MatchGrant
<1>. QED  BY <1>1, <1>2, LoadedType, KeptByOthers

LEMMA BookApproval ==
  ASSUME TypeInv, BookInv, NEW c \in Calls,
         \/ AutoApprove(c) \/ Prompt(c) \/ Approved(c) \/ Denied(c)
         \/ PromptTimesOut(c) \/ Unregister(c)
         \/ \E answered \in Answers : Respond(c, answered)
  PROVE  BookInv'
<1>. USE DEF callVars, promiseVars, Minted, MintedStay, TypeInv
<1>1. CASE \E answered \in Answers : Respond(c, answered)
  <2>1. MintedStay /\ pc' = pc /\ issued' = issued /\ UNCHANGED fileVars
    BY <1>1 DEF TypeOK, Stages, Respond
  <2>. QED  BY <2>1, KeptByOthers DEF fileVars
<1>2. CASE ~\E answered \in Answers : Respond(c, answered)
  <2>1. /\ MintedStay
        /\ \A d \in Calls : d # c => pc'[d] = pc[d]
        /\ pc'[c] \notin {"minting", "saving"}
        /\ issued' = issued
    BY <1>2 DEF TypeOK, AutoApprove, Prompt, Approved, Denied, PromptTimesOut,
                Unregister, Settle, Goto
  <2>2. LoadAndLook \/ UNCHANGED fileVars
    BY <1>2 DEF AutoApprove, Prompt, Approved, Denied, PromptTimesOut, Unregister
  <2>. QED  BY <2>1, <2>2, KeptByOthers
<1>. QED  BY <1>1, <1>2

LEMMA BookPerform ==
  ASSUME TypeInv, BookInv, NEW c \in Calls, NEW id \in Calls,
         \/ OpenGrant(c, id) \/ RefuseRedeem(c, id) \/ Authenticate(c)
         \/ FailToAuthenticate(c) \/ Dispatch(c) \/ BrowserActs(c)
         \/ Performed(c) \/ PerformFails(c) \/ PerformTimesOut(c)
         \/ Enroll(c) \/ Audit(c) \/ BeginWrite(c)
  PROVE  BookInv'
<1>. USE DEF callVars, promiseVars, Minted, MintedStay, TypeInv
<1>1. CASE BrowserActs(c) \/ BeginWrite(c)
  <2>1. MintedStay /\ pc' = pc /\ issued' = issued /\ copy' = copy
    BY <1>1 DEF BrowserActs, BeginWrite, Truncate, fileVars
  <2>2. Truncate(c) \/ UNCHANGED fileVars
    BY <1>1 DEF BrowserActs, BeginWrite
  <2>. QED  BY <2>1, <2>2, KeptByOthers
<1>2. CASE ~(BrowserActs(c) \/ BeginWrite(c))
  <2>1. /\ MintedStay
        /\ \A d \in Calls : d # c => pc'[d] = pc[d]
        /\ pc'[c] \notin {"minting", "saving"}
        /\ issued' = issued
    BY <1>2 DEF TypeOK, OpenGrant, RefuseRedeem, Authenticate,
                FailToAuthenticate, Dispatch, Performed, PerformFails,
                PerformTimesOut, Enroll, Audit, Begin, Settle, Goto
  <2>2. \/ LoadAndLook \/ UNCHANGED fileVars \/ LoadAndSet(c, LoadVault)
        \/ LoadAndSet(c, [LoadVault EXCEPT !.log = @ \cup {c}])
    BY <1>2 DEF OpenGrant, RefuseRedeem, Authenticate, FailToAuthenticate,
                Dispatch, Performed, PerformFails, PerformTimesOut, Enroll, Audit
  <2>3. CASE LoadAndSet(c, [LoadVault EXCEPT !.log = @ \cup {c}])
    <3>. DEFINE data == [LoadVault EXCEPT !.log = @ \cup {c}]
    <3>1. data \in VaultData /\ data.grants = LoadVault.grants
      BY LoadedType, Changes
    <3>2. LoadAndSet(c, data)
      BY <2>3
    <3>. HIDE DEF data
    <3>. QED  BY <2>1, <3>1, <3>2, KeptByOthers
  <2>. QED  BY <2>1, <2>2, <2>3, LoadedType, KeptByOthers
<1>. QED  BY <1>1, <1>2

\* LoadAndMint and Precreate add the grant they mint to what they loaded.
LEMMA MintEntitled ==
  ASSUME TypeInv, BookInv, MintedStay, NEW c \in Calls, pc[c] \notin Minted,
         pc'[c] \in Minted, ask'[c] \in Asks, response'[c] \in Answer,
         ask'[c].kind \in {"request", "precreate"}, response'[c].approved,
         NEW data \in VaultData,
         data.grants = LoadVault.grants \cup {Mint(c, ask'[c], response'[c])}
  PROVE  /\ \A g \in data.grants : Entitled(g)'
         /\ \A g \in Named(data, c) : g = Mint(c, ask'[c], response'[c])
<1>1. ASSUME NEW g, g = Mint(c, ask'[c], response'[c])
      PROVE  Entitled(g)'
  <2>1. /\ g.id = c /\ g.handle = ask'[c].handle
        /\ g.thing = ask'[c].thing /\ g.action = ask'[c].action
    BY <1>1 DEF Mint
  <2>2. g.uses \in 1..g.uses
    BY <1>1, MintType
  <2>3. NoAnswer \notin Answer
    BY AccessAssumption
  <2>. QED  BY <1>1, <2>1, <2>2, <2>3 DEF Entitled
<1>2. \A g \in LoadVault.grants : Entitled(g)' /\ g.id # c
  BY LoadedEntitled, EntitledStays DEF Entitled
<1>. QED  BY <1>1, <1>2 DEF Named

LEMMA BookMint ==
  ASSUME TypeInv, BookInv, NEW c \in Calls,
         LoadAndMint(c) \/ \E answered \in Answers : Precreate(c, answered)
  PROVE  BookInv'
<1>. USE DEF callVars, promiseVars, Minted, MintedStay, TypeInv
<1>1. CASE LoadAndMint(c) /\ ask[c].kind = "enroll"
  <2>. DEFINE data == [LoadVault EXCEPT !.present = @ \cup {ask[c].handle}]
  <2>1. ask[c].handle \in Handles
    BY <1>1, AccessAssumption DEF Stages, Ask, LoadAndMint, Goto
  <2>2. data \in VaultData /\ data.grants = LoadVault.grants
    BY <2>1, LoadedType, Changes
  <2>3. /\ LoadAndSet(c, data) /\ issued' = issued
        /\ MintedStay /\ pc[c] \notin Minted
        /\ \A d \in Calls : d # c => pc'[d] = pc[d]
    BY <1>1 DEF TypeOK, LoadAndMint, Goto
  <2>. HIDE DEF data
  <2>. QED  BY <2>2, <2>3, KeptByOthers
<1>2. ASSUME NEW a \in Asks, NEW r \in Answer,
             a = ask'[c], r = response'[c],
             a.kind \in {"request", "precreate"}, r.approved,
             NEW data \in VaultData, LoadAndSet(c, data),
             data.grants = LoadVault.grants \cup {Mint(c, a, r)},
             MintedStay, pc[c] \notin Minted, pc'[c] \in Minted,
             \A d \in Calls : d # c => pc'[d] = pc[d], issued' = issued
      PROVE  BookInv'
  <2>1. /\ \A g \in data.grants : Entitled(g)'
        /\ \A g \in Named(data, c) : g = Mint(c, ask'[c], response'[c])
    BY <1>2, MintEntitled
  <2>2. /\ file' = file /\ copy'[c] = data
        /\ \A d \in Calls : d # c => copy'[d] = copy[d]
    BY <1>2, Names DEF LoadAndSet, TypeOK, FileTypeOK
  <2>. QED  BY <1>2, <2>1, <2>2, Kept
<1>3. CASE LoadAndMint(c) /\ ask[c].kind # "enroll"
  <2>. DEFINE data == AddGrant(LoadVault, Mint(c, ask[c], response[c]))
  <2>1. /\ ask[c] \in Asks /\ ask[c].kind = "request"
        /\ response[c] \in Answer /\ response[c].approved
    BY <1>3 DEF TypeOK, Stages, LoadAndMint, Goto
  <2>2. /\ data \in VaultData
        /\ data.grants = LoadVault.grants \cup {Mint(c, ask[c], response[c])}
    BY <2>1, LoadedType, MintType, Changes
  <2>3. /\ LoadAndSet(c, data) /\ issued' = issued
        /\ ask' = ask /\ response' = response
        /\ MintedStay /\ pc[c] \notin Minted /\ pc'[c] \in Minted
        /\ \A d \in Calls : d # c => pc'[d] = pc[d]
    BY <1>3 DEF TypeOK, LoadAndMint, Goto
  <2>. HIDE DEF data
  <2>. QED  BY <1>2, <2>1, <2>2, <2>3
<1>4. ASSUME NEW answered \in Answers, Precreate(c, answered)
      PROVE  BookInv'
  <2>. DEFINE minted == AddGrant(LoadVault, Mint(c, ask'[c], answered))
              data == [minted EXCEPT !.log = @ \cup {c}]
  <2>1. /\ ask'[c] \in Asks /\ ask'[c].kind = "precreate"
        /\ answered \in Answer /\ answered.approved /\ response'[c] = answered
    BY <1>4, AccessAssumption DEF TypeOK, Precreate, Begin
  <2>2. /\ minted \in VaultData
        /\ minted.grants = LoadVault.grants \cup {Mint(c, ask'[c], answered)}
    BY <2>1, LoadedType, MintType, Changes
  <2>3. /\ LoadAndSet(c, data) /\ issued' = issued
        /\ MintedStay /\ pc[c] \notin Minted /\ pc'[c] \in Minted
        /\ \A d \in Calls : d # c => pc'[d] = pc[d]
    BY <1>4 DEF TypeOK, Precreate, Begin, Goto
  <2>. HIDE DEF minted
  <2>4. data \in VaultData /\ data.grants = minted.grants
    BY <2>2, Changes
  <2>. HIDE DEF data
  <2>. QED  BY <1>2, <2>1, <2>2, <2>3, <2>4
<1>. QED  BY <1>1, <1>3, <1>4

LEMMA BookPanel ==
  ASSUME TypeInv, BookInv, NEW c \in Calls, NEW id \in Calls,
         RevokeGrant(c, id) \/ RevokeHandle(c) \/ LoadOther(c)
  PROVE  BookInv'
<1>. USE DEF callVars, promiseVars, Minted, MintedStay, TypeInv
<1>1. /\ MintedStay
      /\ \A d \in Calls : d # c => pc'[d] = pc[d]
      /\ pc[c] \notin Minted
      /\ issued' = issued
  BY DEF TypeOK, RevokeGrant, RevokeHandle, LoadOther, Begin, Goto
<1>2. CASE RevokeGrant(c, id)
  <2>. DEFINE left == LoadVault.grants \ Named(LoadVault, id)
              data == [LoadVault EXCEPT !.grants = left]
  <2>1. left \in SUBSET LoadVault.grants /\ {} \in SUBSET Handles
    OBVIOUS
  <2>2. data \in VaultData /\ data.grants = left
    BY <2>1, LoadedType, Removals
  <2>3. LoadAndSet(c, data)
    BY <1>2 DEF RevokeGrant
  <2>. HIDE DEF data
  <2>. QED  BY <1>1, <2>1, <2>2, <2>3, KeptByOthers
<1>3. CASE RevokeHandle(c)
  <2>. DEFINE gone == {ask'[c].handle} \cap LoadVault.present
              left == {g \in LoadVault.grants : g.handle # ask'[c].handle}
              data == [LoadVault EXCEPT !.revoked = @ \cup gone, !.grants = left,
                                        !.log = @ \cup {c}]
  <2>1. gone \in SUBSET Handles /\ left \in SUBSET LoadVault.grants
    BY LoadedType DEF VaultData
  <2>2. LoadAndSet(c, data)
    BY <1>3 DEF RevokeHandle
  <2>. HIDE DEF gone, left
  <2>3. data \in VaultData
    BY <2>1, LoadedType, Removals
  <2>4. data.grants = left
    BY LoadedType DEF VaultData
  <2>. HIDE DEF data
  <2>. QED  BY <1>1, <2>1, <2>2, <2>3, <2>4, KeptByOthers
<1>4. CASE LoadOther(c)
  BY <1>1, <1>4, LoadedType, KeptByOthers DEF LoadOther
<1>. QED  BY <1>2, <1>3, <1>4

LEMMA BookConsume ==
  ASSUME TypeInv, BookInv, NEW c \in Calls, Consume(c)
  PROVE  BookInv'
<1>. USE DEF callVars, promiseVars, Minted, TypeInv
<1>1. /\ MintedStay /\ file' = file /\ issued' = issued
      /\ \A d \in Calls : d # c => pc'[d] = pc[d] /\ copy'[d] = copy[d]
      /\ pc'[c] \notin {"minting", "saving"}
      /\ copy'[c] = Spend(copy[c], target[c])
  BY Names DEF TypeOK, FileTypeOK, Consume, Goto, MintedStay
<1>2. ASSUME NEW g \in copy'[c].grants
      PROVE  Entitled(g)'
  <2>1. \A h \in copy[c].grants : h \in Grant /\ Entitled(h)'
    BY <1>1, CopyTypes, EntitledStays DEF BookInv, CopiesEntitled
  <2>2. CASE g \in copy[c].grants
    BY <2>1, <2>2
  <2>3. CASE g \notin copy[c].grants
    <3>1. PICK h \in copy[c].grants : /\ g = [h EXCEPT !.uses = @ - 1]
                                      /\ h \in Grant /\ h.uses > 1
      BY <1>1, <1>2, <2>3, CopyTypes, SpendType
    <3>2. /\ g.id = h.id /\ g.handle = h.handle /\ g.thing = h.thing
          /\ g.action = h.action /\ g.uses = h.uses - 1
      BY <3>1 DEF Grant
    <3>3. Entitled(h)' /\ h.uses \in Nat
      BY <2>1, <3>1 DEF Grant
    <3>4. ask[h.id] \in Asks /\ response[h.id] \in Answer /\ h.id \in Calls
      BY <3>1 DEF BookInv, CopiesEntitled, Entitled, TypeOK, Grant
    <3>5. Mint(h.id, ask[h.id], response[h.id]).uses \in Nat
      BY <3>4, MintType
    <3>6. ask' = ask /\ response' = response
      BY DEF Consume
    <3>7. g.uses \in 1..Mint(h.id, ask[h.id], response[h.id]).uses
      BY <3>1, <3>2, <3>3, <3>5, <3>6 DEF Entitled
    <3>. QED  BY <3>2, <3>3, <3>6, <3>7 DEF Entitled
  <2>. QED  BY <2>2, <2>3
<1>. QED  BY <1>1, <1>2, Kept

LEMMA BookEndWrite ==
  ASSUME TypeInv, BookInv, NEW c \in Calls, EndWrite(c)
  PROVE  BookInv'
<1>. USE DEF callVars, promiseVars, Minted, TypeInv
<1>1. /\ pc' = [pc EXCEPT ![c] = AfterWrite(c)]
      /\ ask' = ask /\ response' = response /\ copy' = copy
      /\ file' = copy[c] \/ file' = Unreadable
  BY DEF EndWrite, Fill
<1>2. MintedStay
  BY <1>1 DEF TypeOK, EndWrite, Saving, AfterWrite, MintedStay
<1>3. /\ \A d \in Calls : d # c => pc'[d] = pc[d]
      /\ pc'[c] \notin {"minting", "saving"}
  BY <1>1 DEF TypeOK, AfterWrite
<1>4. \A g \in issued' : \/ g \in issued
                         \/ /\ pc[c] \in {"minting", "saving"}
                            /\ g \in Named(copy[c], c)
  BY DEF EndWrite
<1>5. FileEntitled' /\ CopiesEntitled'
  <2>1. \A d \in Calls : \A g \in copy[d].grants : Entitled(g)'
    BY <1>2, CopyTypes, EntitledStays DEF BookInv, CopiesEntitled
  <2>. QED  BY <1>1, <2>1 DEF FileEntitled, CopiesEntitled
<1>6. FirstAsMinted'
  BY <1>1, <1>3 DEF BookInv, FirstAsMinted
<1>7. IssuedAsMinted'
  <2>1. ASSUME NEW g \in issued'
        PROVE  /\ g.id \in Calls /\ pc[g.id] \in Minted
               /\ g = Mint(g.id, ask[g.id], response[g.id])
    <3>1. CASE g \in issued
      BY <3>1 DEF BookInv, IssuedAsMinted, TypeOK, Grant
    <3>2. CASE pc[c] \in {"minting", "saving"} /\ g \in Named(copy[c], c)
      <4>1. g.id = c
        BY <3>2 DEF Named
      <4>. QED  BY <3>2, <4>1 DEF BookInv, FirstAsMinted
    <3>. QED  BY <1>4, <3>1, <3>2
  <2>. QED  BY <1>1, <1>2, <2>1 DEF IssuedAsMinted, MintedStay
<1>. QED  BY <1>5, <1>6, <1>7 DEF BookInv

LEMMA BookRest ==
  ASSUME TypeInv, BookInv,
         (\E id \in Calls : Expire(id)) \/ Restart \/ UNCHANGED vars
  PROVE  BookInv'
<1>. USE DEF callVars, promiseVars, Minted, TypeInv
<1>1. CASE Restart
  <2>1. /\ MintedStay /\ file' = file /\ issued' = issued
        /\ ask' = ask /\ response' = response
        /\ \A d \in Calls : copy'[d] = DefaultData
        /\ \A d \in Calls : pc'[d] \notin {"minting", "saving"}
    BY <1>1, Names DEF TypeOK, Restart, ProcessEnds, MintedStay
  <2>2. FileEntitled'
    <3>1. ASSUME file # Unreadable, NEW g \in file.grants
          PROVE  g \in Grant /\ Entitled(g)
      BY <3>1, LoadedEntitled DEF LoadVault
    <3>. QED  BY <2>1, <3>1, EntitledStays DEF FileEntitled
  <2>3. CopiesEntitled'
    BY <2>1, DataTypes DEF CopiesEntitled
  <2>4. FirstAsMinted'
    BY <2>1 DEF FirstAsMinted
  <2>5. IssuedAsMinted'
    BY <2>1 DEF BookInv, IssuedAsMinted, MintedStay, TypeOK, Grant
  <2>. QED  BY <2>2, <2>3, <2>4, <2>5 DEF BookInv
<1>2. CASE ~Restart
  <2>1. UNCHANGED <<file, copy, pc, ask, response, issued>>
    BY <1>2 DEF Expire, vars, fileVars
  <2>. QED  BY <2>1 DEF BookInv, FileEntitled, CopiesEntitled, FirstAsMinted,
                        IssuedAsMinted, Entitled
<1>. QED  BY <1>1, <1>2

LEMMA BookStep == TypeInv /\ BookInv /\ [Next]_vars => BookInv'
<1>. SUFFICES ASSUME TypeInv, BookInv, [Next]_vars
              PROVE  BookInv'
  OBVIOUS
<1>1. Known \subseteq Calls
  BY DEF Known, TypeInv, TypeOK, Grant
<1>2. ASSUME NEW c \in Calls, Start(c)
      PROVE  BookInv'
  BY <1>1, <1>2, BookRequest, BookPerform, BookPanel, BookMint DEF Start
<1>3. ASSUME NEW c \in Calls, Continue(c)
      PROVE  BookInv'
  BY <1>3, BookRequest, BookApproval, BookPerform, BookMint, BookConsume,
     BookEndWrite DEF Continue
<1>. QED  BY <1>2, <1>3, BookApproval, BookPerform, BookRest DEF Next

LEMMA Sanctioning == TypeInv /\ BookInv => OnlySanctioned
<1>. SUFFICES ASSUME TypeInv, BookInv
              PROVE  OnlySanctioned
  OBVIOUS
<1>1. ASSUME NEW g, Entitled(g)
      PROVE  Sanctioned(g)
  <2>1. \A h \in issued : h.id = g.id => g.uses \in 1..h.uses
    BY <1>1 DEF BookInv, IssuedAsMinted, Entitled
  <2>. QED  BY <1>1, <2>1, AccessAssumption DEF Entitled, Sanctioned
<1>. QED  BY <1>1 DEF BookInv, FileEntitled, CopiesEntitled, OnlySanctioned

LEMMA InitInv == Init => TypeInv /\ BookInv
<1>. SUFFICES ASSUME Init PROVE TypeInv /\ BookInv
  OBVIOUS
<1>1. TypeInv
  BY TypeInit DEF TypeInv, Init, Stages
<1>2. BookInv
  <2>2. /\ file = [DefaultData EXCEPT !.present = Enrolled]
        /\ copy = [c \in Calls |-> DefaultData]
        /\ issued = {} /\ pc = [c \in Calls |-> "idle"]
    BY Names DEF Init, FileInit
  <2>3. file.grants = {} /\ \A c \in Calls : copy[c].grants = {}
    BY <2>2, DataTypes
  <2>. QED  BY <2>2, <2>3 DEF BookInv, FileEntitled, CopiesEntitled,
                              FirstAsMinted, IssuedAsMinted
<1>. QED  BY <1>1, <1>2

(***************************************************************************)
(* Whatever calls overlap, time out or are cut off by a restart, every     *)
(* grant in the vault file, and in every copy about to be written to it,   *)
(* is one that the user or the policy allowed, to that handle, for that    *)
(* thing and action, with no more uses than it was issued with: in         *)
(* particular a popup answered after its request gave up issues nothing,   *)
(* and a stale write brings back no more than was once issued.             *)
(***************************************************************************)
THEOREM OnlySanctionedCorrect == Spec => []OnlySanctioned
  BY InitInv, TypeStep, BookStep, Sanctioning, PTL DEF Spec
-----------------------------------------------------------------------------
(***************************************************************************)
(* The books, while calls do not overlap.                                  *)
(*                                                                         *)
(* SerialInv is the inductive invariant of the other three properties.     *)
(* They speak of the file between writes and of replies already given, and *)
(* a write takes two steps: Books says the same of the vault as it will be *)
(* once the write under way is over (VaultFileProofs!Vault) and of what    *)
(* the call that writes will then report (Told).  So the end of a write    *)
(* changes nothing, and its beginning makes a change and its report at     *)
(* once.  The change is known because the copy written is fresh: it is the *)
(* file as it still is with what the call does to it (FreshCopy).          *)
(***************************************************************************)
\* What a call reports, or will once the write under way is over.
Told(c) == IF c \in writing THEN Settled(c) ELSE reply[c]
Report(kind, r) == {c \in Of(kind) : Told(c) = r}

\* The grants issued, and the one that is being written for the first time.
Given ==
  issued \cup UNION {Named(copy[c], c) :
                       c \in {c \in writing : pc[c] \in {"minting", "saving"}}}

\* How far a call is says of what kind it is and what it can report.
Redeeming == {"opened", "perform", "waiting", "spend", "spending"}
Closed == {"unlogged", "logging", "done", "dead"}
Kinded(c) ==
  /\ pc[c] # "idle" => ask[c] \in Asks
  /\ pc[c] \in Redeeming => ask[c].kind = "redeem"
  /\ pc[c] \in {"asked", "touching", "authed"} => ask[c].kind = "request"
  /\ pc[c] \in {"prompting", "unregister", "mint", "minting"} =>
       ask[c].kind \in {"request", "enroll"}
  /\ pc[c] \in {"unlogged", "logging"} =>
       ask[c].kind \in {"request", "enroll", "redeem"}
  /\ pc[c] = "saving" =>
       ask[c].kind \in {"precreate", "revoke_grant", "revoke_handle", "other"}
  /\ c \in writing => pc[c] \in Saving
Reporting(c) ==
  /\ reply[c] # "none" => pc[c] \in Closed
  /\ reply[c] = "grant" => ask[c].kind \in {"request", "enroll"}
  /\ reply[c] = "ok" => ask[c].kind \notin {"request", "enroll"}

\* The grants that are named have been issued; none is issued twice.
Targets(c) ==
  pc[c] # "idle" /\ ask[c].kind \in {"redeem", "revoke_grant"} =>
    \E g \in issued : g.id = target[c]
IssuedOnce == \A g \in issued : pc[g.id] \in Closed

CallOK(c) == Kinded(c) /\ Reporting(c) /\ Targets(c)
CallInv == IssuedOnce /\ \A c \in Calls : CallOK(c)

\* A fresh copy is the file with the change its call makes.
Minting(c) ==
  LET a == ask[c] IN
    /\ pc[c] = "minting" /\ a.kind = "enroll" =>
         copy[c] = [file EXCEPT !.present = @ \cup {a.handle}]
    /\ pc[c] = "minting" /\ a.kind = "request" =>
         copy[c] = AddGrant(file, Mint(c, a, response[c]))
    /\ pc[c] = "saving" /\ a.kind = "precreate" =>
         copy[c] = [AddGrant(file, Mint(c, a, response[c])) EXCEPT !.log = @ \cup {c}]
Spending(c) ==
  /\ pc[c] \in Redeeming => Named(file, target[c]) # {}
  /\ pc[c] \in Redeeming \ {"spending"} => copy[c] = file
  /\ pc[c] = "spending" => copy[c] = Spend(file, target[c])
Revoking(c) ==
  LET a == ask[c] IN
    /\ pc[c] = "saving" /\ a.kind = "revoke_grant" =>
         copy[c] = [file EXCEPT !.grants = @ \ Named(file, target[c])]
    /\ pc[c] = "saving" /\ a.kind = "revoke_handle" =>
         /\ a.handle \in Listed
         /\ copy[c] = [file EXCEPT !.revoked = @ \cup ({a.handle} \cap file.present),
                                   !.grants = {g \in @ : g.handle # a.handle},
                                   !.log = @ \cup {c}]
Noting(c) ==
  /\ pc[c] = "touching" => copy[c] = file
  /\ pc[c] = "logging" => copy[c] = [file EXCEPT !.log = @ \cup {c}]
  /\ pc[c] = "saving" /\ ask[c].kind = "other" => copy[c] = file

FreshCopy(c) == Minting(c) /\ Spending(c) /\ Revoking(c) /\ Noting(c)
CopyInv == \A c \in fresh : FreshCopy(c)

\* What the vault holds, when nothing has overlapped or been cut short.
Redeemed(id) == {c \in Report("redeem", "ok") : target[c] = id}
RevokedByName(id) == \E c \in Report("revoke_grant", "ok") : target[c] = id
RevokedByHandle(h) == \E c \in Report("revoke_handle", "ok") : ask[c].handle = h

HandlesKept ==
  /\ Enrolled \subseteq Vault.present
  /\ \A c \in Report("enroll", "grant") : ask[c].handle \in Vault.present
  /\ \A c \in Report("revoke_handle", "ok") : ask[c].handle \in Vault.revoked
GrantsGiven == \A g \in Vault.grants : \E h \in Given : h.id = g.id
GrantsRevoked ==
  \A c \in Report("revoke_grant", "ok") : Named(Vault, target[c]) = {}
Due(g) == g.uses - Cardinality(Redeemed(g.id))
UsesLeftOf(g) ==
  /\ IsFiniteSet(Redeemed(g.id))
  /\ Due(g) >= 0
  /\ \A h \in Named(Vault, g.id) : h.uses = Due(g)
  /\ Named(Vault, g.id) = {} =>
       Due(g) = 0 \/ RevokedByName(g.id) \/ RevokedByHandle(g.handle)
UsesLeft == \A g \in Given : UsesLeftOf(g)
ToBeLogged(c) ==
  /\ c \in Of("request") \cup Of("redeem") /\ Told(c) \in {"grant", "ok"}
  /\ pc[c] = "done" \/ (c \in writing /\ pc[c] = "logging")
Logged == \A c \in Calls : ToBeLogged(c) => c \in Vault.log

Books == HandlesKept /\ GrantsGiven /\ GrantsRevoked /\ UsesLeft /\ Logged
SerialInv == FileInv /\ CallInv /\ CopyInv /\ (Serial => Books)
-----------------------------------------------------------------------------
\* A step of c leaves other calls and their copies alone.
CopiesAlone(c) ==
  \A d \in Calls : d # c => /\ copy'[d] = copy[d]
                            /\ d \in writing' => d \in writing
                            /\ d \in fresh' => d \in fresh
Alone(c) ==
  /\ CopiesAlone(c)
  /\ \A d \in Calls : d # c => /\ pc'[d] = pc[d] /\ ask'[d] = ask[d]
                               /\ reply'[d] = reply[d] /\ target'[d] = target[d]
                               /\ response'[d] = response[d]
  /\ issued \subseteq issued'

LEMMA FileAlone ==
  ASSUME TypeInv, NEW c \in Calls,
         \/ \E data : LoadAndSet(c, data)
         \/ LoadAndLook \/ Truncate(c) \/ Fill(c) \/ UNCHANGED fileVars
  PROVE  CopiesAlone(c)
<1>1. copy \in [Calls -> VaultData]
  BY Names DEF TypeInv, TypeOK, FileTypeOK
<1>2. ASSUME NEW data, LoadAndSet(c, data)
      PROVE  CopiesAlone(c)
  BY <1>1, <1>2 DEF LoadAndSet, CopiesAlone
<1>3. CASE LoadAndLook \/ Truncate(c) \/ Fill(c) \/ UNCHANGED fileVars
  BY <1>3 DEF LoadAndLook, Truncate, Fill, fileVars, CopiesAlone
<1>. QED  BY <1>2, <1>3

LEMMA StartAlone ==
  ASSUME TypeInv, NEW c \in Calls, Start(c)
  PROVE  Alone(c) /\ pc[c] = "idle"
<1>. USE FileAlone DEF Begin, Goto, Alone, TypeInv, TypeOK
<1>1. CASE RefuseRequest(c) \/ Request(c) \/ Enroll(c)
  BY <1>1 DEF RefuseRequest, Request, Enroll
<1>2. ASSUME NEW id \in Known,
             OpenGrant(c, id) \/ RefuseRedeem(c, id) \/ RevokeGrant(c, id)
      PROVE  Alone(c) /\ pc[c] = "idle"
  BY <1>2 DEF OpenGrant, RefuseRedeem, RevokeGrant
<1>3. ASSUME NEW answered \in Answers, Precreate(c, answered)
      PROVE  Alone(c) /\ pc[c] = "idle"
  BY <1>3 DEF Precreate
<1>4. CASE RevokeHandle(c) \/ LoadOther(c)
  BY <1>4 DEF RevokeHandle, LoadOther
<1>. QED  BY <1>1, <1>2, <1>3, <1>4 DEF Start

LEMMA ContinueAlone ==
  ASSUME TypeInv, NEW c \in Calls, Continue(c)
  PROVE  /\ Alone(c) /\ UNCHANGED <<ask, target>>
         /\ pc[c] \in Closed => pc[c] = "unlogged" \/ pc[c] = "logging"
<1>. USE FileAlone DEF Settle, Goto, promiseVars, callVars, Alone, TypeInv, TypeOK, Saving,
                       Closed
<1>1. CASE Touch(c) \/ MatchGrant(c) \/ AutoApprove(c) \/ Prompt(c)
  BY <1>1 DEF Touch, MatchGrant, AutoApprove, Prompt
<1>2. CASE Approved(c) \/ Denied(c) \/ PromptTimesOut(c) \/ Unregister(c)
  BY <1>2 DEF Approved, Denied, PromptTimesOut, Unregister
<1>3. CASE LoadAndMint(c) \/ Audit(c)
  BY <1>3 DEF LoadAndMint, Audit
<1>4. CASE Authenticate(c) \/ FailToAuthenticate(c) \/ Dispatch(c)
  BY <1>4 DEF Authenticate, FailToAuthenticate, Dispatch
<1>5. CASE Performed(c) \/ PerformFails(c) \/ PerformTimesOut(c)
  BY <1>5 DEF Performed, PerformFails, PerformTimesOut
<1>6. CASE BeginWrite(c) \/ EndWrite(c)
  BY <1>6 DEF BeginWrite, EndWrite
<1>7. CASE Consume(c)
  <2>1. CopiesAlone(c)
    BY <1>7, Names DEF Consume, CopiesAlone, FileTypeOK
  <2>. QED  BY <1>7, <2>1 DEF Consume
<1>. QED  BY <1>1, <1>2, <1>3, <1>4, <1>5, <1>6, <1>7 DEF Continue

LEMMA CallKept ==
  ASSUME TypeInv, CallInv, NEW c \in Calls, Alone(c), CallOK(c)',
         pc[c] \in Closed => pc'[c] \in Closed,
         \A g \in issued' : g \in issued \/ (g.id = c /\ pc'[c] \in Closed)
  PROVE  CallInv'
<1>1. ASSUME NEW d \in Calls, d # c
      PROVE  CallOK(d)'
  BY <1>1 DEF CallInv, CallOK, Alone, CopiesAlone, Kinded, Reporting, Targets
<1>2. IssuedOnce'
  <2>1. ASSUME NEW g \in issued'
        PROVE  pc'[g.id] \in Closed
    BY <2>1 DEF CallInv, IssuedOnce, Alone, TypeInv, TypeOK, Grant
  <2>. QED  BY <2>1 DEF IssuedOnce
<1>. QED  BY <1>1, <1>2 DEF CallInv

LEMMA CallStart ==
  ASSUME TypeInv, CallInv, NEW c \in Calls, Start(c)
  PROVE  CallInv'
<1>. USE DEF Begin, Goto, LoadAndLook, LoadAndSet, fileVars, Saving, Closed, Redeeming
<1>1. Alone(c) /\ pc[c] = "idle"
  BY StartAlone
<1>2. reply[c] = "none" /\ c \notin writing
  BY <1>1 DEF CallInv, CallOK, Reporting, Kinded
<1>3. ASSUME issued' = issued, CallOK(c)'
      PROVE  CallInv'
  BY <1>1, <1>3, CallKept
<1>. USE <1>1, <1>2 DEF TypeInv, TypeOK, CallOK, Kinded, Reporting, Targets
<1>4. CASE RefuseRequest(c) \/ Request(c) \/ Enroll(c)
  BY <1>3, <1>4 DEF RefuseRequest, Request, Enroll
<1>5. ASSUME NEW id \in Known,
             OpenGrant(c, id) \/ RefuseRedeem(c, id) \/ RevokeGrant(c, id)
      PROVE CallInv'
  <2>1. \E g \in issued : g.id = id
    BY DEF Known
  <2>. QED  BY <1>3, <1>5, <2>1 DEF OpenGrant, RefuseRedeem, RevokeGrant
<1>6. ASSUME NEW answered \in Answers, Precreate(c, answered)
      PROVE  CallInv'
  BY <1>3, <1>6 DEF Precreate
<1>7. CASE RevokeHandle(c) \/ LoadOther(c)
  BY <1>3, <1>7 DEF RevokeHandle, LoadOther
<1>. QED  BY <1>4, <1>5, <1>6, <1>7 DEF Start

LEMMA CallContinue ==
  ASSUME TypeInv, CallInv, NEW c \in Calls, Continue(c), ~EndWrite(c)
  PROVE  CallInv'
<1>. USE DEF Settle, Goto, LoadAndLook, LoadAndSet, fileVars, Saving, Closed, Redeeming,
             callVars, promiseVars
<1>1. CallOK(c) /\ Alone(c)
  BY ContinueAlone DEF CallInv
<1>2. ASSUME issued' = issued, CallOK(c)', pc[c] \in Closed => pc'[c] \in Closed
      PROVE  CallInv'
  BY <1>1, <1>2, CallKept
<1>. USE <1>1 DEF TypeInv, TypeOK, CallOK, Kinded, Reporting, Targets, Stages
<1>3. CASE Touch(c) \/ MatchGrant(c) \/ AutoApprove(c) \/ Prompt(c)
  BY <1>2, <1>3 DEF Touch, MatchGrant, AutoApprove, Prompt
<1>4. CASE Approved(c) \/ Denied(c) \/ PromptTimesOut(c) \/ Unregister(c)
  BY <1>2, <1>4 DEF Approved, Denied, PromptTimesOut, Unregister
<1>5. CASE LoadAndMint(c) \/ Audit(c)
  BY <1>2, <1>5 DEF LoadAndMint, Audit
<1>6. CASE Authenticate(c) \/ FailToAuthenticate(c) \/ Dispatch(c)
  BY <1>2, <1>6 DEF Authenticate, FailToAuthenticate, Dispatch
<1>7. CASE Performed(c) \/ PerformFails(c) \/ PerformTimesOut(c)
  BY <1>2, <1>7 DEF Performed, PerformFails, PerformTimesOut
<1>8. CASE Consume(c) \/ BeginWrite(c)
  BY <1>2, <1>8 DEF Consume, BeginWrite, Truncate
<1>. QED  BY <1>3, <1>4, <1>5, <1>6, <1>7, <1>8 DEF Continue

\* What the end of a write makes of the call.
LEMMA WriteEnds ==
  ASSUME NEW c \in Calls, pc[c] \in Saving
  PROVE  /\ AfterWrite(c) = IF pc[c] = "touching" THEN "authed"
                            ELSE IF pc[c] \in {"minting", "spending"} THEN "unlogged"
                            ELSE "done"
         /\ Settled(c) = IF pc[c] = "minting" THEN "grant"
                         ELSE IF pc[c] \in {"spending", "saving"} THEN "ok"
                         ELSE reply[c]
<1>1. CASE pc[c] = "touching"
  BY <1>1 DEF AfterWrite, Settled
<1>2. CASE pc[c] = "minting"
  BY <1>2 DEF AfterWrite, Settled
<1>3. CASE pc[c] = "spending"
  BY <1>3 DEF AfterWrite, Settled
<1>4. CASE pc[c] = "logging"
  BY <1>4 DEF AfterWrite, Settled
<1>5. CASE pc[c] = "saving"
  BY <1>5 DEF AfterWrite, Settled
<1>. QED  BY <1>1, <1>2, <1>3, <1>4, <1>5 DEF Saving

LEMMA CallEndWrite ==
  ASSUME TypeInv, CallInv, NEW c \in Calls, EndWrite(c)
  PROVE  CallInv'
<1>. USE DEF Saving, Closed, Redeeming, callVars, promiseVars
<1>1. CallOK(c) /\ pc[c] \in Saving /\ Alone(c)
  BY ContinueAlone DEF CallInv, EndWrite, Continue
<1>2. /\ pc'[c] = AfterWrite(c) /\ reply'[c] = Settled(c)
      /\ UNCHANGED <<ask, target>> /\ c \notin writing'
      /\ \A g \in issued' : \/ g \in issued
                            \/ g.id = c /\ pc[c] \in {"minting", "saving"}
  BY DEF EndWrite, Fill, TypeInv, TypeOK, Named
<1>3. AfterWrite(c) \in Closed \/ (pc[c] = "touching" /\ AfterWrite(c) = "authed")
  BY <1>1, WriteEnds
<1>4. pc[c] \in {"minting", "saving"} => AfterWrite(c) \in Closed
  BY WriteEnds
<1>5. CallOK(c)'
  BY <1>1, <1>2, WriteEnds DEF CallOK, Kinded, Reporting, Targets, Alone
<1>. QED  BY <1>1, <1>2, <1>3, <1>4, <1>5, CallKept

LEMMA CallRest ==
  ASSUME TypeInv, CallInv,
         \/ \E c \in Calls : BrowserActs(c)
         \/ \E c \in Calls, answered \in Answers : Respond(c, answered)
         \/ \E id \in Calls : Expire(id)
         \/ Restart \/ UNCHANGED vars
  PROVE  CallInv'
<1>. USE DEF CallInv, CallOK, Kinded, Reporting, Targets, IssuedOnce, Saving, Closed,
             Redeeming
<1>1. CASE UNCHANGED <<pc, ask, reply, target, writing, issued>>
  BY <1>1
<1>2. CASE Restart
  <2>1. /\ \A c \in Calls : /\ pc'[c] = IF pc[c] \in {"idle", "done"} THEN pc[c]
                                                                    ELSE "dead"
                            /\ reply'[c] = IF pc[c] = "waiting" THEN "timedout"
                                                              ELSE reply[c]
        /\ writing' = {} /\ UNCHANGED <<ask, target, issued>>
    BY <1>2 DEF Restart, ProcessEnds
  <2>2. \A c \in Calls : CallOK(c)'
    BY <2>1
  <2>3. IssuedOnce'
    BY <2>1 DEF TypeInv, TypeOK, Grant
  <2>. QED  BY <2>2, <2>3
<1>3. CASE ~Restart
  BY <1>1, <1>3 DEF BrowserActs, Respond, Expire, vars, fileVars, callVars
<1>. QED  BY <1>2, <1>3

LEMMA CallStep == TypeInv /\ CallInv /\ [Next]_vars => CallInv'
  BY CallStart, CallContinue, CallEndWrite, CallRest DEF Next, Continue

\* Once a call can report a success nothing of it changes any more.
LEMMA ReportsStay ==
  ASSUME TypeInv, CallInv, [Next]_vars, NEW d \in Calls, reply[d] \in {"grant", "ok"}
  PROVE  /\ reply'[d] = reply[d] /\ ask'[d] = ask[d] /\ target'[d] = target[d]
         /\ pc'[d] \in Closed
<1>1. pc[d] \in Closed /\ pc[d] \notin {"idle", "waiting"}
  BY DEF CallInv, CallOK, Reporting, Closed
<1>2. ASSUME NEW c \in Calls, Start(c)
      PROVE  c # d /\ Alone(c)
  BY <1>1, <1>2, StartAlone
<1>3. ASSUME NEW c \in Calls, Continue(c), c # d
      PROVE  Alone(c)
  BY <1>3, ContinueAlone
<1>4. ASSUME Continue(d)
      PROVE  /\ reply'[d] = reply[d] /\ ask'[d] = ask[d] /\ target'[d] = target[d]
             /\ pc'[d] \in Closed
  <2>1. UNCHANGED <<ask, target>> /\ pc[d] \in {"unlogged", "logging"}
    BY <1>1, <1>4, ContinueAlone
  <2>2. Audit(d) \/ BeginWrite(d) \/ EndWrite(d)
    BY <1>4, <2>1 DEF Continue, Touch, MatchGrant, AutoApprove, Prompt, Approved,
       Denied, PromptTimesOut, Unregister, LoadAndMint, Authenticate,
       FailToAuthenticate, Dispatch, Performed, PerformFails, PerformTimesOut,
       Consume, Settle, Goto
  <2>3. CASE Audit(d)
    BY <2>1, <2>3 DEF Audit, Goto, TypeInv, TypeOK, Closed
  <2>4. CASE BeginWrite(d)
    BY <1>1, <2>1, <2>4 DEF BeginWrite
  <2>5. CASE EndWrite(d)
    <3>1. pc[d] = "logging" /\ pc[d] \in Saving
      BY <2>1, <2>5 DEF EndWrite, Saving
    <3>. QED  BY <2>1, <2>5, <3>1, WriteEnds DEF EndWrite, TypeInv, TypeOK, Closed
  <2>. QED  BY <2>2, <2>3, <2>4, <2>5
<1>5. CASE Restart
  BY <1>1, <1>5 DEF Restart, Closed
<1>6. ASSUME \/ \E c \in Calls : BrowserActs(c)
             \/ \E c \in Calls, answered \in Answers : Respond(c, answered)
             \/ \E id \in Calls : Expire(id)
             \/ UNCHANGED vars
      PROVE  UNCHANGED <<pc, reply, ask, target>>
  BY <1>6 DEF BrowserActs, Respond, Expire, vars, callVars
<1>. QED  BY <1>1, <1>2, <1>3, <1>4, <1>5, <1>6 DEF Next, Alone

LEMMA ListedGrows ==
  ASSUME TypeInv, CallInv, [Next]_vars
  PROVE  Listed \subseteq Listed'
  BY ReportsStay DEF Listed
-----------------------------------------------------------------------------
\* Fresh copies.

LEMMA CopyKept ==
  ASSUME TypeInv', CopyInv, NEW c \in Calls, Alone(c), file' = file,
         Listed \subseteq Listed', c \in fresh' => FreshCopy(c)'
  PROVE  CopyInv'
<1>1. fresh' \subseteq Calls
  BY Names DEF TypeInv, TypeOK, FileTypeOK
<1>2. ASSUME NEW d \in Calls, d # c, d \in fresh'
      PROVE  FreshCopy(d)'
  <2>1. FreshCopy(d)
    BY <1>2 DEF CopyInv, Alone, CopiesAlone
  <2>2. /\ pc'[d] = pc[d] /\ ask'[d] = ask[d] /\ target'[d] = target[d]
        /\ response'[d] = response[d] /\ copy'[d] = copy[d]
    BY <1>2 DEF Alone, CopiesAlone
  <2>3. Minting(d)'
    BY <2>1, <2>2 DEF FreshCopy, Minting
  <2>4. Spending(d)'
    BY <2>1, <2>2 DEF FreshCopy, Spending
  <2>5. Revoking(d)'
    BY <2>1, <2>2 DEF FreshCopy, Revoking
  <2>6. Noting(d)'
    BY <2>1, <2>2 DEF FreshCopy, Noting
  <2>. QED  BY <2>3, <2>4, <2>5, <2>6 DEF FreshCopy
<1>. QED  BY <1>1, <1>2 DEF CopyInv

LEMMA LoadedCopy ==
  ASSUME TypeInv, NEW c \in Calls, NEW data, LoadAndSet(c, data), c \in fresh'
  PROVE  file' = file /\ LoadVault = file /\ copy'[c] = data
  BY Names DEF TypeInv, TypeOK, FileTypeOK, LoadAndSet, LoadVault

LEMMA CopyStart ==
  ASSUME TypeInv, TypeInv', CallInv, CopyInv, Listed \subseteq Listed',
         NEW c \in Calls, Start(c)
  PROVE  CopyInv'
<1>1. Alone(c) /\ pc[c] = "idle"
  BY StartAlone
<1>2. ASSUME file' = file, c \in fresh' => FreshCopy(c)'
      PROVE  CopyInv'
  BY <1>1, <1>2, CopyKept
<1>. USE DEF Begin, Goto, TypeInv, TypeOK, Redeeming
<1>3. CASE RefuseRequest(c) \/ Request(c) \/ Enroll(c)
  BY <1>2, <1>3 DEF RefuseRequest, Request, Enroll, LoadAndLook, fileVars,
     FreshCopy, Minting, Spending, Revoking, Noting
<1>4. ASSUME NEW id \in Known, RefuseRedeem(c, id)
      PROVE  CopyInv'
  BY <1>2, <1>4 DEF RefuseRedeem, LoadAndLook, FreshCopy, Minting, Spending,
     Revoking, Noting
<1>5. ASSUME NEW id \in Known, OpenGrant(c, id)
      PROVE  CopyInv'
  <2>1. /\ file' = file /\ pc'[c] = "opened" /\ target'[c] = id
        /\ Named(LoadVault, id) # {}
        /\ c \in fresh' => LoadVault = file /\ copy'[c] = LoadVault
    <3>1. id \in Calls
      BY <1>5 DEF Known, Grant
    <3>2. LoadAndSet(c, LoadVault)
      BY <1>5 DEF OpenGrant
    <3>3. Named(LoadVault, id) # {}
      BY <1>5 DEF OpenGrant, Redeemable
    <3>4. file' = file /\ (c \in fresh' => LoadVault = file /\ copy'[c] = LoadVault)
      BY <3>2, LoadedCopy DEF LoadAndSet
    <3>. QED  BY <1>5, <3>1, <3>3, <3>4 DEF OpenGrant
  <2>. QED  BY <1>2, <2>1 DEF FreshCopy, Minting, Spending, Revoking, Noting
<1>6. ASSUME NEW id \in Known, RevokeGrant(c, id)
      PROVE  CopyInv'
  <2>. DEFINE data == [LoadVault EXCEPT !.grants = @ \ Named(LoadVault, id)]
  <2>1. LoadAndSet(c, data) /\ id \in Calls
    BY <1>6 DEF RevokeGrant, Known, Grant
  <2>2. /\ file' = file /\ pc'[c] = "saving" /\ target'[c] = id
        /\ ask'[c].kind = "revoke_grant"
    BY <1>6, <2>1 DEF RevokeGrant, LoadAndSet
  <2>3. c \in fresh' => LoadVault = file /\ copy'[c] = data
    BY <2>1, LoadedCopy
  <2>. QED  BY <1>2, <2>2, <2>3 DEF FreshCopy, Minting, Spending, Revoking, Noting
<1>7. ASSUME NEW answered \in Answers, Precreate(c, answered)
      PROVE  CopyInv'
  <2>. DEFINE data == [AddGrant(LoadVault, Mint(c, ask'[c], answered))
                         EXCEPT !.log = @ \cup {c}]
  <2>1. LoadAndSet(c, data)
    BY <1>7 DEF Precreate
  <2>2. /\ file' = file /\ pc'[c] = "saving" /\ response'[c] = answered
        /\ ask'[c].kind = "precreate"
    BY <1>7, <2>1 DEF Precreate, LoadAndSet
  <2>3. c \in fresh' => LoadVault = file /\ copy'[c] = data
    BY <2>1, LoadedCopy
  <2>. QED  BY <1>2, <2>2, <2>3 DEF FreshCopy, Minting, Spending, Revoking, Noting
<1>8. CASE RevokeHandle(c)
  <2>. DEFINE data == [LoadVault EXCEPT
                         !.revoked = @ \cup ({ask'[c].handle} \cap LoadVault.present),
                         !.grants = {g \in @ : g.handle # ask'[c].handle},
                         !.log = @ \cup {c}]
  <2>1. LoadAndSet(c, data)
    BY <1>8 DEF RevokeHandle
  <2>2. /\ file' = file /\ pc'[c] = "saving" /\ ask'[c].kind = "revoke_handle"
        /\ ask'[c].handle \in Listed'
    BY <1>8, <2>1 DEF RevokeHandle, LoadAndSet
  <2>3. c \in fresh' => LoadVault = file /\ copy'[c] = data
    BY <2>1, LoadedCopy
  <2>. QED  BY <1>2, <2>2, <2>3 DEF FreshCopy, Minting, Spending, Revoking, Noting
<1>9. CASE LoadOther(c)
  <2>1. LoadAndSet(c, LoadVault)
    BY <1>9 DEF LoadOther
  <2>2. /\ file' = file /\ pc'[c] = "saving" /\ ask'[c].kind = "other"
    BY <1>9, <2>1 DEF LoadOther, LoadAndSet
  <2>3. c \in fresh' => LoadVault = file /\ copy'[c] = LoadVault
    BY <2>1, LoadedCopy
  <2>. QED  BY <1>2, <2>2, <2>3 DEF FreshCopy, Minting, Spending, Revoking, Noting
<1>. QED  BY <1>3, <1>4, <1>5, <1>6, <1>7, <1>8, <1>9 DEF Start

LEMMA CopyContinue ==
  ASSUME TypeInv, TypeInv', CallInv, CopyInv, Listed \subseteq Listed',
         NEW c \in Calls, Continue(c)
  PROVE  CopyInv'
<1>1. Alone(c) /\ CallOK(c) /\ UNCHANGED <<ask, target>>
  BY ContinueAlone DEF CallInv
<1>2. ASSUME file' = file, c \in fresh' => FreshCopy(c)'
      PROVE  CopyInv'
  BY <1>1, <1>2, CopyKept
<1>3. c \in fresh => FreshCopy(c)
  BY DEF CopyInv
<1>. USE DEF Settle, Goto, TypeInv, TypeOK, Redeeming
<1>4. CASE MatchGrant(c) \/ AutoApprove(c) \/ Prompt(c)
  BY <1>2, <1>4 DEF MatchGrant, AutoApprove, Prompt, LoadAndLook, fileVars,
     FreshCopy, Minting, Spending, Revoking, Noting
<1>5. CASE Approved(c) \/ Denied(c) \/ PromptTimesOut(c) \/ Unregister(c)
  BY <1>2, <1>5 DEF Approved, Denied, PromptTimesOut, Unregister, fileVars,
     FreshCopy, Minting, Spending, Revoking, Noting
<1>6. CASE Touch(c)
  <2>1. CASE ask[c].handle \in LoadVault.present
    BY <1>2, <1>6, <2>1, LoadedCopy DEF Touch, LoadAndSet, FreshCopy, Minting,
       Spending, Revoking, Noting
  <2>2. CASE ask[c].handle \notin LoadVault.present
    BY <1>2, <1>6, <2>2 DEF Touch, LoadAndLook, FreshCopy, Minting, Spending,
       Revoking, Noting
  <2>. QED  BY <2>1, <2>2
<1>7. CASE LoadAndMint(c)
  <2>. DEFINE data == IF ask[c].kind = "enroll"
                        THEN [LoadVault EXCEPT !.present = @ \cup {ask[c].handle}]
                        ELSE AddGrant(LoadVault, Mint(c, ask[c], response[c]))
  <2>1. LoadAndSet(c, data)
    BY <1>7 DEF LoadAndMint
  <2>2. /\ file' = file /\ pc'[c] = "minting" /\ UNCHANGED <<ask, response>>
    BY <1>7, <2>1 DEF LoadAndMint, LoadAndSet, callVars
  <2>3. c \in fresh' => LoadVault = file /\ copy'[c] = data
    BY <2>1, LoadedCopy
  <2>. QED  BY <1>2, <2>2, <2>3 DEF FreshCopy, Minting, Spending, Revoking, Noting
<1>8. CASE Audit(c)
  <2>1. LoadAndSet(c, [LoadVault EXCEPT !.log = @ \cup {c}])
    BY <1>8 DEF Audit
  <2>2. /\ file' = file /\ pc'[c] = "logging"
    BY <1>8, <2>1 DEF Audit, LoadAndSet
  <2>3. c \in fresh' =>
          LoadVault = file /\ copy'[c] = [LoadVault EXCEPT !.log = @ \cup {c}]
    BY <2>1, LoadedCopy
  <2>. QED  BY <1>2, <2>2, <2>3 DEF FreshCopy, Minting, Spending, Revoking, Noting
<1>9. CASE Authenticate(c) \/ FailToAuthenticate(c) \/ Dispatch(c)
  <2>1. UNCHANGED <<file, copy, fresh>>
    BY <1>9 DEF Authenticate, FailToAuthenticate, Dispatch, LoadAndLook, fileVars
  <2>2. /\ pc[c] \in Redeeming \ {"spending"}
        /\ pc'[c] \in {"perform", "waiting", "spend", "done"}
    BY <1>9 DEF Authenticate, FailToAuthenticate, Dispatch
  <2>. QED  BY <1>1, <1>2, <1>3, <2>1, <2>2 DEF FreshCopy, Minting, Spending,
            Revoking, Noting
<1>10. CASE Performed(c) \/ PerformFails(c) \/ PerformTimesOut(c)
  <2>1. UNCHANGED <<file, copy, fresh>>
    BY <1>10 DEF Performed, PerformFails, PerformTimesOut, fileVars
  <2>2. /\ pc[c] \in Redeeming \ {"spending"}
        /\ pc'[c] \in {"spend", "unlogged", "done"}
    BY <1>10 DEF Performed, PerformFails, PerformTimesOut
  <2>. QED  BY <1>1, <1>2, <1>3, <2>1, <2>2 DEF FreshCopy, Minting, Spending,
            Revoking, Noting
<1>11. CASE Consume(c)
  <2>1. /\ UNCHANGED <<file, fresh>> /\ pc[c] = "spend" /\ pc'[c] = "spending"
        /\ copy'[c] = Spend(copy[c], target[c])
    BY <1>11, Names DEF Consume, FileTypeOK
  <2>. QED  BY <1>1, <1>2, <1>3, <2>1 DEF FreshCopy, Minting, Spending,
            Revoking, Noting
<1>12. CASE BeginWrite(c) \/ EndWrite(c)
  BY <1>12 DEF BeginWrite, EndWrite, Truncate, Fill, CopyInv
<1>. QED  BY <1>4, <1>5, <1>6, <1>7, <1>8, <1>9, <1>10, <1>11, <1>12 DEF Continue

LEMMA CopyRest ==
  ASSUME TypeInv, TypeInv', CopyInv, Listed \subseteq Listed',
         \/ \E c \in Calls : BrowserActs(c)
         \/ \E c \in Calls, answered \in Answers : Respond(c, answered)
         \/ \E id \in Calls : Expire(id)
         \/ Restart \/ UNCHANGED vars
  PROVE  CopyInv'
<1>1. CASE Restart
  BY <1>1 DEF Restart, ProcessEnds, CopyInv
<1>2. ASSUME NEW c \in Calls, NEW answered \in Answers, Respond(c, answered)
      PROVE  CopyInv'
  <2>1. /\ Alone(c) /\ UNCHANGED <<file, fresh, copy, pc, ask, target>>
        /\ pc[c] \in {"prompting", "unregister"}
    BY <1>2 DEF Respond, TypeInv, TypeOK, Stages, fileVars, Alone, CopiesAlone
  <2>2. FreshCopy(c)'
    BY <2>1 DEF FreshCopy, Minting, Spending, Revoking, Noting, Redeeming
  <2>. QED  BY <2>1, <2>2, CopyKept
<1>3. ASSUME \/ \E c \in Calls : BrowserActs(c)
             \/ \E id \in Calls : Expire(id)
             \/ UNCHANGED vars
      PROVE  CopyInv'
  <2>1. UNCHANGED <<file, fresh, copy, pc, ask, target, response>>
    BY <1>3 DEF BrowserActs, Expire, vars, fileVars, callVars
  <2>2. ASSUME NEW d \in fresh
        PROVE  FreshCopy(d)'
    <3>1. FreshCopy(d)
      BY DEF CopyInv
    <3>2. Minting(d)' /\ Noting(d)'
      BY <2>1, <3>1 DEF FreshCopy, Minting, Noting
    <3>3. Spending(d)' /\ Revoking(d)'
      BY <2>1, <3>1 DEF FreshCopy, Spending, Revoking
    <3>. QED  BY <3>2, <3>3 DEF FreshCopy
  <2>. QED  BY <2>1, <2>2 DEF CopyInv
<1>. QED  BY <1>1, <1>2, <1>3

LEMMA CopyStep == TypeInv /\ CallInv /\ CopyInv /\ [Next]_vars => CopyInv'
<1>. SUFFICES ASSUME TypeInv, CallInv, CopyInv, [Next]_vars
              PROVE  CopyInv'
  OBVIOUS
<1>1. TypeInv' /\ Listed \subseteq Listed'
  BY TypeStep, ListedGrows
<1>. QED  BY <1>1, CopyStart, CopyContinue, CopyRest DEF Next

\* One thread writes at a time.
LEMMA FileStep == TypeInv /\ FileInv /\ [Next]_vars => FileInv'
<1>. SUFFICES ASSUME TypeInv, FileInv, [Next]_vars
              PROVE  FileInv'
  OBVIOUS
<1>1. copy \in [Threads -> VaultData] /\ Unreadable \notin VaultData
  BY AccessAssumption DEF TypeInv, TypeOK, FileTypeOK
<1>2. ASSUME NEW c \in Calls,
             \/ LoadAndLook \/ (\E data : LoadAndSet(c, data)) \/ Truncate(c) \/ Fill(c)
             \/ ProcessEnds \/ UNCHANGED <<file, writing, fresh, overlapped, interrupted>>
      PROVE  FileInv'
  BY <1>1, <1>2, Names, FileInvKept
<1>. USE DEF fileVars
<1>3. ASSUME NEW c \in Calls, Start(c)
      PROVE  FileInv'
  BY <1>2, <1>3 DEF Start, RefuseRequest, Request, Enroll, OpenGrant,
     RefuseRedeem, RevokeGrant, Precreate, RevokeHandle, LoadOther
<1>4. ASSUME NEW c \in Calls, Continue(c)
      PROVE  FileInv'
  BY <1>2, <1>4 DEF Continue, Touch, MatchGrant, AutoApprove, Prompt, Approved, Denied,
     PromptTimesOut, Unregister, LoadAndMint, Audit, Authenticate, FailToAuthenticate,
     Dispatch, Performed, PerformFails, PerformTimesOut, Consume, BeginWrite, EndWrite
<1>5. ASSUME NEW c \in Calls, BrowserActs(c) \/ \E answered \in Answers : Respond(c, answered)
      PROVE  FileInv'
  BY <1>2, <1>5 DEF BrowserActs, Respond
<1>6. ASSUME NEW id \in Calls, Expire(id)
      PROVE  FileInv'
  BY <1>2, <1>6 DEF Expire
<1>7. CASE Restart \/ UNCHANGED vars
  BY <1>7 DEF Restart, vars, ProcessEnds, FileInv, OneAtATime, CutOrWritten
<1>. QED  BY <1>3, <1>4, <1>5, <1>6, <1>7 DEF Next
-----------------------------------------------------------------------------
\* What the vault holds.

\* The reports the books are about.
Booked == {"enroll", "redeem", "revoke_grant", "revoke_handle"}
Success(c) ==
  pc[c] # "idle" /\ ask[c].kind \in Booked /\ Told(c) \in {"grant", "ok"}

SameReports ==
  \A c \in Calls :
    /\ Success(c)' <=> Success(c)
    /\ Success(c) => /\ ask'[c] = ask[c] /\ target'[c] = target[c]
                     /\ Told(c)' = Told(c)

LEMMA SameReportSets ==
  ASSUME SameReports
  PROVE  /\ \A kind \in Booked, r \in {"grant", "ok"} :
              /\ Report(kind, r)' = Report(kind, r)
              /\ \A c \in Report(kind, r) : ask'[c] = ask[c] /\ target'[c] = target[c]
         /\ \A id : Redeemed(id)' = Redeemed(id)
         /\ \A id : RevokedByName(id)' <=> RevokedByName(id)
         /\ \A h : RevokedByHandle(h)' <=> RevokedByHandle(h)
<1>1. ASSUME NEW kind \in Booked, NEW r \in {"grant", "ok"}
      PROVE  /\ Report(kind, r)' = Report(kind, r)
             /\ \A c \in Report(kind, r) : ask'[c] = ask[c] /\ target'[c] = target[c]
  <2>1. \A c \in Calls : c \in Report(kind, r) => Success(c)
    BY DEF Report, Of, Success
  <2>2. \A c \in Calls : (c \in Report(kind, r))' => Success(c)'
    BY DEF Report, Of, Success
  <2>3. ASSUME NEW c \in Calls, Success(c)
        PROVE  (c \in Report(kind, r))' <=> c \in Report(kind, r)
    <3>1. /\ pc[c] # "idle" /\ pc'[c] # "idle" /\ ask'[c] = ask[c]
          /\ Told(c)' = Told(c)
      BY <2>3 DEF SameReports, Success
    <3>. QED  BY <3>1 DEF Report, Of
  <2>4. Report(kind, r) \subseteq Calls /\ Report(kind, r)' \subseteq Calls
    BY DEF Report, Of
  <2>. QED  BY <2>1, <2>2, <2>3, <2>4 DEF SameReports
<1>2. {"enroll", "redeem", "revoke_grant", "revoke_handle"} \subseteq Booked
  BY DEF Booked
<1>. QED  BY <1>1, <1>2 DEF Redeemed, RevokedByName, RevokedByHandle

\* What is left of one grant is settled by what was reported of it.
LEMMA UsesKept ==
  ASSUME NEW g, UsesLeftOf(g), Redeemed(g.id)' = Redeemed(g.id),
         Named(Vault, g.id)' = Named(Vault, g.id),
         RevokedByName(g.id) => RevokedByName(g.id)',
         RevokedByHandle(g.handle) => RevokedByHandle(g.handle)'
  PROVE  UsesLeftOf(g)'
<1>1. Due(g)' = Due(g)
  BY DEF Due
<1>. QED  BY <1>1 DEF UsesLeftOf

\* Steps after which the vault holds what it held before, but for the log.
LEMMA BooksKept ==
  ASSUME Books, SameReports, Given' = Given, Vault'.present = Vault.present,
         Vault'.revoked = Vault.revoked, Vault'.grants = Vault.grants,
         Logged'
  PROVE  Books'
<1>. USE SameReportSets DEF Books, Booked
<1>1. HandlesKept'
  BY DEF HandlesKept
<1>2. \A id : Named(Vault, id)' = Named(Vault, id)
  BY DEF Named
<1>3. GrantsGiven' /\ GrantsRevoked'
  BY <1>2 DEF GrantsGiven, GrantsRevoked
<1>4. UsesLeft'
  BY <1>2, UsesKept DEF UsesLeft
<1>. QED  BY <1>1, <1>3, <1>4

LEMMA QuietFile ==
  ASSUME NEW c \in Calls, ~overlapped',
         LoadAndLook \/ (\E data : LoadAndSet(c, data)) \/ UNCHANGED fileVars
  PROVE  Vault' = Vault /\ writing' = writing
<1>1. ASSUME NEW data, LoadAndSet(c, data)
      PROVE  Vault' = Vault /\ writing' = writing
  BY <1>1, Names, Loaded
<1>2. CASE LoadAndLook
  BY <1>2, LookedAt
<1>3. CASE UNCHANGED fileVars
  BY <1>3 DEF fileVars, Vault
<1>. QED  BY <1>1, <1>2, <1>3

\* A step of a call that writes nothing and reports no success of those booked.
LEMMA QuietCall ==
  ASSUME TypeInv, CallInv, Logged, NEW c \in Calls, Alone(c), c \notin writing,
         UNCHANGED <<writing, issued>>, Vault' = Vault,
         \/ pc[c] = "idle" /\ reply'[c] \in {"none", "error"}
         \/ /\ pc[c] # "idle" /\ pc'[c] # "idle"
            /\ UNCHANGED <<ask, target>>
            /\ \/ reply'[c] = reply[c]
               \/ reply[c] = "none" /\ reply'[c] \in {"error", "timedout"}
               \/ reply[c] = "none" /\ ask[c].kind = "request",
         pc'[c] = "done" => reply'[c] \notin {"grant", "ok"}
  PROVE  SameReports /\ Given' = Given /\ Logged'
<1>1. ASSUME NEW d \in Calls, d # c
      PROVE  /\ pc'[d] = pc[d] /\ ask'[d] = ask[d] /\ target'[d] = target[d]
             /\ Told(d)' = Told(d)
  BY <1>1 DEF Alone, Told, Settled
<1>2. Told(c) = reply[c] /\ Told(c)' = reply'[c]
  BY DEF Told
<1>3. pc[c] = "idle" => reply[c] = "none"
  BY DEF CallInv, CallOK, Reporting, Closed
<1>4. SameReports
  <2>1. /\ Success(c)' <=> Success(c)
        /\ Success(c) => /\ ask'[c] = ask[c] /\ target'[c] = target[c]
                         /\ Told(c)' = Told(c)
    BY <1>2, <1>3 DEF Success, Booked
  <2>. QED  BY <1>1, <2>1 DEF SameReports, Success
<1>5. Given' = Given
  BY <1>1, Names DEF Given, Alone, CopiesAlone, TypeInv, TypeOK, FileTypeOK
<1>6. Logged'
  <2>1. ASSUME NEW d \in Calls, ToBeLogged(d)'
        PROVE  ToBeLogged(d)
    BY <1>1, <1>2, <2>1 DEF ToBeLogged, Of
  <2>. QED  BY <2>1 DEF Logged
<1>. QED  BY <1>4, <1>5, <1>6

LEMMA StartQuiet ==
  ASSUME TypeInv, CallInv, Logged, NEW c \in Calls, Start(c), Serial'
  PROVE  Vault' = Vault /\ SameReports /\ Given' = Given /\ Logged'
<1>. USE DEF Begin, Goto, TypeInv, TypeOK
<1>1. /\ Alone(c) /\ pc[c] = "idle" /\ c \notin writing /\ reply[c] = "none"
      /\ ~overlapped'
  BY StartAlone DEF CallInv, CallOK, Kinded, Reporting, Closed, Saving, Serial
<1>2. /\ \/ LoadAndLook \/ (\E data : LoadAndSet(c, data)) \/ UNCHANGED fileVars
      /\ issued' = issued
  BY DEF Start, RefuseRequest, Request, Enroll, OpenGrant, RefuseRedeem,
         RevokeGrant, Precreate, RevokeHandle, LoadOther
<1>3. Vault' = Vault /\ writing' = writing
  BY <1>1, <1>2, QuietFile
<1>4. reply'[c] \in {"none", "error"}
  BY <1>1 DEF Start, RefuseRequest, Request, Enroll, OpenGrant, RefuseRedeem,
         RevokeGrant, Precreate, RevokeHandle, LoadOther
<1>. QED  BY <1>1, <1>2, <1>3, <1>4, QuietCall

LEMMA ContinueQuiet ==
  ASSUME TypeInv, CallInv, Logged, NEW c \in Calls, Continue(c),
         ~BeginWrite(c), ~EndWrite(c), Serial'
  PROVE  Vault' = Vault /\ SameReports /\ Given' = Given /\ Logged'
<1>. USE DEF Settle, Goto, TypeInv, TypeOK
<1>1. Alone(c) /\ UNCHANGED <<ask, target>> /\ CallOK(c) /\ ~overlapped'
  BY ContinueAlone DEF CallInv, Serial
<1>2. /\ \/ LoadAndLook \/ (\E data : LoadAndSet(c, data)) \/ UNCHANGED fileVars
         \/ Consume(c)
      /\ issued' = issued
  BY DEF Continue, Touch, MatchGrant, AutoApprove, Prompt, Approved, Denied,
     PromptTimesOut, Unregister, LoadAndMint, Audit, Authenticate,
     FailToAuthenticate, Dispatch, Performed, PerformFails, PerformTimesOut, Consume
<1>3. /\ c \notin writing
      /\ pc[c] # "idle" /\ pc'[c] # "idle"
      /\ \/ reply'[c] = reply[c] /\ pc'[c] # "done"
         \/ pc[c] \notin Closed /\ reply'[c] \in {"error", "timedout"}
         \/ MatchGrant(c)
  <2>1. CASE Touch(c) \/ MatchGrant(c) \/ AutoApprove(c) \/ Prompt(c)
    BY <1>1, <2>1 DEF Touch, MatchGrant, AutoApprove, Prompt, CallOK, Kinded, Saving
  <2>2. CASE Approved(c) \/ Denied(c) \/ PromptTimesOut(c) \/ Unregister(c)
    BY <1>1, <2>2 DEF Approved, Denied, PromptTimesOut, Unregister, CallOK,
       Kinded, Saving, Closed
  <2>3. CASE LoadAndMint(c) \/ Audit(c)
    BY <1>1, <2>3 DEF LoadAndMint, Audit, CallOK, Kinded, Saving
  <2>4. CASE Authenticate(c) \/ FailToAuthenticate(c) \/ Dispatch(c)
    BY <1>1, <2>4 DEF Authenticate, FailToAuthenticate, Dispatch, CallOK, Kinded,
       Saving, Closed
  <2>5. CASE Performed(c) \/ PerformFails(c) \/ PerformTimesOut(c) \/ Consume(c)
    BY <1>1, <2>5 DEF Performed, PerformFails, PerformTimesOut, Consume, CallOK,
       Kinded, Saving, Closed
  <2>. QED  BY <2>1, <2>2, <2>3, <2>4, <2>5 DEF Continue
<1>4. Vault' = Vault /\ writing' = writing
  <2>1. CASE Consume(c)
    <3>1. /\ UNCHANGED <<file, writing>>
          /\ \A d \in writing : copy'[d] = copy[d]
      BY <1>3, <2>1, Names DEF Consume, FileTypeOK
    <3>. QED  BY <3>1 DEF Vault
  <2>. QED  BY <1>1, <1>2, <2>1, QuietFile
<1>5. CASE MatchGrant(c)
  <2>1. /\ ask[c].kind = "request" /\ reply[c] = "none" /\ pc'[c] = "unlogged"
    BY <1>1, <1>5 DEF MatchGrant, Stages, CallOK, Reporting, Closed
  <2>. QED  BY <1>1, <1>2, <1>3, <1>4, <2>1, QuietCall
<1>6. CASE ~MatchGrant(c)
  <2>1. pc[c] \notin Closed => reply[c] = "none"
    BY <1>1 DEF CallOK, Reporting
  <2>. QED  BY <1>1, <1>2, <1>3, <1>4, <1>6, <2>1, QuietCall
<1>. QED  BY <1>5, <1>6

\* The end of a write changes nothing that has been told or is in the vault.
LEMMA EndQuiet ==
  ASSUME TypeInv, CallInv, FileInv, Logged, NEW c \in Calls, EndWrite(c), Serial'
  PROVE  Vault' = Vault /\ SameReports /\ Given' = Given /\ Logged'
<1>. USE DEF TypeInv, TypeOK
<1>1. /\ Alone(c) /\ CallOK(c) /\ pc[c] \in Saving /\ UNCHANGED <<ask, target>>
      /\ ~overlapped'
  BY ContinueAlone DEF CallInv, EndWrite, Continue, Serial
<1>2. writing = {c} /\ writing' = {} /\ Vault' = Vault /\ copy' = copy
  BY <1>1, Names, Filled DEF EndWrite
<1>3. /\ pc'[c] = AfterWrite(c) /\ reply'[c] = Settled(c)
      /\ issued' = IF pc[c] \in {"minting", "saving"}
                     THEN issued \cup Named(copy[c], c) ELSE issued
  BY DEF EndWrite
<1>4. /\ AfterWrite(c) # "idle" /\ pc[c] # "idle"
      /\ AfterWrite(c) = "done" => pc[c] \in {"logging", "saving"}
  BY <1>1, WriteEnds DEF Saving
<1>5. ASSUME NEW d \in Calls
      PROVE  /\ Told(d)' = Told(d) /\ ask'[d] = ask[d] /\ target'[d] = target[d]
             /\ pc[d] = "idle" <=> pc'[d] = "idle"
  BY <1>1, <1>2, <1>3, <1>4 DEF Told, Alone
<1>6. SameReports
  BY <1>5 DEF SameReports, Success
<1>7. Given' = Given
  BY <1>2, <1>3 DEF Given
<1>8. Logged'
  <2>1. ASSUME NEW d \in Calls, ToBeLogged(d)'
        PROVE  ToBeLogged(d)
    <3>1. CASE d = c
      <4>1. pc'[c] = "done" /\ ask[c].kind \in {"request", "redeem"}
        BY <1>1, <1>2, <2>1, <3>1 DEF ToBeLogged, Of
      <4>2. pc[c] = "logging"
        BY <1>1, <1>3, <1>4, <4>1 DEF CallOK, Kinded
      <4>. QED  BY <1>2, <1>4, <1>5, <2>1, <3>1, <4>1, <4>2 DEF ToBeLogged, Of
    <3>2. CASE d # c
      BY <1>1, <1>2, <1>5, <2>1, <3>2 DEF ToBeLogged, Of, Alone
    <3>. QED  BY <3>1, <3>2
  <2>. QED  BY <1>2, <2>1 DEF Logged
<1>. QED  BY <1>2, <1>6, <1>7, <1>8

LEMMA RestQuiet ==
  ASSUME TypeInv, CallInv, Logged, Serial',
         \/ \E c \in Calls : BrowserActs(c)
         \/ \E c \in Calls, answered \in Answers : Respond(c, answered)
         \/ \E id \in Calls : Expire(id)
         \/ Restart \/ UNCHANGED vars
  PROVE  Vault' = Vault /\ SameReports /\ Given' = Given /\ Logged'
<1>1. CASE Restart
  <2>1. /\ writing = {} /\ writing' = {} /\ Vault' = Vault
    BY <1>1, Ended DEF Restart, Serial
  <2>2. Given' = Given
    BY <1>1, <2>1 DEF Restart, Given
  <2>3. ASSUME NEW d \in Calls
        PROVE  /\ ask'[d] = ask[d] /\ target'[d] = target[d]
               /\ pc[d] = "idle" <=> pc'[d] = "idle"
               /\ pc'[d] = "done" => pc[d] = "done"
               /\ Told(d) = reply[d] /\ Told(d)' = reply'[d]
               /\ \/ reply'[d] = reply[d]
                  \/ reply[d] = "none" /\ reply'[d] = "timedout"
    <3>1. pc[d] = "waiting" => reply[d] = "none"
      BY DEF CallInv, CallOK, Reporting, Closed
    <3>. QED  BY <1>1, <2>1, <3>1 DEF Restart, Told
  <2>4. SameReports /\ Logged'
    BY <2>1, <2>3 DEF SameReports, Success, Logged, ToBeLogged, Of
  <2>. QED  BY <2>1, <2>2, <2>4
<1>2. CASE UNCHANGED <<file, copy, writing, pc, ask, target, reply, issued>>
  <2>1. /\ Vault' = Vault /\ Given' = Given
        /\ \A d \in Calls : Told(d)' = Told(d)
    BY <1>2 DEF Vault, Given, Told, Settled
  <2>2. SameReports
    BY <1>2, <2>1 DEF SameReports, Success
  <2>3. Logged'
    BY <1>2, <2>1 DEF Logged, ToBeLogged, Of
  <2>. QED  BY <2>1, <2>2, <2>3
<1>3. CASE ~Restart
  BY <1>2, <1>3 DEF BrowserActs, Respond, Expire, vars, fileVars, callVars
<1>. QED  BY <1>1, <1>3
-----------------------------------------------------------------------------
(* A write begins: what the call has changed is in the vault from now on. *)

\* c begins to write its fresh copy, and nothing but that happens.
Began(c) ==
  /\ pc[c] \in Saving /\ FreshCopy(c)
  /\ Vault = file /\ file \in VaultData /\ Vault' = copy[c]
  /\ UNCHANGED <<pc, ask, target, response, reply>>
  /\ Given = issued
  /\ Given' = issued \cup IF pc[c] \in {"minting", "saving"}
                            THEN Named(copy[c], c) ELSE {}
  /\ \A d \in Calls : Told(d) = reply[d] /\ (d # c => Told(d)' = reply[d])
  /\ Told(c)' = IF pc[c] = "minting" THEN "grant"
                ELSE IF pc[c] \in {"spending", "saving"} THEN "ok" ELSE reply[c]
  /\ pc[c] # "logging" => reply[c] = "none"
  /\ \A d \in Calls : ToBeLogged(d)' => ToBeLogged(d) \/ (d = c /\ pc[c] = "logging")

LEMMA WriteBegins ==
  ASSUME TypeInv, CallInv, FileInv, CopyInv, NEW c \in Calls, BeginWrite(c), Serial'
  PROVE  Began(c)
<1>. USE DEF TypeInv, TypeOK
<1>1. Truncate(c) /\ ~overlapped' /\ pc[c] \in Saving /\ CallOK(c)
  BY DEF BeginWrite, Serial, CallInv
<1>2. /\ c \in fresh /\ file # Unreadable /\ writing = {} /\ writing' = {c}
      /\ Vault = file /\ Vault' = copy[c] /\ copy' = copy
  BY <1>1, Names, Truncated
<1>3. FreshCopy(c) /\ file \in VaultData
  BY <1>2 DEF CopyInv, FileTypeOK
<1>4. UNCHANGED <<pc, ask, target, response, reply, issued>>
  BY DEF BeginWrite, callVars
<1>5. /\ Given = issued
      /\ Given' = issued \cup IF pc[c] \in {"minting", "saving"}
                                THEN Named(copy[c], c) ELSE {}
  BY <1>2, <1>4 DEF Given
<1>6. /\ \A d \in Calls : Told(d) = reply[d] /\ (d # c => Told(d)' = reply[d])
      /\ Told(c)' = Settled(c)
  BY <1>2, <1>4 DEF Told, Settled
<1>7. Settled(c) = IF pc[c] = "minting" THEN "grant"
                   ELSE IF pc[c] \in {"spending", "saving"} THEN "ok" ELSE reply[c]
  BY <1>1, WriteEnds
<1>8. pc[c] # "logging" => reply[c] = "none"
  BY <1>1 DEF CallOK, Reporting, Closed, Saving
<1>9. \A d \in Calls : ToBeLogged(d)' => ToBeLogged(d) \/ (d = c /\ pc[c] = "logging")
  BY <1>1, <1>2, <1>4, <1>6 DEF ToBeLogged, Of, Saving
<1>. QED  BY <1>1, <1>2, <1>3, <1>4, <1>5, <1>6, <1>7, <1>8, <1>9 DEF Began

\* What was told before is told still, and c adds what it will report.
LEMMA OneMoreReport ==
  ASSUME TypeInv, CallInv, NEW c \in Calls, Began(c), NEW kind, NEW r \in {"grant", "ok"}
  PROVE  /\ Report(kind, r) \subseteq Report(kind, r)'
         /\ \A d \in Report(kind, r)' :
              \/ d \in Report(kind, r)
              \/ d = c /\ ask[c].kind = kind /\ Told(c)' = r /\ reply[c] = "none"
         /\ ask[c].kind = kind /\ Told(c)' = r => c \in Report(kind, r)'
         /\ reply[c] = "none" => c \notin Report(kind, r)
<1>1. pc[c] # "idle" /\ UNCHANGED <<pc, ask>>
  BY DEF Began, Saving
<1>2. \A d \in Calls : d # c => (d \in Report(kind, r)' <=> d \in Report(kind, r))
  BY <1>1 DEF Began, Report, Of
<1>3. c \in Report(kind, r)' <=> ask[c].kind = kind /\ Told(c)' = r
  BY <1>1 DEF Report, Of
<1>4. c \in Report(kind, r) <=> ask[c].kind = kind /\ reply[c] = r
  BY <1>1 DEF Began, Report, Of
<1>5. CASE pc[c] = "logging"
  <2>1. Told(c)' = reply[c]
    BY <1>5 DEF Began
  <2>. QED  BY <1>2, <1>3, <1>4, <2>1 DEF Report, Of
<1>6. CASE pc[c] # "logging"
  BY <1>2, <1>3, <1>4, <1>6 DEF Began, Report, Of
<1>. QED  BY <1>5, <1>6

\* The vault has no grant of a call that has not minted it yet.
LEMMA NotYet ==
  ASSUME TypeInv, CallInv, Books, NEW c \in Calls, Began(c), pc[c] # "logging"
  PROVE  /\ Named(Vault, c) = {}
         /\ \A g \in issued : g.id # c
         /\ Redeemed(c) = {}
         /\ \A d \in Report("revoke_grant", "ok") : target[d] # c
<1>1. pc[c] \notin Closed
  BY DEF Began, Saving, Closed
<1>2. \A g \in issued : g.id # c
  BY <1>1 DEF CallInv, IssuedOnce
<1>3. Named(Vault, c) = {}
  BY <1>2 DEF Began, Books, GrantsGiven, Named
<1>4. \A d \in Calls : d \in Of("redeem") \cup Of("revoke_grant") => target[d] # c
  BY <1>2 DEF CallInv, CallOK, Targets, Of
<1>. QED  BY <1>2, <1>3, <1>4 DEF Redeemed, Report, Of

LEMMA WriteLogged ==
  ASSUME Books, NEW c \in Calls, Began(c), Vault.log \subseteq Vault'.log,
         pc[c] = "logging" => c \in Vault'.log
  PROVE  Logged'
  BY DEF Began, Books, Logged

\* Writes that change no handle and no grant.
LEMMA WriteNotes ==
  ASSUME TypeInv, CallInv, Books, NEW c \in Calls, Began(c),
         pc[c] \in {"touching", "logging"} \/ (pc[c] = "saving" /\ ask[c].kind = "other")
  PROVE  Books'
<1>1. /\ Vault'.present = Vault.present /\ Vault'.revoked = Vault.revoked
      /\ Vault'.grants = Vault.grants /\ Vault.log \subseteq Vault'.log
      /\ pc[c] = "logging" => c \in Vault'.log
  BY DEF Began, FreshCopy, Noting, VaultData
<1>2. Logged'
  BY <1>1, WriteLogged
<1>3. SameReports
  <2>1. /\ Success(c)' <=> Success(c)
        /\ Success(c) => Told(c)' = Told(c)
    BY DEF Began, Success, Booked
  <2>. QED  BY <2>1 DEF Began, SameReports, Success
<1>4. Given' = Given
  <2>1. pc[c] = "saving" => Named(copy[c], c) = {}
    BY NotYet DEF Began, FreshCopy, Noting
  <2>. QED  BY <2>1 DEF Began
<1>. QED  BY <1>1, <1>2, <1>3, <1>4, BooksKept

\* A handle that is enrolled.
LEMMA WriteEnrols ==
  ASSUME TypeInv, CallInv, Books, NEW c \in Calls, Began(c),
         pc[c] = "minting", ask[c].kind = "enroll"
  PROVE  Books'
<1>1. /\ Vault'.present = Vault.present \cup {ask[c].handle}
      /\ Vault'.revoked = Vault.revoked /\ Vault'.grants = Vault.grants
      /\ Vault'.log = Vault.log
  BY DEF Began, FreshCopy, Minting, VaultData
<1>2. UNCHANGED <<ask, target>>
  BY DEF Began
<1>3. Logged'
  BY <1>1, WriteLogged
<1>4. \A kind : kind # "enroll" => Report(kind, "ok")' = Report(kind, "ok")
  BY OneMoreReport
<1>5. \A d \in Report("enroll", "grant")' : d \in Report("enroll", "grant") \/ d = c
  BY OneMoreReport
<1>6. HandlesKept'
  BY <1>1, <1>2, <1>4, <1>5 DEF Books, HandlesKept
<1>7. /\ \A id : Redeemed(id)' = Redeemed(id)
      /\ \A id : RevokedByName(id)' <=> RevokedByName(id)
      /\ \A h : RevokedByHandle(h)' <=> RevokedByHandle(h)
  BY <1>2, <1>4 DEF Redeemed, RevokedByName, RevokedByHandle
<1>8. \A id : Named(Vault, id)' = Named(Vault, id)
  BY <1>1 DEF Named
<1>9. Given' = Given
  <2>1. Named(copy[c], c) = {}
    BY <1>1, NotYet DEF Began, Named
  <2>. QED  BY <2>1 DEF Began
<1>10. GrantsGiven' /\ GrantsRevoked'
  BY <1>1, <1>2, <1>4, <1>8, <1>9 DEF Books, GrantsGiven, GrantsRevoked
<1>11. UsesLeft'
  BY <1>7, <1>8, <1>9, UsesKept DEF Books, UsesLeft
<1>. QED  BY <1>3, <1>6, <1>10, <1>11 DEF Books

\* A grant that is issued, on a request or ahead of time.
LEMMA WriteMints ==
  ASSUME TypeInv, CallInv, Books, NEW c \in Calls, Began(c), Mint(c, ask[c], response[c]).uses \in Nat,
         \/ pc[c] = "minting" /\ ask[c].kind = "request"
         \/ pc[c] = "saving" /\ ask[c].kind = "precreate"
  PROVE  Books'
<1>0. PICK m : m = Mint(c, ask[c], response[c])
  OBVIOUS
<1>1. /\ Vault'.present = Vault.present /\ Vault'.revoked = Vault.revoked
      /\ Vault'.grants = Vault.grants \cup {m} /\ Vault.log \subseteq Vault'.log
  <2>1. Vault' = copy[c] /\ Vault \in VaultData /\ Minting(c) /\ file = Vault
    BY DEF Began, FreshCopy
  <2>2. CASE pc[c] = "minting" /\ ask[c].kind = "request"
    BY <1>0, <2>1, <2>2 DEF Minting, VaultData, AddGrant
  <2>3. CASE pc[c] = "saving" /\ ask[c].kind = "precreate"
    <3>1. copy[c] = [AddGrant(Vault, m) EXCEPT !.log = @ \cup {c}]
      BY <1>0, <2>1, <2>3 DEF Minting
    <3>. QED  BY <2>1, <3>1 DEF VaultData, AddGrant
  <2>. QED  BY <2>2, <2>3
<1>2. m.id = c /\ m.uses \in Nat
  BY <1>0 DEF Mint
<1>3. UNCHANGED <<ask, target>> /\ Vault' = copy[c]
  BY DEF Began
<1>4. Logged'
  BY <1>1, WriteLogged
<1>5. ASSUME NEW kind \in Booked, NEW r \in {"grant", "ok"}
      PROVE  Report(kind, r)' = Report(kind, r)
  <2>1. ask[c].kind # kind
    BY DEF Booked
  <2>2. /\ Report(kind, r) \subseteq Report(kind, r)'
        /\ \A d \in Report(kind, r)' : d \in Report(kind, r) \/ ask[c].kind = kind
    BY OneMoreReport
  <2>. QED  BY <2>1, <2>2
<1>6. /\ Report("enroll", "grant")' = Report("enroll", "grant")
      /\ Report("redeem", "ok")' = Report("redeem", "ok")
      /\ Report("revoke_grant", "ok")' = Report("revoke_grant", "ok")
      /\ Report("revoke_handle", "ok")' = Report("revoke_handle", "ok")
  BY <1>5 DEF Booked
<1>7. HandlesKept'
  BY <1>1, <1>3, <1>6 DEF Books, HandlesKept
<1>8. /\ \A id : Redeemed(id)' = Redeemed(id)
      /\ \A id : RevokedByName(id)' <=> RevokedByName(id)
      /\ \A h : RevokedByHandle(h)' <=> RevokedByHandle(h)
  BY <1>3, <1>6 DEF Redeemed, RevokedByName, RevokedByHandle
<1>9. /\ \A id : id # c => Named(Vault, id)' = Named(Vault, id)
      /\ Named(Vault, c)' = {m}
  BY <1>1, <1>2, NotYet DEF Named, Began
<1>10. Given' = Given \cup {m} /\ \A g \in Given : g.id # c
  BY <1>3, <1>9, NotYet DEF Began
<1>11. GrantsGiven'
  BY <1>1, <1>10 DEF Books, GrantsGiven
<1>12. GrantsRevoked'
  BY <1>3, <1>6, <1>9, NotYet DEF Began, Books, GrantsRevoked
<1>13. UsesLeft'
  <2>1. ASSUME NEW g \in Given
        PROVE  UsesLeftOf(g)'
    BY <1>8, <1>9, <1>10, UsesKept DEF Books, UsesLeft
  <2>2. UsesLeftOf(m)'
    <3>1. Redeemed(c)' = {}
      BY <1>8, NotYet DEF Began
    <3>2. IsFiniteSet({}) /\ Cardinality({}) = 0
      BY FS_EmptySet
    <3>3. Due(m)' = m.uses
      BY <1>2, <3>1, <3>2 DEF Due
    <3>. QED  BY <1>2, <1>9, <3>1, <3>2, <3>3 DEF UsesLeftOf
  <2>. QED  BY <1>10, <2>1, <2>2 DEF UsesLeft
<1>. QED  BY <1>4, <1>7, <1>11, <1>12, <1>13 DEF Books

\* A use that is taken off.
LEMMA WriteSpends ==
  ASSUME TypeInv, CallInv, Books, NEW c \in Calls, Began(c),
         pc[c] = "spending", ask[c].kind = "redeem",
         \A g \in Vault.grants : g \in Grant /\ g.uses \in Nat \ {0}
  PROVE  Books'
<1>0. PICK t : t = target[c]
  OBVIOUS
<1>1. /\ Vault' = Spend(Vault, t) /\ Named(Vault, t) # {}
      /\ Vault \in VaultData
  BY <1>0 DEF Began, FreshCopy, Spending, Redeeming
<1>2. UNCHANGED <<ask, target>> /\ Given' = Given
  BY DEF Began
<1>3. /\ Vault'.present = Vault.present /\ Vault'.revoked = Vault.revoked
      /\ Vault'.log = Vault.log
      /\ Vault'.grants = (Vault.grants \ Named(Vault, t))
           \cup {[g EXCEPT !.uses = @ - 1] : g \in {g \in Named(Vault, t) : g.uses > 1}}
  BY <1>1 DEF Spend, VaultData
<1>4. Logged'
  BY <1>3, WriteLogged
<1>5. \A g \in Named(Vault, t) : /\ g \in Grant /\ g.id = t /\ g.uses \in Nat \ {0}
                                 /\ [g EXCEPT !.uses = @ - 1].id = t
                                 /\ [g EXCEPT !.uses = @ - 1].uses = g.uses - 1
  BY DEF Named, Grant
<1>6. /\ \A id : id # t => Named(Vault, id)' = Named(Vault, id)
      /\ Named(Vault, t)' =
           {[g EXCEPT !.uses = @ - 1] : g \in {g \in Named(Vault, t) : g.uses > 1}}
  <2>1. \A id : Named(Vault, id)' = {g \in Vault'.grants : g.id = id}
    BY DEF Named
  <2>2. \A g \in {[g EXCEPT !.uses = @ - 1] : g \in {g \in Named(Vault, t) : g.uses > 1}} :
          g.id = t
    BY <1>5
  <2>3. \A id : id # t => Named(Vault, id)' = Named(Vault, id)
    BY <1>3, <2>1, <2>2 DEF Named
  <2>4. Named(Vault, t)' =
           {[g EXCEPT !.uses = @ - 1] : g \in {g \in Named(Vault, t) : g.uses > 1}}
    BY <1>3, <2>1, <2>2 DEF Named
  <2>. QED  BY <2>3, <2>4
<1>7. /\ Report("enroll", "grant")' = Report("enroll", "grant")
      /\ Report("revoke_grant", "ok")' = Report("revoke_grant", "ok")
      /\ Report("revoke_handle", "ok")' = Report("revoke_handle", "ok")
      /\ Report("redeem", "ok")' = Report("redeem", "ok") \cup {c}
      /\ c \notin Report("redeem", "ok")
  <2>1. Told(c)' = "ok" /\ reply[c] = "none"
    BY DEF Began
  <2>2. ASSUME NEW kind, kind # "redeem", NEW r \in {"grant", "ok"}
        PROVE  Report(kind, r)' = Report(kind, r)
    <3>1. /\ Report(kind, r) \subseteq Report(kind, r)'
          /\ \A d \in Report(kind, r)' : d \in Report(kind, r) \/ ask[c].kind = kind
      BY OneMoreReport
    <3>. QED  BY <2>2, <3>1
  <2>3. /\ Report("redeem", "ok") \subseteq Report("redeem", "ok")'
        /\ \A d \in Report("redeem", "ok")' : d \in Report("redeem", "ok") \/ d = c
        /\ c \in Report("redeem", "ok")' /\ c \notin Report("redeem", "ok")
    BY <2>1, OneMoreReport
  <2>. QED  BY <2>2, <2>3
<1>8. HandlesKept'
  BY <1>2, <1>3, <1>7 DEF Books, HandlesKept
<1>9. \A id : Named(Vault, id)' # {} => Named(Vault, id) # {}
  BY <1>6
<1>10. GrantsGiven'
  <2>1. \A g \in Vault'.grants : g.id = t \/ g \in Vault.grants
    BY <1>3, <1>5
  <2>2. \E g \in Vault.grants : g.id = t
    BY <1>1 DEF Named
  <2>. QED  BY <1>2, <2>1, <2>2 DEF Books, GrantsGiven
<1>11. GrantsRevoked'
  BY <1>2, <1>7, <1>9 DEF Books, GrantsRevoked
<1>12. /\ \A id : RevokedByName(id)' <=> RevokedByName(id)
       /\ \A h : RevokedByHandle(h)' <=> RevokedByHandle(h)
       /\ \A id : id # t => Redeemed(id)' = Redeemed(id)
       /\ Redeemed(t)' = Redeemed(t) \cup {c} /\ c \notin Redeemed(t)
  BY <1>0, <1>2, <1>7 DEF RevokedByName, RevokedByHandle, Redeemed
<1>13. UsesLeft'
  <2>1. ASSUME NEW g \in Given, g.id # t
        PROVE  UsesLeftOf(g)'
    BY <1>6, <1>12, <2>1, UsesKept DEF Books, UsesLeft
  <2>2. ASSUME NEW g \in Given, g.id = t
        PROVE  UsesLeftOf(g)'
    <3>1. UsesLeftOf(g)
      BY DEF Books, UsesLeft
    <3>2. /\ IsFiniteSet(Redeemed(t)') /\ Cardinality(Redeemed(t)) \in Nat
          /\ Cardinality(Redeemed(t)') = Cardinality(Redeemed(t)) + 1
      BY <1>12, <2>2, <3>1, FS_AddElement, FS_CardinalityType DEF UsesLeftOf
    <3>3. g.uses \in Nat
      BY <1>2 DEF Began, TypeInv, TypeOK, Grant
    <3>4. Due(g)' = Due(g) - 1 /\ Due(g) \in Int
      BY <2>2, <3>2, <3>3 DEF Due
    <3>5. \A h \in Named(Vault, t) : h.uses = Due(g)
      BY <2>2, <3>1 DEF UsesLeftOf
    <3>6. Due(g) \in Nat \ {0}
      BY <1>1, <1>5, <3>5
    <3>7. \A h \in Named(Vault, t)' : h.uses = Due(g) - 1
      BY <1>5, <1>6, <3>5
    <3>8. Named(Vault, t)' = {} => Due(g) = 1
      <4>1. PICK h \in Named(Vault, t) : TRUE
        BY <1>1
      <4>2. Named(Vault, t)' = {} => ~(h.uses > 1)
        BY <1>6
      <4>. QED  BY <3>5, <3>6, <4>1, <4>2
    <3>. QED  BY <2>2, <3>2, <3>4, <3>6, <3>7, <3>8 DEF UsesLeftOf
  <2>. QED  BY <1>2, <2>1, <2>2 DEF UsesLeft
<1>. QED  BY <1>4, <1>8, <1>10, <1>11, <1>13 DEF Books

\* A grant that is revoked by name.
LEMMA WriteRevokesGrant ==
  ASSUME TypeInv, CallInv, Books, NEW c \in Calls, Began(c),
         pc[c] = "saving", ask[c].kind = "revoke_grant"
  PROVE  Books'
<1>0. PICK t : t = target[c]
  OBVIOUS
<1>1. /\ Vault'.present = Vault.present /\ Vault'.revoked = Vault.revoked
      /\ Vault'.log = Vault.log /\ Vault'.grants = Vault.grants \ Named(Vault, t)
  BY <1>0 DEF Began, FreshCopy, Revoking, VaultData
<1>2. UNCHANGED <<ask, target>> /\ Vault' = copy[c]
  BY DEF Began
<1>3. /\ \A id : id # t => Named(Vault, id)' = Named(Vault, id)
      /\ Named(Vault, t)' = {}
  BY <1>1 DEF Named
<1>4. Given' = Given
  <2>1. Named(Vault, c)' = Named(copy[c], c)
    BY <1>2 DEF Named
  <2>2. Named(Vault, c)' \subseteq Named(Vault, c)
    BY <1>1 DEF Named
  <2>. QED  BY <2>1, <2>2, NotYet DEF Began
<1>5. Logged'
  BY <1>1, WriteLogged
<1>6. ASSUME NEW kind, kind # "revoke_grant", NEW r \in {"grant", "ok"}
      PROVE  Report(kind, r)' = Report(kind, r)
  <2>1. /\ Report(kind, r) \subseteq Report(kind, r)'
        /\ \A d \in Report(kind, r)' : d \in Report(kind, r) \/ ask[c].kind = kind
    BY OneMoreReport
  <2>. QED  BY <1>6, <2>1
<1>7. /\ Report("revoke_grant", "ok") \subseteq Report("revoke_grant", "ok")'
      /\ \A d \in Report("revoke_grant", "ok")' :
           d \in Report("revoke_grant", "ok") \/ d = c
      /\ c \in Report("revoke_grant", "ok")'
  <2>1. Told(c)' = "ok"
    BY DEF Began
  <2>. QED  BY <2>1, OneMoreReport
<1>8. HandlesKept'
  BY <1>1, <1>2, <1>6 DEF Books, HandlesKept
<1>9. GrantsGiven'
  BY <1>1, <1>4 DEF Books, GrantsGiven
<1>10. GrantsRevoked'
  <2>1. \A id : Named(Vault, id) = {} => Named(Vault, id)' = {}
    BY <1>3
  <2>. QED  BY <1>0, <1>2, <1>3, <1>7, <2>1 DEF Books, GrantsRevoked
<1>11. /\ \A id : Redeemed(id)' = Redeemed(id)
       /\ \A h : RevokedByHandle(h)' <=> RevokedByHandle(h)
       /\ \A id : RevokedByName(id) => RevokedByName(id)'
       /\ RevokedByName(t)'
  BY <1>0, <1>2, <1>6, <1>7 DEF Redeemed, RevokedByHandle, RevokedByName
<1>12. UsesLeft'
  <2>1. ASSUME NEW g \in Given, g.id # t
        PROVE  UsesLeftOf(g)'
    BY <1>3, <1>11, <2>1, UsesKept DEF Books, UsesLeft
  <2>2. ASSUME NEW g \in Given, g.id = t
        PROVE  UsesLeftOf(g)'
    <3>1. UsesLeftOf(g) /\ Due(g)' = Due(g)
      BY <1>11 DEF Books, UsesLeft, Due
    <3>. QED  BY <1>3, <1>11, <2>2, <3>1 DEF UsesLeftOf
  <2>. QED  BY <1>4, <2>1, <2>2 DEF UsesLeft
<1>. QED  BY <1>5, <1>8, <1>9, <1>10, <1>12 DEF Books

\* A handle that is revoked, with its grants.
LEMMA WriteRevokesHandle ==
  ASSUME TypeInv, CallInv, Books, NEW c \in Calls, Began(c),
         pc[c] = "saving", ask[c].kind = "revoke_handle",
         \A g \in Vault.grants : \A h \in Given : g.id = h.id => g.handle = h.handle
  PROVE  Books'
<1>0. PICK gone : gone = ask[c].handle
  OBVIOUS
<1>1. /\ gone \in Listed /\ Vault'.present = Vault.present
      /\ Vault'.revoked = Vault.revoked \cup ({gone} \cap Vault.present)
      /\ Vault'.grants = {g \in Vault.grants : g.handle # gone}
      /\ Vault.log \subseteq Vault'.log
  BY <1>0 DEF Began, FreshCopy, Revoking, VaultData
<1>2. UNCHANGED <<ask, target>> /\ Vault' = copy[c]
  BY DEF Began
<1>3. \A id : Named(Vault, id)' = {g \in Named(Vault, id) : g.handle # gone}
  BY <1>1 DEF Named
<1>4. Given' = Given
  <2>1. Named(Vault, c)' = Named(copy[c], c)
    BY <1>2 DEF Named
  <2>2. Named(Vault, c)' \subseteq Named(Vault, c)
    BY <1>3
  <2>. QED  BY <2>1, <2>2, NotYet DEF Began
<1>5. Logged'
  BY <1>1, WriteLogged
<1>6. ASSUME NEW kind, kind # "revoke_handle", NEW r \in {"grant", "ok"}
      PROVE  Report(kind, r)' = Report(kind, r)
  <2>1. /\ Report(kind, r) \subseteq Report(kind, r)'
        /\ \A d \in Report(kind, r)' : d \in Report(kind, r) \/ ask[c].kind = kind
    BY OneMoreReport
  <2>. QED  BY <1>6, <2>1
<1>7. /\ Report("revoke_handle", "ok") \subseteq Report("revoke_handle", "ok")'
      /\ \A d \in Report("revoke_handle", "ok")' :
           d \in Report("revoke_handle", "ok") \/ d = c
      /\ c \in Report("revoke_handle", "ok")'
  <2>1. Told(c)' = "ok"
    BY DEF Began
  <2>. QED  BY <2>1, OneMoreReport
<1>8. HandlesKept'
  <2>1. gone \in Vault.present
    <3>1. ASSUME NEW d \in Calls, ask[d] # NoAnswer, ask[d].kind = "enroll",
                 reply[d] = "grant"
          PROVE  d \in Report("enroll", "grant")
      BY <3>1 DEF Began, Report, Of, CallInv, CallOK, Reporting, Closed
    <3>2. gone \in Enrolled \/ \E d \in Report("enroll", "grant") : ask[d].handle = gone
      BY <1>1, <3>1 DEF Listed
    <3>. QED  BY <3>2 DEF Books, HandlesKept
  <2>2. Report("enroll", "grant")' = Report("enroll", "grant")
    BY <1>6
  <2>. QED  BY <1>0, <1>1, <1>2, <1>7, <2>1, <2>2 DEF Books, HandlesKept
<1>9. GrantsGiven'
  BY <1>1, <1>4 DEF Books, GrantsGiven
<1>10. GrantsRevoked'
  <2>1. Report("revoke_grant", "ok")' = Report("revoke_grant", "ok")
    BY <1>6
  <2>2. \A id : Named(Vault, id) = {} => Named(Vault, id)' = {}
    BY <1>3
  <2>. QED  BY <1>2, <2>1, <2>2 DEF Books, GrantsRevoked
<1>11. /\ \A id : Redeemed(id)' = Redeemed(id)
       /\ \A id : RevokedByName(id)' <=> RevokedByName(id)
       /\ \A h : RevokedByHandle(h) => RevokedByHandle(h)'
       /\ RevokedByHandle(gone)'
  BY <1>0, <1>2, <1>6, <1>7 DEF Redeemed, RevokedByHandle, RevokedByName
<1>12. UsesLeft'
  <2>1. ASSUME NEW g \in Given
        PROVE  UsesLeftOf(g)'
    <3>1. UsesLeftOf(g) /\ Due(g)' = Due(g)
      BY <1>11 DEF Books, UsesLeft, Due
    <3>2. CASE g.handle = gone
      BY <1>3, <1>11, <3>1, <3>2 DEF UsesLeftOf
    <3>3. CASE g.handle # gone
      <4>1. \A h \in Named(Vault, g.id) : h.handle = g.handle
        BY DEF Named
      <4>2. Named(Vault, g.id)' = Named(Vault, g.id)
        BY <1>3, <3>3, <4>1
      <4>. QED  BY <1>11, <3>1, <4>2, UsesKept
    <3>. QED  BY <3>2, <3>3
  <2>. QED  BY <1>4, <2>1 DEF UsesLeft
<1>. QED  BY <1>5, <1>8, <1>9, <1>10, <1>12 DEF Books


LEMMA BooksWrite ==
  ASSUME TypeInv, CallInv, FileInv, CopyInv, BookInv, Books, NEW c \in Calls,
         BeginWrite(c), Serial'
  PROVE  Books'
<1>1. Began(c) /\ Kinded(c) /\ pc[c] \in Saving
  BY WriteBegins DEF CallInv, CallOK, Began
<1>2. \A g \in Vault.grants : g \in Grant /\ Entitled(g)
  BY <1>1, AccessAssumption DEF Began, BookInv, FileEntitled, VaultData
<1>3. CASE pc[c] \in {"touching", "logging"} \/ (pc[c] = "saving" /\ ask[c].kind = "other")
  BY <1>1, <1>3, WriteNotes
<1>4. CASE pc[c] = "minting" /\ ask[c].kind = "enroll"
  BY <1>1, <1>4, WriteEnrols
<1>5. CASE \/ pc[c] = "minting" /\ ask[c].kind = "request"
           \/ pc[c] = "saving" /\ ask[c].kind = "precreate"
  <2>1. Mint(c, ask[c], response[c]) \in copy[c].grants
    <3>. DEFINE m == Mint(c, ask[c], response[c])
    <3>1. \/ copy[c] = AddGrant(file, m)
          \/ copy[c] = [AddGrant(file, m) EXCEPT !.log = @ \cup {c}]
      BY <1>1, <1>5 DEF Began, FreshCopy, Minting
    <3>2. file \in VaultData
      BY <1>1 DEF Began
    <3>. HIDE DEF m
    <3>3. m \in AddGrant(file, m).grants
      BY <3>2 DEF AddGrant, VaultData
    <3>4. [AddGrant(file, m) EXCEPT !.log = @ \cup {c}].grants = AddGrant(file, m).grants
      BY <3>2 DEF AddGrant, VaultData
    <3>. QED  BY <3>1, <3>3, <3>4 DEF m
  <2>2. Mint(c, ask[c], response[c]).id = c
    BY DEF Mint
  <2>3. ask[c] \in Asks /\ response[c] \in Answer
    BY <2>1, <2>2 DEF BookInv, CopiesEntitled, Entitled, TypeInv, TypeOK
  <2>. QED  BY <1>1, <1>5, <2>3, MintType, WriteMints
<1>6. CASE pc[c] = "spending"
  <2>1. ask[c].kind = "redeem"
    BY <1>1, <1>6 DEF Kinded, Redeeming
  <2>2. ASSUME NEW g \in Vault.grants
        PROVE  g \in Grant /\ g.uses \in Nat \ {0}
    BY <1>2 DEF Entitled, Grant
  <2>. QED  BY <1>1, <1>6, <2>1, <2>2, WriteSpends
<1>7. CASE pc[c] = "saving" /\ ask[c].kind = "revoke_grant"
  BY <1>1, <1>7, WriteRevokesGrant
<1>8. CASE pc[c] = "saving" /\ ask[c].kind = "revoke_handle"
  <2>1. ASSUME NEW g \in Vault.grants, NEW h \in Given, g.id = h.id
        PROVE  g.handle = h.handle
    <3>1. h \in issued
      BY <1>1 DEF Began
    <3>2. h.handle = ask[h.id].handle
      BY <3>1 DEF BookInv, IssuedAsMinted, Mint
    <3>. QED  BY <1>2, <2>1, <3>2 DEF Entitled
  <2>. QED  BY <1>1, <1>8, <2>1, WriteRevokesHandle
<1>. QED  BY <1>1, <1>3, <1>4, <1>5, <1>6, <1>7, <1>8 DEF Saving, Kinded

\* What has overlapped or was cut short stays so.
LEMMA SerialBefore ==
  ASSUME [Next]_vars, Serial'
  PROVE  Serial
<1>1. ASSUME NEW c \in Calls,
             \/ LoadAndLook \/ (\E data : LoadAndSet(c, data)) \/ Truncate(c) \/ Fill(c)
             \/ ProcessEnds \/ UNCHANGED <<overlapped, interrupted>>
      PROVE  Serial
  <2>1. overlapped => overlapped'
    BY <1>1, Zenon DEF LoadAndLook, LoadAndSet, Truncate, Fill, ProcessEnds
  <2>2. interrupted => interrupted'
    BY <1>1, Zenon DEF LoadAndLook, LoadAndSet, Truncate, Fill, ProcessEnds
  <2>. QED  BY <2>1, <2>2 DEF Serial
<1>. USE DEF fileVars
<1>2. ASSUME NEW c \in Calls, Start(c)
      PROVE  Serial
  BY <1>1, <1>2 DEF Start, RefuseRequest, Request, Enroll, OpenGrant,
     RefuseRedeem, RevokeGrant, Precreate, RevokeHandle, LoadOther
<1>3. ASSUME NEW c \in Calls, Continue(c)
      PROVE  Serial
  BY <1>1, <1>3 DEF Continue, Touch, MatchGrant, AutoApprove, Prompt, Approved, Denied,
     PromptTimesOut, Unregister, LoadAndMint, Audit, Authenticate, FailToAuthenticate,
     Dispatch, Performed, PerformFails, PerformTimesOut, Consume, BeginWrite, EndWrite
<1>4. CASE \/ \E c \in Calls : BrowserActs(c) \/ Expire(c)
           \/ \E c \in Calls, answered \in Answers : Respond(c, answered)
           \/ UNCHANGED vars
  BY <1>4 DEF BrowserActs, Expire, Respond, vars, Serial
<1>5. CASE Restart
  BY <1>5 DEF Restart, ProcessEnds, Serial
<1>. QED  BY <1>2, <1>3, <1>4, <1>5 DEF Next

LEMMA BooksStep ==
  ASSUME TypeInv, BookInv, SerialInv, [Next]_vars, Serial'
  PROVE  Books'
<1>1. Books /\ FileInv /\ CallInv /\ CopyInv /\ Logged
  BY SerialBefore DEF SerialInv, Books
<1>2. ASSUME NEW c \in Calls, Continue(c)
      PROVE  Books'
  BY <1>1, <1>2, BooksWrite, ContinueQuiet, EndQuiet, BooksKept
<1>3. ASSUME NEW c \in Calls, Start(c)
      PROVE  Books'
  BY <1>1, <1>3, StartQuiet, BooksKept
<1>4. ASSUME \/ \E c \in Calls : BrowserActs(c)
             \/ \E c \in Calls, answered \in Answers : Respond(c, answered)
             \/ \E id \in Calls : Expire(id)
             \/ Restart \/ UNCHANGED vars
      PROVE  Books'
  BY <1>1, <1>4, RestQuiet, BooksKept
<1>. QED  BY <1>2, <1>3, <1>4 DEF Next

LEMMA SerialInit == Init => SerialInv
<1>. SUFFICES ASSUME Init
              PROVE  SerialInv
  OBVIOUS
<1>1. /\ file = [DefaultData EXCEPT !.present = Enrolled] /\ writing = {} /\ fresh = {}
      /\ issued = {}
      /\ \A c \in Calls : pc[c] = "idle" /\ reply[c] = "none"
  BY DEF Init, FileInit
<1>2. file \in VaultData /\ file.present = Enrolled /\ file.grants = {}
  BY <1>1, AccessAssumption DEF VaultData
<1>3. FileInv
  BY <1>1, <1>2, AccessAssumption DEF FileInv, OneAtATime, CutOrWritten
<1>4. CallInv /\ CopyInv
  BY <1>1 DEF CallInv, CallOK, Kinded, Reporting, Targets, IssuedOnce, Redeeming,
     CopyInv
<1>5. Vault = file /\ Given = {}
  BY <1>1 DEF Vault, Given
<1>6. \A kind, r : Report(kind, r) = {}
  BY <1>1 DEF Report, Of
<1>7. HandlesKept
  BY <1>2, <1>5, <1>6 DEF HandlesKept
<1>8. GrantsGiven /\ GrantsRevoked /\ UsesLeft
  BY <1>2, <1>5, <1>6 DEF GrantsGiven, GrantsRevoked, UsesLeft
<1>9. Logged
  BY <1>1 DEF Logged, ToBeLogged, Of
<1>. QED  BY <1>3, <1>4, <1>7, <1>8, <1>9 DEF SerialInv, Books

LEMMA SerialCorrect == Spec => [](TypeInv /\ BookInv /\ SerialInv)
<1>1. Init => TypeInv /\ BookInv /\ SerialInv
  BY InitInv, SerialInit
<1>2. TypeInv /\ BookInv /\ SerialInv /\ [Next]_vars => (TypeInv /\ BookInv /\ SerialInv)'
  BY TypeStep, BookStep, CallStep, CopyStep, FileStep, BooksStep DEF SerialInv
<1>. QED  BY <1>1, <1>2, PTL DEF Spec

\* In a file that opens nothing is being written: it is the vault.
LEMMA IntactBooks ==
  ASSUME TypeInv, SerialInv, Intact
  PROVE  /\ Books /\ Vault = file /\ Given = issued
         /\ \A c \in Calls : Told(c) = reply[c]
         /\ \A kind, r : Report(kind, r) = {c \in Of(kind) : reply[c] = r}
         /\ writing = {}
<1>1. Books /\ writing = {}
  BY DEF SerialInv, FileInv, OneAtATime, Intact, Serial
<1>. QED  BY <1>1 DEF Vault, Given, Told, Report

(***************************************************************************)
(* With no two of the calls overlapping and no write cut short, a handle   *)
(* whose revocation was reported done is not active in the vault file, and *)
(* no grant of a name that was reported revoked is in it, for good.        *)
(***************************************************************************)
THEOREM RevocationSticksCorrect == Spec => []RevocationSticks
<1>1. TypeInv /\ SerialInv => RevocationSticks
  <2>. SUFFICES ASSUME TypeInv, SerialInv, Intact
                PROVE  RevocationSticks
    BY DEF RevocationSticks
  <2>. QED  BY IntactBooks DEF RevocationSticks, Books, HandlesKept, GrantsRevoked, Active
<1>. QED  BY <1>1, SerialCorrect, PTL

(***************************************************************************)
(* Then too the uses left of a grant are those it was issued with less the *)
(* redemptions that succeeded, never less than none, and a grant is gone   *)
(* only when it is used up or revoked.                                     *)
(***************************************************************************)
THEOREM UsesAccountedCorrect == Spec => []UsesAccounted
<1>1. TypeInv /\ SerialInv => UsesAccounted
  <2>. SUFFICES ASSUME TypeInv, SerialInv, Intact
                PROVE  UsesAccounted
    BY DEF UsesAccounted
  <2>1. /\ \A id : Redeemed(id) = Uses(id)
        /\ \A id : RevokedByName(id) <=>
             \E c \in Of("revoke_grant") : target[c] = id /\ reply[c] = "ok"
        /\ \A h : RevokedByHandle(h) <=>
             \E c \in Of("revoke_handle") : ask[c].handle = h /\ reply[c] = "ok"
    BY IntactBooks DEF Redeemed, RevokedByName, RevokedByHandle, Uses
  <2>2. ASSUME NEW g \in issued
        PROVE  LET left == {h.uses : h \in Named(file, g.id)}
                   due == g.uses - Cardinality(Uses(g.id))
               IN  /\ due >= 0
                   /\ left \subseteq {due}
                   /\ left = {} => due = 0 \/ Revoked(g)
    <3>1. UsesLeftOf(g) /\ Vault = file
      BY IntactBooks DEF Books, UsesLeft
    <3>. QED  BY <2>1, <3>1 DEF UsesLeftOf, Due, Revoked
  <2>. QED  BY <2>2 DEF UsesAccounted
<1>. QED  BY <1>1, SerialCorrect, PTL

(***************************************************************************)
(* Then too every request that was granted and every redemption that       *)
(* succeeded is in the audit log once it is answered.                      *)
(***************************************************************************)
THEOREM AccessIsLoggedCorrect == Spec => []AccessIsLogged
<1>1. TypeInv /\ SerialInv => AccessIsLogged
  <2>. SUFFICES ASSUME TypeInv, SerialInv, Intact
                PROVE  AccessIsLogged
    BY DEF AccessIsLogged
  <2>. QED  BY IntactBooks DEF AccessIsLogged, Books, Logged, ToBeLogged, Of
<1>. QED  BY <1>1, SerialCorrect, PTL
=============================================================================
