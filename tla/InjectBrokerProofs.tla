-------------------------- MODULE InjectBrokerProofs --------------------------
(***************************************************************************)
(* Proofs about InjectBroker for any number of jobs and connections: the   *)
(* state is well typed, the rendezvous implements InjectPromise, presence  *)
(* is never undercounted, and take_next_job loses no wake-up.              *)
(***************************************************************************)
EXTENDS InjectBroker, FiniteSetTheorems, TLAPS

(***************************************************************************)
(* The inductive invariant behind PromiseKept.  A job is in one place: not *)
(* dispatched, in the queue, with one connection, or gone; and it has not  *)
(* been carried out until the connection that holds it runs it.            *)
(***************************************************************************)
Undispatched == {"idle", "registered", "refused"}

Queued(j) == \E i \in 1..Len(inject_queue) : inject_queue[i] = j

\* c took a job and has not run it, or has run it and not reported it yet.
Unrun(c) == pc[c] \in {"replying", "running"} /\ held[c] \in Jobs
Unreported(c) == pc[c] = "reporting"
Carries(c) == Unrun(c) \/ Unreported(c)

QueueInv ==
  /\ \A i, k \in 1..Len(inject_queue) :
       inject_queue[i] = inject_queue[k] => i = k
  /\ \A j \in Jobs : Queued(j) => call[j] \notin Undispatched /\ acted[j] = 0

HolderInv ==
  /\ \A c \in Conns : pc[c] \in {"running", "reporting"} => held[c] \in Jobs
  /\ \A c \in Conns : Carries(c) =>
       call[held[c]] \notin Undispatched /\ ~Queued(held[c])
  /\ \A c \in Conns : Unrun(c) => acted[held[c]] = 0
  /\ \A c \in Conns : Unreported(c) /\ verdict[c] = "ok" => acted[held[c]] = 1
  /\ \A c, d \in Conns : Carries(c) /\ Carries(d) /\ held[c] = held[d] => c = d

AnswerInv ==
  /\ \A j \in Jobs : acted[j] \in {0, 1}
  /\ \A j \in Jobs : call[j] \in Undispatched => acted[j] = 0
  /\ \A j \in Jobs : channel[j] = "ok" => acted[j] = 1
  /\ \A j \in Jobs : call[j] = "ok" => acted[j] = 1

SenderInv ==
  /\ \A j \in Jobs : call[j] \in {"idle"} \cup Answered => j \notin inject_results
  /\ \A j \in Jobs : channel[j] # "none" =>
       j \notin inject_results /\ call[j] \notin Undispatched

IInv == TypeOK /\ QueueInv /\ HolderInv /\ AnswerInv /\ SenderInv

\* What the count of injectors is: the flags handle_conn never took back.
PresenceInv ==
  injectors_present = Cardinality({c \in Conns : is_injector[c]})

Awake == {c \in Conns : pc[c] \in {"checking", "lastcheck"}}
-----------------------------------------------------------------------------
(* Type correctness. *)

LEMMA TypeInit == Init => TypeOK
  BY DEF Init, TypeOK, CallState, ConnState, Outcomes, Polling, Reading

LEMMA TypeCaller ==
  ASSUME TypeOK, NEW j \in Jobs, Caller(j)
  PROVE  TypeOK'
<1>. USE DEF TypeOK, CallState, ConnState, Outcomes, Answered, Polling, Reading,
             connVars
<1>1. CASE Refuse(j)
  BY <1>1 DEF Refuse
<1>2. CASE Register(j)
  BY <1>2 DEF Register
<1>3. CASE Enqueue(j)
  <2>1. inject_queue' \in Seq(Jobs)
    BY <1>3 DEF Enqueue
  <2>. QED  BY <1>3, <2>1 DEF Enqueue
<1>7. CASE Notify(j)
  <2>1. pc' \in [Conns -> ConnState]
    <3>1. ASSUME NEW c \in Conns, pc' = [pc EXCEPT ![c] = "checking"]
          PROVE  pc' \in [Conns -> ConnState]
      BY <3>1
    <3>. QED  BY <1>7, <3>1 DEF Notify, NotifyOne, Goto
  <2>. QED  BY <1>7, <2>1 DEF Notify
<1>4. CASE Receive(j)
  BY <1>4 DEF Receive
<1>5. CASE Timeout(j)
  BY <1>5 DEF Timeout
<1>6. CASE Cancel(j)
  BY <1>6 DEF Cancel
<1>. QED  BY <1>1, <1>2, <1>3, <1>4, <1>5, <1>6, <1>7 DEF Caller

LEMMA TypeHandler ==
  ASSUME TypeOK, NEW c \in Conns, Handler(c)
  PROVE  TypeOK'
<1>. USE DEF TypeOK, CallState, ConnState, Outcomes, Polling, Reading, callVars
<1>1. CASE Take(c)
  BY <1>1 DEF Take
<1>2. CASE Sleep(c) \/ SpuriousWake(c) \/ Keepalive(c)
  BY <1>2 DEF Sleep, SpuriousWake, Keepalive, Goto
<1>3. CASE GiveUp(c)
  BY <1>3 DEF GiveUp, Goto
<1>4. CASE Reply(c) \/ ReplyFails(c)
  BY <1>4 DEF Reply, ReplyFails, Goto
<1>5. CASE Resolve(c)
  BY <1>5 DEF Resolve, Goto
<1>6. CASE Ack(c)
  BY <1>6 DEF Ack, Goto
<1>7. CASE Hangup(c)
  BY <1>7 DEF Hangup
<1>. QED  BY <1>1, <1>2, <1>3, <1>4, <1>5, <1>6, <1>7 DEF Handler

\* Running a job counts it once more at most, and no other job.
LEMMA CarryOutType ==
  ASSUME TypeOK, NEW c, NEW done, CarryOut(c, done)
  PROVE  acted' \in [Jobs -> Nat]
<1>1. \A j \in Jobs : (IF done THEN acted[j] + 1 ELSE acted[j]) \in Nat
  BY DEF TypeOK
<1>. QED  BY <1>1 DEF TypeOK, CarryOut

LEMMA TypeHost ==
  ASSUME TypeOK, NEW c \in Conns, Host(c)
  PROVE  TypeOK'
<1>. USE DEF TypeOK, CallState, ConnState, Outcomes, Polling, Reading, callVars
<1>1. CASE Poll(c)
  BY <1>1 DEF Poll
<1>2. ASSUME NEW done \in BOOLEAN, NEW v \in Outcomes, Run(c, done, v)
      PROVE  TypeOK'
  BY <1>2, CarryOutType DEF Run, Goto
<1>3. ASSUME NEW done \in BOOLEAN, HostDies(c, done)
      PROVE  TypeOK'
  BY <1>3, CarryOutType DEF HostDies
<1>. QED  BY <1>1, <1>2, <1>3 DEF Host

\* The state of the rendezvous is well typed, for any jobs and connections.
THEOREM TypeCorrect == Spec => []TypeOK
<1>1. TypeOK /\ [Next]_vars => TypeOK'
  <2>1. TypeOK /\ UNCHANGED vars => TypeOK'
    BY DEF TypeOK, vars
  <2>. QED  BY <2>1, TypeCaller, TypeHandler, TypeHost DEF Next
<1>. QED  BY <1>1, TypeInit, PTL DEF Spec
-----------------------------------------------------------------------------
(* The inductive invariant. *)

LEMMA InitInv == Init => IInv
  BY TypeInit DEF Init, IInv, QueueInv, HolderInv, AnswerInv, SenderInv, Queued,
     Carries, Unrun, Unreported, Undispatched, Answered

LEMMA InvCaller ==
  ASSUME IInv, NEW j \in Jobs, Caller(j)
  PROVE  QueueInv' /\ HolderInv' /\ AnswerInv' /\ SenderInv'
<1>. USE DEF IInv, TypeOK, QueueInv, HolderInv, AnswerInv, SenderInv, Queued,
             Carries, Unrun, Unreported, Undispatched, Answered, CallState,
             ConnState, Outcomes, Polling, Reading, connVars
<1>1. CASE Refuse(j)
  BY <1>1 DEF Refuse
<1>2. CASE Register(j)
  <2>1. QueueInv' /\ HolderInv'
    BY <1>2 DEF Register
  <2>2. AnswerInv'
    BY <1>2 DEF Register
  <2>3. SenderInv'
    BY <1>2 DEF Register
  <2>. QED  BY <2>1, <2>2, <2>3
<1>3. CASE Enqueue(j)
  <2>1. QueueInv'
    BY <1>3 DEF Enqueue
  <2>2. HolderInv'
    <3>1. \A d \in Conns : /\ Carries(d)' <=> Carries(d)
                           /\ Unrun(d)' <=> Unrun(d)
                           /\ Unreported(d)' <=> Unreported(d)
                           /\ pc'[d] \in {"running", "reporting"} =>
                                pc[d] \in {"running", "reporting"}
      BY <1>3 DEF Enqueue
    <3>2. \A k \in Jobs \ {j} : Queued(k)' => Queued(k)
      BY <1>3 DEF Enqueue
    <3>3. \A k \in Jobs : call'[k] \in Undispatched => call[k] \in Undispatched
      BY <1>3 DEF Enqueue
    <3>4. \A d \in Conns : Carries(d) => held[d] # j /\ held[d] \in Jobs
      BY <1>3 DEF Enqueue
    <3>. HIDE DEF Carries, Unrun, Unreported, Queued, Undispatched
    <3>. QED  BY <1>3, <3>1, <3>2, <3>3, <3>4 DEF Enqueue
  <2>3. AnswerInv'
    BY <1>3 DEF Enqueue
  <2>4. SenderInv'
    BY <1>3 DEF Enqueue
  <2>. QED  BY <2>1, <2>2, <2>3, <2>4
<1>7. CASE Notify(j)
  <2>1. /\ \A d \in Conns : /\ Carries(d)' <=> Carries(d)
                            /\ Unrun(d)' <=> Unrun(d)
                            /\ Unreported(d)' <=> Unreported(d)
                            /\ pc'[d] \in {"running", "reporting"} =>
                                 pc[d] \in {"running", "reporting"}
        /\ \A k \in Jobs : call'[k] \in Undispatched <=> call[k] \in Undispatched
    BY <1>7 DEF Notify, NotifyOne, Goto
  <2>2. QueueInv' /\ AnswerInv' /\ SenderInv'
    BY <1>7 DEF Notify
  <2>3. HolderInv'
    <3>1. \A k \in Jobs : Queued(k)' <=> Queued(k)
      BY <1>7 DEF Notify
    <3>2. \A d \in Conns : Carries(d) => held[d] \in Jobs
      OBVIOUS
    <3>. HIDE DEF Carries, Unrun, Unreported, Queued, Undispatched
    <3>. QED  BY <1>7, <2>1, <3>1, <3>2 DEF Notify
  <2>. QED  BY <2>2, <2>3
<1>4. CASE Receive(j)
  BY <1>4 DEF Receive
<1>5. CASE Timeout(j)
  BY <1>5 DEF Timeout
<1>6. CASE Cancel(j)
  BY <1>6 DEF Cancel
<1>. QED  BY <1>1, <1>2, <1>3, <1>4, <1>5, <1>6, <1>7 DEF Caller

LEMMA InvHandler ==
  ASSUME IInv, NEW c \in Conns, Handler(c)
  PROVE  QueueInv' /\ HolderInv' /\ AnswerInv' /\ SenderInv'
<1>. USE DEF IInv, TypeOK, QueueInv, HolderInv, AnswerInv, SenderInv, Queued,
             Carries, Unrun, Unreported, Undispatched, Answered, CallState,
             ConnState, Outcomes, Polling, Reading, callVars
<1>1. CASE Take(c)
  <2>1. QueueInv'
    <3>1. /\ Len(inject_queue') = Len(inject_queue) - 1
          /\ \A i \in 1..Len(inject_queue') : inject_queue'[i] = inject_queue[i + 1]
      BY <1>1 DEF Take
    <3>0. \A i \in 1..Len(inject_queue') : i + 1 \in 1..Len(inject_queue)
      BY <3>1
    <3>2. ASSUME NEW j, Queued(j)'
          PROVE  Queued(j)
      <4>1. PICK i \in 1..Len(inject_queue') : inject_queue'[i] = j
        BY <3>2
      <4>. QED  BY <3>0, <3>1, <4>1
    <3>3. ASSUME NEW i \in 1..Len(inject_queue'), NEW k \in 1..Len(inject_queue'),
                 inject_queue'[i] = inject_queue'[k]
          PROVE  i = k
      <4>0. inject_queue[i + 1] = inject_queue[k + 1]
        BY <3>1, <3>3
      <4>1. i + 1 = k + 1
        BY <3>0, <4>0
      <4>. QED  BY <4>1
    <3>4. UNCHANGED <<call, acted>>
      BY <1>1 DEF Take
    <3>. HIDE DEF Queued
    <3>. QED  BY <3>2, <3>3, <3>4
  <2>2. HolderInv'
    BY <1>1 DEF Take
  <2>3. AnswerInv' /\ SenderInv'
    BY <1>1 DEF Take
  <2>. QED  BY <2>1, <2>2, <2>3
<1>2. CASE Sleep(c) \/ SpuriousWake(c) \/ Keepalive(c)
  <2>1. QueueInv'
    <3>1. UNCHANGED <<inject_queue, call, acted>>
      BY <1>2 DEF Sleep, SpuriousWake, Keepalive
    <3>. QED  BY <3>1
  <2>3. HolderInv'
    <3>1. CASE Sleep(c)
      BY <3>1 DEF Sleep, Goto
    <3>2. CASE SpuriousWake(c)
      BY <3>2 DEF SpuriousWake, Goto
    <3>3. CASE Keepalive(c)
      BY <3>3 DEF Keepalive, Goto
    <3>. QED  BY <1>2, <3>1, <3>2, <3>3
  <2>2. AnswerInv' /\ SenderInv'
    BY <1>2 DEF Sleep, SpuriousWake, Keepalive, Goto
  <2>. QED  BY <2>1, <2>2, <2>3
<1>3. CASE GiveUp(c)
  BY <1>3, JobsAssumption DEF GiveUp, Goto
<1>4. CASE Reply(c) \/ ReplyFails(c)
  <2>1. QueueInv'
    BY <1>4 DEF Reply, ReplyFails
  <2>3. HolderInv'
    <3>1. CASE Reply(c)
      BY <3>1 DEF Reply, Goto
    <3>2. CASE ReplyFails(c)
      BY <3>2 DEF ReplyFails
    <3>. QED  BY <1>4, <3>1, <3>2
  <2>2. AnswerInv' /\ SenderInv'
    BY <1>4 DEF Reply, ReplyFails, Goto
  <2>. QED  BY <2>1, <2>2, <2>3
<1>5. CASE Resolve(c)
  BY <1>5 DEF Resolve, Goto
<1>6. CASE Ack(c)
  BY <1>6 DEF Ack, Goto
<1>7. CASE Hangup(c)
  BY <1>7 DEF Hangup
<1>. QED  BY <1>1, <1>2, <1>3, <1>4, <1>5, <1>6, <1>7 DEF Handler

LEMMA InvHost ==
  ASSUME IInv, NEW c \in Conns, Host(c)
  PROVE  QueueInv' /\ HolderInv' /\ AnswerInv' /\ SenderInv'
<1>. USE DEF IInv, TypeOK, QueueInv, HolderInv, AnswerInv, SenderInv, Queued,
             Carries, Unrun, Unreported, Undispatched, Answered, CallState,
             ConnState, Outcomes, Polling, Reading, callVars
<1>1. CASE Poll(c)
  BY <1>1 DEF Poll
<1>2. ASSUME NEW done \in BOOLEAN, NEW v \in Outcomes, Run(c, done, v)
      PROVE  QueueInv' /\ HolderInv' /\ AnswerInv' /\ SenderInv'
  BY <1>2 DEF Run, CarryOut, Goto
<1>3. ASSUME NEW done \in BOOLEAN, HostDies(c, done)
      PROVE  QueueInv' /\ HolderInv' /\ AnswerInv' /\ SenderInv'
  BY <1>3 DEF HostDies, CarryOut
<1>. QED  BY <1>1, <1>2, <1>3 DEF Host

LEMMA InvStutter == IInv /\ UNCHANGED vars => IInv'
  BY DEF vars, IInv, TypeOK, QueueInv, HolderInv, AnswerInv, SenderInv, Queued,
         Carries, Unrun, Unreported

THEOREM InvCorrect == Spec => []IInv
<1>1. IInv /\ [Next]_vars => IInv'
  <2> SUFFICES ASSUME IInv, [Next]_vars
               PROVE  IInv'
    OBVIOUS
  <2>1. ASSUME NEW j \in Jobs, Caller(j)
        PROVE  IInv'
    BY <2>1, InvCaller, TypeCaller DEF IInv
  <2>2. ASSUME NEW c \in Conns, Handler(c)
        PROVE  IInv'
    BY <2>2, InvHandler, TypeHandler DEF IInv
  <2>3. ASSUME NEW c \in Conns, Host(c)
        PROVE  IInv'
    BY <2>3, InvHost, TypeHost DEF IInv
  <2>. QED  BY <2>1, <2>2, <2>3, InvStutter DEF Next
<1>. QED  BY <1>1, InitInv, PTL DEF Spec

\* No call leaves a sender behind once it is over.
THEOREM NoSenderLeftCorrect == Spec => []NoSenderLeft
<1>1. IInv => NoSenderLeft
  BY DEF IInv, SenderInv, NoSenderLeft
<1>. QED  BY <1>1, InvCorrect, PTL

-----------------------------------------------------------------------------
(* Refinement. *)

LEMMA CallerKeepsPromise ==
  ASSUME IInv, NEW j \in Jobs, Caller(j)
  PROVE  [Promise!PromiseNext]_<<toldCaller, acted>>
<1>. USE DEF IInv, TypeOK, AnswerInv, Answered, CallState, Outcomes
<1>1. CASE Refuse(j) \/ Cancel(j)
  <2>1. Promise!Fail(j)
    BY <1>1 DEF Refuse, Cancel, toldCaller, Promise!Fail
  <2>. QED  BY <2>1 DEF Promise!PromiseNext
<1>2. CASE Register(j) \/ Enqueue(j) \/ Notify(j) \/ Timeout(j)
  <2>1. UNCHANGED <<toldCaller, acted>>
    BY <1>2 DEF Register, Enqueue, Notify, Timeout, toldCaller
  <2>. QED  BY <2>1
<1>3. CASE Receive(j)
  <2>1. CASE channel[j] = "ok"
    <3>1. Promise!Succeed(j)
      BY <1>3, <2>1 DEF Receive, toldCaller, Promise!Succeed
    <3>. QED  BY <3>1 DEF Promise!PromiseNext
  <2>2. CASE channel[j] # "ok"
    <3>1. Promise!Fail(j)
      BY <1>3, <2>2 DEF Receive, toldCaller, Promise!Fail
    <3>. QED  BY <3>1 DEF Promise!PromiseNext
  <2>. QED  BY <2>1, <2>2
<1>. QED  BY <1>1, <1>2, <1>3 DEF Caller

\* Only running a job, or dying while it runs, touches what the promise sees.
LEMMA CarryOutKeepsPromise ==
  ASSUME IInv, NEW c \in Conns, pc[c] = "running", NEW done \in BOOLEAN,
         CarryOut(c, done), UNCHANGED call
  PROVE  [Promise!PromiseNext]_<<toldCaller, acted>>
<1>1. UNCHANGED toldCaller
  BY DEF toldCaller
<1>2. held[c] \in Jobs /\ acted[held[c]] = 0
  BY DEF IInv, HolderInv, Unrun
<1>3. CASE done
  <2>1. Promise!Act(held[c])
    BY <1>1, <1>2, <1>3 DEF CarryOut, Promise!Act, IInv, TypeOK
  <2>. QED  BY <1>2, <2>1 DEF Promise!PromiseNext
<1>4. CASE ~done
  <2>1. UNCHANGED acted
    BY <1>2, <1>4 DEF CarryOut, IInv, TypeOK
  <2>. QED  BY <1>1, <2>1
<1>. QED  BY <1>3, <1>4

LEMMA ConnKeepsPromise ==
  ASSUME IInv, NEW c \in Conns, Handler(c) \/ Host(c)
  PROVE  [Promise!PromiseNext]_<<toldCaller, acted>>
<1>1. CASE UNCHANGED <<call, acted>>
  BY <1>1 DEF toldCaller
<1>2. ASSUME NEW done \in BOOLEAN, NEW v \in Outcomes, Run(c, done, v)
      PROVE  [Promise!PromiseNext]_<<toldCaller, acted>>
  BY <1>2, CarryOutKeepsPromise DEF Run, Goto, callVars
<1>3. ASSUME NEW done \in BOOLEAN, HostDies(c, done)
      PROVE  [Promise!PromiseNext]_<<toldCaller, acted>>
  <2>1. CASE done
    BY <1>3, <2>1, CarryOutKeepsPromise DEF HostDies, callVars
  <2>2. CASE ~done
    <3>1. UNCHANGED acted
      BY <1>3, <2>2 DEF HostDies, CarryOut, IInv, TypeOK
    <3>. QED  BY <1>3, <3>1, <1>1 DEF HostDies, callVars
  <2>. QED  BY <2>1, <2>2
<1>4. CASE Handler(c)
  BY <1>1, <1>4 DEF Handler, Take, Sleep, SpuriousWake, Keepalive, GiveUp, Reply,
     ReplyFails, Resolve, Ack, Hangup, callVars
<1>5. CASE Poll(c)
  BY <1>1, <1>5 DEF Poll, callVars
<1>. QED  BY <1>2, <1>3, <1>4, <1>5 DEF Host

\* The rendezvous keeps the promise, for any number of calls and hosts.
THEOREM PromiseCorrect == Spec => PromiseKept
<1>1. Init => Promise!PromiseInit
  BY DEF Init, Promise!PromiseInit, toldCaller, Answered
<1>2. IInv /\ [Next]_vars => [Promise!PromiseNext]_<<toldCaller, acted>>
  <2>1. UNCHANGED vars => UNCHANGED <<toldCaller, acted>>
    BY DEF vars, toldCaller
  <2>. QED  BY <2>1, CallerKeepsPromise, ConnKeepsPromise DEF Next
<1>. QED
  BY <1>1, <1>2, InvCorrect, PTL
     DEF Spec, PromiseKept, Promise!PromiseSpec, Promise!promiseVars
-----------------------------------------------------------------------------
(* The count of injectors. *)

LEMMA FlagCardinality ==
  ASSUME TypeOK, NEW c \in Conns
  PROVE  /\ Cardinality({d \in Conns : is_injector[d]}) \in Nat
         /\ ~is_injector[c] =>
              Cardinality({d \in Conns : is_injector[d]} \cup {c})
                = Cardinality({d \in Conns : is_injector[d]}) + 1
         /\ is_injector[c] =>
              Cardinality({d \in Conns : is_injector[d]} \ {c})
                = Cardinality({d \in Conns : is_injector[d]}) - 1
<1>. DEFINE Flagged == {d \in Conns : is_injector[d]}
<1>1. IsFiniteSet(Flagged)
  BY ConnsAssumption, FS_Subset
<1>2. Cardinality(Flagged) \in Nat
  BY <1>1, FS_CardinalityType
<1>3. ~is_injector[c] => Cardinality(Flagged \cup {c}) = Cardinality(Flagged) + 1
  BY <1>1, FS_AddElement
<1>4. is_injector[c] => Cardinality(Flagged \ {c}) = Cardinality(Flagged) - 1
  BY <1>1, FS_RemoveElement
<1>. QED  BY <1>2, <1>3, <1>4

LEMMA PresencePoll ==
  ASSUME TypeOK, PresenceInv, NEW c \in Conns, Poll(c)
  PROVE  PresenceInv'
<1>1. {d \in Conns : is_injector'[d]} = {d \in Conns : is_injector[d]} \cup {c}
  BY DEF Poll, TypeOK
<1>2. CASE is_injector[c]
  <2>1. {d \in Conns : is_injector'[d]} = {d \in Conns : is_injector[d]}
    BY <1>1, <1>2
  <2>. QED  BY <1>2, <2>1 DEF Poll, PresenceInv
<1>3. CASE ~is_injector[c]
  BY <1>1, <1>3, FlagCardinality DEF Poll, PresenceInv
<1>. QED  BY <1>2, <1>3

LEMMA PresenceHangup ==
  ASSUME TypeOK, PresenceInv, NEW c \in Conns, Hangup(c)
  PROVE  PresenceInv'
<1>1. {d \in Conns : is_injector'[d]} = {d \in Conns : is_injector[d]} \ {c}
  BY DEF Hangup, TypeOK
<1>2. CASE is_injector[c]
  <2>1. Cardinality({d \in Conns : is_injector[d]} \ {c}) \in Nat
    BY FS_RemoveElement, FS_CardinalityType, FS_Subset, ConnsAssumption
  <2>2. injectors_present > 0
    BY <1>2, <2>1, FlagCardinality DEF PresenceInv
  <2>. QED  BY <1>1, <1>2, <2>2, FlagCardinality DEF Hangup, PresenceInv
<1>3. CASE ~is_injector[c]
  <2>1. {d \in Conns : is_injector'[d]} = {d \in Conns : is_injector[d]}
    BY <1>1, <1>3
  <2>. QED  BY <1>3, <2>1 DEF Hangup, PresenceInv
<1>. QED  BY <1>2, <1>3

LEMMA PresenceElsewhere ==
  ASSUME PresenceInv, UNCHANGED <<injectors_present, is_injector>>
  PROVE  PresenceInv'
  BY DEF PresenceInv

LEMMA PresenceStep == TypeOK /\ PresenceInv /\ [Next]_vars => PresenceInv'
<1>. SUFFICES ASSUME TypeOK, PresenceInv, [Next]_vars
              PROVE  PresenceInv'
  OBVIOUS
<1>1. ASSUME NEW j \in Jobs, Caller(j)
      PROVE  UNCHANGED <<injectors_present, is_injector>>
  BY <1>1 DEF Caller, Refuse, Register, Enqueue, Notify, Receive, Timeout, Cancel, connVars
<1>2. ASSUME NEW c \in Conns, Handler(c), ~Hangup(c)
      PROVE  UNCHANGED <<injectors_present, is_injector>>
  BY <1>2 DEF Handler, Take, Sleep, SpuriousWake, Keepalive, GiveUp, Reply,
     ReplyFails, Resolve, Ack
<1>3. ASSUME NEW c \in Conns, Host(c), ~Poll(c)
      PROVE  UNCHANGED <<injectors_present, is_injector>>
  BY <1>3 DEF Host, Run, HostDies
<1>4. CASE UNCHANGED vars
  BY <1>4, PresenceElsewhere DEF vars
<1>. QED
  BY <1>1, <1>2, <1>3, <1>4, PresencePoll, PresenceHangup, PresenceElsewhere
     DEF Next, Handler, Host

\* No connected injector is ever missing from the count, so that a call is
\* refused for want of an injector only when there is none.
THEOREM PresenceCorrect == Spec => []PresenceNeverUndercounts
<1>1. Init => PresenceInv
  <2>1. Init => {c \in Conns : is_injector[c]} = {}
    BY DEF Init
  <2>. QED  BY <2>1, FS_EmptySet DEF Init, PresenceInv
<1>2. PresenceInv => PresenceNeverUndercounts
  <2>1. /\ {c \in Conns : Open(c)} \subseteq {c \in Conns : is_injector[c]}
        /\ IsFiniteSet({c \in Conns : is_injector[c]})
    BY ConnsAssumption, FS_Subset DEF Open
  <2>. QED  BY <2>1, FS_Subset DEF PresenceInv, PresenceNeverUndercounts
<1>. QED  BY <1>1, <1>2, PresenceStep, TypeCorrect, PTL DEF Spec
-----------------------------------------------------------------------------
(* Wake-ups. *)

LEMMA AwakeFinite == IsFiniteSet(Awake) /\ Cardinality(Awake) \in Nat
  BY ConnsAssumption, FS_Subset, FS_CardinalityType DEF Awake

LEMMA AwakeFiniteNext == IsFiniteSet(Awake') /\ Cardinality(Awake)' \in Nat
  BY ConnsAssumption, FS_Subset, FS_CardinalityType DEF Awake

\* The callers that pushed a job and have yet to notify: finitely many at any
\* time, however many calls there may be.
Notifiers == {j \in Jobs : call[j] = "pushed"}
WakeupInv == IsFiniteSet(Notifiers) /\ NoLostWakeup

LEMMA NotifiersFinite == IsFiniteSet(Notifiers) => Cardinality(Notifiers) \in Nat
  BY FS_CardinalityType

\* A step that leaves the queue and the notifiers alone, and puts neither an
\* awake poller nor anybody else to sleep, loses no wake-up.
LEMMA WakeupElsewhere ==
  ASSUME TypeOK, WakeupInv, UNCHANGED <<inject_queue, Notifiers>>,
         \A c \in Conns :
           /\ pc[c] \in {"checking", "lastcheck"} => pc'[c] \in {"checking", "lastcheck"}
           /\ pc'[c] = "sleeping" => pc[c] = "sleeping"
  PROVE  WakeupInv'
<1>1. Awake \subseteq Awake'
  BY DEF Awake
<1>2. Cardinality(Awake) <= Cardinality(Awake')
  BY <1>1, AwakeFiniteNext, FS_Subset
<1>3. Len(inject_queue) \in Nat
  BY DEF TypeOK
<1>4. IsFiniteSet(Notifiers) /\ Cardinality(Notifiers) \in Nat
  BY NotifiersFinite DEF WakeupInv
<1>5. IsFiniteSet(Notifiers') /\ Cardinality(Notifiers') = Cardinality(Notifiers)
  BY <1>4
<1>6. NoLostWakeup'
  BY <1>2, <1>3, <1>4, <1>5, AwakeFinite, AwakeFiniteNext
     DEF WakeupInv, NoLostWakeup, Awake, Notifiers
<1>. QED  BY <1>5, <1>6 DEF WakeupInv

\* A push adds a job and a notifier.
LEMMA WakeupEnqueue ==
  ASSUME TypeOK, WakeupInv, NEW j \in Jobs, Enqueue(j)
  PROVE  WakeupInv'
<1>1. Len(inject_queue') = Len(inject_queue) + 1 /\ Len(inject_queue) \in Nat
  BY DEF Enqueue, TypeOK
<1>2. Notifiers' = Notifiers \cup {j} /\ j \notin Notifiers
  BY DEF Enqueue, Notifiers, TypeOK
<1>3. /\ IsFiniteSet(Notifiers') /\ Cardinality(Notifiers') = Cardinality(Notifiers) + 1
      /\ Cardinality(Notifiers) \in Nat
  BY <1>2, FS_AddElement, NotifiersFinite DEF WakeupInv
<1>4. UNCHANGED pc /\ Awake' = Awake
  BY DEF Enqueue, connVars, Awake
<1>5. NoLostWakeup'
  <2>. SUFFICES ASSUME \E c \in Conns : pc[c] = "sleeping"
                PROVE  Len(inject_queue') <= Cardinality(Awake') + Cardinality(Notifiers')
    BY <1>4 DEF NoLostWakeup, Awake, Notifiers
  <2>1. Len(inject_queue) <= Cardinality(Awake) + Cardinality(Notifiers)
    BY DEF WakeupInv, NoLostWakeup, Awake, Notifiers
  <2>. QED  BY <1>1, <1>3, <1>4, <2>1, AwakeFinite
<1>. QED  BY <1>3, <1>5 DEF WakeupInv

\* A notification takes a notifier away and wakes a sleeper, if there is one.
LEMMA WakeupNotify ==
  ASSUME TypeOK, WakeupInv, NEW j \in Jobs, Notify(j)
  PROVE  WakeupInv'
<1>1. Notifiers' = Notifiers \ {j} /\ j \in Notifiers
  BY DEF Notify, Notifiers, TypeOK
<1>2. /\ IsFiniteSet(Notifiers') /\ Cardinality(Notifiers') = Cardinality(Notifiers) - 1
      /\ Cardinality(Notifiers) \in Nat
  BY <1>1, FS_RemoveElement, NotifiersFinite DEF WakeupInv
<1>3. UNCHANGED inject_queue /\ Len(inject_queue) \in Nat
  BY DEF Notify, TypeOK
<1>4. CASE (\A c \in Conns : pc[c] # "sleeping") /\ UNCHANGED pc
  BY <1>2, <1>4 DEF NoLostWakeup, WakeupInv
<1>5. ASSUME NEW c \in Conns, Goto(c, "sleeping", "checking")
      PROVE  NoLostWakeup'
  <2>1. Awake' = Awake \cup {c} /\ c \notin Awake
    BY <1>5 DEF Goto, Awake, TypeOK
  <2>2. Cardinality(Awake') = Cardinality(Awake) + 1
    BY <2>1, AwakeFinite, FS_AddElement
  <2>3. Len(inject_queue) <= Cardinality(Awake) + Cardinality(Notifiers)
    BY <1>5 DEF Goto, NoLostWakeup, WakeupInv, Awake, Notifiers
  <2>. QED
    BY <1>2, <1>3, <2>2, <2>3, AwakeFinite DEF NoLostWakeup, Awake, Notifiers
<1>. QED  BY <1>2, <1>4, <1>5 DEF Notify, NotifyOne, WakeupInv

LEMMA WakeupTake ==
  ASSUME TypeOK, WakeupInv, NEW c \in Conns, Take(c)
  PROVE  WakeupInv'
<1>1. /\ Len(inject_queue') = Len(inject_queue) - 1
      /\ Len(inject_queue) \in Nat
  BY DEF Take, TypeOK
<1>2. Awake' = Awake \ {c} /\ c \in Awake
  BY DEF Take, Awake, TypeOK
<1>3. Cardinality(Awake') = Cardinality(Awake) - 1
  BY <1>2, AwakeFinite, FS_RemoveElement
<1>4. \A d \in Conns : pc'[d] = "sleeping" => pc[d] = "sleeping"
  BY DEF Take, TypeOK
<1>5. Notifiers' = Notifiers /\ Cardinality(Notifiers) \in Nat
  BY NotifiersFinite DEF Take, callVars, Notifiers, WakeupInv
<1>6. NoLostWakeup'
  <2>. SUFFICES ASSUME \E d \in Conns : pc'[d] = "sleeping"
                PROVE  Len(inject_queue') <= Cardinality(Awake') + Cardinality(Notifiers')
    BY DEF NoLostWakeup, Awake, Notifiers
  <2>1. Len(inject_queue) <= Cardinality(Awake) + Cardinality(Notifiers)
    BY <1>4 DEF WakeupInv, NoLostWakeup, Awake, Notifiers
  <2>. QED  BY <1>1, <1>3, <1>5, <2>1, AwakeFinite
<1>. QED  BY <1>5, <1>6 DEF WakeupInv

LEMMA WakeupEmptyQueue ==
  ASSUME WakeupInv, inject_queue' = <<>>, UNCHANGED call
  PROVE  WakeupInv'
<1>1. Notifiers' = Notifiers /\ Cardinality(Notifiers) \in Nat
  BY NotifiersFinite DEF Notifiers, WakeupInv
<1>. QED
  BY <1>1, AwakeFiniteNext DEF WakeupInv, NoLostWakeup, Awake, Notifiers

LEMMA WakeupCaller ==
  ASSUME TypeOK, WakeupInv, NEW j \in Jobs, Caller(j)
  PROVE  WakeupInv'
<1>1. CASE Refuse(j) \/ Register(j) \/ Receive(j) \/ Timeout(j) \/ Cancel(j)
  <2>1. UNCHANGED <<inject_queue, pc, Notifiers>>
    BY <1>1
       DEF Refuse, Register, Receive, Timeout, Cancel, connVars, Notifiers, TypeOK, Outcomes
  <2>. QED  BY <2>1, WakeupElsewhere
<1>. QED  BY <1>1, WakeupEnqueue, WakeupNotify DEF Caller

LEMMA WakeupHandler ==
  ASSUME TypeOK, WakeupInv, NEW c \in Conns, Handler(c)
  PROVE  WakeupInv'
<1>. USE DEF callVars, Notifiers
<1>1. CASE Sleep(c) \/ GiveUp(c)
  BY <1>1, WakeupEmptyQueue DEF Sleep, GiveUp
<1>2. CASE SpuriousWake(c) \/ Keepalive(c)
  BY <1>2, WakeupElsewhere DEF SpuriousWake, Keepalive, Goto, TypeOK
<1>3. CASE Reply(c) \/ ReplyFails(c)
  BY <1>3, WakeupElsewhere DEF Reply, ReplyFails, Goto, TypeOK
<1>4. CASE Resolve(c) \/ Ack(c) \/ Hangup(c)
  BY <1>4, WakeupElsewhere DEF Resolve, Ack, Hangup, Goto, TypeOK, Reading
<1>. QED  BY <1>1, <1>2, <1>3, <1>4, WakeupTake DEF Handler

LEMMA WakeupHost ==
  ASSUME TypeOK, WakeupInv, NEW c \in Conns, Host(c)
  PROVE  WakeupInv'
<1>. USE DEF callVars, Notifiers
<1>1. CASE Poll(c)
  BY <1>1, WakeupElsewhere DEF Poll, TypeOK
<1>2. ASSUME NEW done \in BOOLEAN, NEW v \in Outcomes, Run(c, done, v)
      PROVE  WakeupInv'
  BY <1>2, WakeupElsewhere DEF Run, Goto, TypeOK
<1>3. ASSUME NEW done \in BOOLEAN, HostDies(c, done)
      PROVE  WakeupInv'
  BY <1>3, WakeupElsewhere DEF HostDies, TypeOK
<1>. QED  BY <1>1, <1>2, <1>3 DEF Host

\* However pushes, polls, notifications and timeouts interleave, a job in the
\* queue has an awake poller or a notification to come of its own as long as
\* any poller sleeps.
THEOREM WakeupCorrect == Spec => []NoLostWakeup
<1>1. Init => WakeupInv
  <2>1. Init => Notifiers = {}
    BY DEF Init, Notifiers
  <2>. QED  BY <2>1, FS_EmptySet DEF Init, NoLostWakeup, WakeupInv
<1>2. TypeOK /\ WakeupInv /\ [Next]_vars => WakeupInv'
  <2>1. TypeOK /\ WakeupInv /\ UNCHANGED vars => WakeupInv'
    BY WakeupElsewhere DEF vars, Notifiers
  <2>. QED  BY <2>1, WakeupCaller, WakeupHandler, WakeupHost DEF Next
<1>3. WakeupInv => NoLostWakeup
  BY DEF WakeupInv
<1>. QED  BY <1>1, <1>2, <1>3, TypeCorrect, PTL DEF Spec
=============================================================================
