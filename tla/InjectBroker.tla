---------------------------- MODULE InjectBroker ----------------------------
(***************************************************************************)
(* The rendezvous between a PERFORM or GRAB_SESSION call and the injector  *)
(* hosts (BrokerHandle in broker.rs): a queue of jobs behind a mutex and a *)
(* condition variable, a map from job id to the channel the caller blocks  *)
(* on, and a count of the connections that poll for work.                  *)
(*                                                                         *)
(* One call creates one job with a fresh random id, so a job and its call  *)
(* share a name.  One connection is one run of handle_conn together with   *)
(* the native host process at its other end; a host that restarts uses     *)
(* another connection.                                                     *)
(***************************************************************************)
EXTENDS Integers, Sequences, FiniteSets

CONSTANTS
  Jobs,     \* job ids, one per PERFORM or GRAB_SESSION call
  Conns,    \* connections injector hosts open to the broker
  NoJob     \* the reply of a poll that found the queue empty

ASSUME JobsAssumption  == NoJob \notin Jobs
ASSUME ConnsAssumption == IsFiniteSet(Conns)

VARIABLES
  call,      \* how far the thread of handle_perform is with its job
  inject_queue,
  inject_results, \* the job ids that still have a sender in the map
  channel,   \* the outcome sent to the caller and not received yet
  injectors_present,
  pc,        \* what the handler thread of a connection does
  host_up,   \* whether the host process at the other end is alive
  is_injector, \* handle_conn's local flag; left TRUE when a slot is never released
  held,      \* the job a connection took and is answering for
  verdict,   \* what the host reports about the job it held
  acted      \* history: how often the browser carried out a job

callVars == <<call, inject_results, channel>>
connVars == <<pc, is_injector, held, verdict>>
vars == <<call, inject_queue, inject_results, channel, injectors_present, pc,
          host_up, is_injector, held, verdict, acted>>

Outcomes == {"ok", "failed"}
Answered == {"ok", "failed", "timedout", "refused"}
CallState == {"idle", "registered", "pushed", "waiting", "cancelling"} \cup Answered

\* The handler is inside take_next_job.
Polling == {"checking", "sleeping", "lastcheck"}
\* The handler has returned to read_line.
Reading == {"idle", "running"}
ConnState == {"new", "replying", "reporting", "acking", "closed"}
               \cup Polling \cup Reading

TypeOK ==
  /\ call \in [Jobs -> CallState]
  /\ inject_queue \in Seq(Jobs)
  /\ inject_results \subseteq Jobs
  /\ channel \in [Jobs -> Outcomes \cup {"none"}]
  /\ injectors_present \in Nat
  /\ pc \in [Conns -> ConnState]
  /\ host_up \in [Conns -> BOOLEAN]
  /\ is_injector \in [Conns -> BOOLEAN]
  /\ held \in [Conns -> Jobs \cup {NoJob}]
  /\ verdict \in [Conns -> Outcomes]
  /\ acted \in [Jobs -> Nat]

Init ==
  /\ call = [j \in Jobs |-> "idle"]
  /\ inject_queue = <<>>
  /\ inject_results = {}
  /\ channel = [j \in Jobs |-> "none"]
  /\ injectors_present = 0
  /\ pc = [c \in Conns |-> "new"]
  /\ host_up = [c \in Conns |-> TRUE]
  /\ is_injector = [c \in Conns |-> FALSE]
  /\ held = [c \in Conns |-> NoJob]
  /\ verdict = [c \in Conns |-> "failed"]
  /\ acted = [j \in Jobs |-> 0]

-----------------------------------------------------------------------------
(* The calling thread: perform_inject and the same steps of                *)
(* handle_grab_session.                                                    *)

Goto(c, from, to) ==
  /\ pc[c] = from
  /\ pc' = [pc EXCEPT ![c] = to]

\* No injector host is connected: the call fails at once.
Refuse(j) ==
  /\ call[j] = "idle"
  /\ injectors_present = 0
  /\ call' = [call EXCEPT ![j] = "refused"]
  /\ UNCHANGED <<inject_queue, inject_results, channel, injectors_present,
                 connVars, host_up, acted>>

\* dispatch_inject, first half: the result channel exists before the job does.
Register(j) ==
  /\ call[j] = "idle"
  /\ injectors_present > 0
  /\ call' = [call EXCEPT ![j] = "registered"]
  /\ inject_results' = inject_results \cup {j}
  /\ UNCHANGED <<inject_queue, channel, injectors_present, connVars, host_up,
                 acted>>

\* Mutant of NotifyOne: push_back without a notification.
NotifyNobody == UNCHANGED pc

\* Condvar::notify_one: wakes one sleeping poller if there is one.
NotifyOne ==
  \/ /\ \A c \in Conns : pc[c] # "sleeping"
     /\ UNCHANGED pc
  \/ \E c \in Conns : Goto(c, "sleeping", "checking")

\* dispatch_inject goes on: push the job.  The guard of the queue lock is gone
\* at the end of that statement.
Enqueue(j) ==
  /\ call[j] = "registered"
  /\ call' = [call EXCEPT ![j] = "pushed"]
  /\ inject_queue' = Append(inject_queue, j)
  /\ UNCHANGED <<inject_results, channel, injectors_present, connVars, host_up,
                 acted>>

\* ... and then notify, without the lock, and block on the channel.
Notify(j) ==
  /\ call[j] = "pushed"
  /\ call' = [call EXCEPT ![j] = "waiting"]
  /\ NotifyOne
  /\ UNCHANGED <<inject_queue, inject_results, channel, injectors_present,
                 host_up, is_injector, held, verdict, acted>>

\* recv_timeout returns the outcome the host reported.
Receive(j) ==
  /\ call[j] = "waiting"
  /\ channel[j] # "none"
  /\ call' = [call EXCEPT ![j] = channel[j]]
  /\ channel' = [channel EXCEPT ![j] = "none"]
  /\ UNCHANGED <<inject_queue, inject_results, injectors_present, connVars,
                 host_up, acted>>

\* Mutant of Timeout: recv in the place of recv_timeout.
WaitForever(j) ==
  /\ call[j] = "waiting"
  /\ channel[j] = "none"
  /\ UNCHANGED vars

\* recv_timeout gives up after INJECT_TIMEOUT_SECS with nothing in the channel.
Timeout(j) ==
  /\ call[j] = "waiting"
  /\ channel[j] = "none"
  /\ call' = [call EXCEPT ![j] = "cancelling"]
  /\ UNCHANGED <<inject_queue, inject_results, channel, injectors_present,
                 connVars, host_up, acted>>

\* Mutant of Cancel: the timed-out call leaves its sender in the map.
ForgetToCancel(j) ==
  /\ call[j] = "cancelling"
  /\ call' = [call EXCEPT ![j] = "timedout"]
  /\ UNCHANGED <<inject_queue, inject_results, channel, injectors_present,
                 connVars, host_up, acted>>

\* cancel_inject drops the channel; the job itself stays where it is.
Cancel(j) ==
  /\ call[j] = "cancelling"
  /\ call' = [call EXCEPT ![j] = "timedout"]
  /\ inject_results' = inject_results \ {j}
  /\ UNCHANGED <<inject_queue, channel, injectors_present, connVars, host_up,
                 acted>>
-----------------------------------------------------------------------------
(* The connection of an injector host: handle_conn, handle_await_job,      *)
(* handle_job_result and handle_session_result.                            *)

\* AWAIT_JOB by an authenticated injector handle; the first poll takes a slot.
Poll(c) ==
  /\ host_up[c]
  /\ pc[c] \in {"new", "idle"}
  /\ pc' = [pc EXCEPT ![c] = "checking"]
  /\ is_injector' = [is_injector EXCEPT ![c] = TRUE]
  /\ injectors_present' =
       IF is_injector[c] THEN injectors_present ELSE injectors_present + 1
  /\ UNCHANGED <<callVars, inject_queue, host_up, held, verdict, acted>>

\* Mutant of Take: front in the place of pop_front.
TakeACopy(c) ==
  /\ pc[c] \in {"checking", "lastcheck"}
  /\ inject_queue # <<>>
  /\ pc' = [pc EXCEPT ![c] = "replying"]
  /\ held' = [held EXCEPT ![c] = Head(inject_queue)]
  /\ UNCHANGED <<callVars, inject_queue, injectors_present, host_up,
                 is_injector, verdict, acted>>

\* pop_front finds a job: both in the loop and in the last look after a timeout.
Take(c) ==
  /\ pc[c] \in {"checking", "lastcheck"}
  /\ inject_queue # <<>>
  /\ pc' = [pc EXCEPT ![c] = "replying"]
  /\ held' = [held EXCEPT ![c] = Head(inject_queue)]
  /\ inject_queue' = Tail(inject_queue)
  /\ UNCHANGED <<callVars, injectors_present, host_up, is_injector, verdict,
                 acted>>

\* The queue is empty: wait_timeout releases the lock and sleeps.
Sleep(c) ==
  /\ Goto(c, "checking", "sleeping")
  /\ inject_queue = <<>>
  /\ UNCHANGED <<callVars, inject_queue, injectors_present, host_up,
                 is_injector, held, verdict, acted>>

\* A condition variable may wake a sleeper that nobody notified; it loops.
SpuriousWake(c) ==
  /\ Goto(c, "sleeping", "checking")
  /\ UNCHANGED <<callVars, inject_queue, injectors_present, host_up,
                 is_injector, held, verdict, acted>>

\* INJECTOR_KEEPALIVE_SECS passed without a notification.
Keepalive(c) ==
  /\ Goto(c, "sleeping", "lastcheck")
  /\ UNCHANGED <<callVars, inject_queue, injectors_present, host_up,
                 is_injector, held, verdict, acted>>

\* Mutant of GiveUp: a timeout returns None without another look at the queue.
GiveUpBlindly(c) ==
  /\ Goto(c, "lastcheck", "replying")
  /\ held' = [held EXCEPT ![c] = NoJob]
  /\ UNCHANGED <<callVars, inject_queue, injectors_present, host_up,
                 is_injector, verdict, acted>>

\* The last look after the timeout finds nothing either: NO_JOB.
GiveUp(c) ==
  /\ Goto(c, "lastcheck", "replying")
  /\ inject_queue = <<>>
  /\ held' = [held EXCEPT ![c] = NoJob]
  /\ UNCHANGED <<callVars, inject_queue, injectors_present, host_up,
                 is_injector, verdict, acted>>

\* write_resp succeeds: the host runs the job, or polls again after NO_JOB.
Reply(c) ==
  /\ host_up[c]
  /\ Goto(c, "replying", IF held[c] = NoJob THEN "idle" ELSE "running")
  /\ UNCHANGED <<callVars, inject_queue, injectors_present, host_up,
                 is_injector, held, verdict, acted>>

\* write_resp fails because the host is gone: handle_conn returns through `?`,
\* past the code that releases the injector slot.
ReplyFails(c) ==
  /\ ~host_up[c]
  /\ pc[c] \in {"replying", "acking"}
  /\ pc' = [pc EXCEPT ![c] = "closed"]
  /\ UNCHANGED <<callVars, inject_queue, injectors_present, host_up,
                 is_injector, held, verdict, acted>>

\* The browser carries out the job the connection holds, or not.
CarryOut(c, done) ==
  acted' = [acted EXCEPT ![held[c]] = IF done THEN @ + 1 ELSE @]

\* The extension carries the job out, or not; the host learns the truth, or
\* reports a failure because the port closed before the extension's answer.
Run(c, done, v) ==
  /\ host_up[c]
  /\ v = "ok" => done
  /\ Goto(c, "running", "reporting")
  /\ verdict' = [verdict EXCEPT ![c] = v]
  /\ CarryOut(c, done)
  /\ UNCHANGED <<callVars, inject_queue, injectors_present, host_up,
                 is_injector, held>>

\* resolve_inject: remove the sender, then send if it was still there.
Resolve(c) ==
  /\ Goto(c, "reporting", "acking")
  /\ LET j == held[c] IN
       /\ inject_results' = inject_results \ {j}
       /\ channel' = IF j \in inject_results /\ call[j] \in {"pushed", "waiting"}
                       THEN [channel EXCEPT ![j] = verdict[c]]
                       ELSE channel
  /\ UNCHANGED <<call, inject_queue, injectors_present, host_up, is_injector,
                 held, verdict, acted>>

\* JOB_ACK reaches the host, which goes on polling.
Ack(c) ==
  /\ host_up[c]
  /\ Goto(c, "acking", "idle")
  /\ held' = [held EXCEPT ![c] = NoJob]
  /\ UNCHANGED <<callVars, inject_queue, injectors_present, host_up,
                 is_injector, verdict, acted>>

\* The host process ends (browser closed, SIGTERM, its stdin went away), in the
\* middle of a job perhaps, before or after the page was filled.
HostDies(c, done) ==
  /\ host_up[c]
  /\ host_up' = [host_up EXCEPT ![c] = FALSE]
  /\ done => pc[c] = "running"
  /\ CarryOut(c, done)
  /\ pc' = IF done THEN [pc EXCEPT ![c] = "idle"] ELSE pc
  /\ UNCHANGED <<callVars, inject_queue, injectors_present, is_injector, held,
                 verdict>>

\* Mutants of Hangup: the release is not conditional on having taken a slot;
\* or neither that nor saturating.
ReleaseUnclaimed(c) ==
  /\ ~host_up[c]
  /\ pc[c] \in Reading \cup {"new"}
  /\ pc' = [pc EXCEPT ![c] = "closed"]
  /\ is_injector' = [is_injector EXCEPT ![c] = FALSE]
  /\ injectors_present' = IF injectors_present > 0
                            THEN injectors_present - 1
                            ELSE injectors_present
  /\ UNCHANGED <<callVars, inject_queue, host_up, held, verdict, acted>>

ReleaseBelowZero(c) ==
  /\ ~host_up[c]
  /\ pc[c] \in Reading \cup {"new"}
  /\ pc' = [pc EXCEPT ![c] = "closed"]
  /\ is_injector' = [is_injector EXCEPT ![c] = FALSE]
  /\ injectors_present' = injectors_present - 1
  /\ UNCHANGED <<callVars, inject_queue, host_up, held, verdict, acted>>

\* read_line returns end of file: the loop breaks and the slot is released
\* (injector_disconnected never goes below zero).
Hangup(c) ==
  /\ ~host_up[c]
  /\ pc[c] \in Reading \cup {"new"}
  /\ pc' = [pc EXCEPT ![c] = "closed"]
  /\ is_injector' = [is_injector EXCEPT ![c] = FALSE]
  /\ injectors_present' = IF is_injector[c] /\ injectors_present > 0
                            THEN injectors_present - 1
                            ELSE injectors_present
  /\ UNCHANGED <<callVars, inject_queue, host_up, held, verdict, acted>>
-----------------------------------------------------------------------------
Caller(j) ==
  \/ Refuse(j) \/ Register(j) \/ Enqueue(j) \/ Notify(j)
  \/ Receive(j) \/ Timeout(j) \/ Cancel(j)

Handler(c) ==
  \/ Take(c) \/ Sleep(c) \/ SpuriousWake(c) \/ Keepalive(c) \/ GiveUp(c)
  \/ Reply(c) \/ ReplyFails(c) \/ Resolve(c) \/ Ack(c) \/ Hangup(c)

Host(c) ==
  \/ Poll(c)
  \/ \E done \in BOOLEAN, v \in Outcomes : Run(c, done, v)
  \/ \E done \in BOOLEAN : HostDies(c, done)

Next ==
  \/ \E j \in Jobs : Caller(j)
  \/ \E c \in Conns : Handler(c) \/ Host(c)

\* The broker's own threads keep running and its timeouts fire.  Nothing is
\* assumed of the hosts, nor of the agents that make calls.
Fairness ==
  /\ \A j \in Jobs : WF_vars(\/ Enqueue(j) \/ Notify(j) \/ Receive(j)
                         \/ Timeout(j) \/ Cancel(j))
  /\ \A c \in Conns : WF_vars(Take(c) \/ Sleep(c) \/ Keepalive(c) \/ GiveUp(c))

Spec == Init /\ [][Next]_vars
FairSpec == Spec /\ Fairness
-----------------------------------------------------------------------------
(* Safety. *)

Open(c) == is_injector[c] /\ pc[c] # "closed"

\* A connection that takes part in the rendezvous is always counted: while one
\* is connected no call is refused for want of an injector (injector_present).
PresenceNeverUndercounts ==
  Cardinality({c \in Conns : Open(c)}) <= injectors_present

\* take_next_job and dispatch_inject lose no wake-up: while some poller sleeps,
\* every queued job has a poller of its own that is awake and will look at the
\* queue, or a caller that pushed and is about to notify.
NoLostWakeup ==
  (\E c \in Conns : pc[c] = "sleeping") =>
    Len(inject_queue)
      <= Cardinality({c \in Conns : pc[c] \in {"checking", "lastcheck"}})
           + Cardinality({j \in Jobs : call[j] = "pushed"})

\* A call that is over leaves no sender behind in inject_results, whichever of
\* the outcome, the timeout and the cancellation came first.
NoSenderLeft == \A j \in Jobs : call[j] \in Answered => j \notin inject_results

\* The abstract promise, read off the detailed state.
toldCaller == [j \in Jobs |->
  IF call[j] = "ok" THEN "ok"
  ELSE IF call[j] \in Answered THEN "error" ELSE "none"]

Promise == INSTANCE InjectPromise WITH answer <- toldCaller, acted <- acted

\* The rendezvous implements the promise: every job is carried out at most
\* once, and "ok" is only ever answered after it was.
PromiseKept == Promise!PromiseSpec

-----------------------------------------------------------------------------
(* Liveness. *)

\* A call that handed its job over gets an answer, whatever the hosts do.
CallReturns == \A j \in Jobs : call[j] = "registered" ~> call[j] \in Answered

\* The job at the head of the queue is taken once some host polls, however the
\* push, the notification and the keepalive interleave.
HeadIsTaken ==
  \A j \in Jobs :
    (/\ inject_queue # <<>> /\ Head(inject_queue) = j
     /\ \E c \in Conns : pc[c] \in Polling)
      ~> \A i \in DOMAIN inject_queue : inject_queue[i] # j

-----------------------------------------------------------------------------
(* What the comments say and the code does not do. *)

\* "True while at least one injector host is connected and polling": the count
\* is positive only while some injector connection is open.
PresentMeansConnected ==
  injectors_present > 0 => \E c \in Conns : Open(c)
=============================================================================
