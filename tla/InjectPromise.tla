---------------------------- MODULE InjectPromise ----------------------------
(***************************************************************************)
(* What a caller of PERFORM or GRAB_SESSION may rely on, with no queue, no *)
(* host and no timeout in sight: the browser carries a job out at most     *)
(* once, and a call that answers "ok" comes after that one time.  A call   *)
(* that answers with an error promises nothing: the job may have been      *)
(* carried out before, and may still be afterwards.                        *)
(***************************************************************************)
EXTENDS Naturals

CONSTANT Jobs

VARIABLES
  answer,   \* what the caller was told
  acted     \* how often the browser carried the job out

promiseVars == <<answer, acted>>

PromiseInit ==
  /\ answer = [j \in Jobs |-> "none"]
  /\ acted = [j \in Jobs |-> 0]

\* The browser does what the job asks.
Act(j) ==
  /\ acted[j] = 0
  /\ acted' = [acted EXCEPT ![j] = 1]
  /\ UNCHANGED answer

\* The caller hears of a success.
Succeed(j) ==
  /\ answer[j] = "none"
  /\ acted[j] = 1
  /\ answer' = [answer EXCEPT ![j] = "ok"]
  /\ UNCHANGED acted

\* The caller hears of a failure, a timeout or a missing injector.
Fail(j) ==
  /\ answer[j] = "none"
  /\ answer' = [answer EXCEPT ![j] = "error"]
  /\ UNCHANGED acted

PromiseNext == \E j \in Jobs : Act(j) \/ Succeed(j) \/ Fail(j)

PromiseSpec == PromiseInit /\ [][PromiseNext]_promiseVars
=============================================================================
