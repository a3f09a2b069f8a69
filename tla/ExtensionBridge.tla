-------------------------- MODULE ExtensionBridge --------------------------
(***************************************************************************)
(* From a job of the broker to a page of the browser: perform_inject and   *)
(* resolve_target (broker.rs) make it, a native-messaging host             *)
(* (injector-host main.rs) takes it and passes it to the extension, whose  *)
(* service worker (background.js) finds or opens a tab and asks the        *)
(* content script there (content.js) to fill the form.                     *)
(*                                                                         *)
(* Between any two of these steps tabs navigate, load and close, the       *)
(* worker is torn down, a host dies and the extension connects again: the  *)
(* answer to a job may then come out at the host of another one.           *)
(***************************************************************************)
EXTENDS Naturals, Sequences, FiniteSets

CONSTANTS
  Jobs,
  Tabs,
  Urls,      \* records with a scheme, a host and a port: 0 when none is written
  Grants,    \* the sets of hosts that a session may be granted for
  None,
  MaxPorts,  \* bound on how often the extension connects
  MaxMoves   \* bound on what the user does with the tabs

ASSUME BridgeAssumption ==
  /\ Urls \subseteq [scheme : STRING, host : STRING, port : Nat]
  /\ None \notin Urls /\ None \notin Jobs
  /\ Grants \subseteq (SUBSET {u.host : u \in Urls}) \ {{}}
  /\ MaxPorts \in Nat /\ MaxMoves \in Nat

VARIABLES
  order,      \* what each job asks for, None before it is dispatched
  port,       \* the extension's port, None when it has none
  opened,     \* how many ports it has opened
  open,       \* those the browser has not closed
  host,       \* the host process of each port
  serves,     \* the job it took
  toExt,      \* the message on the port that the extension has not seen
  toHost,     \* the messages on the port that the host has not read
  task,       \* how far onFill or onGrabSession is with each job
  tab,        \* the tab it uses
  page,       \* what each tab shows, None if there is no such tab
  loading,    \* the tabs that are not complete
  permitted,  \* the hosts for which the extension has a permission
  filled,     \* history: the pages that each job filled in
  outcome,    \* what the host reported of each job
  moves,
  missed      \* history: a tab that a job had opened was complete before
              \* anybody listened, or was closed before it was complete

bridgeVars == <<order, port, opened, open, host, serves, toExt, toHost, task, tab,
                page, loading, permitted, filled, outcome, moves, missed>>
hostVars == <<port, opened, open, host, serves, toExt, toHost, outcome>>
tabVars == <<page, loading, moves, missed>>
taskVars == <<task, tab, permitted, filled>>

Ports == 1..MaxPorts
Hosts == {u.host : u \in Urls}

\* origin_of: the port stays as it is written.
origin_of(url) == <<url.scheme, url.host, url.port>>

\* What the browser says of a page (location.origin, new URL(u).origin): the
\* port is left out when it is the scheme's own.
BrowserOrigin(url) ==
  <<url.scheme, url.host,
    IF url.port = (IF url.scheme = "https" THEN 443 ELSE 80) THEN 0 ELSE url.port>>

FillJob == [kind : {"fill"}, own : Urls \cup {None}, url : Urls]
GrabJob == [kind : {"grab"}, hosts : Grants]

BridgeTypeOK ==
  /\ order \in [Jobs -> FillJob \cup GrabJob \cup {None}]
  /\ port \in Ports \cup {None} /\ opened \in 0..MaxPorts
  /\ open \subseteq Ports
  /\ host \in [Ports -> {"none", "poll", "wait", "dead"}]
  /\ serves \in [Ports -> Jobs \cup {None}]
  /\ toExt \in [Ports -> Jobs \cup {None}]
  /\ toHost \in [Ports -> Seq([job : Jobs, ok : BOOLEAN])]
  /\ task \in [Jobs -> {"none", "find", "opened", "loading", "send", "ask", "cookies",
                        "ok", "failed", "over"}]
  /\ tab \in [Jobs -> Tabs \cup {None}]
  /\ page \in [Tabs -> Urls \cup {None}] /\ loading \subseteq Tabs
  /\ permitted \subseteq Hosts
  /\ filled \in [Jobs -> SUBSET Urls]
  /\ outcome \in [Jobs -> {"none", "ok", "failed"}]
  /\ moves \in 0..MaxMoves
  /\ missed \in BOOLEAN

BridgeInit ==
  /\ order = [j \in Jobs |-> None]
  /\ port = None /\ opened = 0 /\ open = {}
  /\ host = [p \in Ports |-> "none"]
  /\ serves = [p \in Ports |-> None]
  /\ toExt = [p \in Ports |-> None]
  /\ toHost = [p \in Ports |-> <<>>]
  /\ task = [j \in Jobs |-> "none"]
  /\ tab = [j \in Jobs |-> None]
  /\ page \in [Tabs -> Urls \cup {None}] /\ loading = {}
  /\ permitted = {}
  /\ filled = [j \in Jobs |-> {}]
  /\ outcome = [j \in Jobs |-> "none"]
  /\ moves = 0 /\ missed = FALSE
-----------------------------------------------------------------------------
(* The broker. *)

\* resolve_target takes a target on the item's own origin; an item that has no
\* URL goes anywhere.
Bound(own, target) == own # None => origin_of(target) = origin_of(own)

\* perform_inject, once an injector is there.
Perform(j, own, target) ==
  /\ order[j] = None
  /\ Bound(own, target)
  /\ order' = [order EXCEPT ![j] = [kind |-> "fill", own |-> own, url |-> target]]
  /\ UNCHANGED <<hostVars, taskVars, tabVars>>

\* handle_grab_session
GrabSession(j, hosts) ==
  /\ order[j] = None
  /\ order' = [order EXCEPT ![j] = [kind |-> "grab", hosts |-> hosts]]
  /\ UNCHANGED <<hostVars, taskVars, tabVars>>
-----------------------------------------------------------------------------
(* The extension's port and the host behind it. *)

\* Mutant of MayConnect: a second port is opened.
MayAlways == TRUE

\* "never open a second port"
MayConnect == port = None

\* connect, at the start of the worker, on a wake event or after the backoff.
Connect ==
  /\ MayConnect
  /\ opened < MaxPorts
  /\ opened' = opened + 1
  /\ port' = opened'
  /\ open' = open \cup {opened'}
  /\ host' = [host EXCEPT ![opened'] = "poll"]
  /\ UNCHANGED <<order, serves, toExt, toHost, outcome, taskVars, tabVars>>

\* The worker is torn down: with it go its ports and what it was doing.
WorkerStops ==
  /\ port # None
  /\ port' = None
  /\ open' = {}
  /\ toExt' = [p \in Ports |-> None]
  /\ task' = [j \in Jobs |-> IF task[j] = "none" THEN "none" ELSE "over"]
  /\ tab' = [j \in Jobs |-> None]
  /\ UNCHANGED <<order, opened, host, serves, toHost, outcome, permitted, filled, tabVars>>

\* A host exits with an error of the broker, or is killed as its port is closed.
HostDies(p) ==
  /\ host[p] \in {"poll", "wait"}
  /\ host' = [host EXCEPT ![p] = "dead"]
  /\ open' = open \ {p}
  /\ toHost' = [toHost EXCEPT ![p] = <<>>]
  /\ UNCHANGED <<order, port, opened, serves, toExt, outcome, taskVars, tabVars>>

\* port.onDisconnect: what is still on its way is lost.
Disconnected ==
  /\ port # None /\ port \notin open
  /\ port' = None
  /\ toExt' = [toExt EXCEPT ![port] = None]
  /\ UNCHANGED <<order, opened, open, host, serves, toHost, outcome, taskVars, tabVars>>

\* AwaitJob brings a job that nobody else got; it is passed on at once, which
\* fails when the browser has closed the port.
TakeJob(p, j) ==
  /\ host[p] = "poll"
  /\ order[j] # None /\ \A q \in Ports : serves[q] # j
  /\ outcome[j] = "none" /\ task[j] = "none"
  /\ serves' = [serves EXCEPT ![p] = j]
  /\ IF p \in open
       THEN /\ host' = [host EXCEPT ![p] = "wait"]
            /\ toExt' = [toExt EXCEPT ![p] = j]
            /\ UNCHANGED outcome
       ELSE /\ outcome' = [outcome EXCEPT ![j] = "failed"]
            /\ UNCHANGED <<host, toExt>>
  /\ UNCHANGED <<order, port, opened, open, toHost, taskVars, tabVars>>

\* Mutant of Mine: whatever comes next is taken for the answer.
Anyones(p, msg) == TRUE

\* "not our job"
Mine(p, msg) == msg.job = serves[p]

Report(p, ok) ==
  /\ outcome' = [outcome EXCEPT ![serves[p]] = IF ok THEN "ok" ELSE "failed"]
  /\ host' = [host EXCEPT ![p] = "poll"]

\* run_job, run_grab: read until the answer to this job, or the end.
HostReads(p) ==
  /\ host[p] = "wait"
  /\ IF toHost[p] # <<>>
       THEN /\ toHost' = [toHost EXCEPT ![p] = Tail(@)]
            /\ IF Mine(p, Head(toHost[p]))
                 THEN Report(p, Head(toHost[p]).ok)
                 ELSE UNCHANGED <<outcome, host>>
       ELSE p \notin open /\ Report(p, FALSE) /\ UNCHANGED toHost
  /\ UNCHANGED <<order, port, opened, open, serves, toExt, taskVars, tabVars>>
-----------------------------------------------------------------------------
(* The extension's handlers. *)

Step(j, from, to) ==
  /\ task[j] = from
  /\ task' = [task EXCEPT ![j] = to]

\* onHostMessage
Receive(p) ==
  /\ toExt[p] # None
  /\ toExt' = [toExt EXCEPT ![p] = None]
  /\ Step(toExt[p], "none", IF order[toExt[p]].kind = "fill" THEN "find" ELSE "ask")
  /\ UNCHANGED <<order, port, opened, open, host, serves, toHost, outcome, tab,
                 permitted, filled, tabVars>>

OnOrigin(j) == {t \in Tabs : page[t] # None /\ BrowserOrigin(page[t]) = origin_of(order[j].url)}

\* findOrOpenTab: a tab on the origin, or a new one, which shows the URL or
\* what that redirects to.
FindTab(j) ==
  /\ \/ /\ Step(j, "find", "send")
        /\ \E t \in OnOrigin(j) : tab' = [tab EXCEPT ![j] = t]
        /\ UNCHANGED <<page, loading>>
     \/ /\ Step(j, "find", "opened")
        /\ OnOrigin(j) = {}
        /\ \E t \in Tabs, u \in Urls :
             /\ page[t] = None
             /\ tab' = [tab EXCEPT ![j] = t]
             /\ page' = [page EXCEPT ![t] = u]
             /\ loading' = loading \cup {t}
  /\ UNCHANGED <<order, hostVars, permitted, filled, moves, missed>>

\* waitForComplete
Listen(j) ==
  /\ Step(j, "opened", "loading")
  /\ UNCHANGED <<order, hostVars, tab, permitted, filled, tabVars>>

\* "refuse if this document is not the intended origin"
Guarded(j) == BrowserOrigin(page[tab[j]]) = origin_of(order[j].url)

\* sendFill and the content script's listener, in the page that the tab shows
\* by now: it has a form or not.  The answer is lost if the page goes away.
SendFill(j) ==
  /\ \/ /\ Step(j, "send", "failed")
        /\ UNCHANGED filled
     \/ /\ Step(j, "send", "ok") \/ Step(j, "send", "failed")
        /\ page[tab[j]] # None /\ Guarded(j)
        /\ filled' = [filled EXCEPT ![j] = @ \cup {page[tab[j]]}]
  /\ UNCHANGED <<order, hostVars, tab, permitted, tabVars>>

\* onGrabSession: the permission for all hosts is there, or is asked for; the
\* request fails without a gesture of the user, who may also decline.
Permit(j) ==
  /\ task[j] = "ask"
  /\ \/ /\ order[j].hosts \subseteq permitted
        /\ Step(j, "ask", "cookies")
        /\ UNCHANGED permitted
     \/ /\ ~(order[j].hosts \subseteq permitted)
        /\ \/ Step(j, "ask", "failed") /\ UNCHANGED permitted
           \/ Step(j, "ask", "cookies") /\ permitted' = permitted \cup order[j].hosts
  /\ UNCHANGED <<order, hostVars, tab, filled, tabVars>>

\* The button of the popup: there the user's click is the gesture.
GrantAccess ==
  /\ \E hosts \in Grants : permitted' = permitted \cup hosts
  /\ UNCHANGED <<order, hostVars, task, tab, filled, tabVars>>

\* chrome.cookies.getAll for each host; it may fail.
ReadCookies(j) ==
  /\ \/ Step(j, "cookies", "ok") \/ Step(j, "cookies", "failed")
  /\ UNCHANGED <<order, hostVars, tab, permitted, filled, tabVars>>

\* Mutant of Reply: the message does not say which job it is about.
NamelessReply(j) == [job |-> None, ok |-> task[j] = "ok"]

Reply(j) == [job |-> j, ok |-> task[j] = "ok"]

\* reply, replySession: on the port there is now, if any; a message to one that
\* is closed is lost.
Answer(j) ==
  /\ \/ Step(j, "ok", "over") \/ Step(j, "failed", "over")
  /\ tab' = [tab EXCEPT ![j] = None]
  /\ toHost' = IF port # None /\ port \in open
                 THEN [toHost EXCEPT ![port] = Append(@, Reply(j))]
                 ELSE toHost
  /\ UNCHANGED <<order, port, opened, open, host, serves, toExt, outcome, permitted,
                 filled, tabVars>>
-----------------------------------------------------------------------------
(* The tabs. *)

Users(t, stages) == {j \in Jobs : tab[j] = t /\ task[j] \in stages}

\* chrome.tabs.onUpdated: complete
Complete(t) ==
  /\ t \in loading
  /\ loading' = loading \ {t}
  /\ task' = [j \in Jobs |-> IF j \in Users(t, {"loading"}) THEN "send" ELSE task[j]]
  /\ missed' = (missed \/ Users(t, {"opened"}) # {})
  /\ UNCHANGED <<order, hostVars, tab, permitted, filled, page, moves>>

\* The user, or the page itself, takes a tab to another URL.
Navigate(t, u) ==
  /\ moves < MaxMoves
  /\ page[t] # None
  /\ page' = [page EXCEPT ![t] = u]
  /\ loading' = loading \cup {t}
  /\ moves' = moves + 1
  /\ UNCHANGED <<order, hostVars, taskVars, missed>>

Close(t) ==
  /\ moves < MaxMoves
  /\ page[t] # None
  /\ page' = [page EXCEPT ![t] = None]
  /\ loading' = loading \ {t}
  /\ moves' = moves + 1
  /\ missed' = (missed \/ Users(t, {"opened", "loading"}) # {})
  /\ UNCHANGED <<order, hostVars, taskVars>>

Extension ==
  \/ Disconnected
  \/ \E p \in Ports : Receive(p)
  \/ \E j \in Jobs : \/ FindTab(j) \/ Listen(j) \/ SendFill(j)
                     \/ Permit(j) \/ ReadCookies(j) \/ Answer(j)

BridgeNext ==
  \/ \E j \in Jobs : \/ \E own \in Urls \cup {None}, url \in Urls : Perform(j, own, url)
                     \/ \E hosts \in Grants : GrabSession(j, hosts)
  \/ Connect \/ WorkerStops
  \/ \E p \in Ports : \/ HostDies(p) \/ HostReads(p)
                      \/ \E j \in Jobs : TakeJob(p, j)
  \/ Extension \/ GrantAccess
  \/ \E t \in Tabs : Complete(t) \/ Close(t) \/ \E u \in Urls : Navigate(t, u)

\* The worker's event loop and the hosts go on, and pages finish loading.
BridgeFairness ==
  /\ WF_bridgeVars(Extension)
  /\ \A p \in Ports : WF_bridgeVars(HostReads(p))
  /\ \A t \in Tabs : WF_bridgeVars(Complete(t))

BridgeSpec == BridgeInit /\ [][BridgeNext]_bridgeVars /\ BridgeFairness
-----------------------------------------------------------------------------
(* Properties. *)

\* "a fill can only ever land on the exact origin the credential belongs to",
\* wherever tabs went since one was chosen; and a host that reports a job as
\* done passes on what the extension did for that job, on whatever port the
\* answers of other jobs come out.
FillIsTrue ==
  \A j \in Jobs :
    /\ \A u \in filled[j] :
         order[j].own # None => BrowserOrigin(u) = BrowserOrigin(order[j].own)
    /\ outcome[j] = "ok" =>
         IF order[j].kind = "fill" THEN filled[j] # {} ELSE order[j].hosts \subseteq permitted

\* A host that took a job comes back to the broker, with an answer or because
\* its port was closed, or exits; unless a tab that was opened for a job never
\* tells that it is complete: the host then waits for as long as the browser
\* lives, and its broker goes on counting an injector.
HostComesBack ==
  \A p \in Ports : host[p] = "wait" ~> host[p] # "wait" \/ missed
=============================================================================
