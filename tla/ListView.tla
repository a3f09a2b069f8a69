------------------------------ MODULE ListView ------------------------------
(***************************************************************************)
(* The list on the main screen (App.jsx Main): refresh asks the backend    *)
(* for the rows of a view, and several such calls may be under way.  The   *)
(* handlers that run for a while (a mutation in the background, a sync, a  *)
(* purge) call the refresh of the render they were started in, which asks  *)
(* for the view of that render.                                            *)
(***************************************************************************)
EXTENDS Naturals

CONSTANTS
  Views,        \* views with rows from the backend
  FirstView,    \* the one the screen starts with
  Agents,       \* the view that has data of its own
  Handlers,     \* handlers that may be running
  MaxSeq        \* bound on the calls of list_items

ASSUME ListAssumption ==
  FirstView \in Views /\ Agents \notin Views /\ MaxSeq \in Nat \ {0}

VARIABLES
  view,         \* the view the user chose
  items,        \* whose rows are on the screen; the agents view has none
  reqSeq,       \* the number of the latest request
  requests,     \* calls of list_items that have not answered yet
  stage,        \* how far each handler is
  captured,     \* the view of the render it was started in
  outdated      \* history: the last change of the view was under a handler, or
                \* to the agents view under a request

listVars == <<view, items, reqSeq, requests, stage, captured, outdated>>

AllViews == Views \cup {Agents}
Request == [seq : 1..MaxSeq, view : Views]

ListTypeOK ==
  /\ view \in AllViews
  /\ items \in AllViews
  /\ reqSeq \in 0..MaxSeq
  /\ requests \subseteq Request
  /\ stage \in [Handlers -> {"idle", "commit", "sync", "purge", "icons"}]
  /\ captured \in [Handlers -> AllViews]
  /\ outdated \in BOOLEAN

ListInit ==
  /\ view = FirstView
  /\ items = Agents
  /\ reqSeq = 1
  /\ requests = {[seq |-> 1, view |-> view]}
  /\ stage = [h \in Handlers |-> "idle"]
  /\ captured = [h \in Handlers |-> view]
  /\ outdated = FALSE

InFlight(h) == stage[h] # "idle"

\* refresh of a render that shows view v; the agents view takes no number.
Refresh(v) ==
  IF v = Agents
    THEN items' = Agents /\ UNCHANGED <<reqSeq, requests>>
    ELSE /\ reqSeq < MaxSeq
         /\ reqSeq' = reqSeq + 1
         /\ requests' = requests \cup {[seq |-> reqSeq + 1, view |-> v]}
         /\ UNCHANGED items

\* changeView; the new render's effect lists again.
ChangeView(v) ==
  /\ v # view
  /\ view' = v
  /\ Refresh(v)
  /\ outdated' = (\/ \E h \in Handlers : InFlight(h)
                  \/ v = Agents /\ requests # {})
  /\ UNCHANGED <<stage, captured>>

\* Mutant of Latest: whoever answers is shown.
AnyAnswer(r) == r \in requests

\* Only the latest request's answer is shown.
Latest(r) == r.seq = reqSeq

\* list_items answers, in any order.
Answer(r) ==
  /\ requests' = requests \ {r}
  /\ items' = IF Latest(r) THEN r.view ELSE items
  /\ UNCHANGED <<view, reqSeq, stage, captured, outdated>>

\* A mutation goes to the background, a sync or a purge starts.
StartHandler(h, kind) ==
  /\ stage[h] = "idle"
  /\ kind \in {"commit", "sync", "purge"}
  /\ stage' = [stage EXCEPT ![h] = kind]
  /\ captured' = [captured EXCEPT ![h] = view]
  /\ UNCHANGED <<view, items, reqSeq, requests, outdated>>

\* The mutation is over, well or not: a quiet sync reconciles.
Reconcile(h) ==
  /\ stage[h] = "commit"
  /\ stage' = [stage EXCEPT ![h] = "sync"]
  /\ UNCHANGED <<view, items, reqSeq, requests, captured, outdated>>

\* The sync or the purge is done and lists again, and so does the favicon fetch
\* behind a sync when it found new ones.
Done(h) ==
  /\ stage[h] \in {"sync", "purge", "icons"}
  /\ stage' = [stage EXCEPT ![h] = IF stage[h] = "sync" THEN "icons" ELSE "idle"]
  /\ Refresh(captured[h])
  /\ UNCHANGED <<view, captured, outdated>>

\* A sync or purge that failed, or a favicon fetch that found nothing, does not.
EndQuietly(h) ==
  /\ stage[h] \in {"sync", "purge", "icons"}
  /\ stage' = [stage EXCEPT ![h] = "idle"]
  /\ UNCHANGED <<view, items, reqSeq, requests, captured, outdated>>

ListNext ==
  \/ \E v \in AllViews : ChangeView(v)
  \/ \E r \in requests : Answer(r)
  \/ \E h \in Handlers :
       \/ \E kind \in {"commit", "sync", "purge"} : StartHandler(h, kind)
       \/ Reconcile(h) \/ Done(h) \/ EndQuietly(h)

ListSpec == ListInit /\ [][ListNext]_listVars
-----------------------------------------------------------------------------
(* Properties. *)

\* With no request under way the rows on the screen are those of the view that
\* was chosen, in whatever order changes of the view, refreshes and answers
\* came: but for a handler that began in another view and lists that one, and
\* for an answer that comes after the agents view was chosen.
RowsAreOfTheView == requests = {} /\ ~outdated => items = view
=============================================================================
