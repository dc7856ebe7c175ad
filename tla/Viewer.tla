------------------------------- MODULE Viewer -------------------------------
(***************************************************************************)
(* The monitoring program: MonitService, a web server on a thread of its   *)
(* own, and a browser window on the pages it serves (cefsimple_win.cc,     *)
(* simple_app.cc, simple_handler.cc).  The window shows one page at a      *)
(* time; a link leads from the list of nodes to the dashboard of one, and  *)
(* a page that is left or loaded again forgets everything.                 *)
(***************************************************************************)
EXTENDS StatusList, Dashboard

VARIABLES
  service,   \* MonitService::Run: "starting", "serving", "ended" or "crashed"
  stopping,  \* stopping_
  page       \* "closed", "error", "list", "dashboard", "exit"; "none" before the window

vars == <<node, list, dash, service, stopping, page>>

ANode == CHOOSE n \in Nodes : TRUE

Init ==
  /\ NodesInit
  /\ list = BlankList /\ dash = BlankDash(ANode)
  /\ service = "starting" /\ stopping = FALSE
  /\ page = "none"

Running == service # "crashed"

---------------------------------------------------------------------------
(* MonitService *)

\* mg_bind returns null: the connection is used before it is looked at.
BindFails ==
  /\ service = "starting"
  /\ service' \in {"crashed", "ended"}
  /\ UNCHANGED <<node, list, dash, stopping, page>>

Bind ==
  /\ service = "starting"
  /\ service' = "serving"
  /\ UNCHANGED <<node, list, dash, stopping, page>>

\* while (!stopping_), behind a poll of at most half a second.
PollEnds ==
  /\ service = "serving" /\ stopping
  /\ service' = "ended"
  /\ UNCHANGED <<node, list, dash, stopping, page>>

---------------------------------------------------------------------------
(* The window *)

Served == service = "serving"

\* A page of the service, or OnLoadError's page.
Load(p, n) ==
  /\ page' = IF Served THEN p ELSE "error"
  /\ list' = BlankList /\ dash' = BlankDash(n)
  /\ UNCHANGED <<node, service, stopping>>

OnContextInitialized == Running /\ page = "none" /\ Load("list", ANode)

\* The link of a row; that of an error row is not displayed.
Follow(n) ==
  /\ Running /\ page = "list"
  /\ Markets(list, n) \ {ErrorMarket} # {}
  /\ Load("dashboard", n)

Back == Running /\ page = "dashboard" /\ Load("list", ANode)

Reload ==
  /\ Running
  /\ \/ page \in {"list", "error"} /\ Load("list", ANode)
     \/ page = "dashboard" /\ Load("dashboard", dash.uri)

\* OnBeforeClose of the last browser ends the message loop; main calls Stop.
Close ==
  /\ Running /\ page \in {"error", "list", "dashboard"}
  /\ page' = "closed" /\ stopping' = TRUE
  /\ list' = BlankList /\ dash' = BlankDash(ANode)
  /\ UNCHANGED <<node, service>>

\* Stop has joined the thread.
Exit ==
  /\ page = "closed" /\ service = "ended"
  /\ page' = "exit"
  /\ UNCHANGED <<node, list, dash, service, stopping>>

InList(Step) == Running /\ page = "list" /\ Step /\ UNCHANGED <<node, dash, service, stopping, page>>
InDashboard(Step) ==
  Running /\ page = "dashboard" /\ Step /\ UNCHANGED <<node, list, service, stopping, page>>

NodeStep == (\E n \in Nodes : NodeChanges(n)) /\ UNCHANGED <<list, dash, service, stopping, page>>

Next ==
  \/ Bind
  \/ BindFails
  \/ PollEnds
  \/ OnContextInitialized
  \/ \E n \in Nodes : Follow(n)
  \/ Back
  \/ Reload
  \/ Close
  \/ Exit
  \/ NodeStep
  \/ InList(ListStep)
  \/ InDashboard(DashStep)

(***************************************************************************)
(* The page's timer fires, a node answers, or the request fails, and every *)
(* answer that arrived gets its handler.  Nobody has to click.             *)
(***************************************************************************)
Fairness ==
  /\ WF_vars(InList(RequestHttp))
  /\ \A n \in Nodes :
       /\ WF_vars(InList(Answer(n)))
       /\ \A answer \in Statuses[n] \cup {Failed} : WF_vars(InList(Settle(n, answer)))

Spec == Init /\ [][Next]_vars /\ Fairness

---------------------------------------------------------------------------
(* Properties *)

Listed == page = "list" /\ list.listing = "loaded"

(***************************************************************************)
(* A list that stays open tells the truth in the end, although answers     *)
(* overtake each other: a node that stays down is shown as such, one that  *)
(* stays up with markets is shown with markets, and the alarm, where it is *)
(* on, sounds for as long as a node is down and no longer.  A node that    *)
(* answered without a market once its error row was there is lost.         *)
(***************************************************************************)
ListTellsTruth ==
  /\ \A n \in Nodes :
       /\ <>[](Listed /\ node[n] = Failed) =>
            <>[](Markets(list, n) = {ErrorMarket} \/ n \in list.emptied)
       /\ <>[](Listed /\ node[n] \notin {Failed, {}}) =>
            <>[](Markets(list, n) \notin {{}, {ErrorMarket}} \/ n \in list.emptied)
       /\ <>[](Listed /\ list.alarmShow /\ node[n] = Failed) =>
            <>[](list.playing \/ n \in list.emptied)
  /\ <>[](Listed /\ \A n \in Nodes : node[n] # Failed) => <>[]~list.playing
=============================================================================
