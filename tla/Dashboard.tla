------------------------------ MODULE Dashboard ------------------------------
(***************************************************************************)
(* index.html and index.js: the page that draws the figures of one node,   *)
(* host (market) after host, as they come in.  The figures are left out;   *)
(* what is kept of a chart is where its points lie, and whose it is.       *)
(*                                                                         *)
(* visitors3 and visitors4 get a point from every answer; visitors1 and    *)
(* visitors2, the speeds, from every one but the first.                    *)
(***************************************************************************)
EXTENDS MonitoredNodes, Integers, Sequences

CONSTANTS
  Config,      \* /config: the hosts that have a source, in order
  Points       \* how many points a chart holds: 101


VARIABLE dash

Hosts == {Config[k] : k \in DOMAIN Config}
hostName == Config[1]      \* the host the page starts with
None == "none"

\* There is a first host, and an undefined one can be told from every name.
ASSUME DashboardAssumption == 1 \in DOMAIN Config /\ None \notin Hosts /\ Points \in Nat \ {0}

BlankDash(n) ==
  [uri         |-> n,
   phase       |-> "config",       \* "config", "asked", "armed" or "stopped"
   i           |-> 0,
   statusArray |-> [h \in {} |-> <<>>],
   heading     |-> None,           \* the host the page bar names
   online      |-> None,           \* whose arrays visitors1_online ... are
   early       |-> FALSE,          \* history: the heading was chosen before there was a speed to show
   missed      |-> {}]             \* history: hosts that an answer might have had and did not have

---------------------------------------------------------------------------
(* The charts *)

\* Bug: the first point goes, but the axis is not counted anew.
ShiftedOnly(xs, x) ==
  IF Len(xs) < Points THEN Append(xs, x) ELSE Tail(Append(xs, x))

\* push; a chart that is over full is shifted, and XControl counts its points from 0.
Pushed(xs, x) ==
  IF Len(xs) < Points THEN Append(xs, x) ELSE [k \in DOMAIN xs |-> k - 1]

NewArrays == [visitors1 |-> <<>>, visitors3 |-> <<>>]

\* The arrays of a host that is in the answer.
Grown(s, h) ==
  IF h \notin DOMAIN s.statusArray THEN [NewArrays EXCEPT !.visitors3 = <<s.i>>]
  ELSE [visitors1 |-> Pushed(s.statusArray[h].visitors1, s.i),
        visitors3 |-> Pushed(s.statusArray[h].visitors3, s.i)]

Stored(s, hosts) ==
  [s EXCEPT !.statusArray = [h \in DOMAIN @ \cup hosts |-> IF h \in hosts THEN Grown(s, h) ELSE @[h]],
            !.i = IF @ < Points THEN @ + 1 ELSE @,
            !.missed = @ \cup ((UNION Statuses[s.uri]) \ hosts)]

\* visitors1_online == "" || visitors1_online == null: an empty array equals "".
NothingToShow(s) == s.online = None \/ s.statusArray[s.online].visitors1 = <<>>

Defaulted(s) ==
  IF ~NothingToShow(s) THEN s
  ELSE [s EXCEPT !.online = IF hostName \in DOMAIN s.statusArray THEN hostName ELSE None]

---------------------------------------------------------------------------
(* The page *)

\* getCommonData, initCharts and its first call of update.
ConfigAnswered ==
  /\ dash.phase = "config"
  /\ dash' = IF node[dash.uri] = Failed THEN [dash EXCEPT !.phase = "stopped"]
             ELSE [dash EXCEPT !.phase = "asked", !.heading = hostName]

\* A request that fails has no handler, and nothing sets the timer.
StatusRefused ==
  /\ dash.phase = "asked" /\ node[dash.uri] = Failed
  /\ dash' = [dash EXCEPT !.phase = "stopped"]

\* Without arrays to show, an exception ends the handler before it sets the timer.
StatusAnswered ==
  /\ dash.phase = "asked" /\ node[dash.uri] # Failed
  /\ LET s == Defaulted(Stored(dash, node[dash.uri]))
     IN  dash' = [s EXCEPT !.phase = IF s.online = None THEN "stopped" ELSE "armed"]

\* setTimeout(update, updateInterval)
Update ==
  /\ dash.phase = "armed"
  /\ dash' = [dash EXCEPT !.phase = "asked"]

\* Bug: the menu changes the page bar alone.
ShowsOldArrays(h) == dash.online

\* initChartArray: the arrays of the host, which may be undefined.
ArraysOf(h) == IF h \in DOMAIN dash.statusArray THEN h ELSE None

\* clickFunction, from the menu.
Click(h) ==
  /\ dash.heading # None
  /\ dash' = [dash EXCEPT !.heading = h, !.online = ArraysOf(h),
                !.early = h \notin DOMAIN dash.statusArray \/ dash.statusArray[h].visitors1 = <<>>]

DashStep ==
  \/ ConfigAnswered
  \/ StatusRefused
  \/ StatusAnswered
  \/ Update
  \/ \E h \in Hosts : Click(h)

---------------------------------------------------------------------------
(* Properties *)

Increasing(xs) == \A k \in 2..Len(xs) : xs[k - 1] < xs[k]
NotDecreasing(xs) == \A k \in 2..Len(xs) : xs[k - 1] <= xs[k]

(***************************************************************************)
(* A full chart is counted from 0 again ("every time, refresh the X axis   *)
(* to 0-100", 594; "102 elements ... delete the first", 720), and its      *)
(* points never go back.  Only a host that was missing in an answer has    *)
(* two points in one place.                                                *)
(***************************************************************************)
PointsInOrder ==
  \A h \in DOMAIN dash.statusArray :
    \A xs \in {dash.statusArray[h].visitors1, dash.statusArray[h].visitors3} :
      /\ Len(xs) <= Points /\ NotDecreasing(xs)
      /\ h \notin dash.missed => Increasing(xs)

(***************************************************************************)
(* The charts are those of the host in the page bar, or will be of none:   *)
(* only a host chosen before it had a speed gives way to the first one     *)
(* (index.js:854), and keeps its name above the other's charts.            *)
(***************************************************************************)
ChartsUnderTheirName ==
  dash.online = dash.heading \/ dash.online = None \/ (dash.early /\ dash.online = hostName)
=============================================================================
