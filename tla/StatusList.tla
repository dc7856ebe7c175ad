----------------------------- MODULE StatusList -----------------------------
(***************************************************************************)
(* table_basic.js: the page that lists the markets of every node, and      *)
(* sounds an alarm while one of them cannot be reached.                    *)
(*                                                                         *)
(* The page is a record, and a handler a function on it: JavaScript runs   *)
(* one handler at a time.  The figures in the rows are left out.           *)
(***************************************************************************)
EXTENDS MonitoredNodes, Integers, SequencesExt, FiniteSets, Bags

CONSTANT MaxCalls    \* bound on the requests to one node that are not settled

ErrorMarket == "error"     \* "异常", in the place of a market's name
Waiting == {"waiting"}     \* a request that was not answered yet

\* An answer has finitely many markets, none of which has the name of the error rows.
ASSUME StatusAssumption ==
  /\ IsFiniteSet(Nodes)
  /\ \A n \in Nodes : \A status \in Statuses[n] : IsFiniteSet(status) /\ ErrorMarket \notin status

VARIABLE list

BlankList ==
  [listing      |-> "asked",     \* /list: "asked", "loaded" or "dead"
   calls        |-> EmptyBag,    \* requests and answers under way: [pk, answer]
   ResultData   |-> <<>>,        \* the rows: [pk, bazaar]
   recordPk     |-> {},
   errorCounter |-> 0,
   alarmShow    |-> FALSE,
   playing      |-> FALSE,
   totalItems   |-> 0,           \* what the pagination believes ResultData.length is
   emptied      |-> {}]          \* history: nodes whose error row gave way to no market

Row(pk, bazaar) == [pk |-> pk, bazaar |-> bazaar]
RowsOf(s, pk) == {row \in ToSet(s.ResultData) : row.pk = pk}
Markets(s, pk) == {row.bazaar : row \in RowsOf(s, pk)}

---------------------------------------------------------------------------
(* The handlers of an answer *)

\* $watch('savejosn'): runs behind a handler that put a row in place.
Watched(s) == [s EXCEPT !.totalItems = Len(s.ResultData)]

\* splice, row after row.
Kept(rows, gone) == FoldLeft(LAMBDA kept, row : IF row \in gone THEN kept ELSE Append(kept, row), <<>>, rows)

Without(s, gone) == [s EXCEPT !.ResultData = Kept(@, gone)]

ComStatusData(s, pk, markets) ==
  IF markets = {} THEN s
  ELSE LET names == SetToSeq(markets)
           rows == [i \in DOMAIN names |-> Row(pk, names[i])]
       IN  Watched([s EXCEPT !.ResultData = @ \o rows, !.recordPk = @ \cup {pk}])

\* Rows of the same market are replaced; others are neither added nor removed.
ComSameStatusData(s, pk, markets) ==
  IF markets \cap Markets(s, pk) # {} THEN Watched(s) ELSE s

isError(s, pk) == pk \in s.recordPk /\ ErrorMarket \in Markets(s, pk)

\* Bug: the host has recovered, and is counted on.
RecoveredStaysCounted(s, pk, markets) ==
  ComStatusData(Without(s, {Row(pk, ErrorMarket)}), pk, markets)

Recovered(s, pk, markets) ==
  [ComStatusData(Without(s, {Row(pk, ErrorMarket)}), pk, markets)
     EXCEPT !.errorCounter = @ - 1, !.emptied = IF markets = {} THEN @ \cup {pk} ELSE @]

Succeeded(s, pk, markets) ==
  IF pk \notin s.recordPk THEN ComStatusData(s, pk, markets)
  ELSE IF isError(s, pk) THEN Recovered(s, pk, markets)
  ELSE ComSameStatusData(s, pk, markets)

\* Only when normal rows were deleted is the node forgotten, so that its next failure adds a row.
DeleteGrid(s, pk) ==
  LET normal == {row \in RowsOf(s, pk) : row.bazaar # ErrorMarket}
  IN  IF normal = {} THEN s ELSE [Without(s, normal) EXCEPT !.recordPk = @ \ {pk}]

Refused(s, pk) ==
  IF pk \in s.recordPk THEN DeleteGrid(s, pk)
  ELSE Watched([s EXCEPT !.errorCounter = @ + 1, !.recordPk = @ \cup {pk},
                         !.ResultData = Append(@, Row(pk, ErrorMarket))])

---------------------------------------------------------------------------
(* The page *)

Call(pk, answer) == [pk |-> pk, answer |-> answer]
Unsettled(s, pk) ==
  MapThenSumSet(LAMBDA call : s.calls[call], {call \in DOMAIN s.calls : call.pk = pk})

\* Bug: a node on record is not asked again.
AskedOnce(s) ==
  [s EXCEPT !.playing = s.errorCounter # 0 /\ s.alarmShow,
            !.calls = @ (+) SetToBag({Call(pk, Waiting) : pk \in Nodes \ s.recordPk})]

\* RequestHttp: the alarm sounds or falls silent, and every node is asked.
Asked(s) ==
  [s EXCEPT !.playing = s.errorCounter # 0 /\ s.alarmShow,
            !.calls = @ (+) SetToBag({Call(pk, Waiting) : pk \in Nodes})]

ListAnswered ==
  /\ list.listing = "asked"
  /\ list' = Asked([list EXCEPT !.listing = "loaded"])

\* The error handler is empty.
ListRefused ==
  /\ list.listing = "asked"
  /\ list' = [list EXCEPT !.listing = "dead"]

\* setInterval: every five seconds, whatever is still under way.
RequestHttp ==
  /\ list.listing = "loaded"
  /\ \A pk \in Nodes : Unsettled(list, pk) < MaxCalls
  /\ list' = Asked(list)

Replaced(call, answer) == [list EXCEPT !.calls = (@ (-) SetToBag({call})) (+) SetToBag({answer})]

Answer(pk) ==
  /\ BagIn(Call(pk, Waiting), list.calls)
  /\ list' = Replaced(Call(pk, Waiting), Call(pk, node[pk]))

\* Answers come in any order, also those to one node.
Settle(pk, answer) ==
  /\ BagIn(Call(pk, answer), list.calls)
  /\ LET s == [list EXCEPT !.calls = @ (-) SetToBag({Call(pk, answer)})]
     IN  list' = IF answer = Failed THEN Refused(s, pk) ELSE Succeeded(s, pk, answer)

\* A click on the switch.
SwitchAlarm ==
  list' = [list EXCEPT !.alarmShow = ~@, !.playing = IF list.alarmShow THEN FALSE ELSE @]

ListStep ==
  \/ ListAnswered
  \/ ListRefused
  \/ RequestHttp
  \/ \E pk \in Nodes :
       \/ Answer(pk)
       \/ \E answer \in Statuses[pk] \cup {Failed} : Settle(pk, answer)
  \/ SwitchAlarm

---------------------------------------------------------------------------
(* Properties *)

(***************************************************************************)
(* The rows are those of the nodes on record, each once and on some page,  *)
(* and an error row stands alone, in whatever order answers that overtake  *)
(* each other arrive; errorCounter is "how many hosts are in error status" *)
(* (comment at 39), those with an error row.  A node on record has a row,    *)
(* but for one case: an answer without a market that met its error row.    *)
(***************************************************************************)
RowsKnown ==
  /\ list.errorCounter = Cardinality({pk \in Nodes : ErrorMarket \in Markets(list, pk)})
  /\ IsInjective(list.ResultData)
  /\ Len(list.ResultData) <= list.totalItems
  /\ \A pk \in Nodes :
       /\ ErrorMarket \in Markets(list, pk) => Markets(list, pk) = {ErrorMarket}
       /\ Markets(list, pk) # {} => pk \in list.recordPk
       /\ pk \in list.recordPk => Markets(list, pk) # {} \/ pk \in list.emptied
=============================================================================
