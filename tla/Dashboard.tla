------------------------------ MODULE Dashboard ------------------------------
(***************************************************************************)
(* The browser (dashboard/app.js) on top of EventStream: the counters it   *)
(* shows are kept from snapshots, from answers to GET /stats, and by       *)
(* counting submissions itself; its requests overlap and are answered      *)
(* late and out of order.                                                  *)
(***************************************************************************)
EXTENDS EventStream

VARIABLES
  shown,  \* state.counts
  chart   \* outcomes added to the buckets of the throughput chart

vars == <<tableVars, streamVars, shown, chart>>

Init ==
  /\ StreamInit
  /\ shown = [s \in Columns |-> 0]
  /\ chart = 0

\* { ...state.counts, ...counts }
Update(counts) ==
  shown' = [s \in Columns |-> IF s \in DOMAIN counts THEN counts[s] ELSE shown[s]]

\* handleIncomingEvent.  The GET /stats that follows a change is one of RefreshStats.
HandleEvent ==
  /\ wire # <<>>
  /\ wire' = Tail(wire)
  /\ LET m == Head(wire) IN
     /\ \/ m.kind = "snapshot" /\ Update(m.counts)
        \/ m.kind = "submitted" /\ shown' = [shown EXCEPT !["PENDING"] = @ + 1]
        \/ m.kind = "changed" /\ UNCHANGED shown
     /\ chart' = IF IsOutcome(m) THEN chart + 1 ELSE chart
  /\ UNCHANGED <<tableVars, link, channel, conns, socket, open, answer>>

\* The server answers GET /stats, which the browser requests every ten seconds,
\* when its WebSocket opens and when it hears of a change.
RefreshStats(f) ==
  /\ answer[f] = {}
  /\ answer' = [answer EXCEPT ![f] = {Counts}]
  /\ UNCHANGED <<tableVars, link, channel, conns, socket, open, wire, shown, chart>>

ApplyAnswer(f) ==
  /\ \E counts \in answer[f] : Update(counts)
  /\ answer' = [answer EXCEPT ![f] = {}]
  /\ UNCHANGED <<tableVars, link, channel, conns, socket, open, wire, chart>>

LoseAnswer(f) ==
  /\ answer[f] # {}
  /\ answer' = [answer EXCEPT ![f] = {}]
  /\ UNCHANGED <<tableVars, link, channel, conns, socket, open, wire, shown, chart>>

LeavesBrowser == UNCHANGED <<shown, chart>>

Next ==
  \/ (TableNext \/ StreamNext) /\ LeavesBrowser
  \/ HandleEvent
  \/ \E f \in Fetches : RefreshStats(f) \/ ApplyAnswer(f) \/ LoseAnswer(f)

\* Tasks and timers go on, the network delivers, and a request does not fail
\* every time.
Fairness ==
  /\ WF_vars(Publishes /\ LeavesBrowser)
  /\ \A x \in {"stats", "greeting"} : WF_vars(PublishSnapshot(x) /\ LeavesBrowser)
  /\ WF_vars(Broadcast /\ LeavesBrowser)
  /\ WF_vars(HandleEvent)
  /\ \A f \in Fetches : WF_vars(RefreshStats(f)) /\ SF_vars(ApplyAnswer(f))

Spec == Init /\ [][Next]_vars /\ Fairness

-----------------------------------------------------------------------------
\* Whatever was lost, came late or overtook another answer on the way, the
\* counters on the screen agree with the table in the end and stay so.
\* (There are at most MaxChanges changes.)
EventuallyAccurate ==
  <>[](\A s \in Columns : shown[s] = Cardinality({j \in Jobs : table[j] = s}))

\* The chart counts an announced outcome at most once, over all connections
\* that the browser has had and the dead ones that the server still serves.
ChartCountsOnce == chart <= outcomes
=============================================================================
