----------------------------- MODULE EventStream -----------------------------
(***************************************************************************)
(* The live events of DistribuQ on their way to a browser: best-effort     *)
(* publishes on one Redis channel (api/events.py), the API's subscriber    *)
(* that fans every message out to the open WebSockets (api/ws_manager.py), *)
(* and the snapshots of the counters that the API publishes every five     *)
(* seconds and for every new connection (api/main.py).  The table jobs is  *)
(* reduced to the status of each row, the truth that the dashboard shows.  *)
(* The browser's WebSocket is replaced by a new one when it closes, and    *)
(* the server learns of that later.                                        *)
(***************************************************************************)
EXTENDS Integers, FiniteSets, Sequences, Functions

CONSTANTS
  Jobs,
  Fetches,         \* GET /stats requests that may be open at once
  MaxChanges,      \* bound: changes of the table, and no-op cancels
  MaxConnections,  \* bound: WebSocket connections; the last stays open
  MaxQueue         \* bound: messages on the channel, and on the WebSocket

ASSUME StreamAssumption ==
  /\ MaxChanges \in Nat
  /\ {MaxConnections, MaxQueue} \subseteq Nat \ {0}

VARIABLES
  table,     \* jobs.status
  changes,   \* bookkeeping: see MaxChanges
  owed,      \* events whose change is committed and that are not published
  outcomes,  \* bookkeeping: events that announce an outcome, ever
  link,      \* is the subscriber of the API connected?
  channel,   \* messages on their way to the subscriber
  conns,     \* manager._connections
  socket,    \* the number of the browser's connection
  open,      \* is it open?
  wire,      \* messages on it
  answer     \* counters read and not yet used: {} or {counts} per reader

tableVars == <<table, changes, owed, outcomes>>
streamVars == <<link, channel, conns, socket, open, wire, answer>>

Columns == {"PENDING", "RUNNING", "SUCCESS", "FAILED", "RETRYING", "DEAD_LETTER"}
Outcomes == {"SUCCESS", "FAILED", "DEAD_LETTER"}
Readers == Fetches \cup {"stats", "greeting"}

\* Mutant: without the zeros of `base', a status that no row has is left out.
WrongCounts == [s \in Range(table) \cap Columns |-> Cardinality({j \in Jobs : table[j] = s})]

Counts == [s \in Columns |-> Cardinality({j \in Jobs : table[j] = s})]

StreamInit ==
  /\ table = [j \in Jobs |-> "ABSENT"]
  /\ changes = 0 /\ outcomes = 0 /\ socket = 0
  /\ owed = {} /\ conns = {}
  /\ link = TRUE /\ open = FALSE
  /\ channel = <<>> /\ wire = <<>>
  /\ answer = [x \in Readers |-> {}]

-----------------------------------------------------------------------------
(* The changes, and what is announced of them after the commit.            *)

Announced(status) == [kind |-> "changed", status |-> status]
IsOutcome(event) == event.kind = "changed" /\ event.status \in Outcomes

Become(j, from, to) ==
  /\ changes < MaxChanges
  /\ table[j] = from
  /\ table' = [table EXCEPT ![j] = to]
  /\ changes' = changes + 1

\* Bound: of two announcements that say the same, the first is published
\* before the second is owed.
Announce(j, event) ==
  /\ <<j, event>> \notin owed
  /\ owed' = owed \cup {<<j, event>>}
  /\ outcomes' = IF IsOutcome(event) THEN outcomes + 1 ELSE outcomes

Submit(j) == Become(j, "ABSENT", "PENDING") /\ Announce(j, [kind |-> "submitted"])

\* A worker announces that it has begun before it runs the handler.  Nothing
\* orders its announcements and those of the API or of another worker.
WorkerChanges(j) ==
  \/ /\ \E from \in {"PENDING", "RETRYING"} : Become(j, from, "RUNNING")
     /\ Announce(j, Announced("RUNNING"))
  \/ /\ <<j, Announced("RUNNING")>> \notin owed
     /\ \E to \in {"SUCCESS", "RETRYING", "DEAD_LETTER"} :
          Become(j, "RUNNING", to) /\ Announce(j, Announced(to))

\* The scheduler, the reaper and the replay of a dead letter announce nothing.
SilentChange(j) ==
  /\ \E from \in {"RETRYING", "RUNNING", "DEAD_LETTER"} : Become(j, from, "PENDING")
  /\ UNCHANGED <<owed, outcomes>>

\* A cancel announces the status of the row, changed or not.
CancelChanges(j) ==
  /\ table[j] # "ABSENT"
  /\ LET to == IF table[j] = "PENDING" THEN "FAILED" ELSE table[j] IN
       Become(j, table[j], to) /\ Announce(j, Announced(to))

TableNext ==
  /\ \E j \in Jobs : Submit(j) \/ WorkerChanges(j) \/ SilentChange(j) \/ CancelChanges(j)
  /\ UNCHANGED streamVars

-----------------------------------------------------------------------------
(* Publishing.                                                             *)

\* PUBLISH: nobody receives it while the subscriber is not connected.
Send(m) ==
  /\ Len(channel) < MaxQueue
  /\ channel' = IF link THEN Append(channel, m) ELSE channel
  /\ UNCHANGED <<link, conns, socket, open, wire>>

\* Mutant: an event whose publish raised, although it got through, is
\* published again.
WrongPublishEvent(j, event) ==
  /\ <<j, event>> \in owed
  /\ owed' \in {owed, owed \ {<<j, event>>}}
  /\ Send(event)
  /\ UNCHANGED <<table, changes, outcomes, answer>>

\* publish_event swallows every exception, and the event with it.
PublishEvent(j, event) ==
  /\ <<j, event>> \in owed
  /\ owed' = owed \ {<<j, event>>}
  /\ \/ Send(event)
     \/ UNCHANGED <<link, channel, conns, socket, open, wire>>
  /\ UNCHANGED <<table, changes, outcomes, answer>>

\* The loop reads the counters every five seconds if there is a connection.
ReadStats ==
  /\ answer["stats"] = {}
  /\ conns # {}
  /\ answer' = [answer EXCEPT !["stats"] = {Counts}]
  /\ UNCHANGED <<tableVars, link, channel, conns, socket, open, wire>>

\* By the loop, or by the handler of a connection that has just begun.
PublishSnapshot(x) ==
  /\ x \in {"stats", "greeting"}
  /\ \E counts \in answer[x] : Send([kind |-> "snapshot", counts |-> counts])
  /\ answer' = [answer EXCEPT ![x] = {}]
  /\ UNCHANGED tableVars

-----------------------------------------------------------------------------
(* The subscriber and its fan-out.                                         *)

\* What waits on the connection is lost with it.
SubscriberFails ==
  /\ link
  /\ link' = FALSE
  /\ channel' = <<>>
  /\ UNCHANGED <<tableVars, conns, socket, open, wire, answer>>

Resubscribe ==
  /\ ~link
  /\ link' = TRUE
  /\ UNCHANGED <<tableVars, channel, conns, socket, open, wire, answer>>

\* The sends of one broadcast are one step: they go to different
\* connections, and one that opens or closes between two of them might as
\* well do so before or after all.  Connections that fail are pruned.
Broadcast ==
  /\ channel # <<>>
  /\ channel' = Tail(channel)
  /\ IF open /\ socket \in conns
     THEN Len(wire) < MaxQueue /\ wire' = Append(wire, Head(channel))
     ELSE UNCHANGED wire
  /\ conns' = conns \cap (IF open THEN {socket} ELSE {})
  /\ UNCHANGED <<tableVars, link, socket, open, answer>>

\* accept() and connect() on the server, and the read for the first snapshot.
Connect ==
  /\ ~open
  /\ answer["greeting"] = {}
  /\ socket' = socket + 1
  /\ open' = TRUE
  /\ conns' = conns \cup {socket'}
  /\ answer' = [answer EXCEPT !["greeting"] = {Counts}]
  /\ UNCHANGED <<tableVars, link, channel, wire>>

Close ==
  /\ open
  /\ socket < MaxConnections
  /\ open' = FALSE
  /\ wire' = <<>>
  /\ UNCHANGED <<tableVars, link, channel, conns, socket, answer>>

\* receive_text raises in the handler of a connection that was closed.
Disconnect ==
  /\ \E s \in conns : (s # socket \/ ~open) /\ conns' = conns \ {s}
  /\ UNCHANGED <<tableVars, link, channel, socket, open, wire, answer>>

Publishes == \E e \in owed : PublishEvent(e[1], e[2])

StreamNext ==
  \/ Publishes \/ ReadStats \/ PublishSnapshot("stats") \/ PublishSnapshot("greeting")
  \/ Broadcast \/ SubscriberFails \/ Resubscribe \/ Connect \/ Close \/ Disconnect
=============================================================================
