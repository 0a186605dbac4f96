-------------------------- MODULE DashboardProofs --------------------------
(***************************************************************************)
(* The chart counts no outcome twice: for all numbers of jobs, changes,    *)
(* connections and messages in flight.  An outcome that was announced is   *)
(* owed, on the channel, on the wire, in the chart, or lost, and never in  *)
(* two of these places.                                                    *)
(***************************************************************************)
EXTENDS Dashboard, SequenceTheorems, FunctionTheorems, FiniteSetTheorems, TLAPS

\* Where the outcomes stand in a sequence of messages.
OutcomesIn(q) == {i \in 1..Len(q) : IsOutcome(q[i])}
OwedOutcomes == {e \in owed : IsOutcome(e[2])}

IsSequence(q) == \E S : q \in Seq(S)

InFlight ==
  /\ {chart, outcomes} \subseteq Nat
  /\ IsFiniteSet(owed)
  /\ IsSequence(channel) /\ IsSequence(wire)

Accounted ==
  chart + Cardinality(OutcomesIn(wire)) + Cardinality(OutcomesIn(channel))
    + Cardinality(OwedOutcomes) <= outcomes

ChartInv == InFlight /\ Accounted

-----------------------------------------------------------------------------
(* Counting.                                                               *)

LEMMA CountType ==
  ASSUME NEW q, IsSequence(q)
  PROVE  /\ Len(q) \in Nat
         /\ IsFiniteSet(OutcomesIn(q)) /\ Cardinality(OutcomesIn(q)) \in Nat
<1>1. PICK n \in Nat : n = Len(q)
  BY LenProperties DEF IsSequence
<1>2. IsFiniteSet(1..n)
  BY FS_Interval
<1>3. OutcomesIn(q) \in SUBSET (1..n)
  BY <1>1 DEF OutcomesIn
<1> QED BY <1>1, <1>2, <1>3, FS_Subset, FS_CardinalityType

LEMMA CountEmpty == IsSequence(<<>>) /\ Cardinality(OutcomesIn(<<>>)) = 0
<1>1. <<>> \in Seq({}) /\ OutcomesIn(<<>>) = {}
  BY EmptySeq DEF OutcomesIn
<1> QED BY <1>1, FS_EmptySet DEF IsSequence

LEMMA CountAppend ==
  ASSUME NEW q, IsSequence(q), NEW m
  PROVE  /\ IsSequence(Append(q, m))
         /\ Cardinality(OutcomesIn(Append(q, m))) =
              Cardinality(OutcomesIn(q)) + IF IsOutcome(m) THEN 1 ELSE 0
<1>1. PICK S : q \in Seq(S)
  BY DEF IsSequence
<1>2. PICK T : T = S \cup {m} /\ q \in Seq(T) /\ m \in T
  <2>1. q \in Seq(S \cup {m})
    BY <1>1, SeqMonotonic
  <2> QED BY <2>1
<1>3. PICK n \in Nat : n = Len(q)
  BY <1>1, LenProperties
<1>4. PICK p \in Seq(T) : /\ p = Append(q, m) /\ Len(p) = n + 1
                          /\ \A i \in 1..n : p[i] = q[i]
                          /\ p[n + 1] = m
  BY <1>2, <1>3, AppendProperties
<1>5. OutcomesIn(p) = IF IsOutcome(m) THEN OutcomesIn(q) \cup {n + 1} ELSE OutcomesIn(q)
  <2>1. \A i \in 1..(n + 1) : i \in OutcomesIn(p) <=> i \in OutcomesIn(q) \/ (i = n + 1 /\ IsOutcome(m))
    BY <1>3, <1>4 DEF OutcomesIn
  <2>2. OutcomesIn(p) \subseteq 1..(n + 1) /\ OutcomesIn(q) \subseteq 1..(n + 1)
    BY <1>3, <1>4 DEF OutcomesIn
  <2>3. n + 1 \in 1..(n + 1)
    OBVIOUS
  <2> QED BY <2>1, <2>2, <2>3
<1>6. n + 1 \notin OutcomesIn(q)
  BY <1>3 DEF OutcomesIn
<1>7. IsFiniteSet(OutcomesIn(q))
  BY CountType
<1>8. Cardinality(OutcomesIn(q) \cup {n + 1}) = Cardinality(OutcomesIn(q)) + 1
  BY <1>6, <1>7, FS_AddElement
<1>9. Cardinality(OutcomesIn(q)) \in Nat
  BY CountType
<1> QED BY <1>4, <1>5, <1>8, <1>9 DEF IsSequence

LEMMA CountTail ==
  ASSUME NEW q, IsSequence(q), q # <<>>
  PROVE  /\ IsSequence(Tail(q))
         /\ Cardinality(OutcomesIn(q)) =
              Cardinality(OutcomesIn(Tail(q))) + IF IsOutcome(Head(q)) THEN 1 ELSE 0
<1>1. PICK S : q \in Seq(S)
  BY DEF IsSequence
<1>2. PICK n \in Nat : n = Len(q) /\ n # 0
  BY <1>1, LenProperties, EmptySeq
<1>3. PICK t \in Seq(S) : /\ t = Tail(q) /\ Len(t) = n - 1
                          /\ \A i \in 1..(n - 1) : t[i] = q[i + 1]
  <2>1. /\ Tail(q) \in Seq(S) /\ Len(Tail(q)) = Len(q) - 1
        /\ \A i \in 1..Len(Tail(q)) : Tail(q)[i] = q[i + 1]
    BY <1>1, HeadTailProperties
  <2> QED BY <1>2, <2>1
<1>4. Head(q) = q[1]
  BY <1>1, <1>2
<1> DEFINE A == OutcomesIn(q) \ {1}
           B == OutcomesIn(t)
           f == [i \in B |-> i + 1]
<1>5. \A i \in 1..(n - 1) : i \in B <=> i + 1 \in A
  BY <1>2, <1>3 DEF OutcomesIn
<1>6. B \subseteq 1..(n - 1) /\ A \subseteq 2..n
  BY <1>2, <1>3 DEF OutcomesIn
<1>7. f \in Bijection(B, A)
  <2>1. f \in [B -> A]
    BY <1>5, <1>6
  <2>2. \A i, j \in B : f[i] = f[j] => i = j
    BY <1>6
  <2>3. ASSUME NEW a \in A
        PROVE  \E i \in B : f[i] = a
    <3>1. a - 1 \in 1..(n - 1) /\ a - 1 + 1 = a
      BY <1>2, <1>6
    <3>2. a - 1 \in B /\ f[a - 1] = a
      BY <1>5, <3>1
    <3> QED BY <3>2
  <2> QED BY <2>1, <2>2, <2>3, Fun_IsBij
<1>8. IsFiniteSet(B) /\ Cardinality(B) \in Nat
  BY <1>1, <1>3, CountType DEF IsSequence
<1>9. Cardinality(A) = Cardinality(B)
  BY <1>7, <1>8, FS_Bijection DEF ExistsBijection
<1>10. 1 \in OutcomesIn(q) <=> IsOutcome(Head(q))
  BY <1>2, <1>4 DEF OutcomesIn
<1>11. Cardinality(A) = IF 1 \in OutcomesIn(q) THEN Cardinality(OutcomesIn(q)) - 1
                        ELSE Cardinality(OutcomesIn(q))
  BY CountType, FS_RemoveElement
<1> QED BY <1>3, <1>8, <1>9, <1>10, <1>11, CountType DEF IsSequence

-----------------------------------------------------------------------------
(* The steps.                                                              *)

\* The four places, as numbers, before and after a step.
Books(c, w, h, o, all) ==
  /\ {c, w, h, o, all} \subseteq Nat
  /\ c = chart /\ w = Cardinality(OutcomesIn(wire)) /\ h = Cardinality(OutcomesIn(channel))
  /\ o = Cardinality(OwedOutcomes) /\ all = outcomes
  /\ c + w + h + o <= all

LEMMA OwedType ==
  ASSUME NEW S, IsFiniteSet(S)
  PROVE  LET T == {e \in S : IsOutcome(e[2])} IN IsFiniteSet(T) /\ Cardinality(T) \in Nat
<1>1. {e \in S : IsOutcome(e[2])} \in SUBSET S
  OBVIOUS
<1> QED BY <1>1, FS_Subset, FS_CardinalityType

LEMMA HaveBooks ==
  ASSUME ChartInv
  PROVE  \E c, w, h, o, all \in Nat : Books(c, w, h, o, all)
BY CountType, OwedType DEF ChartInv, InFlight, Accounted, Books, OwedOutcomes

LEMMA ChartInit == Init => ChartInv
<1> SUFFICES ASSUME Init
             PROVE  ChartInv
  OBVIOUS
<1>1. OwedOutcomes = {} /\ IsFiniteSet(owed) /\ Cardinality(OwedOutcomes) = 0
  BY FS_EmptySet DEF Init, StreamInit, OwedOutcomes
<1> QED
  BY <1>1, CountEmpty DEF Init, StreamInit, ChartInv, InFlight, Accounted

\* A step of the table: an outcome is counted when it is owed.
LEMMA TableStep ==
  ASSUME ChartInv, TableNext, LeavesBrowser
  PROVE  ChartInv'
<1>1. UNCHANGED <<channel, wire, chart>>
  BY DEF TableNext, streamVars, LeavesBrowser
<1>2. (owed' = owed /\ outcomes' = outcomes) \/ \E j \in Jobs : \E event : Announce(j, event)
  BY DEF TableNext, Submit, WorkerChanges, SilentChange, CancelChanges
<1>3. CASE owed' = owed /\ outcomes' = outcomes
  BY <1>1, <1>3 DEF ChartInv, InFlight, Accounted, OwedOutcomes
<1>4. ASSUME NEW j \in Jobs, NEW event, Announce(j, event)
      PROVE  ChartInv'
  <2>1. PICK c, w, h, o, all \in Nat : Books(c, w, h, o, all)
    BY HaveBooks
  <2>2. PICK e : e = <<j, event>> /\ e[2] = event
    <3>1. <<j, event>>[2] = event
      OBVIOUS
    <3> QED BY <3>1
  <2>3. owed' = owed \cup {e} /\ outcomes' = IF IsOutcome(event) THEN outcomes + 1 ELSE outcomes
    BY <1>4, <2>2 DEF Announce
  <2>4. IsFiniteSet(owed') /\ IsFiniteSet(OwedOutcomes)
    BY <2>3, FS_AddElement, OwedType DEF ChartInv, InFlight, OwedOutcomes
  <2>5. OwedOutcomes' = IF IsOutcome(event) THEN OwedOutcomes \cup {e} ELSE OwedOutcomes
    BY <2>2, <2>3 DEF OwedOutcomes
  <2>6. Cardinality(OwedOutcomes)' \in {o, IF IsOutcome(event) THEN o + 1 ELSE o}
    BY <2>1, <2>4, <2>5, FS_AddElement DEF Books
  <2>7. c + w + h + o + 1 <= all + 1
    BY <2>1 DEF Books
  <2> QED BY <1>1, <2>1, <2>3, <2>4, <2>6, <2>7 DEF ChartInv, InFlight, Accounted, Books
<1> QED BY <1>2, <1>3, <1>4

\* A message that is published is on the channel, if anybody listens.
LEMMA SendStep ==
  ASSUME ChartInv, NEW m, Send(m)
  PROVE  /\ IsSequence(channel') /\ wire' = wire
         /\ Cardinality(OutcomesIn(channel')) \in
              {Cardinality(OutcomesIn(channel)),
               Cardinality(OutcomesIn(channel)) + IF IsOutcome(m) THEN 1 ELSE 0}
BY CountAppend DEF ChartInv, InFlight, Send

LEMMA PublishStep ==
  ASSUME ChartInv, Publishes, LeavesBrowser
  PROVE  ChartInv'
<1>1. PICK e \in owed : PublishEvent(e[1], e[2])
  BY DEF Publishes
<1>2. PICK x, m : x = <<e[1], e[2]>> /\ x[2] = m /\ m = e[2] /\ PublishEvent(x[1], m)
  <2>1. <<e[1], e[2]>>[1] = e[1] /\ <<e[1], e[2]>>[2] = e[2]
    OBVIOUS
  <2> QED BY <1>1, <2>1
<1>3. /\ x \in owed /\ owed' = owed \ {x}
      /\ Send(m) \/ UNCHANGED <<channel, wire>>
      /\ UNCHANGED <<outcomes, chart>>
  <2>1. x = <<x[1], m>>
    BY <1>2
  <2> QED BY <1>2, <2>1 DEF PublishEvent, LeavesBrowser
<1>4. PICK c, w, h, o, all \in Nat : Books(c, w, h, o, all)
  BY HaveBooks
<1>5. IsFiniteSet(owed') /\ IsFiniteSet(OwedOutcomes)
  BY <1>3, FS_RemoveElement, OwedType DEF ChartInv, InFlight, OwedOutcomes
<1>6. OwedOutcomes' = OwedOutcomes \ {x} /\ (x \in OwedOutcomes <=> IsOutcome(m))
  BY <1>2, <1>3 DEF OwedOutcomes
<1>7. Cardinality(OwedOutcomes)' = IF IsOutcome(m) THEN o - 1 ELSE o
  BY <1>4, <1>5, <1>6, FS_RemoveElement DEF Books
<1>8. /\ IsSequence(channel') /\ wire' = wire
      /\ Cardinality(OutcomesIn(channel')) \in {h, IF IsOutcome(m) THEN h + 1 ELSE h}
  BY <1>3, <1>4, SendStep DEF Books, ChartInv, InFlight
<1>9. c + w + (h + 1) + (o - 1) = c + w + h + o
  OBVIOUS
<1>10. c + w + h + (o - 1) <= c + w + h + o
  OBVIOUS
<1> QED BY <1>3, <1>4, <1>5, <1>7, <1>8, <1>9, <1>10 DEF ChartInv, InFlight, Accounted, Books

\* A message that is passed on, or dropped.
LEMMA BroadcastStep ==
  ASSUME ChartInv, Broadcast, LeavesBrowser
  PROVE  ChartInv'
<1>1. /\ channel # <<>> /\ channel' = Tail(channel)
      /\ wire' = wire \/ wire' = Append(wire, Head(channel))
      /\ UNCHANGED <<owed, outcomes, chart>>
  BY DEF Broadcast, tableVars, LeavesBrowser
<1>2. PICK c, w, h, o, all \in Nat : Books(c, w, h, o, all)
  BY HaveBooks
<1>3. PICK b \in {0, 1} : b = IF IsOutcome(Head(channel)) THEN 1 ELSE 0
  OBVIOUS
<1>4. IsSequence(channel') /\ h = Cardinality(OutcomesIn(channel')) + b
  BY <1>1, <1>2, <1>3, CountTail DEF Books, ChartInv, InFlight
<1>5. PICK k \in Nat : k = Cardinality(OutcomesIn(channel')) /\ h = k + b
  BY <1>4, CountType
<1>6. IsSequence(wire') /\ Cardinality(OutcomesIn(wire')) \in {w, w + b}
  BY <1>1, <1>2, <1>3, CountAppend DEF Books, ChartInv, InFlight
<1>7. PICK v \in {w, w + b} : v = Cardinality(OutcomesIn(wire'))
  BY <1>6
<1>8. c + v + k + o <= all
  <2>1. c + w + h + o <= all
    BY <1>2 DEF Books
  <2>2. v \in Nat /\ v + k <= w + h
    BY <1>5
  <2> QED BY <2>1, <2>2
<1>9. OwedOutcomes' = OwedOutcomes
  BY <1>1 DEF OwedOutcomes
<1>10. InFlight'
  BY <1>1, <1>4, <1>6 DEF ChartInv, InFlight
<1> QED BY <1>1, <1>2, <1>5, <1>7, <1>8, <1>9, <1>10 DEF ChartInv, Accounted, Books

\* A message that the browser reads.
LEMMA HandleStep ==
  ASSUME ChartInv, HandleEvent
  PROVE  ChartInv'
<1>1. /\ wire # <<>> /\ wire' = Tail(wire)
      /\ chart' = IF IsOutcome(Head(wire)) THEN chart + 1 ELSE chart
      /\ UNCHANGED <<owed, outcomes, channel>>
  BY DEF HandleEvent, tableVars
<1>2. PICK c, w, h, o, all \in Nat : Books(c, w, h, o, all)
  BY HaveBooks
<1>3. PICK b \in {0, 1} : b = IF IsOutcome(Head(wire)) THEN 1 ELSE 0
  OBVIOUS
<1>4. IsSequence(wire') /\ w = Cardinality(OutcomesIn(wire')) + b
  BY <1>1, <1>2, <1>3, CountTail DEF Books, ChartInv, InFlight
<1>5. PICK k \in Nat : k = Cardinality(OutcomesIn(wire')) /\ w = k + b
  BY <1>4, CountType
<1>6. chart' = c + b /\ c + b \in Nat
  BY <1>1, <1>2, <1>3 DEF Books
<1>7. c + b + k + h + o = c + w + h + o
  BY <1>5
<1>8. OwedOutcomes' = OwedOutcomes
  BY <1>1 DEF OwedOutcomes
<1> QED BY <1>1, <1>2, <1>4, <1>5, <1>6, <1>7, <1>8 DEF ChartInv, InFlight, Accounted, Books

\* All else loses messages at most.
LEMMA LossStep ==
  ASSUME ChartInv, UNCHANGED <<owed, outcomes, chart>>,
         channel' = channel \/ channel' = <<>>, wire' = wire \/ wire' = <<>>
  PROVE  ChartInv'
<1>1. PICK c, w, h, o, all \in Nat : Books(c, w, h, o, all)
  BY HaveBooks
<1>2. /\ IsSequence(channel') /\ Cardinality(OutcomesIn(channel')) \in {h, 0}
      /\ IsSequence(wire') /\ Cardinality(OutcomesIn(wire')) \in {w, 0}
  BY <1>1, CountEmpty DEF Books, ChartInv, InFlight
<1>3. PICK v \in {w, 0}, k \in {h, 0} :
        v = Cardinality(OutcomesIn(wire')) /\ k = Cardinality(OutcomesIn(channel'))
  BY <1>2
<1>4. c + v + k + o <= all
  <2>1. c + w + h + o <= all
    BY <1>1 DEF Books
  <2>2. v \in Nat /\ k \in Nat /\ v + k <= w + h
    OBVIOUS
  <2> QED BY <2>1, <2>2
<1>5. OwedOutcomes' = OwedOutcomes
  BY DEF OwedOutcomes
<1>6. InFlight'
  BY <1>2 DEF ChartInv, InFlight
<1> QED BY <1>1, <1>3, <1>4, <1>5, <1>6 DEF ChartInv, Accounted, Books

LEMMA SnapshotStep ==
  ASSUME ChartInv, NEW x, PublishSnapshot(x), LeavesBrowser
  PROVE  ChartInv'
<1>1. PICK counts \in answer[x] : Send([kind |-> "snapshot", counts |-> counts])
  BY DEF PublishSnapshot
<1>2. ~IsOutcome([kind |-> "snapshot", counts |-> counts])
  BY DEF IsOutcome
<1>3. /\ IsSequence(channel') /\ wire' = wire
      /\ Cardinality(OutcomesIn(channel')) = Cardinality(OutcomesIn(channel))
  BY <1>1, <1>2, SendStep, CountType DEF ChartInv, InFlight
<1> QED BY <1>3 DEF PublishSnapshot, tableVars, LeavesBrowser, ChartInv, InFlight, Accounted, OwedOutcomes

LEMMA ChartStep == ChartInv /\ [Next]_vars => ChartInv'
<1> SUFFICES ASSUME ChartInv, [Next]_vars
             PROVE  ChartInv'
  OBVIOUS
<1> USE DEF tableVars, streamVars, LeavesBrowser
<1>1. CASE TableNext /\ LeavesBrowser
  BY <1>1, TableStep
<1>2. CASE StreamNext /\ LeavesBrowser
  <2>1. CASE Publishes
    BY <1>2, <2>1, PublishStep
  <2>2. CASE PublishSnapshot("stats") \/ PublishSnapshot("greeting")
    BY <1>2, <2>2, SnapshotStep
  <2>3. CASE Broadcast
    BY <1>2, <2>3, BroadcastStep
  <2>4. CASE ReadStats \/ SubscriberFails \/ Resubscribe \/ Connect \/ Close \/ Disconnect
    BY <1>2, <2>4, LossStep DEF ReadStats, SubscriberFails, Resubscribe, Connect, Close, Disconnect
  <2> QED BY <1>2, <2>1, <2>2, <2>3, <2>4 DEF StreamNext
<1>3. CASE HandleEvent
  BY <1>3, HandleStep
<1>4. ASSUME NEW f \in Fetches, RefreshStats(f) \/ ApplyAnswer(f) \/ LoseAnswer(f)
      PROVE  ChartInv'
  BY <1>4, LossStep DEF RefreshStats, ApplyAnswer, LoseAnswer
<1>5. CASE UNCHANGED vars
  BY <1>5, LossStep DEF vars
<1> QED BY <1>1, <1>2, <1>3, <1>4, <1>5 DEF Next

\* The chart counts an announced outcome at most once, whatever is lost, late
\* or sent to connections that are dead.
THEOREM OutcomesCountOnce == Spec => []ChartCountsOnce
<1>1. ChartInv => ChartCountsOnce
  <2> SUFFICES ASSUME ChartInv
               PROVE  chart <= outcomes
    BY DEF ChartCountsOnce
  <2>1. PICK c, w, h, o, all \in Nat : Books(c, w, h, o, all)
    BY HaveBooks
  <2>2. c + w + h + o <= all /\ c = chart /\ all = outcomes
    BY <2>1 DEF Books
  <2>3. c <= all
    BY <2>2
  <2> QED BY <2>2, <2>3
<1> QED BY <1>1, ChartInit, ChartStep, PTL DEF Spec
=============================================================================
