-------------------------- MODULE TimetableProofs --------------------------
(***************************************************************************)
(* The properties of Timetable, for every interval, every distance of      *)
(* ticks, every base and cap of the backoff, and any number of attempts,   *)
(* crashes and restarts.                                                   *)
(***************************************************************************)
EXTENDS Timetable, WellFoundedInduction, TLAPS

Numbers ==
  /\ now \in Nat
  /\ scheduledFor \in Nat
  /\ refs \in Nat
  /\ endedAt \in Nat \cup {Never}
  /\ rule \in {"every", "cron"}
  /\ status \in {"PENDING", "RUNNING", "RETRYING", "DEAD_LETTER", "SUCCESS"}

\* Whatever was or can be given to a worker has reached its date.
Due == refs > 0 \/ status # "PENDING" => scheduledFor <= now

\* An interval job waits a whole interval after the success before.
Spaced ==
  /\ endedAt <= now
  /\ rule = "every" /\ endedAt # Never /\ status # "SUCCESS" =>
       endedAt + Period <= scheduledFor

TimetableInv == Numbers /\ Due /\ Spaced

\* A tick that croniter returns lies after its argument.
LEMMA TickIsLater ==
  ASSUME NEW n \in Nat, NEW p \in Nat \ {0}
  PROVE  /\ (n \div p + 1) * p \in Nat
         /\ (n \div p + 1) * p > n
<1> DEFINE q == n \div p
           m == n % p
<1>1. q \in Nat /\ m \in 0..(p - 1) /\ n = p * q + m
  OBVIOUS
<1>2. (q + 1) * p = p * q + p
  BY <1>1
<1>3. p * q \in Nat
  BY <1>1
<1> QED
  BY <1>1, <1>2, <1>3

LEMMA NextRunIsLater ==
  ASSUME Numbers
  PROVE  NextRun \in Nat /\ NextRun > now /\ (rule = "every" => NextRun = now + Period)
<1>1. Period \in Nat \ {0}
  BY TimetableAssumption
<1> QED
  BY <1>1, TickIsLater DEF Numbers, NextRun, NextRunFromInterval, NextRunFromCron

LEMMA TimetableInit == Init => TimetableInv
<1>1. Period \in Nat \ {0} /\ Rules \subseteq {"every", "cron"}
  BY TimetableAssumption
<1> QED
  BY <1>1 DEF Init, TimetableInv, Numbers, Due, Spaced, Never

LEMMA TimetableStep == TimetableInv /\ [Next]_vars => TimetableInv'
<1> SUFFICES ASSUME TimetableInv, [Next]_vars
             PROVE  TimetableInv'
  OBVIOUS
<1> USE DEF TimetableInv, Numbers, Due, Spaced, Never, ask, row, carried, counters
<1>0. Period \in Nat \ {0}
  BY TimetableAssumption
<1>1. CASE Tick
  BY <1>0, <1>1 DEF Tick
<1>2. CASE Promote
  BY <1>0, <1>2 DEF Promote
<1>3. CASE RestartScheduler
  BY <1>0, <1>3 DEF RestartScheduler
<1>4. CASE Start
  BY <1>0, <1>4 DEF Start
<1>5. CASE Discard
  BY <1>0, <1>5 DEF Discard
<1>6. CASE FailAndRetry
  BY <1>0, <1>6 DEF FailAndRetry
<1>7. CASE FailForGood
  BY <1>0, <1>7 DEF FailForGood
<1>8. CASE PromoteRetry
  BY <1>0, <1>8 DEF PromoteRetry
<1>9. CASE Reclaim
  BY <1>0, <1>9 DEF Reclaim
<1>10. CASE Replay
  BY <1>0, <1>10 DEF Replay
<1>11. CASE Succeed
  BY <1>0, <1>11 DEF Succeed
<1>12. CASE CreateNext
  <2>1. NextRun \in Nat /\ (rule = "every" => NextRun = now + Period)
    BY NextRunIsLater
  <2> QED
    BY <1>0, <1>12, <2>1 DEF CreateNext
<1>13. CASE UNCHANGED vars
  BY <1>13 DEF vars
<1> QED
  BY <1>1, <1>2, <1>3, <1>4, <1>5, <1>6, <1>7, <1>8, <1>9, <1>10, <1>11, <1>12,
     <1>13 DEF Next

\* No attempt of an interval job starts within an interval of the success of
\* the occurrence before, however long the scheduler was away.
THEOREM OutagesDoNotBurst == Spec => NoBurst
<1>1. TimetableInv /\ [Next]_vars =>
        [Start /\ rule = "every" /\ endedAt # Never => now >= endedAt + Period]_vars
  <2> SUFFICES ASSUME TimetableInv, Start, rule = "every", endedAt # Never
               PROVE  now >= endedAt + Period
    OBVIOUS
  <2>1. Period \in Nat
    BY TimetableAssumption
  <2> QED
    BY <2>1 DEF TimetableInv, Numbers, Due, Spaced, Start, Never
<1> QED
  BY <1>1, TimetableInit, TimetableStep, PTL DEF Spec, NoBurst

\* A cron tick runs once, and dates never go back.
THEOREM DatesOnlyAdvance == Spec => DatesAdvance
<1>1. TimetableInv /\ [Next]_vars =>
        [CreateNext => scheduledFor' > scheduledFor]_vars
  <2> SUFFICES ASSUME TimetableInv, CreateNext
               PROVE  scheduledFor' > scheduledFor
    OBVIOUS
  <2>1. NextRun \in Nat /\ NextRun > now
    BY NextRunIsLater DEF TimetableInv
  <2> QED
    BY <2>1 DEF TimetableInv, Numbers, Due, CreateNext
<1> QED
  BY <1>1, TimetableInit, TimetableStep, PTL DEF Spec, DatesAdvance

-----------------------------------------------------------------------------
(* Powers of two.  An induction is a step from the least counterexample to *)
(* the number before it.                                                   *)

LEMMA Least ==
  ASSUME NEW I, I \subseteq Nat, I # {}
  PROVE  \E x \in I : \A y \in I : x <= y
<1>1. PICK R : IsWellFoundedOn(R, Nat) /\ \A m, n \in Nat : m < n => <<m, n>> \in R
  <2>1. \A m, n \in Nat : m < n => <<m, n>> \in OpToRel(<, Nat)
    BY DEF OpToRel
  <2> QED BY <2>1, NatLessThanWellFounded
<1>2. PICK x \in I : \A y \in I : <<y, x>> \notin R
  <2>1. IsWellFoundedOn(R, Nat)
    BY <1>1
  <2> QED BY <2>1, WFMin
<1>3. \A y \in I : ~(y < x)
  BY <1>1, <1>2
<1>4. \A y \in I : x <= y
  BY <1>3
<1> QED BY <1>4

\* The first n powers.
Powers(n) == {h \in [0..n -> Nat] : h[0] = 1 /\ \A i \in 1..n : h[i] = 2 * h[i - 1]}

\* There are some, and they are the same wherever one stops.
LEMMA PowersExist == \A n \in Nat : Powers(n) # {}
<1> DEFINE None == {n \in Nat : Powers(n) = {}}
<1> SUFFICES ASSUME None # {}
             PROVE  FALSE
  OBVIOUS
<1>1. PICK m \in Nat : Powers(m) = {} /\ \A k \in Nat : Powers(k) = {} => m <= k
  <2>1. \E x \in None : \A y \in None : x <= y
    BY Least
  <2> QED BY <2>1
<1>2. CASE m = 0
  <2>1. [i \in 0..0 |-> 1] \in Powers(0)
    BY DEF Powers
  <2> QED BY <1>1, <1>2, <2>1
<1>3. CASE m # 0
  <2>1. PICK k \in Nat : k = m - 1 /\ m = k + 1 /\ ~(m <= k)
    BY <1>3
  <2>2. PICK h \in Powers(k) : TRUE
    BY <1>1, <2>1
  <2>3. /\ h \in [0..k -> Nat] /\ h[0] = 1
        /\ \A i \in 1..k : h[i] = 2 * h[i - 1]
    BY DEF Powers
  <2>4. PICK x \in Nat : x = 2 * h[k]
    BY <2>3
  <2>5. PICK g \in [0..m -> Nat] : g = [i \in 0..m |-> IF i = m THEN x ELSE h[i]]
    <3>1. ASSUME NEW i \in 0..m
          PROVE  (IF i = m THEN x ELSE h[i]) \in Nat
      <4>1. i # m => i \in 0..k
        BY <2>1
      <4> QED BY <2>3, <4>1
    <3> QED BY <3>1
  <2>6. g[0] = 1
    BY <2>1, <2>3, <2>5
  <2>7. ASSUME NEW i \in 1..m
        PROVE  g[i] = 2 * g[i - 1]
    <3>1. g[i - 1] = h[i - 1]
      BY <2>1, <2>5
    <3>2. CASE i = m
      BY <2>1, <2>4, <2>5, <3>1, <3>2
    <3>3. CASE i # m
      <4>1. i \in 1..k
        BY <2>1, <3>3
      <4>2. g[i] = h[i] /\ h[i] = 2 * h[i - 1]
        BY <2>1, <2>3, <2>5, <3>3, <4>1
      <4> QED BY <3>1, <4>2
    <3> QED BY <3>2, <3>3
  <2>8. g \in Powers(m)
    BY <2>6, <2>7 DEF Powers
  <2> QED BY <1>1, <2>8
<1> QED BY <1>2, <1>3

LEMMA PowersAgree ==
  ASSUME NEW n \in Nat, NEW m \in Nat, NEW h \in Powers(n), NEW g \in Powers(m),
         NEW i \in Nat, i <= n, i <= m
  PROVE  h[i] = g[i]
<1> DEFINE Bad == {k \in Nat : k <= n /\ k <= m /\ h[k] # g[k]}
<1> SUFFICES ASSUME Bad # {}
             PROVE  FALSE
  OBVIOUS
<1>1. PICK k \in Nat : /\ k <= n /\ k <= m /\ h[k] # g[k]
                       /\ \A l \in Nat : l <= n /\ l <= m /\ h[l] # g[l] => k <= l
  <2>1. \E x \in Bad : \A y \in Bad : x <= y
    BY Least
  <2> QED BY <2>1
<1>2. k # 0
  BY <1>1 DEF Powers
<1>3. PICK l \in Nat : l = k - 1 /\ ~(k <= l) /\ l <= n /\ l <= m
  BY <1>1, <1>2
<1>4. h[l] = g[l]
  BY <1>1, <1>3
<1>5. k \in 1..n /\ k \in 1..m
  BY <1>1, <1>2
<1>6. h[k] = 2 * h[l] /\ g[k] = 2 * g[l]
  BY <1>3, <1>5 DEF Powers
<1> QED BY <1>1, <1>4, <1>6

LEMMA PowerOfTwoDef ==
  /\ PowerOfTwo[0] = 1
  /\ \A n \in Nat : PowerOfTwo[n] \in Nat
  /\ \A n \in Nat : PowerOfTwo[n + 1] = 2 * PowerOfTwo[n]
<1> DEFINE g == [n \in Nat |-> (CHOOSE h \in Powers(n) : TRUE)[n]]
<1>1. \A n \in Nat : (CHOOSE h \in Powers(n) : TRUE) \in Powers(n)
  BY PowersExist
<1>2. g[0] = 1
  BY <1>1 DEF Powers
<1>3. \A n \in Nat : g[n] \in Nat
  BY <1>1 DEF Powers
<1>4. ASSUME NEW n \in Nat
      PROVE  g[n + 1] = 2 * g[n]
  <2>1. PICK h \in Powers(n + 1) : g[n + 1] = h[n + 1]
    <3>1. n + 1 \in Nat
      OBVIOUS
    <3>2. g[n + 1] = (CHOOSE h \in Powers(n + 1) : TRUE)[n + 1]
      BY <3>1
    <3>3. (CHOOSE h \in Powers(n + 1) : TRUE) \in Powers(n + 1)
      BY <1>1, <3>1
    <3> QED BY <3>2, <3>3
  <2>2. h[n + 1] = 2 * h[n]
    <3>1. n + 1 \in 1..(n + 1) /\ n + 1 - 1 = n
      OBVIOUS
    <3> QED BY <3>1 DEF Powers
  <2>3. PICK k \in Powers(n) : g[n] = k[n]
    BY <1>1
  <2>4. n <= n + 1 /\ n <= n /\ n + 1 \in Nat
    OBVIOUS
  <2>5. h[n] = k[n]
    BY <2>4, PowersAgree
  <2> QED BY <2>1, <2>2, <2>3, <2>5
<1>5. g = [n \in Nat |-> IF n = 0 THEN 1 ELSE 2 * g[n - 1]]
  <2>1. ASSUME NEW n \in Nat
        PROVE  g[n] = IF n = 0 THEN 1 ELSE 2 * g[n - 1]
    <3>1. CASE n = 0
      BY <1>2, <3>1
    <3>2. CASE n # 0
      <4>1. PICK k \in Nat : k = n - 1 /\ n = k + 1
        BY <3>2
      <4> QED BY <1>4, <3>2, <4>1
    <3> QED BY <3>1, <3>2
  <2> HIDE DEF g
  <2>2. g = [n \in Nat |-> g[n]]
    BY DEF g
  <2> QED BY <2>1, <2>2
<1>6. \E f : f = [n \in Nat |-> IF n = 0 THEN 1 ELSE 2 * f[n - 1]]
  BY <1>5
<1>7. PowerOfTwo = [n \in Nat |-> IF n = 0 THEN 1 ELSE 2 * PowerOfTwo[n - 1]]
  BY <1>6 DEF PowerOfTwo
<1>8. PowerOfTwo[0] = 1
  BY <1>7
<1>9. \A n \in Nat : PowerOfTwo[n + 1] = 2 * PowerOfTwo[n]
  BY <1>7
<1>10. \A n \in Nat : PowerOfTwo[n] \in Nat
  <2> DEFINE Bad == {n \in Nat : PowerOfTwo[n] \notin Nat}
  <2> SUFFICES ASSUME Bad # {}
               PROVE  FALSE
    OBVIOUS
  <2>1. PICK m \in Nat : PowerOfTwo[m] \notin Nat /\ \A k \in Nat : PowerOfTwo[k] \notin Nat => m <= k
    <3>1. \E x \in Bad : \A y \in Bad : x <= y
      BY Least
    <3> QED BY <3>1
  <2>2. m # 0
    BY <1>8, <2>1
  <2>3. PICK k \in Nat : k = m - 1 /\ m = k + 1 /\ ~(m <= k)
    BY <2>2
  <2>4. PICK p \in Nat : p = PowerOfTwo[k]
    BY <2>1, <2>3
  <2>5. PowerOfTwo[m] = 2 * p
    BY <1>9, <2>3, <2>4
  <2> QED BY <2>1, <2>5
<1> QED BY <1>8, <1>9, <1>10
-----------------------------------------------------------------------------
(* Retries.                                                                *)

\* Without a second reference, one waits for a PENDING occurrence only.
OneWaits ==
  ~doubled => /\ inSet => refs = 0
              /\ refs <= 1
              /\ status # "PENDING" => refs = 0 /\ ~inSet

\* How long a failed attempt has been waiting: a negative delay is over at once.
Waits(until) == until >= failedAt + Exponential(attempts) \/ Exponential(attempts) < 0

RetryInv ==
  /\ now \in Nat /\ refs \in Nat /\ attempts \in Nat /\ retryAt \in Int
  /\ failedAt \in Nat \cup {Never} /\ failedAt <= now
  /\ base \in Int
  /\ status = "RUNNING" \/ failedAt # Never => attempts >= 1
  /\ OneWaits
  /\ failedAt # Never /\ status = "RETRYING" => Waits(retryAt)
  /\ failedAt # Never /\ status = "PENDING" => Waits(now)

LEMMA MinOfTwo ==
  ASSUME NEW a \in Int, NEW b \in Int
  PROVE  Min({a, b}) = IF a <= b THEN a ELSE b
<1>1. \E m \in {a, b} : (\A y \in {a, b} : m <= y) /\ m = IF a <= b THEN a ELSE b
  OBVIOUS
<1>2. Min({a, b}) \in {a, b} /\ \A y \in {a, b} : Min({a, b}) <= y
  BY <1>1 DEF Min
<1> QED BY <1>2

LEMMA ExponentialType ==
  ASSUME base \in Int, NEW n \in Nat \ {0}
  PROVE  Exponential(n) \in Int /\ Exponential(n) <= MaxDelay
<1>1. MaxDelay \in Int
  BY TimetableAssumption
<1>2. PICK p \in Nat : p = PowerOfTwo[n - 1]
  BY PowerOfTwoDef
<1>3. base * p \in Int
  OBVIOUS
<1>4. PICK e \in Int : e = base * PowerOfTwo[n - 1]
  BY <1>2, <1>3
<1>5. Min({MaxDelay, e}) = IF MaxDelay <= e THEN MaxDelay ELSE e
  BY <1>1, MinOfTwo
<1> QED BY <1>1, <1>4, <1>5 DEF Exponential

\* Jitter and cap never shorten a delay that is not negative.
LEMMA BackoffIsAtLeast ==
  ASSUME base \in Int, NEW n \in Nat \ {0}, NEW x \in Backoff(n)
  PROVE  x \in Int /\ (Exponential(n) >= 0 => x >= Exponential(n))
<1>1. PICK d \in Int : d = Exponential(n) /\ d <= MaxDelay
  BY ExponentialType
<1>2. MaxDelay \in Int
  BY TimetableAssumption
<1>3. PICK y \in IF d >= 0 THEN 0..(d \div 2) ELSE -((-d) \div 2)..0 :
             x = Min({MaxDelay, d + y})
  BY <1>1 DEF Backoff
<1>4. y \in Int /\ (d >= 0 => y >= 0)
  <2>1. d >= 0 => d \div 2 \in Int
    BY <1>1
  <2>2. d < 0 => (-d) \div 2 \in Int
    BY <1>1
  <2> QED BY <1>3, <2>1, <2>2
<1>5. x = IF MaxDelay <= d + y THEN MaxDelay ELSE d + y
  BY <1>2, <1>3, <1>4, MinOfTwo
<1> QED BY <1>1, <1>2, <1>4, <1>5

LEMMA RetryInit == Init => RetryInv
<1> SUFFICES ASSUME Init
             PROVE  RetryInv
  OBVIOUS
<1>1. base \in Int
  BY TimetableAssumption DEF Init
<1>2. OneWaits
  BY DEF Init, OneWaits
<1> QED
  BY <1>1, <1>2 DEF Init, RetryInv, Never

LEMMA FailureWaits ==
  ASSUME now \in Nat, attempts \in Nat \ {0}, base \in Int, FailAndRetry
  PROVE  retryAt' \in Int /\ Waits(retryAt)'
<1>1. PICK d \in Int : d = Exponential(attempts)
  BY ExponentialType
<1>2. PICK x \in Int : x = delay' /\ (d >= 0 => x >= d)
  BY <1>1, BackoffIsAtLeast DEF FailAndRetry
<1>3. retryAt' = now + x /\ failedAt' = now
  BY <1>2 DEF FailAndRetry, NextRetryAt
<1>4. Exponential(attempts)' = d
  BY <1>1 DEF FailAndRetry, Exponential, ask
<1>5. PICK n \in Nat : n = now
  OBVIOUS
<1>6. d >= 0 => x >= d
  BY <1>2
<1>7. n + x >= n + d \/ d < 0
  BY <1>6
<1> QED
  BY <1>3, <1>4, <1>5, <1>7 DEF Waits

LEMMA RetryStep == RetryInv /\ [Next]_vars => RetryInv'
<1> SUFFICES ASSUME RetryInv, [Next]_vars
             PROVE  RetryInv'
  OBVIOUS
<1> USE DEF RetryInv, OneWaits, Never, ask, row, carried, counters
<1>0. PICK d \in Int : failedAt # Never => d = Exponential(attempts)
  <2>1. CASE failedAt = Never
    BY <2>1
  <2>2. CASE failedAt # Never
    <3>1. attempts \in Nat \ {0}
      BY <2>2
    <3>2. Exponential(attempts) \in Int
      BY <3>1, ExponentialType
    <3> QED BY <3>2
  <2> QED BY <2>1, <2>2
<1>1. ASSUME base' = base, attempts' = attempts, failedAt # Never
      PROVE  Exponential(attempts)' = d
  BY <1>0, <1>1 DEF Exponential
<1>2. CASE Tick
  BY <1>0, <1>1, <1>2 DEF Tick, Waits
<1>3. CASE Promote
  <2>1. OneWaits'
    BY <1>3 DEF Promote
  <2> QED BY <1>0, <1>1, <1>3, <2>1 DEF Promote, Waits
<1>4. CASE RestartScheduler
  BY <1>0, <1>1, <1>4 DEF RestartScheduler, Waits
<1>5. CASE Start
  BY <1>5 DEF Start
<1>6. CASE Discard
  BY <1>0, <1>1, <1>6 DEF Discard, Waits
<1>7. CASE FailAndRetry
  <2>1. attempts \in Nat \ {0}
    BY <1>7 DEF FailAndRetry
  <2>2. retryAt' \in Int /\ Waits(retryAt)'
    BY <1>7, <2>1, FailureWaits
  <2> QED BY <1>7, <2>1, <2>2 DEF FailAndRetry
<1>8. CASE FailForGood
  BY <1>8 DEF FailForGood
<1>9. CASE PromoteRetry
  BY <1>0, <1>1, <1>9 DEF PromoteRetry, RetryIsDue, Waits
<1>10. CASE Reclaim
  BY <1>10 DEF Reclaim
<1>11. CASE Replay
  BY <1>11 DEF Replay
<1>12. CASE Succeed
  BY <1>12 DEF Succeed
<1>13. CASE CreateNext
  BY <1>13 DEF CreateNext
<1>14. CASE UNCHANGED vars
  BY <1>0, <1>1, <1>14 DEF vars, Waits
<1> QED
  BY <1>2, <1>3, <1>4, <1>5, <1>6, <1>7, <1>8, <1>9, <1>10, <1>11, <1>12, <1>13,
     <1>14 DEF Next

\* A retry starts at least the exponential delay after the failure: for every
\* base, cap and number of attempts, however late the scheduler is, and unless
\* a restart of it has doubled the reference.
THEOREM RetriesKeepTheirDistance == Spec => RetrySpacing
<1>1. RetryInv /\ [Next]_vars =>
        [Start /\ failedAt # Never /\ ~doubled =>
           now >= failedAt + Exponential(attempts)]_vars
  <2> SUFFICES ASSUME RetryInv, Start, failedAt # Never, ~doubled
               PROVE  now >= failedAt + Exponential(attempts)
    OBVIOUS
  <2>1. status = "PENDING"
    BY DEF RetryInv, OneWaits, Start
  <2>2. PICK d \in Int : d = Exponential(attempts)
    <3>1. attempts \in Nat \ {0}
      BY DEF RetryInv
    <3> QED BY <3>1, ExponentialType DEF RetryInv
  <2>3. now >= failedAt + d \/ d < 0
    BY <2>1, <2>2 DEF RetryInv, Waits
  <2> QED
    BY <2>2, <2>3 DEF RetryInv, Never
<1> QED
  BY <1>1, RetryInit, RetryStep, PTL DEF Spec, RetrySpacing
-----------------------------------------------------------------------------
(* Delays.                                                                 *)

\* The delay before the next attempt, or before the one that is running.
UpperBound == Exponential(IF status = "RUNNING" THEN attempts ELSE attempts + 1)

\* Half of a delay as jitter is less than the doubling that follows.
GrowInv ==
  /\ attempts \in Nat /\ base \in Int /\ delay \in Int
  /\ status = "RUNNING" => attempts >= 1
  /\ base >= 0 => delay <= UpperBound

\* One failure more doubles the delay, up to the cap.
LEMMA ExponentialDoubles ==
  ASSUME base \in Int, base >= 0, NEW n \in Nat \ {0}
  PROVE  \E e \in Nat :
           /\ Exponential(n) = IF MaxDelay <= e THEN MaxDelay ELSE e
           /\ Exponential(n + 1) = IF MaxDelay <= 2 * e THEN MaxDelay ELSE 2 * e
<1>1. MaxDelay \in Int
  BY TimetableAssumption
<1>2. PICK b \in Nat : b = base
  OBVIOUS
<1>3. PICK k \in Nat : k = n - 1 /\ k + 1 = n + 1 - 1
  OBVIOUS
<1>4. PICK p \in Nat : p = PowerOfTwo[k] /\ PowerOfTwo[k + 1] = 2 * p
  BY PowerOfTwoDef
<1>5. PICK e \in Nat : e = b * p
  OBVIOUS
<1>6. b * (2 * p) = 2 * e
  BY <1>5
<1>7. Exponential(n) = Min({MaxDelay, e}) /\ Exponential(n + 1) = Min({MaxDelay, 2 * e})
  <2>1. base * PowerOfTwo[n - 1] = e
    BY <1>2, <1>3, <1>4, <1>5
  <2>2. base * PowerOfTwo[n + 1 - 1] = 2 * e
    <3>1. PowerOfTwo[n + 1 - 1] = 2 * p
      BY <1>3, <1>4
    <3> QED BY <1>2, <1>6, <3>1
  <2>3. Exponential(n) = Min({MaxDelay, base * PowerOfTwo[n - 1]})
    BY DEF Exponential
  <2>4. Exponential(n + 1) = Min({MaxDelay, base * PowerOfTwo[n + 1 - 1]})
    BY DEF Exponential
  <2> QED BY <2>1, <2>2, <2>3, <2>4
<1>8. 2 * e \in Int
  OBVIOUS
<1> QED BY <1>1, <1>7, <1>8, MinOfTwo

LEMMA ExponentialGrows ==
  ASSUME base \in Int, base >= 0, NEW n \in Nat \ {0}
  PROVE  /\ Exponential(n) \in Nat
         /\ Exponential(n + 1) \in Nat
         /\ Exponential(n) <= Exponential(n + 1)
<1>1. PICK c \in Nat : c = MaxDelay
  BY TimetableAssumption
<1>2. PICK e \in Nat :
        /\ Exponential(n) = IF c <= e THEN c ELSE e
        /\ Exponential(n + 1) = IF c <= 2 * e THEN c ELSE 2 * e
  BY <1>1, ExponentialDoubles
<1> QED BY <1>2

LEMMA BackoffIsAtMost ==
  ASSUME base \in Int, base >= 0, NEW n \in Nat \ {0}, NEW x \in Backoff(n)
  PROVE  x <= Exponential(n + 1)
<1>1. PICK c \in Nat : c = MaxDelay
  BY TimetableAssumption
<1>2. PICK e \in Nat :
        /\ Exponential(n) = IF c <= e THEN c ELSE e
        /\ Exponential(n + 1) = IF c <= 2 * e THEN c ELSE 2 * e
  BY <1>1, ExponentialDoubles
<1>3. PICK d \in Nat : d = Exponential(n)
  BY <1>2
<1>4. PICK h \in Nat : h = d \div 2 /\ 2 * h <= d
  OBVIOUS
<1>5. PICK y \in 0..h : x = Min({c, d + y})
  <2>1. PICK y \in IF d >= 0 THEN 0..(d \div 2) ELSE -((-d) \div 2)..0 :
               x = Min({MaxDelay, d + y})
    BY <1>3 DEF Backoff
  <2>2. y \in 0..h
    BY <1>4, <2>1
  <2> QED BY <1>1, <2>1, <2>2
<1>6. d + y \in Int
  OBVIOUS
<1>7. x = IF c <= d + y THEN c ELSE d + y
  BY <1>5, <1>6, MinOfTwo
<1>8. d <= e /\ d <= c
  BY <1>2, <1>3
<1>9. x <= c /\ x <= 2 * e
  BY <1>4, <1>7, <1>8, d + y <= 2 * e
<1> QED BY <1>2, <1>9

LEMMA GrowInit == Init => GrowInv
<1> SUFFICES ASSUME Init
             PROVE  GrowInv
  OBVIOUS
<1>1. base \in Int /\ attempts = 0 /\ delay = 0 /\ status = "PENDING"
  BY TimetableAssumption DEF Init
<1>2. base >= 0 => Exponential(1) \in Nat
  BY <1>1, ExponentialGrows
<1>3. UpperBound = Exponential(1)
  BY <1>1 DEF UpperBound
<1> QED BY <1>1, <1>2, <1>3 DEF GrowInv

LEMMA GrowStep == GrowInv /\ [Next]_vars => GrowInv'
<1> SUFFICES ASSUME GrowInv, [Next]_vars
             PROVE  GrowInv'
  OBVIOUS
<1> USE DEF GrowInv, ask, row, carried, counters
<1>0. base' = base
  BY DEF Next, vars, Tick, Promote, RestartScheduler, Start, Discard, FailAndRetry,
         FailForGood, PromoteRetry, Reclaim, Replay, Succeed, CreateNext
<1>1. ASSUME NEW n \in Nat, NEW m \in Nat, m = n
      PROVE  Exponential(n)' = Exponential(m)
  BY <1>0, <1>1 DEF Exponential
\* The attempt ends, or none was under way and none begins.
<1>2. ASSUME status' # "RUNNING", attempts' = attempts, delay' = delay
      PROVE  GrowInv'
  <2>1. UpperBound' = Exponential(attempts + 1)
    BY <1>0, <1>2 DEF UpperBound, Exponential
  <2>2. CASE status # "RUNNING"
    BY <1>0, <1>2, <2>1, <2>2 DEF UpperBound
  <2>3. CASE status = "RUNNING"
    <3>1. attempts \in Nat \ {0} /\ UpperBound = Exponential(attempts)
      BY <2>3 DEF UpperBound
    <3>2. ASSUME base >= 0
          PROVE  delay <= Exponential(attempts + 1)
      <4>1. PICK a \in Nat, b \in Nat :
              a = Exponential(attempts) /\ b = Exponential(attempts + 1) /\ a <= b
        BY <3>1, <3>2, ExponentialGrows
      <4>2. delay <= a
        BY <3>1, <3>2, <4>1
      <4> QED BY <4>1, <4>2
    <3> QED BY <1>0, <1>2, <2>1, <3>2
  <2> QED BY <2>2, <2>3
<1>3. ASSUME UNCHANGED <<status, attempts, delay>>
      PROVE  GrowInv'
  <2>1. UpperBound' = UpperBound
    BY <1>0, <1>3 DEF UpperBound, Exponential
  <2> QED BY <1>0, <1>3, <2>1
\* A replay, or an occurrence of its own.
<1>4. ASSUME status' = "PENDING", attempts' = 0, delay' = 0
      PROVE  GrowInv'
  <2>1. UpperBound' = Exponential(1)
    BY <1>0, <1>4 DEF UpperBound, Exponential
  <2>2. base >= 0 => Exponential(1) \in Nat
    BY ExponentialGrows
  <2> QED BY <1>0, <1>4, <2>1, <2>2
<1>5. CASE Tick
  BY <1>3, <1>5 DEF Tick
<1>6. CASE Promote
  BY <1>3, <1>6 DEF Promote
<1>7. CASE RestartScheduler
  BY <1>3, <1>7 DEF RestartScheduler
<1>8. CASE Start
  <2>1. attempts' = attempts + 1 /\ status' = "RUNNING" /\ status # "RUNNING" /\ delay' = delay
    BY <1>8 DEF Start
  <2>2. UpperBound' = UpperBound
    BY <1>0, <2>1 DEF UpperBound, Exponential
  <2> QED BY <1>0, <2>1, <2>2
<1>9. CASE Discard
  BY <1>3, <1>9 DEF Discard
<1>10. CASE FailAndRetry
  <2>1. /\ attempts' = attempts /\ status' = "RETRYING" /\ attempts \in Nat \ {0}
        /\ delay' \in Backoff(attempts)
    BY <1>10 DEF FailAndRetry
  <2>2. UpperBound' = Exponential(attempts + 1)
    BY <1>0, <2>1 DEF UpperBound, Exponential
  <2>3. delay' \in Int
    BY <2>1, BackoffIsAtLeast
  <2>4. base >= 0 => delay' <= Exponential(attempts + 1)
    BY <2>1, BackoffIsAtMost
  <2> QED BY <1>0, <2>1, <2>2, <2>3, <2>4
<1>11. CASE FailForGood
  BY <1>2, <1>11 DEF FailForGood
<1>12. CASE PromoteRetry
  BY <1>2, <1>12 DEF PromoteRetry
<1>13. CASE Reclaim
  BY <1>2, <1>13 DEF Reclaim
<1>14. CASE Replay
  BY <1>4, <1>14 DEF Replay
<1>15. CASE Succeed
  BY <1>2, <1>15 DEF Succeed
<1>16. CASE CreateNext
  BY <1>4, <1>16 DEF CreateNext
<1>17. CASE UNCHANGED vars
  BY <1>3, <1>17 DEF vars
<1> QED
  BY <1>5, <1>6, <1>7, <1>8, <1>9, <1>10, <1>11, <1>12, <1>13, <1>14, <1>15, <1>16,
     <1>17 DEF Next

\* The backoff of a job never shrinks from one failure to the next: for every
\* base that is not negative, every cap and every jitter, and with any number
\* of reclaims between the failures.
THEOREM DelaysDoGrow == Spec => DelaysGrow
<1>1. GrowInv /\ [Next]_vars =>
        [base >= 0 /\ FailAndRetry => delay' >= delay]_vars
  <2> SUFFICES ASSUME GrowInv, base >= 0, FailAndRetry
               PROVE  delay' >= delay
    OBVIOUS
  <2>1. attempts \in Nat \ {0} /\ delay <= Exponential(attempts)
    BY DEF GrowInv, UpperBound, FailAndRetry
  <2>2. PICK d \in Nat : d = Exponential(attempts)
    BY <2>1, ExponentialGrows DEF GrowInv
  <2>3. PICK x \in Int : x = delay' /\ x >= d
    BY <2>1, <2>2, BackoffIsAtLeast DEF GrowInv, FailAndRetry
  <2>4. delay \in Int /\ delay <= d
    BY <2>1, <2>2 DEF GrowInv
  <2> QED
    BY <2>3, <2>4
<1> QED
  BY <1>1, GrowInit, GrowStep, PTL DEF Spec, DelaysGrow
=============================================================================
