---------------------------- MODULE DecoderProofs ----------------------------
(***************************************************************************)
(* Theorems about DecoderService, for every set of readings, length of a   *)
(* minute and flush delay that LagAssumption admits.  The two threads      *)
(* share the buckets without a lock: the proof rests on the clock.  A      *)
(* reading on its way to a bucket keeps its minute from being closed, so a *)
(* bucket that was copied for publishing does not change until it is       *)
(* dropped, and a dropped one never comes back.                            *)
(***************************************************************************)
EXTENDS DecoderService, FiniteSetTheorems, TLAPS

\* The readings that have come and no restart has lost.
Kept(b) == Received(b) \ dropped

\* The reading the MQTT thread has not added to a sum, and not to a count.
Unsummed  == IF thread.at = "stamped" THEN {thread.reading} ELSE {}
Uncounted == IF thread = Waiting THEN {} ELSE {thread.reading}

\* A reading's stamp is a time that has been, and only readings that came are dropped.
StampsPast ==
  /\ \A r \in Reading : stamp[r] # None => stamp[r] <= now
  /\ \A r \in dropped : stamp[r] # None

\* The reading in the thread's hands is not older than MaxLag.
InHandInTime ==
  thread # Waiting =>
    LET r == thread.reading IN
    stamp[r] # None /\ r \notin dropped /\ now <= stamp[r] + MaxLag

\* A bucket that may still be published has what was received for it, but for the
\* reading in hand.
BucketsComplete ==
  \A b \in Bucket : b \in DOMAIN buckets \/ ~Closed(b) =>
    /\ StatsOf(b).sum = Kept(b) \ Unsummed
    /\ StatsOf(b).count = Kept(b) \ Uncounted

\* What the main thread has copied is still what the bucket holds.
IsCopy(mean) ==
  /\ mean.bucket \in DOMAIN buckets /\ Closed(mean.bucket)
  /\ mean.sum = buckets[mean.bucket].sum /\ mean.count = buckets[mean.bucket].count
CopiesCurrent ==
  /\ \A mean \in ready : IsCopy(mean)
  /\ sending # None => IsCopy(sending) /\ sending \notin ready

\* Only closed minutes are delivered.
DeliveredClosed == \A d \in delivered : Closed(d.mean.bucket)

\* Each delivery of a bucket that is still there was a failure.
Deliveries(b) == {d \in delivered : d.mean.bucket = b}
OneFaultEach ==
  /\ IsFiniteSet(delivered)
  /\ \A b \in DOMAIN buckets : Cardinality(Deliveries(b)) <= faults

DecoderInv ==
  /\ TypeOK
  /\ StampsPast
  /\ InHandInTime
  /\ BucketsComplete
  /\ CopiesCurrent
  /\ DeliveredClosed
  /\ MeansAreWhole
  /\ Accounted
  /\ OneFaultEach
  /\ RepeatedOnlyByFaults

-----------------------------------------------------------------------------
(* Minutes, and the reading in hand. *)

\* Division rounds down: the two bounds it gives.
LEMMA DivBounds ==
  ASSUME NEW a \in Nat, NEW b \in Nat \ {0}
  PROVE  /\ a \div b \in Nat
         /\ b * (a \div b) <= a
         /\ a < b * (a \div b) + b
<1>1. /\ a \div b \in Int
      /\ a = b * (a \div b) + (a % b)
      /\ a % b \in 0..(b - 1)
  BY SMT
<1> QED BY <1>1, SMT

\* A time lies in its minute.
LEMMA MinuteBounds ==
  ASSUME NEW t \in Nat
  PROVE  /\ MinuteOf(t) \in Nat
         /\ t < (MinuteOf(t) + 1) * MinuteLength
         /\ t <= MaxTime => MinuteOf(t) \in Minute
<1> DEFINE m == t \div MinuteLength
           last == MaxTime \div MinuteLength
<1>1. /\ m \in Nat /\ MinuteLength * m <= t /\ t < MinuteLength * m + MinuteLength
      /\ last \in Nat /\ MaxTime < MinuteLength * last + MinuteLength
      /\ MinuteLength \in Nat \ {0} /\ MaxTime \in Nat
  BY ClockAssumption, DivBounds
<1> HIDE DEF m, last
<1>2. t < (m + 1) * MinuteLength
  BY <1>1, SMT
<1>3. ASSUME t <= MaxTime, last + 1 <= m PROVE FALSE
  <2>1. MinuteLength * (last + 1) <= MinuteLength * m
    BY <1>1, <1>3, SMT
  <2>2. MinuteLength * (last + 1) = MinuteLength * last + MinuteLength
    BY <1>1, SMT
  <2> QED BY <1>1, <1>3, <2>1, <2>2, SMT
<1>4. t <= MaxTime => m \in 0..last
  BY <1>1, <1>3, SMT
<1> QED BY <1>1, <1>2, <1>4 DEF m, last, MinuteOf, Minute

\* When a minute is closed, its readings are older than FlushDelay.
LEMMA ClosedIsPast ==
  ASSUME NEW t \in Nat, NEW n \in Nat, (MinuteOf(t) + 1) * MinuteLength <= n - FlushDelay
  PROVE  t + FlushDelay < n
<1>1. t < (MinuteOf(t) + 1) * MinuteLength /\ MinuteOf(t) \in Nat
  BY MinuteBounds
<1> DEFINE x == (MinuteOf(t) + 1) * MinuteLength
<1>2. x \in Int
  BY <1>1, ClockAssumption
<1> HIDE DEF x
<1>3. t < x /\ x <= n - FlushDelay
  BY <1>1 DEF x
<1> QED BY <1>2, <1>3, ClockAssumption

\* A minute that is closed stays closed.
LEMMA ClosedLater ==
  ASSUME NEW m \in Nat, NEW n \in Nat, NEW k \in Nat, n <= k,
         (m + 1) * MinuteLength <= n - FlushDelay
  PROVE  (m + 1) * MinuteLength <= k - FlushDelay
<1> DEFINE x == (m + 1) * MinuteLength
<1>1. x \in Int /\ FlushDelay \in Nat
  BY ClockAssumption
<1> HIDE DEF x
<1>2. x <= n - FlushDelay => x <= k - FlushDelay
  BY <1>1
<1> QED BY <1>2 DEF x

\* The states of the MQTT thread.
LEMMA ThreadType ==
  ASSUME TypeOK
  PROVE  /\ thread # Waiting =>
              thread.reading \in Reading /\ (thread.at = "stamped" \/ thread.at = "summed")
         /\ thread.at = "stamped" \/ thread.at = "summed" => thread # Waiting
         /\ now \in Nat /\ faults \in Nat /\ FlushDelay \in Nat /\ MaxLag \in Nat
         /\ \A r \in Reading : stamp[r] # None => stamp[r] \in Nat /\ stamp[r] <= MaxTime
BY ClockAssumption DEF TypeOK, ThreadState, Waiting

\* A reading that has come has its bucket.
LEMMA BucketType ==
  ASSUME TypeOK, NEW r \in Reading, stamp[r] # None
  PROVE  BucketOf(r) \in Bucket /\ BucketOf(r)[2] = MinuteOf(stamp[r])
<1>1. MinuteOf(stamp[r]) \in Minute
  BY ThreadType, MinuteBounds
<1> QED BY <1>1, ReadingAssumption DEF BucketOf, Bucket

\* The reading in hand belongs to no closed minute.
LEMMA HandIsOpen ==
  ASSUME TypeOK, InHandInTime, thread # Waiting
  PROVE  /\ thread.reading \in Kept(BucketOf(thread.reading))
         /\ BucketOf(thread.reading) \in Bucket /\ ~Closed(BucketOf(thread.reading))
<1> DEFINE r == thread.reading
<1>1. /\ r \in Reading /\ stamp[r] # None /\ r \notin dropped /\ now <= stamp[r] + MaxLag
      /\ stamp[r] \in Nat /\ now \in Nat /\ FlushDelay \in Nat /\ MaxLag \in Nat
  BY ThreadType DEF InHandInTime
<1>2. BucketOf(r) \in Bucket /\ BucketOf(r)[2] = MinuteOf(stamp[r])
  BY <1>1, BucketType
<1>3. ~Closed(BucketOf(r))
  <2> SUFFICES ASSUME Closed(BucketOf(r)) PROVE FALSE
    OBVIOUS
  <2>1. stamp[r] + FlushDelay < now
    BY <1>1, <1>2, ClosedIsPast DEF Closed
  <2> QED BY <1>1, <2>1, LagAssumption
<1> QED BY <1>1, <1>2, <1>3 DEF Kept, Received

\* A reading that comes now belongs to no closed minute.
LEMMA NowIsOpen ==
  ASSUME TypeOK, NEW b \in Bucket, Closed(b)
  PROVE  b[2] # MinuteOf(now)
<1> SUFFICES ASSUME b[2] = MinuteOf(now) PROVE FALSE
  OBVIOUS
<1>1. now + FlushDelay < now
  BY ThreadType, ClosedIsPast DEF Closed
<1> QED BY <1>1, ThreadType

\* A bucket that may still be published and is closed has all its readings in it.
LEMMA ClosedIsWhole ==
  ASSUME TypeOK, InHandInTime, BucketsComplete, NEW b \in DOMAIN buckets, Closed(b)
  PROVE  buckets[b].sum = Kept(b) /\ buckets[b].count = Kept(b)
<1>1. b \in Bucket
  BY DEF TypeOK
<1>2. thread # Waiting => thread.reading \notin Kept(b)
  BY HandIsOpen DEF Kept, Received
<1>3. Kept(b) \ Unsummed = Kept(b) /\ Kept(b) \ Uncounted = Kept(b)
  BY <1>2, ThreadType DEF Unsummed, Uncounted
<1> QED BY <1>1, <1>3 DEF BucketsComplete, StatsOf

-----------------------------------------------------------------------------
(* Type correctness. *)

\* The steps that only connect, lose the session or look at the stop event.
OnlyConnects == UNCHANGED aside /\ faults' \in Nat /\ faults <= faults'

LEMMA ConnectSteps ==
  ASSUME TypeOK, OnConnect \/ OnRefused \/ LoseSession \/ GoOn
  PROVE  /\ OnlyConnects /\ faults' \in 0..MaxFaults
         /\ phase' \in {"starting", "running"} /\ session' \in {"none", "deaf", "subscribed"}
         /\ readied' \in BOOLEAN /\ stopping' \in BOOLEAN
<1> USE ClockAssumption DEF OnlyConnects, TypeOK
<1>1. CASE OnConnect
  BY <1>1 DEF OnConnect
<1>2. CASE OnRefused
  BY <1>2 DEF OnRefused
<1>3. CASE LoseSession
  BY <1>3 DEF LoseSession
<1>4. CASE GoOn
  BY <1>4 DEF GoOn
<1> QED BY <1>1, <1>2, <1>3, <1>4

\* Statistics are sets of readings, and so are a bucket's.
LEMMA StatsType ==
  ASSUME TypeOK, NEW b \in Bucket
  PROVE  /\ StatsOf(b) \in Stats
         /\ StatsOf(b).sum \subseteq Reading /\ StatsOf(b).count \subseteq Reading
<1>1. StatsOf(b) \in Stats
  BY DEF StatsOf, EmptyStats, Stats, TypeOK
<1> QED BY <1>1 DEF Stats

\* A reading is held in a bucket or in hand.
LEMMA HeldWhere ==
  ASSUME NEW r
  PROVE  r \in Held <=> \/ thread # Waiting /\ r = thread.reading
                        \/ \E b \in DOMAIN buckets : r \in buckets[b].sum
<1>1. r \in UNION {buckets[b].sum : b \in DOMAIN buckets}
        <=> \E b \in DOMAIN buckets : r \in buckets[b].sum
  OBVIOUS
<1> QED BY <1>1 DEF Held

\* What AddToSum does to the buckets: its reading is in its bucket's sum.
LEMMA SumEffect ==
  ASSUME TypeOK, InHandInTime, AddToSum
  PROVE  LET r == thread.reading
             b == BucketOf(r) IN
         /\ r \in Reading /\ b \in Bucket /\ thread.at = "stamped"
         /\ thread' = [at |-> "summed", reading |-> r]
         /\ buckets' \in [DOMAIN buckets \cup {b} -> Stats]
         /\ buckets'[b].sum = StatsOf(b).sum \cup {r} /\ buckets'[b].count = StatsOf(b).count
         /\ \A c \in DOMAIN buckets : c # b => buckets'[c] = buckets[c]
         /\ UNCHANGED <<now, stamp, ready, sending, delivered, dropped, connection, faults>>
<1> DEFINE r == thread.reading
           b == BucketOf(r)
           new == [StatsOf(b) EXCEPT !.sum = @ \cup {r}]
<1>1. thread.at = "stamped" /\ thread # Waiting /\ r \in Reading /\ b \in Bucket
  BY ThreadType, HandIsOpen DEF AddToSum
<1>2. StatsOf(b) \in Stats /\ StatsOf(b).sum \subseteq Reading
  BY <1>1, StatsType
<1>3. new \in Stats /\ new.sum = StatsOf(b).sum \cup {r} /\ new.count = StatsOf(b).count
  BY <1>1, <1>2 DEF Stats
<1>4. buckets' = WithStats(b, new) /\ thread' = [at |-> "summed", reading |-> r]
  BY DEF AddToSum
<1> HIDE DEF new, b, r
<1>5. /\ buckets' \in [DOMAIN buckets \cup {b} -> Stats] /\ buckets'[b] = new
      /\ \A c \in DOMAIN buckets : c # b => buckets'[c] = buckets[c]
  BY <1>3, <1>4 DEF WithStats, TypeOK
<1>6. UNCHANGED <<now, stamp, ready, sending, delivered, dropped, connection, faults>>
  BY DEF AddToSum
<1> QED BY <1>1, <1>3, <1>4, <1>5, <1>6 DEF b, r

\* What AddToCount does: its reading's bucket is there, since it is not closed.
LEMMA CountEffect ==
  ASSUME TypeOK, InHandInTime, BucketsComplete, AddToCount
  PROVE  LET r == thread.reading
             b == BucketOf(r) IN
         /\ r \in Reading /\ b \in DOMAIN buckets /\ b \in Bucket /\ thread.at = "summed"
         /\ thread' = Waiting
         /\ buckets' \in [DOMAIN buckets -> Stats]
         /\ r \in buckets[b].sum
         /\ buckets'[b].sum = buckets[b].sum /\ buckets'[b].count = buckets[b].count \cup {r}
         /\ \A c \in DOMAIN buckets : c # b => buckets'[c] = buckets[c]
         /\ UNCHANGED <<now, stamp, ready, sending, delivered, dropped, connection, faults>>
<1> DEFINE r == thread.reading
           b == BucketOf(r)
<1>1. /\ thread.at = "summed" /\ thread # Waiting /\ r \in Reading /\ b \in Bucket
      /\ ~Closed(b) /\ r \in Kept(b)
  BY ThreadType, HandIsOpen DEF AddToCount
<1>2. r \in StatsOf(b).sum
  BY <1>1 DEF BucketsComplete, Unsummed
<1>3. b \in DOMAIN buckets /\ r \in buckets[b].sum
  BY <1>2 DEF StatsOf, EmptyStats
<1>4. buckets[b] \in Stats /\ buckets[b].count \subseteq Reading
  BY <1>3 DEF TypeOK, Stats
<1>5. buckets' = [buckets EXCEPT ![b].count = @ \cup {r}] /\ thread' = Waiting
  BY <1>3 DEF AddToCount
<1> DEFINE new == [buckets[b] EXCEPT !.count = @ \cup {r}]
<1>6. new \in Stats /\ new.sum = buckets[b].sum /\ new.count = buckets[b].count \cup {r}
  BY <1>1, <1>4 DEF Stats
<1>7. buckets' = [buckets EXCEPT ![b] = new]
  BY <1>5
<1> HIDE DEF new, b, r
<1>8. /\ buckets' \in [DOMAIN buckets -> Stats] /\ buckets'[b] = new
      /\ \A c \in DOMAIN buckets : c # b => buckets'[c] = buckets[c]
  BY <1>3, <1>6, <1>7 DEF TypeOK
<1>9. UNCHANGED <<now, stamp, ready, sending, delivered, dropped, connection, faults>>
  BY DEF AddToCount
<1> QED BY <1>1, <1>3, <1>5, <1>6, <1>8, <1>9 DEF b, r

\* A delivery is one more than there were of that bucket; its number is within bounds
\* because all before it but one were faults.
LEMMA DeliverType ==
  ASSUME TypeOK, CopiesCurrent, OneFaultEach, sending # None, Deliver
  PROVE  LET b == sending.bucket
             d == [mean |-> sending, time |-> now, nth |-> Cardinality(Deliveries(b)) + 1] IN
         /\ sending \in Mean /\ b \in DOMAIN buckets /\ b \in Bucket
         /\ delivered' = delivered \cup {d} /\ d \in Delivery /\ delivered' \subseteq Delivery
         /\ d.mean = sending
<1> DEFINE b == sending.bucket
           n == Cardinality(Deliveries(b))
           d == [mean |-> sending, time |-> now, nth |-> n + 1]
<1>1. sending \in Mean /\ b \in DOMAIN buckets /\ b \in Bucket
  BY DEF TypeOK, CopiesCurrent, IsCopy
<1>2. IsFiniteSet(Deliveries(b))
  BY FS_Subset DEF OneFaultEach, Deliveries
<1>3. n \in Nat /\ n <= faults
  BY <1>1, <1>2, FS_CardinalityType DEF OneFaultEach
<1>4. n + 1 \in 1..(MaxFaults + 1) /\ now \in 0..MaxTime
  BY <1>3, ClockAssumption DEF TypeOK
<1>5. delivered' = delivered \cup {d}
  BY DEF Deliver, Deliveries
<1> HIDE DEF n, b
<1>6. d \in Delivery /\ d.mean = sending
  BY <1>1, <1>4 DEF Delivery
<1> QED BY <1>1, <1>5, <1>6 DEF TypeOK, n, b

\* Every step keeps the variables in their types.
LEMMA TypeStep == DecoderInv /\ [Next]_vars => TypeOK'
<1> SUFFICES ASSUME DecoderInv, [Next]_vars PROVE TypeOK'
  OBVIOUS
<1> USE DEF connection
<1>1. TypeOK /\ InHandInTime /\ BucketsComplete /\ CopiesCurrent /\ OneFaultEach
  BY DEF DecoderInv
<1>2. ASSUME NEW r \in Reading, Receive(r) PROVE TypeOK'
  <2>1. stamp' \in [Reading -> 0..MaxTime \cup {None}]
    BY <1>1, <1>2 DEF Receive, TypeOK
  <2>2. thread' \in ThreadState
    BY <1>2 DEF Receive, ThreadState
  <2> QED BY <1>1, <1>2, <2>1, <2>2 DEF Receive, TypeOK
<1>3. CASE AddToSum
  <2>1. /\ thread' \in ThreadState
        /\ DOMAIN buckets' \subseteq Bucket /\ buckets' \in [DOMAIN buckets' -> Stats]
    BY <1>1, <1>3, SumEffect DEF ThreadState, TypeOK
  <2> QED BY <1>1, <1>3, <2>1, SumEffect DEF TypeOK
<1>4. CASE AddToCount
  <2>1. /\ thread' \in ThreadState
        /\ DOMAIN buckets' \subseteq Bucket /\ buckets' \in [DOMAIN buckets' -> Stats]
    BY <1>1, <1>4, CountEffect DEF ThreadState, TypeOK
  <2> QED BY <1>1, <1>4, <2>1, CountEffect DEF TypeOK
<1>5. CASE Poll
  <2>1. ReadyToFlush \subseteq Mean
    BY <1>1 DEF ReadyToFlush, Mean, TypeOK, Stats
  <2> QED BY <1>1, <1>5, <2>1 DEF Poll, TypeOK
<1>6. ASSUME NEW mean \in ready, Publish(mean) PROVE TypeOK'
  BY <1>1, <1>6 DEF Publish, TypeOK
<1>7. CASE Acknowledge
  <2>1. delivered' \subseteq Delivery
    BY <1>1, <1>7, DeliverType DEF Acknowledge
  <2>2. DOMAIN buckets' \subseteq Bucket /\ buckets' \in [DOMAIN buckets' -> Stats]
    BY <1>1, <1>7 DEF Acknowledge, Unflushed, TypeOK
  <2> QED BY <1>1, <1>7, <2>1, <2>2 DEF Acknowledge, TypeOK
<1>8. CASE PublishFails
  <2>1. delivered' \subseteq Delivery
    BY <1>1, <1>8, DeliverType DEF PublishFails, TypeOK
  <2>2. faults' \in 0..MaxFaults
    BY <1>1, <1>8, ClockAssumption DEF PublishFails, TypeOK
  <2> QED BY <1>1, <1>8, <2>1, <2>2 DEF PublishFails, TypeOK
<1>9. CASE OnConnect \/ OnRefused \/ LoseSession \/ GoOn
  <2>1. UNCHANGED <<now, stamp, thread, buckets, ready, sending, delivered, dropped>>
    BY <1>1, <1>9, ConnectSteps DEF OnlyConnects, aside
  <2> QED BY <1>1, <1>9, <2>1, ConnectSteps DEF TypeOK
<1>10. CASE Stop \/ Restart
  <2>1. Over /\ faults' \in 0..MaxFaults
    BY <1>1, <1>10, ClockAssumption DEF Stop, Restart, TypeOK
  <2>2. dropped' \subseteq Reading
    <3>1. Held \subseteq Reading
      <4>1. \A b \in DOMAIN buckets : buckets[b].sum \subseteq Reading
        BY <1>1 DEF TypeOK, Stats
      <4>2. thread # Waiting => thread.reading \in Reading
        BY <1>1, ThreadType
      <4> QED BY <4>1, <4>2, HeldWhere
    <3> QED BY <1>1, <2>1, <3>1 DEF Over, TypeOK
  <2>3. /\ DOMAIN buckets' \subseteq Bucket /\ buckets' \in [DOMAIN buckets' -> Stats]
        /\ thread' \in ThreadState
    BY <2>1 DEF Over, ThreadState
  <2>4. /\ phase' \in {"starting", "running"} /\ session' \in {"none", "deaf", "subscribed"}
        /\ readied' \in BOOLEAN /\ stopping' \in BOOLEAN
        /\ ready' = {} /\ sending' = None /\ UNCHANGED <<now, stamp, delivered>>
    BY <2>1 DEF Over
  <2> QED BY <1>1, <2>1, <2>2, <2>3, <2>4 DEF TypeOK
<1>11. CASE Tick
  BY <1>1, <1>11, ClockAssumption DEF Tick, TypeOK
<1>12. CASE UNCHANGED vars
  BY <1>1, <1>12 DEF vars, TypeOK
<1> QED BY <1>2, <1>3, <1>4, <1>5, <1>6, <1>7, <1>8, <1>9, <1>10, <1>11, <1>12
        DEF Next, OnMessage, PublishReady, Run

-----------------------------------------------------------------------------
(* Safety, conjunct by conjunct. *)

\* What a step may change of what the properties are about, but for the buckets.
LEMMA StepFrame ==
  ASSUME DecoderInv, [Next]_vars
  PROVE  /\ now' = now \/ Tick
         /\ dropped' = dropped \/ Over
         /\ stamp' = stamp \/ \E r \in Reading : Receive(r)
         /\ now' \in Nat /\ now <= now' /\ faults' \in Nat /\ faults <= faults'
         /\ \A b \in Bucket : Closed(b) => Closed(b)'
<1> USE DEF connection
<1>1. /\ now' = now \/ Tick
      /\ dropped' = dropped \/ Over
      /\ stamp' = stamp \/ \E r \in Reading : Receive(r)
  BY DEF Next, OnMessage, PublishReady, Run, AddToSum, AddToCount, Poll, Publish, Acknowledge,
         PublishFails, OnConnect, OnRefused, LoseSession, GoOn, Stop, Restart, Tick, Receive, Over,
         aside, vars
<1>2. /\ faults' = faults \/ faults' = faults + 1
      /\ now' = now \/ now' = now + 1
  BY DEF Next, OnMessage, PublishReady, Run, AddToSum, AddToCount, Poll, Publish, Acknowledge,
         PublishFails, OnConnect, OnRefused, LoseSession, GoOn, Stop, Restart, Tick, Receive, Over,
         aside, vars
<1>3. now' \in Nat /\ now <= now' /\ faults' \in Nat /\ faults <= faults'
  BY <1>2, ThreadType DEF DecoderInv
<1>4. ASSUME NEW b \in Bucket, Closed(b) PROVE Closed(b)'
  <2>1. now \in Nat /\ b[2] \in Nat
    BY ThreadType, MinuteBounds DEF DecoderInv, Bucket, Minute
  <2> QED BY <1>3, <1>4, <2>1, ClosedLater DEF Closed
<1> QED BY <1>1, <1>3, <1>4

\* Stamps do not run ahead of the clock.
LEMMA StampsStep == DecoderInv /\ [Next]_vars => StampsPast'
<1> SUFFICES ASSUME DecoderInv, [Next]_vars PROVE StampsPast'
  OBVIOUS
<1> USE DEF connection
<1>1. TypeOK /\ StampsPast /\ now' \in Nat /\ now <= now'
  BY StepFrame DEF DecoderInv
<1>2. ASSUME NEW r \in Reading, stamp'[r] # None PROVE stamp'[r] <= now'
  <2>1. stamp'[r] = stamp[r] \/ (stamp'[r] = now /\ now' = now)
    BY <1>1, StepFrame DEF Receive, TypeOK
  <2> QED BY <1>1, <1>2, <2>1, ThreadType DEF StampsPast
<1>3. \A r \in Reading : stamp[r] # None => stamp'[r] # None
  BY <1>1, StepFrame, ThreadType, ClockAssumption DEF Receive, TypeOK
<1>4. ASSUME NEW r \in dropped' PROVE stamp'[r] # None
  <2>1. CASE r \in dropped
    BY <1>1, <1>3, <2>1 DEF StampsPast, TypeOK
  <2>2. CASE r \notin dropped
    <3>1. Over /\ r \in Held
      BY <1>4, <2>2, StepFrame DEF Over
    <3>2. CASE thread # Waiting /\ r = thread.reading
      BY <3>1, <3>2 DEF DecoderInv, InHandInTime, Over
    <3>3. ASSUME NEW b \in DOMAIN buckets, r \in buckets[b].sum
          PROVE  stamp'[r] # None
      BY <1>1, <3>1, <3>3 DEF DecoderInv, BucketsComplete, StatsOf, Kept, Received, TypeOK, Over
    <3> QED BY <3>1, <3>2, <3>3, HeldWhere
  <2> QED BY <2>1, <2>2
<1> QED BY <1>2, <1>4 DEF StampsPast

\* Time does not pass while the reading in hand is as old as it may be.
LEMMA HandStep == DecoderInv /\ [Next]_vars => InHandInTime'
<1> SUFFICES ASSUME DecoderInv, [Next]_vars, thread' # Waiting
             PROVE  /\ stamp'[thread'.reading] # None /\ thread'.reading \notin dropped'
                    /\ now' <= stamp'[thread'.reading] + MaxLag
  BY DEF InHandInTime
<1> USE DEF connection
<1>1. TypeOK /\ InHandInTime /\ StampsPast /\ BucketsComplete
  BY DEF DecoderInv
<1>2. ASSUME NEW r \in Reading, Receive(r)
      PROVE  /\ stamp'[thread'.reading] # None /\ thread'.reading \notin dropped'
             /\ now' <= stamp'[thread'.reading] + MaxLag
  <2>1. /\ thread'.reading = r /\ stamp'[r] = now /\ stamp[r] = None
        /\ now' = now /\ dropped' = dropped
    BY <1>1, <1>2 DEF Receive, TypeOK
  <2> QED BY <1>1, <2>1, ThreadType, ClockAssumption DEF StampsPast
<1>3. CASE AddToSum
  <2>1. thread # Waiting /\ thread'.reading = thread.reading
    BY <1>1, <1>3, SumEffect, ThreadType
  <2> QED BY <1>1, <1>3, <2>1 DEF InHandInTime, AddToSum
<1>4. CASE Tick
  <2>1. thread' = thread /\ stamp' = stamp /\ dropped' = dropped /\ now' = now + 1
        /\ now < stamp[thread.reading] + MaxLag
    BY <1>4 DEF Tick
  <2>2. stamp[thread.reading] \in Nat /\ now \in Nat /\ MaxLag \in Nat
    BY <1>1, <2>1, ThreadType DEF InHandInTime
  <2> QED BY <1>1, <2>1, <2>2 DEF InHandInTime
<1>5. CASE UNCHANGED <<thread, stamp, dropped, now>>
  BY <1>1, <1>5 DEF InHandInTime
<1>6. \/ \E r \in Reading : Receive(r)
      \/ AddToSum \/ Tick
      \/ UNCHANGED <<thread, stamp, dropped, now>>
      \/ thread' = Waiting
  BY DEF Next, OnMessage, PublishReady, Run, AddToCount, Poll, Publish, Acknowledge,
         PublishFails, OnConnect, OnRefused, LoseSession, GoOn, Stop, Restart, Over, aside, vars
<1> QED BY <1>2, <1>3, <1>4, <1>5, <1>6

\* What a restart leaves of the readings received: those that a mean delivered has.
LEMMA OverKeeps ==
  ASSUME DecoderInv, Over, NEW b \in Bucket
  PROVE  /\ Closed(b)' = Closed(b)
         /\ Kept(b)' = {r \in Kept(b) : r \in Held => InMean(r)}
         /\ Received(b)' = Received(b)
<1>1. UNCHANGED <<now, stamp, delivered>>
  BY DEF Over
<1>2. dropped' = dropped \cup {r \in Held : ~InMean(r)}
  BY DEF Over
<1>3. Received(b)' = Received(b) /\ Closed(b)' = Closed(b)
  BY <1>1 DEF Received, BucketOf, Closed
<1> QED BY <1>2, <1>3 DEF Kept

\* A reading that is in a mean the broker has is of a closed minute.
LEMMA InMeanIsClosed ==
  ASSUME DecoderInv, NEW r, InMean(r)
  PROVE  r \in Reading /\ r \notin dropped /\ stamp[r] # None /\ Closed(BucketOf(r))
<1>1. PICK d \in delivered : r \in d.mean.sum
  BY DEF InMean
<1>2. r \in Received(d.mean.bucket) \ dropped /\ Closed(d.mean.bucket)
  BY <1>1 DEF DecoderInv, MeansAreWhole, DeliveredClosed
<1> QED BY <1>2 DEF Received

\* Each bucket that may still be published has what it should, after every step.
LEMMA BucketsStep == DecoderInv /\ [Next]_vars => BucketsComplete'
<1> SUFFICES ASSUME DecoderInv, [Next]_vars, NEW b \in Bucket,
                    b \in DOMAIN buckets' \/ ~Closed(b)'
             PROVE  /\ StatsOf(b)'.sum = Kept(b)' \ Unsummed'
                    /\ StatsOf(b)'.count = Kept(b)' \ Uncounted'
  BY DEF BucketsComplete
<1> USE DEF connection
<1>1. TypeOK /\ InHandInTime /\ BucketsComplete /\ CopiesCurrent /\ StampsPast
  BY DEF DecoderInv
<1>2. ~Closed(b)' => ~Closed(b)
  BY StepFrame
<1>3. CASE \E n \in Reading : Receive(n)
  <2>1. PICK n \in Reading : Receive(n)
    BY <1>3
  <2>2. /\ stamp' = [stamp EXCEPT ![n] = now] /\ stamp[n] = None /\ thread = Waiting
        /\ thread' = [at |-> "stamped", reading |-> n] /\ UNCHANGED <<now, buckets, dropped>>
    BY <2>1 DEF Receive
  <2>3. n \notin dropped
    BY <1>1, <2>2 DEF StampsPast
  <2>4. \A r \in Reading : r # n => stamp'[r] = stamp[r] /\ BucketOf(r)' = BucketOf(r)
    BY <1>1, <2>2 DEF TypeOK, BucketOf
  <2>5. Received(b)' \ {n} = Received(b) /\ n \notin Received(b)
    BY <2>2, <2>4 DEF Received
  <2>6. Kept(b)' \ {n} = Kept(b)
    BY <2>2, <2>3, <2>5 DEF Kept
  <2>7. Unsummed = {} /\ Uncounted = {} /\ Unsummed' = {n} /\ Uncounted' = {n}
    BY <2>2 DEF Unsummed, Uncounted, Waiting
  <2>8. StatsOf(b)' = StatsOf(b) /\ Closed(b)' = Closed(b)
    BY <2>2 DEF StatsOf, Closed
  <2> QED BY <1>1, <1>2, <2>2, <2>6, <2>7, <2>8 DEF BucketsComplete
<1>4. CASE AddToSum
  <2> DEFINE r == thread.reading
             c == BucketOf(r)
  <2>1. /\ r \in Reading /\ c \in Bucket /\ thread.at = "stamped"
        /\ thread' = [at |-> "summed", reading |-> r]
        /\ DOMAIN buckets' = DOMAIN buckets \cup {c}
        /\ buckets'[c].sum = StatsOf(c).sum \cup {r} /\ buckets'[c].count = StatsOf(c).count
        /\ \A e \in DOMAIN buckets : e # c => buckets'[e] = buckets[e]
        /\ UNCHANGED <<now, stamp, dropped>>
    BY <1>1, <1>4, SumEffect
  <2>2. r \in Kept(c) /\ ~Closed(c)
    BY <1>1, <2>1, ThreadType, HandIsOpen
  <2>3. Kept(b)' = Kept(b) /\ Closed(b)' = Closed(b)
    BY <2>1 DEF Kept, Received, BucketOf, Closed
  <2>4. Unsummed = {r} /\ Uncounted = {r} /\ Unsummed' = {} /\ Uncounted' = {r}
    BY <2>1 DEF Unsummed, Uncounted, Waiting
  <2>5. CASE b = c
    <3>1. StatsOf(b)' = buckets'[c]
      BY <2>1, <2>5 DEF StatsOf
    <3>2. StatsOf(b).sum = Kept(b) \ {r} /\ StatsOf(b).count = Kept(b) \ {r}
      BY <1>1, <2>2, <2>4, <2>5 DEF BucketsComplete
    <3> QED BY <2>1, <2>2, <2>3, <2>4, <2>5, <3>1, <3>2
  <2>6. CASE b # c
    <3>1. StatsOf(b)' = StatsOf(b)
      BY <2>1, <2>6 DEF StatsOf, EmptyStats
    <3>2. r \notin Kept(b)
      BY <2>6 DEF Kept, Received
    <3>3. b \in DOMAIN buckets \/ ~Closed(b)
      BY <2>1, <2>3, <2>6
    <3> QED BY <1>1, <2>3, <2>4, <3>1, <3>2, <3>3 DEF BucketsComplete
  <2> QED BY <2>5, <2>6
<1>5. CASE AddToCount
  <2> DEFINE r == thread.reading
             c == BucketOf(r)
  <2>1. /\ r \in Reading /\ c \in DOMAIN buckets /\ thread.at = "summed" /\ thread' = Waiting
        /\ DOMAIN buckets' = DOMAIN buckets /\ r \in buckets[c].sum
        /\ buckets'[c].sum = buckets[c].sum /\ buckets'[c].count = buckets[c].count \cup {r}
        /\ \A e \in DOMAIN buckets : e # c => buckets'[e] = buckets[e]
        /\ UNCHANGED <<now, stamp, dropped>>
    BY <1>1, <1>5, CountEffect
  <2>2. r \in Kept(c)
    BY <1>1, <2>1, ThreadType, HandIsOpen
  <2>3. Kept(b)' = Kept(b) /\ Closed(b)' = Closed(b)
    BY <2>1 DEF Kept, Received, BucketOf, Closed
  <2>4. Unsummed = {} /\ Uncounted = {r} /\ Unsummed' = {} /\ Uncounted' = {}
    BY <1>1, <2>1, ThreadType DEF Unsummed, Uncounted, Waiting
  <2>5. /\ StatsOf(b).sum = Kept(b) \ Unsummed /\ StatsOf(b).count = Kept(b) \ Uncounted
    BY <1>1, <2>1, <2>3 DEF BucketsComplete
  <2>6. CASE b = c
    BY <2>1, <2>2, <2>3, <2>4, <2>5, <2>6 DEF StatsOf
  <2>7. CASE b # c
    <3>1. StatsOf(b)' = StatsOf(b)
      BY <2>1, <2>7 DEF StatsOf, EmptyStats
    <3>2. r \notin Kept(b)
      BY <2>7 DEF Kept, Received
    <3> QED BY <2>3, <2>4, <2>5, <3>1, <3>2
  <2> QED BY <2>6, <2>7
<1>6. CASE Acknowledge
  <2>1. /\ buckets' = Unflushed(sending.bucket) /\ UNCHANGED <<now, stamp, thread, dropped>>
        /\ Closed(sending.bucket)
    BY <1>1, <1>6 DEF Acknowledge, CopiesCurrent, IsCopy
  <2>2. b # sending.bucket /\ (b \in DOMAIN buckets \/ ~Closed(b))
    BY <1>2, <2>1 DEF Unflushed
  <2>3. StatsOf(b)' = StatsOf(b)
    BY <2>1, <2>2 DEF StatsOf, Unflushed, EmptyStats
  <2>4. Kept(b)' = Kept(b) /\ Unsummed' = Unsummed /\ Uncounted' = Uncounted
    BY <2>1 DEF Kept, Received, BucketOf, Unsummed, Uncounted, Waiting
  <2> QED BY <1>1, <2>2, <2>3, <2>4 DEF BucketsComplete
<1>7. CASE Over
  <2>1. ~Closed(b) /\ buckets' = [c \in {} |-> EmptyStats] /\ thread' = Waiting
    BY <1>2, <1>7 DEF Over
  <2>2. \A r \in Kept(b) : r \in Held
    <3>1. Kept(b) \ Unsummed = StatsOf(b).sum
      BY <1>1, <2>1 DEF BucketsComplete
    <3>2. \A r \in StatsOf(b).sum : r \in Held
      BY HeldWhere DEF StatsOf, EmptyStats
    <3>3. \A r \in Unsummed : r \in Held
      BY <1>1, ThreadType, HeldWhere DEF Unsummed
    <3> QED BY <3>1, <3>2, <3>3
  <2>3. \A r \in Kept(b) : ~InMean(r)
    BY <2>1, InMeanIsClosed DEF Kept, Received
  <2>4. Kept(b)' = {}
    BY <1>7, <2>2, <2>3, OverKeeps
  <2>5. StatsOf(b)' = EmptyStats /\ Unsummed' = {} /\ Uncounted' = {}
    BY <2>1 DEF StatsOf, Unsummed, Uncounted, Waiting
  <2> QED BY <2>4, <2>5 DEF EmptyStats
<1>8. CASE UNCHANGED <<stamp, thread, buckets, dropped>>
  <2>1. StatsOf(b)' = StatsOf(b) /\ Kept(b)' = Kept(b)
    BY <1>8 DEF StatsOf, Kept, Received, BucketOf
  <2>2. Unsummed' = Unsummed /\ Uncounted' = Uncounted
    BY <1>8 DEF Unsummed, Uncounted, Waiting
  <2> QED BY <1>1, <1>2, <1>8, <2>1, <2>2 DEF BucketsComplete
<1> QED BY <1>3, <1>4, <1>5, <1>6, <1>7, <1>8
        DEF Next, OnMessage, PublishReady, Run, Poll, Publish, PublishFails, OnConnect, OnRefused,
            LoseSession, GoOn, Stop, Restart, Tick, aside, vars

\* A closed bucket does not change until it is dropped: no reading in hand is of it.
LEMMA ClosedIsFixed ==
  ASSUME DecoderInv, [Next]_vars, NEW b \in DOMAIN buckets, Closed(b)
  PROVE  \/ b \in DOMAIN buckets' /\ buckets'[b] = buckets[b]
         \/ Acknowledge /\ sending.bucket = b
         \/ Over
<1>1. TypeOK /\ InHandInTime /\ BucketsComplete
  BY DEF DecoderInv
<1>2. CASE AddToSum
  <2>1. b # BucketOf(thread.reading)
    BY <1>1, <1>2, SumEffect, ThreadType, HandIsOpen
  <2> QED BY <1>1, <1>2, <2>1, SumEffect
<1>3. CASE AddToCount
  <2>1. b # BucketOf(thread.reading)
    BY <1>1, <1>3, CountEffect, ThreadType, HandIsOpen
  <2> QED BY <1>1, <1>3, <2>1, CountEffect
<1>4. CASE Acknowledge
  BY <1>4 DEF Acknowledge, Unflushed
<1>5. CASE UNCHANGED buckets
  BY <1>5
<1> QED BY <1>2, <1>3, <1>4, <1>5
        DEF Next, OnMessage, PublishReady, Run, Receive, Poll, Publish, PublishFails, OnConnect,
            OnRefused, LoseSession, GoOn, Stop, Restart, Tick, aside, vars

\* What was copied is still so, and each bucket is copied once.
LEMMA CopiesStep == DecoderInv /\ [Next]_vars => CopiesCurrent'
<1> SUFFICES ASSUME DecoderInv, [Next]_vars PROVE CopiesCurrent'
  OBVIOUS
<1> USE DEF connection
<1>1. TypeOK /\ CopiesCurrent /\ \A b \in Bucket : Closed(b) => Closed(b)'
  BY StepFrame DEF DecoderInv
<1>2. ASSUME NEW mean, IsCopy(mean), ~Over, ~(Acknowledge /\ sending.bucket = mean.bucket)
      PROVE  IsCopy(mean)'
  <2>1. mean.bucket \in DOMAIN buckets /\ mean.bucket \in Bucket /\ Closed(mean.bucket)
    BY <1>1, <1>2 DEF IsCopy, TypeOK
  <2>2. mean.bucket \in DOMAIN buckets' /\ buckets'[mean.bucket] = buckets[mean.bucket]
    BY <1>2, <2>1, ClosedIsFixed
  <2> QED BY <1>1, <1>2, <2>1, <2>2 DEF IsCopy
<1>3. CASE Over
  BY <1>3 DEF Over, CopiesCurrent
<1>4. CASE Poll
  <2>1. ~Over /\ ~Acknowledge /\ ready' = ReadyToFlush /\ sending' = None
    BY <1>4 DEF Poll, Over, Acknowledge
  <2>2. \A mean \in ReadyToFlush : IsCopy(mean)
    BY DEF ReadyToFlush, IsCopy
  <2> QED BY <1>2, <2>1, <2>2 DEF CopiesCurrent
<1>5. ASSUME NEW mean \in ready, Publish(mean) PROVE CopiesCurrent'
  <2>1. ready' = ready \ {mean} /\ sending' = mean /\ ~Acknowledge
    BY <1>5 DEF Publish, Acknowledge
  <2>2. CASE ~Over
    BY <1>1, <1>2, <1>5, <2>1, <2>2 DEF CopiesCurrent
  <2> QED BY <1>3, <2>2
<1>6. CASE Acknowledge /\ ~Over
  <2>1. sending # None /\ sending \notin ready /\ ready' = ready /\ sending' = None
    BY <1>1, <1>6 DEF Acknowledge, CopiesCurrent
  <2>2. ASSUME NEW mean \in ready PROVE mean.bucket # sending.bucket
    <3>1. mean \in Mean /\ sending \in Mean /\ IsCopy(mean) /\ IsCopy(sending)
      BY <1>1, <2>1 DEF CopiesCurrent, TypeOK
    <3>2. mean.bucket = sending.bucket => mean = sending
      BY <3>1 DEF IsCopy, Mean
    <3> QED BY <2>1, <3>2
  <2> QED BY <1>1, <1>2, <1>6, <2>1, <2>2 DEF CopiesCurrent
<1>7. CASE ready' = ready /\ (sending' = sending \/ sending' = None) /\ ~Over /\ ~Acknowledge
  BY <1>1, <1>2, <1>7 DEF CopiesCurrent
<1> QED BY <1>3, <1>4, <1>5, <1>6, <1>7
        DEF Next, OnMessage, PublishReady, Run, Receive, AddToSum, AddToCount, PublishFails,
            OnConnect, OnRefused, LoseSession, GoOn, Stop, Restart, Tick, aside, vars

\* What the main thread sends is a whole mean of a closed minute.
LEMMA SendingIsWhole ==
  ASSUME DecoderInv, sending # None
  PROVE  /\ sending.bucket \in Bucket /\ Closed(sending.bucket)
         /\ sending.sum = Kept(sending.bucket) /\ sending.count = Kept(sending.bucket)
BY ClosedIsWhole DEF DecoderInv, TypeOK, CopiesCurrent, IsCopy

\* What a step adds to the means delivered.
LEMMA DeliveredStep ==
  ASSUME DecoderInv, [Next]_vars
  PROVE  \/ delivered' = delivered
         \/ /\ sending # None /\ Deliver
            /\ UNCHANGED <<now, stamp, thread, dropped>>
            /\ \/ Acknowledge
               \/ faults' = faults + 1 /\ UNCHANGED buckets
BY DEF Next, OnMessage, PublishReady, Run, Receive, AddToSum, AddToCount, Poll, Publish,
       Acknowledge, PublishFails, OnConnect, OnRefused, LoseSession, GoOn, Stop, Restart, Over,
       Tick, aside, vars, connection

\* A delivery adds one mean, the one that was sent.
LEMMA DeliverAdds ==
  ASSUME Deliver
  PROVE  \E d : d.mean = sending /\ delivered' = delivered \cup {d}
<1> DEFINE d == [mean |-> sending, time |-> now,
                 nth  |-> Cardinality(Deliveries(sending.bucket)) + 1]
<1>1. d.mean = sending
  OBVIOUS
<1>2. delivered' = delivered \cup {d}
  BY DEF Deliver, Deliveries
<1> HIDE DEF d
<1> QED BY <1>1, <1>2

\* A closed minute gets no more readings, and keeps those that are in a mean.
LEMMA KeptStays ==
  ASSUME DecoderInv, [Next]_vars, NEW b \in Bucket, Closed(b), \A r \in Kept(b) : InMean(r)
  PROVE  Kept(b)' = Kept(b)
<1>1. CASE \E n \in Reading : Receive(n)
  <2>1. PICK n \in Reading : Receive(n)
    BY <1>1
  <2>2. stamp' = [stamp EXCEPT ![n] = now] /\ stamp[n] = None /\ UNCHANGED <<now, dropped>>
    BY <2>1 DEF Receive
  <2>3. BucketOf(n)' # b
    <3>1. BucketOf(n)' = <<OutputOf[n], MinuteOf(now)>>
      BY <2>2 DEF BucketOf, DecoderInv, TypeOK
    <3>2. b[2] # MinuteOf(now)
      BY NowIsOpen DEF DecoderInv
    <3> QED BY <3>1, <3>2
  <2>4. \A r \in Reading : r # n => stamp'[r] = stamp[r] /\ BucketOf(r)' = BucketOf(r)
    BY <2>2 DEF DecoderInv, TypeOK, BucketOf
  <2>5. Received(b)' = Received(b)
    BY <2>2, <2>3, <2>4 DEF Received
  <2> QED BY <2>2, <2>5 DEF Kept
<1>2. CASE Over
  BY <1>2, OverKeeps
<1>3. CASE UNCHANGED <<stamp, dropped>>
  BY <1>3 DEF Kept, Received, BucketOf
<1> QED BY <1>1, <1>2, <1>3, StepFrame DEF Receive, Over

\* Every mean delivered is whole, when it is and for ever after.
LEMMA WholeStep == DecoderInv /\ [Next]_vars => DeliveredClosed' /\ MeansAreWhole'
<1> SUFFICES ASSUME DecoderInv, [Next]_vars, NEW d \in delivered'
             PROVE  /\ Closed(d.mean.bucket)'
                    /\ d.mean.sum = d.mean.count /\ d.mean.sum = Kept(d.mean.bucket)'
  BY DEF DeliveredClosed, MeansAreWhole, Kept
<1>1. CASE d \in delivered
  <2> DEFINE b == d.mean.bucket
  <2>1. b \in Bucket /\ Closed(b) /\ d.mean.sum = d.mean.count /\ d.mean.sum = Kept(b)
    BY <1>1 DEF DecoderInv, DeliveredClosed, MeansAreWhole, Kept, TypeOK, Delivery, Mean
  <2>2. \A r \in Kept(b) : InMean(r)
    BY <1>1, <2>1 DEF InMean
  <2> QED BY <2>1, <2>2, KeptStays, StepFrame
<1>2. CASE d \notin delivered
  <2>1. sending # None /\ Deliver /\ UNCHANGED <<now, stamp, dropped>>
    BY <1>2, DeliveredStep
  <2>2. d.mean = sending
    BY <1>2, <2>1 DEF Deliver
  <2>3. \A b : Kept(b)' = Kept(b) /\ Closed(b)' = Closed(b)
    BY <2>1 DEF Kept, Received, BucketOf, Closed
  <2> QED BY <2>1, <2>2, <2>3, SendingIsWhole
<1> QED BY <1>1, <1>2

\* A bucket is dropped when its readings are in a mean the broker has, or by a restart,
\* which takes account of those that are not.
LEMMA AccountedStep == DecoderInv /\ [Next]_vars => Accounted'
<1> SUFFICES ASSUME DecoderInv, [Next]_vars, NEW r \in Reading, stamp'[r] # None, r \notin dropped'
             PROVE  InMean(r)' \/ r \in Held'
  BY DEF Accounted
<1> USE DEF connection
<1>1. TypeOK /\ InHandInTime /\ BucketsComplete /\ CopiesCurrent /\ Accounted
  BY DEF DecoderInv
<1>2. InMean(r) => InMean(r)'
  BY DeliveredStep DEF Deliver, InMean
<1>3. CASE \E n \in Reading : Receive(n)
  <2>1. PICK n \in Reading : Receive(n)
    BY <1>3
  <2>2. /\ stamp' = [stamp EXCEPT ![n] = now] /\ thread = Waiting
        /\ thread' = [at |-> "stamped", reading |-> n] /\ UNCHANGED <<buckets, dropped>>
    BY <2>1 DEF Receive
  <2>3. n \in Held'
    BY <2>2 DEF Held, Waiting
  <2>4. r # n => stamp[r] # None /\ r \notin dropped
    BY <1>1, <2>2 DEF TypeOK
  <2>5. \A q : q \in Held => q \in Held'
    BY <2>2 DEF Held
  <2> QED BY <1>1, <1>2, <2>3, <2>4, <2>5 DEF Accounted
<1>4. ASSUME AddToSum \/ AddToCount
      PROVE  InMean(r)' \/ r \in Held'
  <2>1. stamp[r] # None /\ r \notin dropped
    BY <1>4 DEF AddToSum, AddToCount
  <2>2. CASE AddToSum
    <3>1. /\ thread' # Waiting /\ thread'.reading = thread.reading
          /\ \A b \in DOMAIN buckets :
               b \in DOMAIN buckets' /\ buckets[b].sum \subseteq buckets'[b].sum
      BY <1>1, <2>2, SumEffect DEF Waiting, StatsOf
    <3>2. \A q : q \in Held => q \in Held'
      BY <3>1, HeldWhere DEF Held
    <3> QED BY <1>1, <1>2, <2>1, <3>2 DEF Accounted
  <2>3. CASE AddToCount
    <3>1. /\ \A b \in DOMAIN buckets :
               b \in DOMAIN buckets' /\ buckets[b].sum \subseteq buckets'[b].sum
          /\ \E b \in DOMAIN buckets : thread.reading \in buckets[b].sum
      BY <1>1, <2>3, CountEffect
    <3>2. \A q : q \in Held => q \in Held'
      BY <3>1, HeldWhere DEF Held
    <3> QED BY <1>1, <1>2, <2>1, <3>2 DEF Accounted
  <2> QED BY <1>4, <2>2, <2>3
<1>5. CASE Acknowledge
  <2>1. stamp[r] # None /\ r \notin dropped /\ sending # None /\ Deliver /\ thread' = thread
        /\ buckets' = Unflushed(sending.bucket)
    BY <1>5 DEF Acknowledge
  <2>2. sending.bucket \in DOMAIN buckets /\ sending.sum = buckets[sending.bucket].sum
    BY <1>1, <2>1 DEF CopiesCurrent, IsCopy
  <2>3. r \in sending.sum => InMean(r)'
    BY <2>1, DeliverAdds DEF InMean
  <2>4. ASSUME r \in Held PROVE r \in sending.sum \/ r \in Held'
    <3>1. CASE thread # Waiting /\ r = thread.reading
      BY <2>1, <3>1 DEF Held, Waiting
    <3>2. ASSUME NEW b \in DOMAIN buckets, r \in buckets[b].sum
          PROVE  r \in sending.sum \/ r \in Held'
      <4>1. b # sending.bucket => b \in DOMAIN buckets' /\ buckets'[b] = buckets[b]
        BY <2>1 DEF Unflushed
      <4> QED BY <2>2, <3>2, <4>1 DEF Held
    <3> QED BY <2>4, <3>1, <3>2, HeldWhere
  <2> QED BY <1>1, <1>2, <2>1, <2>3, <2>4 DEF Accounted
<1>6. CASE Over
  <2>1. stamp[r] # None /\ r \notin dropped /\ (r \in Held => InMean(r))
    BY <1>6 DEF Over
  <2> QED BY <1>1, <1>2, <2>1 DEF Accounted
<1>7. CASE UNCHANGED <<stamp, thread, buckets, dropped>>
  <2>1. Held' = Held
    BY <1>7 DEF Held, Waiting
  <2> QED BY <1>1, <1>2, <1>7, <2>1 DEF Accounted
<1> QED BY <1>3, <1>4, <1>5, <1>6, <1>7
        DEF Next, OnMessage, PublishReady, Run, Poll, Publish, PublishFails, OnConnect, OnRefused,
            LoseSession, GoOn, Stop, Restart, Tick, aside, vars

\* A bucket that a fault did not leave in place is dropped, and never comes back.
LEMMA FaultStep == DecoderInv /\ [Next]_vars => OneFaultEach' /\ RepeatedOnlyByFaults'
<1> SUFFICES ASSUME DecoderInv, [Next]_vars
             PROVE  /\ IsFiniteSet(delivered')
                    /\ \A b \in DOMAIN buckets' : Cardinality(Deliveries(b)') <= faults'
                    /\ \A b \in Bucket : Cardinality(Deliveries(b)') <= 1 + faults'
  BY DEF OneFaultEach, RepeatedOnlyByFaults, Deliveries
<1>1. /\ TypeOK /\ TypeOK' /\ InHandInTime /\ BucketsComplete /\ CopiesCurrent /\ DeliveredClosed
      /\ IsFiniteSet(delivered) /\ \A b \in DOMAIN buckets : Cardinality(Deliveries(b)) <= faults
      /\ \A b \in Bucket : Cardinality(Deliveries(b)) <= 1 + faults
      /\ faults \in Nat /\ faults' \in Nat /\ faults <= faults'
  BY TypeStep, StepFrame, ThreadType DEF DecoderInv, OneFaultEach, RepeatedOnlyByFaults, Deliveries
<1>2. \A b : IsFiniteSet(Deliveries(b)) /\ Cardinality(Deliveries(b)) \in Nat
  BY <1>1, FS_Subset, FS_CardinalityType DEF Deliveries
<1>3. ASSUME NEW b \in DOMAIN buckets', b \notin DOMAIN buckets
      PROVE  Deliveries(b) = {} /\ delivered' = delivered
  <2>1. AddToSum /\ b = BucketOf(thread.reading) /\ ~Closed(b) /\ delivered' = delivered
    <3>1. AddToSum
      BY <1>1, <1>3, CountEffect
         DEF Next, OnMessage, PublishReady, Run, Receive, Poll, Publish, Acknowledge, PublishFails,
             OnConnect, OnRefused, LoseSession, GoOn, Stop, Restart, Over, Tick, Unflushed,
             aside, vars, connection
    <3> QED BY <1>1, <1>3, <3>1, SumEffect, ThreadType, HandIsOpen
  <2> QED BY <1>1, <2>1 DEF DeliveredClosed, Deliveries
<1>4. CASE delivered' = delivered
  <2>1. \A b : Deliveries(b)' = Deliveries(b)
    BY <1>4 DEF Deliveries
  <2>2. \A b \in DOMAIN buckets' : Cardinality(Deliveries(b)') <= faults'
    BY <1>1, <1>2, <1>3, <2>1, FS_EmptySet
  <2> QED BY <1>1, <1>2, <1>4, <2>1, <2>2
<1>5. CASE delivered' # delivered
  <2>0. PICK c : c = sending.bucket
    OBVIOUS
  <2>1. /\ sending # None /\ Deliver /\ c \in DOMAIN buckets /\ c \in Bucket
        /\ (Acknowledge /\ buckets' = Unflushed(c)) \/ (faults' = faults + 1 /\ UNCHANGED buckets)
    BY <1>1, <1>5, <2>0, DeliveredStep DEF Acknowledge, CopiesCurrent, IsCopy, TypeOK
  <2>2. PICK d : d.mean = sending /\ delivered' = delivered \cup {d}
    BY <2>1, DeliverAdds
  <2>3. IsFiniteSet(delivered')
    BY <1>1, <2>2, FS_AddElement
  <2>4. ASSUME NEW b, b # c PROVE Deliveries(b)' = Deliveries(b)
    BY <2>0, <2>2, <2>4 DEF Deliveries
  <2>5. Deliveries(c)' = Deliveries(c) \cup {d}
    BY <2>0, <2>2 DEF Deliveries
  <2>6. /\ Cardinality(Deliveries(c)') <= Cardinality(Deliveries(c)) + 1
        /\ Cardinality(Deliveries(c)') \in Nat
    <3>1. /\ IsFiniteSet(Deliveries(c)')
          /\ \/ Cardinality(Deliveries(c)') = Cardinality(Deliveries(c))
             \/ Cardinality(Deliveries(c)') = Cardinality(Deliveries(c)) + 1
      BY <1>2, <2>5, FS_AddElement
    <3>2. Cardinality(Deliveries(c)') \in Nat
      BY <3>1, FS_CardinalityType
    <3> QED BY <1>2, <3>1, <3>2
  <2>7. Cardinality(Deliveries(c)) <= faults /\ Cardinality(Deliveries(c)) \in Nat
    BY <1>1, <1>2, <2>1
  <2>8. c \in DOMAIN buckets' => faults' = faults + 1
    BY <2>1 DEF Unflushed
  <2>9. ASSUME NEW b \in Bucket PROVE Cardinality(Deliveries(b)') <= 1 + faults'
    <3>1. CASE b = c
      BY <1>1, <2>6, <2>7, <3>1
    <3>2. CASE b # c
      BY <1>1, <1>2, <2>4, <3>2
    <3> QED BY <3>1, <3>2
  <2>10. ASSUME NEW b \in DOMAIN buckets' PROVE Cardinality(Deliveries(b)') <= faults'
    <3>1. CASE b = c
      <4>1. faults' = faults + 1
        BY <2>8, <2>10, <3>1
      <4> QED BY <1>1, <2>6, <2>7, <3>1, <4>1
    <3>2. CASE b # c
      <4>1. b \in DOMAIN buckets
        BY <1>3, <1>5
      <4> QED BY <1>1, <1>2, <2>4, <3>2, <4>1
    <3> QED BY <3>1, <3>2
  <2> QED BY <2>3, <2>9, <2>10
<1> QED BY <1>4, <1>5

-----------------------------------------------------------------------------
(* The theorems. *)

\* The inductive invariant holds when the service is started.
LEMMA InvInit == Init => DecoderInv
<1> SUFFICES ASSUME Init PROVE DecoderInv
  OBVIOUS
<1>1. TypeOK
  <2>1. now \in 0..MaxTime /\ faults \in 0..MaxFaults
    BY ClockAssumption DEF Init
  <2>2. DOMAIN buckets = {} /\ buckets \in [DOMAIN buckets -> Stats]
    BY DEF Init
  <2>3. thread \in ThreadState /\ stamp \in [Reading -> 0..MaxTime \cup {None}]
    BY DEF Init, ThreadState
  <2>4. /\ phase \in {"starting", "running"} /\ session \in {"none", "deaf", "subscribed"}
        /\ readied \in BOOLEAN /\ stopping \in BOOLEAN
        /\ ready = {} /\ sending = None /\ delivered = {} /\ dropped = {}
    BY DEF Init
  <2> QED BY <2>1, <2>2, <2>3, <2>4 DEF TypeOK
<1>2. \A r \in Reading : stamp[r] = None
  BY DEF Init
<1>3. StampsPast /\ InHandInTime /\ CopiesCurrent /\ DeliveredClosed /\ MeansAreWhole
  BY <1>2 DEF Init, StampsPast, InHandInTime, CopiesCurrent, DeliveredClosed, MeansAreWhole
<1>4. Accounted
  BY <1>2 DEF Accounted
<1>5. BucketsComplete
  <2>1. \A b : Kept(b) = {} /\ StatsOf(b) = EmptyStats
    BY <1>2 DEF Init, Kept, Received, StatsOf
  <2> QED BY <2>1 DEF BucketsComplete, EmptyStats
<1>6. OneFaultEach /\ RepeatedOnlyByFaults
  <2>1. delivered = {} /\ faults = 0 /\ DOMAIN buckets = {}
    BY DEF Init
  <2>2. IsFiniteSet(delivered) /\ \A b : {d \in delivered : d.mean.bucket = b} = {}
    BY <2>1, FS_EmptySet
  <2> QED BY <2>1, <2>2, FS_EmptySet DEF OneFaultEach, RepeatedOnlyByFaults
<1> QED BY <1>1, <1>3, <1>4, <1>5, <1>6 DEF DecoderInv

\* Every step of either thread, the broker and the clock keeps it.
LEMMA InvStep == DecoderInv /\ [Next]_vars => DecoderInv'
BY TypeStep, StampsStep, HandStep, BucketsStep, CopiesStep, WholeStep, AccountedStep, FaultStep
   DEF DecoderInv

\* The inductive invariant holds in every reachable state.
THEOREM Invariance == Spec => []DecoderInv
BY InvInit, InvStep, PTL DEF Spec

\* Every variable keeps its type; deliveries of one minute are numbered within the faults.
THEOREM TypeCorrect == Spec => []TypeOK
<1>1. DecoderInv => TypeOK
  BY DEF DecoderInv
<1> QED BY <1>1, Invariance, PTL

\* Without a lock on the buckets, a mean that the broker gets has every reading of its
\* minute in its sum and in its count, but for those a restart lost.
THEOREM WholeMeans == Spec => []MeansAreWhole
<1>1. DecoderInv => MeansAreWhole
  BY DEF DecoderInv
<1> QED BY <1>1, Invariance, PTL

\* A reading received is in memory, in a mean delivered, or lost by a restart.
THEOREM AllAccounted == Spec => []Accounted
<1>1. DecoderInv => Accounted
  BY DEF DecoderInv
<1> QED BY <1>1, Invariance, PTL

\* A minute's mean is delivered once, and once more for each fault at most.
THEOREM FewRepeats == Spec => []RepeatedOnlyByFaults
<1>1. DecoderInv => RepeatedOnlyByFaults
  BY DEF DecoderInv
<1> QED BY <1>1, Invariance, PTL

=============================================================================
