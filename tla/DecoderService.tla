--------------------------- MODULE DecoderService ---------------------------
(***************************************************************************)
(* The decoder-aggregator (services/decoder_aggregator): the MQTT client's *)
(* thread stamps each raw message, decodes it and adds it to the bucket of *)
(* its minute; the main thread polls for closed minutes, publishes their   *)
(* means and only then drops the bucket.  The buckets have no lock.  The   *)
(* MQTT thread also connects and subscribes, at every connection, and asks *)
(* the main thread to stop when the broker refuses it.                     *)
(*                                                                         *)
(* A message is one reading of one metric.  A bucket's sum and count are   *)
(* the sets of readings added to either, since each is a step of its own;  *)
(* a mean is the pair.  Time counts ticks, MinuteLength of them a minute.  *)
(***************************************************************************)
EXTENDS Integers, FiniteSets

CONSTANTS
  Reading,       \* the raw messages the service receives and can decode
  Device,        \* output devices
  OutputOf,      \* profile.output_device_id for a reading
  MinuteLength, FlushDelay,
  MaxLag,        \* the longest a message may take from its stamp to its bucket
  MaxTime,       \* bound: the clock of the model stops here
  MaxFaults,     \* bound: failed publishes, lost or refused connections, restarts
  None

ASSUME ReadingAssumption == OutputOf \in [Reading -> Device]
ASSUME ClockAssumption ==
  /\ MinuteLength \in Nat \ {0} /\ FlushDelay \in Nat
  /\ MaxLag \in Nat /\ MaxTime \in Nat /\ MaxFaults \in Nat
  /\ None \notin Nat
\* Not checked by the program: a message held up longer would come after its minute's mean.
ASSUME LagAssumption == MaxLag <= FlushDelay

Minute == 0..(MaxTime \div MinuteLength)
Bucket == Device \X Minute
Stats  == [sum : SUBSET Reading, count : SUBSET Reading]
Mean   == [bucket : Bucket, sum : SUBSET Reading, count : SUBSET Reading]

VARIABLES
  now,
  stamp,      \* observed_at of each reading received, None before
  thread,     \* the MQTT thread: waiting, or where it is with which reading
  buckets,    \* MinuteAggregator._buckets
  ready,      \* the rest of the means the main thread has to publish in this poll
  sending,    \* the mean whose PUBACK it waits for, or None
  delivered,  \* the means the broker has, with the time and number of each delivery
  dropped,    \* the readings a restart lost before any mean of them was delivered
  phase,      \* where run() is: "starting" or "running" its loop
  session,    \* the subscriber at the broker: "none", "deaf" or "subscribed"
  readied,    \* _subscriber_ready
  stopping,   \* _stop_event
  faults

connection == <<phase, session, readied, stopping>>
vars == <<now, stamp, thread, buckets, ready, sending, delivered, dropped, connection, faults>>

Waiting == [at |-> "waiting"]
ThreadState == {Waiting} \cup [at : {"stamped", "summed"}, reading : Reading]
Delivery == [mean : Mean, time : 0..MaxTime, nth : 1..(MaxFaults + 1)]

\* Defect: a minute is named by its end.
MinuteAfter(t) == t \div MinuteLength + 1

MinuteOf(t) == t \div MinuteLength
BucketOf(r) == <<OutputOf[r], MinuteOf(stamp[r])>>

-----------------------------------------------------------------------------
(* MinuteAggregator. *)

EmptyStats == [sum |-> {}, count |-> {}]
StatsOf(b) == IF b \in DOMAIN buckets THEN buckets[b] ELSE EmptyStats

WithStats(b, stats) ==
  [c \in DOMAIN buckets \cup {b} |-> IF c = b THEN stats ELSE buckets[c]]

\* Defect: a minute is closed as soon as it is over.
ClosedAtOnce(b) == (b[2] + 1) * MinuteLength <= now

Closed(b) == (b[2] + 1) * MinuteLength <= now - FlushDelay

ReadyToFlush ==
  {[bucket |-> b, sum |-> buckets[b].sum, count |-> buckets[b].count] :
     b \in {c \in DOMAIN buckets : Closed(c)}}

\* Defects: one acknowledgement drops all buckets; or none.
UnflushedNone(b) == [c \in {} |-> EmptyStats]
UnflushedAll(b) == buckets

Unflushed(b) == [c \in DOMAIN buckets \ {b} |-> buckets[c]]

-----------------------------------------------------------------------------
(* The MQTT client's thread: _on_connect and _on_message. *)

aside == <<now, stamp, thread, buckets, ready, sending, delivered, dropped>>

\* Defect: only the first connection is subscribed.
OnConnectOnce ==
  /\ session = "none" /\ thread = Waiting
  /\ session' = IF readied THEN "deaf" ELSE "subscribed"
  /\ readied' = TRUE
  /\ UNCHANGED <<aside, phase, stopping, faults>>

\* Connected: the broker keeps no session, so it is subscribed each time.
OnConnect ==
  /\ session = "none" /\ thread = Waiting
  /\ session' = "subscribed"
  /\ readied' = TRUE
  /\ UNCHANGED <<aside, phase, stopping, faults>>

\* The broker refuses the connection, which the client goes on trying.
OnRefused ==
  /\ session = "none" /\ thread = Waiting
  /\ faults < MaxFaults /\ faults' = faults + 1
  /\ stopping' = TRUE
  /\ UNCHANGED <<aside, phase, session, readied>>

LoseSession ==
  /\ session # "none"
  /\ faults < MaxFaults /\ faults' = faults + 1
  /\ session' = "none"
  /\ UNCHANGED <<aside, phase, readied, stopping>>

\* What is sent while there is no subscription never comes.
Receive(r) ==
  /\ thread = Waiting
  /\ session = "subscribed"
  /\ stamp[r] = None
  /\ stamp' = [stamp EXCEPT ![r] = now]
  /\ thread' = [at |-> "stamped", reading |-> r]
  /\ UNCHANGED <<now, buckets, ready, sending, delivered, dropped, connection, faults>>

\* record(), up to stats[0] += value.
AddToSum ==
  /\ thread.at = "stamped"
  /\ LET r == thread.reading
         old == StatsOf(BucketOf(r)) IN
     /\ buckets' = WithStats(BucketOf(r), [old EXCEPT !.sum = @ \cup {r}])
     /\ thread' = [at |-> "summed", reading |-> r]
  /\ UNCHANGED <<now, stamp, ready, sending, delivered, dropped, connection, faults>>

\* stats[1] += 1, on the bucket found above even if it was dropped meanwhile.
AddToCount ==
  /\ thread.at = "summed"
  /\ LET r == thread.reading
         b == BucketOf(r) IN
     buckets' = IF b \in DOMAIN buckets
                THEN [buckets EXCEPT ![b].count = @ \cup {r}]
                ELSE buckets
  /\ thread' = Waiting
  /\ UNCHANGED <<now, stamp, ready, sending, delivered, dropped, connection, faults>>

-----------------------------------------------------------------------------
(* The main thread: run, and _publish_ready once per poll. *)

GoOn ==
  /\ phase = "starting"
  /\ readied /\ ~stopping
  /\ phase' = "running"
  /\ UNCHANGED <<aside, session, readied, stopping, faults>>

Poll ==
  /\ phase = "running" /\ ~stopping
  /\ ready = {} /\ sending = None
  /\ ready' = ReadyToFlush
  /\ ready' # {}
  /\ UNCHANGED <<now, stamp, thread, buckets, sending, delivered, dropped, connection, faults>>

\* The earliest bucket first; the call then waits for the broker.
Publish(mean) ==
  /\ sending = None
  /\ mean \in ready
  /\ \A other \in ready : mean.bucket[2] <= other.bucket[2]
  /\ sending' = mean
  /\ ready' = ready \ {mean}
  /\ UNCHANGED <<now, stamp, thread, buckets, delivered, dropped, connection, faults>>

Deliver ==
  LET before == {d \in delivered : d.mean.bucket = sending.bucket} IN
  delivered' = delivered \cup
    {[mean |-> sending, time |-> now, nth |-> Cardinality(before) + 1]}

\* Acknowledged: the bucket is dropped.
Acknowledge ==
  /\ sending # None
  /\ Deliver
  /\ buckets' = Unflushed(sending.bucket)
  /\ sending' = None
  /\ UNCHANGED <<now, stamp, thread, ready, dropped, connection, faults>>

\* Defect: the bucket is dropped whether or not its mean was delivered.
PublishFailsAndDrops ==
  /\ sending # None
  /\ faults < MaxFaults /\ faults' = faults + 1
  /\ buckets' = Unflushed(sending.bucket)
  /\ sending' = None
  /\ UNCHANGED <<now, stamp, thread, ready, delivered, dropped, connection>>

\* publish or wait_for_publish raises, or rc is no success: the client is discarded and
\* the bucket kept for the next poll.  The broker may have the message all the same.
PublishFails ==
  /\ sending # None
  /\ faults < MaxFaults /\ faults' = faults + 1
  /\ Deliver \/ UNCHANGED delivered
  /\ sending' = None
  /\ UNCHANGED <<now, stamp, thread, buckets, ready, dropped, connection>>

\* What is in memory alone.
Held ==
  (UNION {buckets[b].sum : b \in DOMAIN buckets})
    \cup (IF thread = Waiting THEN {} ELSE {thread.reading})

InMean(r) == \E d \in delivered : r \in d.mean.sum

\* The process ends and is started again: what was in memory is gone.
Over ==
  /\ dropped' = dropped \cup {r \in Held : ~InMean(r)}
  /\ buckets' = [b \in {} |-> EmptyStats]
  /\ thread' = Waiting
  /\ ready' = {}
  /\ sending' = None
  /\ phase' = "starting" /\ session' = "none" /\ readied' = FALSE /\ stopping' = FALSE
  /\ UNCHANGED <<now, stamp, delivered>>

\* Asked to stop, run raises before its loop, or leaves it after what is left of a poll.
Stop ==
  /\ stopping
  /\ ready = {} /\ sending = None
  /\ Over
  /\ UNCHANGED faults

\* A crash, or no connection within ten seconds of the start.
Restart ==
  /\ faults < MaxFaults /\ faults' = faults + 1
  /\ Over

-----------------------------------------------------------------------------
\* Time passes, but no message is held up longer than MaxLag.
Tick ==
  /\ now < MaxTime
  /\ thread # Waiting => now < stamp[thread.reading] + MaxLag
  /\ now' = now + 1
  /\ UNCHANGED <<stamp, thread, buckets, ready, sending, delivered, dropped, connection, faults>>

Init ==
  /\ now = 0
  /\ stamp = [r \in Reading |-> None]
  /\ thread = Waiting
  /\ buckets = [b \in {} |-> EmptyStats]
  /\ ready = {}
  /\ sending = None
  /\ delivered = {}
  /\ dropped = {}
  /\ phase = "starting" /\ session = "none" /\ readied = FALSE /\ stopping = FALSE
  /\ faults = 0

OnMessage == AddToSum \/ AddToCount
Run == GoOn \/ Stop
PublishReady == Poll \/ (\E mean \in ready : Publish(mean)) \/ Acknowledge

Next ==
  \/ \E r \in Reading : Receive(r)
  \/ OnMessage
  \/ PublishReady
  \/ PublishFails
  \/ OnConnect \/ OnRefused \/ LoseSession
  \/ Run
  \/ Restart
  \/ Tick

Spec == Init /\ [][Next]_vars

\* Both threads run, the client connects again by itself, and the broker answers unless a
\* fault says otherwise.
FairSpec ==
  /\ Spec /\ WF_vars(Tick)
  /\ WF_vars(OnMessage) /\ WF_vars(OnConnect)
  /\ WF_vars(PublishReady) /\ WF_vars(Run)

-----------------------------------------------------------------------------
(* The properties. *)

TypeOK ==
  /\ now \in 0..MaxTime
  /\ stamp \in [Reading -> 0..MaxTime \cup {None}]
  /\ thread \in ThreadState
  /\ DOMAIN buckets \subseteq Bucket /\ buckets \in [DOMAIN buckets -> Stats]
  /\ ready \subseteq Mean
  /\ sending = None \/ sending \in Mean
  /\ delivered \subseteq Delivery
  /\ dropped \subseteq Reading
  /\ phase \in {"starting", "running"} /\ session \in {"none", "deaf", "subscribed"}
  /\ readied \in BOOLEAN /\ stopping \in BOOLEAN
  /\ faults \in 0..MaxFaults

\* A mean the broker gets is of a closed minute and of all its readings: no reading of
\* that minute comes after it, none is counted twice, and none is in the sum alone.
Received(b) == {r \in Reading : stamp[r] # None /\ BucketOf(r) = b}
MeansAreWhole ==
  \A d \in delivered :
    /\ d.mean.sum = d.mean.count
    /\ d.mean.sum = Received(d.mean.bucket) \ dropped

\* A reading is never lost but by a restart: it is on its way to a bucket, in one, or
\* in a mean the broker has.
Accounted ==
  \A r \in Reading :
    stamp[r] # None /\ r \notin dropped => InMean(r) \/ r \in Held

\* A minute's mean is delivered again only after a failure.
RepeatedOnlyByFaults ==
  \A b \in Bucket : Cardinality({d \in delivered : d.mean.bucket = b}) <= 1 + faults

\* Every reading whose minute closes in time reaches the broker, if no restart loses it.
InTime(r) ==
  stamp[r] # None /\ (MinuteOf(stamp[r]) + 1) * MinuteLength + FlushDelay <= MaxTime
AllDelivered == \A r \in Reading : InTime(r) ~> InMean(r) \/ r \in dropped

\* However the broker loses or refuses it, the service ends up in its loop with a
\* subscription: it is neither left waiting, nor stopped, nor running deaf.
Recovers == <>[](phase = "running" /\ session = "subscribed" /\ ~stopping)

\* The database files a mean under the minute it arrives in, having no other time for it.
FiledUnder(d) == MinuteOf(d.time)

\* The design's "window timestamp": the minute the readings were received in.
FiledUnderItsMinute == \A d \in delivered : FiledUnder(d) = d.mean.bucket[2]

=============================================================================
