------------------------------- MODULE Ingest -------------------------------
(***************************************************************************)
(* The telemetry store: the SQL function ingest_telemetry and the tables   *)
(* it writes (postgres/initdb/001_iot_init.sql).  One call is one database *)
(* transaction, so it is one action: a call that raises leaves no trace.   *)
(*                                                                         *)
(* A timestamp is a natural number, a metric value an element of Value.    *)
(* A JSON key is a number, its rank in jsonb's own key order; Lower is the *)
(* SQL function lower() on keys.                                           *)
(***************************************************************************)
EXTENDS Integers

CONSTANTS
  Plant, Point, Device,
  Key, Metric, Lower,
  Value, NotNumeric,     \* values that cast to double precision, one that does not
  Shape,                 \* the sets of keys a payload may have
  Time, NoTime,          \* NoTime is SQL's NULL
  Receipt,               \* the times the server's clock may show
  Interval, AlignMode,   \* settings the operators give devices
  RawId

ASSUME KeyAssumption  == Key \subseteq Nat /\ Lower \in [Key -> Metric]
ASSUME TimeAssumption == Receipt \subseteq Time /\ Time \subseteq Nat /\ NoTime \notin Nat
ASSUME IdAssumption   == RawId \subseteq Nat
ASSUME SettingAssumption ==
  /\ Interval \subseteq Nat \ {0}
  /\ AlignMode \subseteq {"floor", "round"}
ASSUME PayloadAssumption == NotNumeric \notin Value /\ Shape \subseteq SUBSET Key
\* A payload is finite: of its keys for one metric, one comes last.
ASSUME LastKeyAssumption ==
  \A K \in Shape : \A k \in K : \E l \in K :
    Lower[l] = Lower[k] /\ \A j \in K : Lower[j] = Lower[k] => j <= l

VARIABLES
  plantOf,     \* point.plant_id
  device,      \* the rows of device, but for last_seen_at
  lastSeen,    \* device.last_seen_at
  raw,         \* raw_message, a function from raw_id to the row
  sample,      \* metric_sample, a set: a row is told apart by the key it came from
  catalog      \* metric_sample_source, a function from its primary key

vars == <<plantOf, device, lastSeen, raw, sample, catalog>>

Topic   == [plant : Plant, point : Point, device : Device]
Payload == UNION {[K -> Value \cup {NotNumeric}] : K \in Shape}

\* What EMQX hands to the function.  "form" stands for everything that makes the
\* function refuse a message by its shape alone: the topic's words, a payload that
\* is no object or has a forbidden key, an _observed_at that is no timestamp.
Message == [topic : Topic, client : Device, source : Time \cup {NoTime},
            payload : Payload, form : {"good", "bad"}]

DeviceRow == [point : Point, interval : Interval, align : AlignMode, enabled : BOOLEAN]
RawRow    == [topic : Topic, source : Time \cup {NoTime}, receipt : Receipt, payload : Payload]
SampleRow == [raw : RawId, key : Key, ts : Nat, topic : Topic, metric : Metric, value : Value]
SourceKey == [topic : Topic, metric : Metric]
SourceRow == [first : Nat, last : Nat, raw : RawId, value : Value]

IsPartial(f, S, T) == DOMAIN f \subseteq S /\ f \in [DOMAIN f -> T]

-----------------------------------------------------------------------------
(* The parts of the function's body. *)

Later(a, b)   == IF a < b THEN b ELSE a
Earlier(a, b) == IF b < a THEN b ELSE a

\* Defect: a text that is no number is stored as it came.
AcceptsAnyText(m) ==
  LET d == device[m.topic.device] IN
  /\ m.form = "good" /\ m.topic.device = m.client /\ DOMAIN m.payload # {}
  /\ d.enabled /\ d.point = m.topic.point /\ plantOf[d.point] = m.topic.plant

\* The checks before the first write, and the cast of every value: the message is
\* well formed, names its own client, has a metric, and its path is the one the
\* enabled device is configured at.
Accepts(m) ==
  LET d == device[m.topic.device] IN
  /\ m.form = "good"
  /\ m.topic.device = m.client
  /\ DOMAIN m.payload # {}
  /\ d.enabled
  /\ d.point = m.topic.point
  /\ plantOf[d.point] = m.topic.plant
  /\ \A k \in DOMAIN m.payload : m.payload[k] \in Value

\* Defect: only a literal repetition is taken for the same observation.
ConflictingLiterally(m) ==
  {i \in DOMAIN raw : /\ m.source # NoTime
                      /\ raw[i].topic = m.topic /\ raw[i].source = m.source
                      /\ raw[i].payload = m.payload}

\* Defect: the unique index is on the topic alone.
ConflictingByTopic(m) == {i \in DOMAIN raw : m.source # NoTime /\ raw[i].topic = m.topic}

\* The row a message conflicts with: the unique index is partial, a message with
\* no source time conflicts with nothing.
Conflicting(m) ==
  {i \in DOMAIN raw : /\ m.source # NoTime
                      /\ raw[i].topic = m.topic
                      /\ raw[i].source = m.source}

\* The time slot of an observation under the device's settings.
Aligned(ts, d) ==
  IF d.align = "round"
  THEN ((2 * ts + d.interval) \div (2 * d.interval)) * d.interval
  ELSE (ts \div d.interval) * d.interval

\* Defect: the samples of the payload replaced are not deleted.
WithoutNone(id) == sample

\* The samples left after the ones of raw message id are deleted.
Without(id) == {s \in sample : s.raw # id}

\* The samples a message is turned into.
Rows(m, id, slot) ==
  {[raw |-> id, key |-> k, ts |-> slot, topic |-> m.topic,
    metric |-> Lower[k], value |-> m.payload[k]] : k \in DOMAIN m.payload}

\* Keys that differ only by case write the same catalog row one after the other.
LastKey(p, metric) ==
  CHOOSE k \in DOMAIN p :
    /\ Lower[k] = metric
    /\ \A j \in DOMAIN p : Lower[j] = metric => j <= k

\* Defect: a corrected payload does not replace the value shown for it.
SupersedesStrictly(new, old) ==
  \/ new.last > old.last
  \/ new.last = old.last /\ new.raw > old.raw

\* ON CONFLICT ... DO UPDATE of a catalog row.
Supersedes(new, old) ==
  \/ new.last > old.last
  \/ new.last = old.last /\ new.raw >= old.raw

\* Defects: the first slot is the first that came; the last to come is the newest.
MergeKeepsFirst(old, new) ==
  [first |-> old.first,
   last  |-> Later(old.last, new.last),
   raw   |-> IF Supersedes(new, old) THEN new.raw ELSE old.raw,
   value |-> IF Supersedes(new, old) THEN new.value ELSE old.value]
MergeTakesNew(old, new) == [new EXCEPT !.first = Earlier(old.first, new.first)]

Merge(old, new) ==
  [first |-> Earlier(old.first, new.first),
   last  |-> Later(old.last, new.last),
   raw   |-> IF Supersedes(new, old) THEN new.raw ELSE old.raw,
   value |-> IF Supersedes(new, old) THEN new.value ELSE old.value]

Touched(m) == {[topic |-> m.topic, metric |-> Lower[k]] : k \in DOMAIN m.payload}

Catalogued(m, id, slot) ==
  LET new(c) == [first |-> slot, last |-> slot, raw |-> id,
                 value |-> m.payload[LastKey(m.payload, c.metric)]]
  IN  [c \in DOMAIN catalog \cup Touched(m) |->
         IF c \notin Touched(m) THEN catalog[c]
         ELSE IF c \in DOMAIN catalog THEN Merge(catalog[c], new(c))
         ELSE new(c)]

\* Defect: a late observation sets the device back.
SeenAt(d, ts) == ts

Seen(d, ts) == IF lastSeen[d] = NoTime THEN ts ELSE Later(lastSeen[d], ts)

-----------------------------------------------------------------------------
(* The calls. *)

\* A message is stored.  A new row takes any unused identity value: the sequence
\* has gaps, and of two transactions at once either may commit first.
Ingest(m, id, now) ==
  LET receipt  == IF id \in DOMAIN raw THEN raw[id].receipt ELSE now
      observed == IF m.source = NoTime THEN receipt ELSE m.source
      slot     == Aligned(observed, device[m.topic.device])
  IN  /\ Accepts(m)
      /\ IF Conflicting(m) = {} THEN id \notin DOMAIN raw ELSE id \in Conflicting(m)
      /\ raw' = [i \in DOMAIN raw \cup {id} |->
                   IF i = id
                   THEN [topic |-> m.topic, source |-> m.source,
                         receipt |-> receipt, payload |-> m.payload]
                   ELSE raw[i]]
      /\ sample' = Without(id) \cup Rows(m, id, slot)
      /\ catalog' = Catalogued(m, id, slot)
      /\ lastSeen' = [lastSeen EXCEPT ![m.topic.device] = Seen(m.topic.device, observed)]
      /\ UNCHANGED <<plantOf, device>>

\* A message is refused: the exception rolls the transaction back.
Refuse(m) == ~Accepts(m) /\ UNCHANGED vars

\* upsert_device and toggle_device on an existing device.
Reconfigure(d, row) ==
  /\ device' = [device EXCEPT ![d] = row]
  /\ UNCHANGED <<plantOf, lastSeen, raw, sample, catalog>>

\* upsert_point on an existing point: it may move to another plant.
MovePoint(p, pl) ==
  /\ plantOf' = [plantOf EXCEPT ![p] = pl]
  /\ UNCHANGED <<device, lastSeen, raw, sample, catalog>>

Init ==
  /\ plantOf \in [Point -> Plant]
  /\ device \in [Device -> DeviceRow]
  /\ lastSeen = [d \in Device |-> NoTime]
  /\ raw = [i \in {} |-> 0]
  /\ sample = {}
  /\ catalog = [c \in {} |-> 0]

Next ==
  \/ \E m \in Message, id \in RawId, now \in Receipt : Ingest(m, id, now)
  \/ \E m \in Message : Refuse(m)
  \/ \E d \in Device, row \in DeviceRow : Reconfigure(d, row)
  \/ \E p \in Point, pl \in Plant : MovePoint(p, pl)

Spec == Init /\ [][Next]_vars

-----------------------------------------------------------------------------
(* The properties. *)

TypeOK ==
  /\ plantOf \in [Point -> Plant]
  /\ device \in [Device -> DeviceRow]
  /\ lastSeen \in [Device -> Nat \cup {NoTime}]
  /\ IsPartial(raw, RawId, RawRow)
  /\ sample \subseteq SampleRow
  /\ IsPartial(catalog, SourceKey, SourceRow)

\* However often an observation is sent, with whatever payload, its topic and
\* source time have one row of raw_message.
OneRowPerObservation ==
  \A i, j \in DOMAIN raw :
    /\ raw[i].topic = raw[j].topic
    /\ raw[i].source = raw[j].source
    /\ raw[i].source # NoTime
    => i = j

\* The samples of a message are the metrics of the payload now stored for it, all
\* of them, in one time slot, and nothing of a payload it replaced; and no sample
\* is without its message.
SamplesMirrorPayload ==
  /\ \A s \in sample : s.raw \in DOMAIN raw
  /\ \A i \in DOMAIN raw : \E slot \in {s.ts : s \in sample} :
       {s \in sample : s.raw = i} = Rows(raw[i], i, slot)

\* Every sample lies in the span the catalog gives its metric source, whatever the
\* order messages come in and whatever was replaced.
CatalogCoversSamples ==
  \A s \in sample :
    LET c == [topic |-> s.topic, metric |-> s.metric] IN
    /\ c \in DOMAIN catalog
    /\ catalog[c].first <= s.ts
    /\ s.ts <= catalog[c].last

\* A device was last seen at its latest observation, late and replayed ones included.
ObservedAt(row) == IF row.source = NoTime THEN row.receipt ELSE row.source
LastSeenIsLatest ==
  \A d \in Device :
    LET seen == {ObservedAt(raw[i]) : i \in {j \in DOMAIN raw : raw[j].topic.device = d}} IN
    IF seen = {} THEN lastSeen[d] = NoTime
    ELSE lastSeen[d] \in seen /\ \A ts \in seen : ts <= lastSeen[d]

\* The catalog shows, per metric source, the newest of its samples: the row a scan
\* of metric_sample by time, then by message, would find first.
SamplesOf(c) == {s \in sample : s.topic = c.topic /\ s.metric = c.metric}
Newest(s, S) == \A o \in S : o.ts < s.ts \/ (o.ts = s.ts /\ o.raw <= s.raw)
CatalogIsLatestRow ==
  \A c \in DOMAIN catalog : \E s \in SamplesOf(c) :
    /\ Newest(s, SamplesOf(c))
    /\ catalog[c].last = s.ts
    /\ catalog[c].raw = s.raw
    /\ catalog[c].value = s.value

\* The catalog is what the script's own rebuild query makes of metric_sample: a row
\* per metric source that has samples, its earliest slot and its newest sample.
CatalogIsRebuild ==
  /\ DOMAIN catalog = {[topic |-> s.topic, metric |-> s.metric] : s \in sample}
  /\ CatalogIsLatestRow
  /\ \A c \in DOMAIN catalog : \E s \in SamplesOf(c) :
       /\ catalog[c].first = s.ts
       /\ \A o \in SamplesOf(c) : s.ts <= o.ts

\* No call rewrites when and where a stored message came from: a replay replaces
\* its payload only, and no message is ever lost.
OriginKept ==
  [][\A i \in DOMAIN raw :
       /\ i \in DOMAIN raw'
       /\ raw'[i].receipt = raw[i].receipt
       /\ raw'[i].topic = raw[i].topic
       /\ raw'[i].source = raw[i].source]_vars

\* Delivering a message a second time with the settings unchanged is harmless: the
\* samples and the device are left as they are, and a sample the catalog shows
\* stays shown.
Again(i) == [topic |-> raw[i].topic, client |-> raw[i].topic.device,
             source |-> raw[i].source, payload |-> raw[i].payload, form |-> "good"]
ReplayIsNoOp ==
  [][\A i \in DOMAIN raw :
       /\ raw[i].source # NoTime
       /\ \A s \in sample : s.raw = i =>
            s.ts = Aligned(raw[i].source, device[raw[i].topic.device])
       /\ \E now \in Receipt : Ingest(Again(i), i, now)
       => UNCHANGED vars]_vars

\* What a reader of metric_sample sees for a set of messages, by key.
ShownFor(ids) ==
  LET rows == {s \in sample : s.raw \in ids} IN
  [k \in {s.key : s \in rows} |-> (CHOOSE s \in rows : s.key = k).value]

\* The store implements the promise of ObservationStore, read off the samples.
Store == INSTANCE ObservationStore WITH
  Content <- Payload,
  Empty <- [k \in {} |-> 0],
  Id <- RawId,
  observed <- [o \in Topic \X Time |->
                 ShownFor({i \in DOMAIN raw : raw[i].topic = o[1] /\ raw[i].source = o[2]})],
  unsourced <- [i \in {j \in DOMAIN raw : raw[j].source = NoTime} |->
                  <<raw[i].topic, ShownFor({i})>>]

ImplementsStore == Store!Spec

=============================================================================
