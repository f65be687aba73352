---------------------------- MODULE IngestProofs ----------------------------
(***************************************************************************)
(* Theorems about Ingest, for every set of plants, devices, keys, values,  *)
(* times and settings.  The inductive invariant is the conjunction of the  *)
(* checked invariants with the fact that a stored payload has a metric:    *)
(* that fact ties each message to at least one sample of it.               *)
(***************************************************************************)
EXTENDS Ingest, TLAPS

\* What is stored was accepted, and so has a metric.
StoredPayloads == \A i \in DOMAIN raw : DOMAIN raw[i].payload # {}

-----------------------------------------------------------------------------
(* The helpers return what their types say. *)

\* A slot is a natural number, whatever the interval and the mode.
LEMMA AlignedType ==
  ASSUME NEW ts \in Time, NEW d \in DeviceRow
  PROVE  Aligned(ts, d) \in Nat
<1>1. ts \in Nat /\ d.interval \in Nat \ {0}
  BY TimeAssumption, SettingAssumption DEF DeviceRow
<1>2. /\ (2 * ts + d.interval) \div (2 * d.interval) \in Nat
      /\ ts \div d.interval \in Nat
  <2>1. \A a \in Nat, b \in Nat \ {0} : a \div b \in Nat
    BY SMT
  <2>2. 2 * ts + d.interval \in Nat /\ 2 * d.interval \in Nat \ {0}
    BY <1>1, SMT
  <2> QED BY <1>1, <2>1, <2>2
<1>3. \A a, b \in Nat : a * b \in Nat
  BY SMT
<1> QED BY <1>1, <1>2, <1>3 DEF Aligned

\* The key that wins a catalog row is one of the payload's, and no other key of
\* that metric comes after it.
LEMMA LastKeyExists ==
  ASSUME NEW p \in Payload, NEW k \in DOMAIN p
  PROVE  /\ LastKey(p, Lower[k]) \in DOMAIN p
         /\ Lower[LastKey(p, Lower[k])] = Lower[k]
<1>1. DOMAIN p \in Shape
  BY DEF Payload
<1>2. \E l \in DOMAIN p :
        Lower[l] = Lower[k] /\ \A j \in DOMAIN p : Lower[j] = Lower[k] => j <= l
  BY <1>1, LastKeyAssumption
<1> QED BY <1>2 DEF LastKey

\* What the checks of a call leave of its payload, whatever the settings are since.
HasValues(m) ==
  DOMAIN m.payload # {} /\ \A k \in DOMAIN m.payload : m.payload[k] \in Value

\* A payload that is accepted maps keys to numeric values, and its metrics are metrics.
LEMMA AcceptedPayload ==
  ASSUME NEW m \in Message, HasValues(m)
  PROVE  /\ m.payload \in Payload /\ DOMAIN m.payload # {}
         /\ m.topic \in Topic /\ m.source \in Time \cup {NoTime}
         /\ \A k \in DOMAIN m.payload :
              k \in Key /\ Lower[k] \in Metric /\ m.payload[k] \in Value
<1>1. DOMAIN m.payload \subseteq Key
  BY PayloadAssumption DEF Message, Payload
<1> QED BY <1>1, KeyAssumption DEF HasValues, Message

\* Where an observation lies in time is a time of the model.
LEMMA ObservedType ==
  ASSUME NEW source \in Time \cup {NoTime}, NEW receipt \in Receipt
  PROVE  (IF source = NoTime THEN receipt ELSE source) \in Time
BY TimeAssumption

-----------------------------------------------------------------------------
(* Type correctness. *)

\* The effect of one message, with its receipt, observation time and slot named.
Effect(m, id, receipt, observed, slot) ==
  /\ HasValues(m)
  /\ IF Conflicting(m) = {} THEN id \notin DOMAIN raw ELSE id \in Conflicting(m)
  /\ raw' = [i \in DOMAIN raw \cup {id} |->
               IF i = id
               THEN [topic |-> m.topic, source |-> m.source,
                     receipt |-> receipt, payload |-> m.payload]
               ELSE raw[i]]
  /\ sample' = Without(id) \cup Rows(m, id, slot)
  /\ catalog' = Catalogued(m, id, slot)
  /\ lastSeen' = [lastSeen EXCEPT ![m.topic.device] = Seen(m.topic.device, observed)]
  /\ UNCHANGED <<plantOf, device>>

\* A call that stores a message has that effect, in a slot its device's settings give.
LEMMA IngestEffect ==
  ASSUME TypeOK, NEW m \in Message, NEW id \in RawId, NEW now \in Receipt,
         Ingest(m, id, now)
  PROVE  \E receipt \in Receipt, observed \in Time, slot \in Nat :
           /\ Effect(m, id, receipt, observed, slot)
           /\ receipt = (IF id \in DOMAIN raw THEN raw[id].receipt ELSE now)
           /\ observed = (IF m.source = NoTime THEN receipt ELSE m.source)
           /\ slot = Aligned(observed, device[m.topic.device])
<1> DEFINE receipt  == IF id \in DOMAIN raw THEN raw[id].receipt ELSE now
           observed == IF m.source = NoTime THEN receipt ELSE m.source
           slot     == Aligned(observed, device[m.topic.device])
<1>1. receipt \in Receipt
  BY DEF TypeOK, IsPartial, RawRow
<1>2. observed \in Time
  BY <1>1, ObservedType DEF Message
<1>3. device[m.topic.device] \in DeviceRow
  BY DEF TypeOK, Message, Topic
<1>4. slot \in Nat
  BY <1>2, <1>3, AlignedType
<1>5. Effect(m, id, receipt, observed, slot)
  BY DEF Ingest, Effect, HasValues, Accepts
<1> QED BY <1>1, <1>2, <1>4, <1>5

\* Merging two catalog rows gives a catalog row.
LEMMA MergeType ==
  ASSUME NEW old \in SourceRow, NEW new \in SourceRow
  PROVE  Merge(old, new) \in SourceRow
BY DEF Merge, SourceRow, Earlier, Later

\* The row a message brings to the catalog for one of its metrics.
Brought(m, id, slot, c) ==
  [first |-> slot, last |-> slot, raw |-> id,
   value |-> m.payload[LastKey(m.payload, c.metric)]]

\* What an accepted message brings to the catalog is a key and a row of it.
LEMMA BroughtType ==
  ASSUME NEW m \in Message, HasValues(m), NEW id \in RawId, NEW slot \in Nat,
         NEW c \in Touched(m)
  PROVE  c \in SourceKey /\ Brought(m, id, slot, c) \in SourceRow
<1>1. PICK k \in DOMAIN m.payload : c = [topic |-> m.topic, metric |-> Lower[k]]
  BY DEF Touched
<1>2. LastKey(m.payload, c.metric) \in DOMAIN m.payload
  BY <1>1, AcceptedPayload, LastKeyExists
<1> QED BY <1>1, <1>2, AcceptedPayload DEF SourceKey, SourceRow, Brought

\* What the catalog holds after a message, row by row.
LEMMA CataloguedRows ==
  ASSUME NEW m, NEW id, NEW slot
  PROVE  /\ DOMAIN Catalogued(m, id, slot) = DOMAIN catalog \cup Touched(m)
         /\ \A c \in DOMAIN catalog \cup Touched(m) :
              Catalogued(m, id, slot)[c] =
                IF c \notin Touched(m) THEN catalog[c]
                ELSE IF c \in DOMAIN catalog THEN Merge(catalog[c], Brought(m, id, slot, c))
                ELSE Brought(m, id, slot, c)
BY DEF Catalogued, Brought

\* The samples an accepted message is turned into are samples.
LEMMA RowsType ==
  ASSUME NEW m \in Message, HasValues(m), NEW id \in RawId, NEW slot \in Nat
  PROVE  Rows(m, id, slot) \subseteq SampleRow
BY AcceptedPayload DEF Rows, SampleRow

\* A message that is stored keeps the tables in their types.
LEMMA EffectType ==
  ASSUME TypeOK, NEW m \in Message, NEW id \in RawId, NEW receipt \in Receipt,
         NEW observed \in Time, NEW slot \in Nat, Effect(m, id, receipt, observed, slot)
  PROVE  TypeOK'
<1>1. HasValues(m)
  BY DEF Effect
<1>2. IsPartial(raw, RawId, RawRow)'
  <2>1. [topic |-> m.topic, source |-> m.source,
         receipt |-> receipt, payload |-> m.payload] \in RawRow
    BY <1>1, AcceptedPayload DEF RawRow
  <2> QED BY <2>1 DEF Effect, TypeOK, IsPartial
<1>3. sample' \subseteq SampleRow
  BY <1>1, RowsType DEF Effect, TypeOK, Without
<1>4. IsPartial(catalog, SourceKey, SourceRow)'
  <2>1. ASSUME NEW c \in DOMAIN catalog'
        PROVE  c \in SourceKey /\ catalog'[c] \in SourceRow
    <3>1. catalog' = Catalogued(m, id, slot)
      BY DEF Effect
    <3>2. c \in DOMAIN catalog => catalog[c] \in SourceRow /\ c \in SourceKey
      BY DEF TypeOK, IsPartial
    <3>3. c \in Touched(m) => c \in SourceKey /\ Brought(m, id, slot, c) \in SourceRow
      BY <1>1, BroughtType
    <3> QED BY <3>1, <3>2, <3>3, CataloguedRows, MergeType
  <2>2. catalog' = [c \in DOMAIN catalog' |-> catalog'[c]]
    BY DEF Effect, Catalogued
  <2> QED BY <2>1, <2>2 DEF IsPartial
<1>5. lastSeen' \in [Device -> Nat \cup {NoTime}]
  <2>1. m.topic.device \in Device
    BY DEF Message, Topic
  <2>2. Seen(m.topic.device, observed) \in Nat
    BY <2>1, TimeAssumption DEF TypeOK, Seen, Later
  <2> QED BY <2>1, <2>2 DEF Effect, TypeOK
<1> QED BY <1>2, <1>3, <1>4, <1>5 DEF Effect, TypeOK

\* Every step keeps the variables in their types.
LEMMA TypeStep == TypeOK /\ [Next]_vars => TypeOK'
<1> SUFFICES ASSUME TypeOK, [Next]_vars PROVE TypeOK'
  OBVIOUS
<1>1. ASSUME NEW m \in Message, NEW id \in RawId, NEW now \in Receipt, Ingest(m, id, now)
      PROVE  TypeOK'
  <2>1. PICK receipt \in Receipt, observed \in Time, slot \in Nat :
               Effect(m, id, receipt, observed, slot)
    BY <1>1, IngestEffect
  <2> QED BY <2>1, EffectType
<1>2. ASSUME NEW m \in Message, Refuse(m)
      PROVE  TypeOK'
  BY <1>2 DEF Refuse, vars, TypeOK, IsPartial
<1>3. ASSUME NEW d \in Device, NEW row \in DeviceRow, Reconfigure(d, row)
      PROVE  TypeOK'
  BY <1>3 DEF Reconfigure, TypeOK, IsPartial
<1>4. ASSUME NEW p \in Point, NEW pl \in Plant, MovePoint(p, pl)
      PROVE  TypeOK'
  BY <1>4 DEF MovePoint, TypeOK, IsPartial
<1>5. CASE UNCHANGED vars
  BY <1>5 DEF vars, TypeOK, IsPartial
<1> QED BY <1>1, <1>2, <1>3, <1>4, <1>5 DEF Next

\* Every reachable state is of the declared types, whatever messages and settings come.
THEOREM TypeCorrect == Spec => []TypeOK
<1>1. Init => TypeOK
  BY DEF Init, TypeOK, IsPartial
<1> QED BY <1>1, TypeStep, PTL DEF Spec

-----------------------------------------------------------------------------
(* Safety. *)

IInv ==
  /\ TypeOK
  /\ StoredPayloads
  /\ OneRowPerObservation
  /\ SamplesMirrorPayload
  /\ CatalogCoversSamples
  /\ LastSeenIsLatest

\* A replay keeps the row's topic and source time; a new row conflicts with none.
LEMMA OneRowStep ==
  ASSUME OneRowPerObservation, NEW m, NEW id, NEW receipt, NEW observed, NEW slot,
         Effect(m, id, receipt, observed, slot)
  PROVE  OneRowPerObservation'
<1>1. id \notin DOMAIN raw =>
        \A i \in DOMAIN raw :
          ~(raw[i].topic = m.topic /\ raw[i].source = m.source /\ m.source # NoTime)
  BY DEF Effect, Conflicting
<1>2. /\ DOMAIN raw' = DOMAIN raw \cup {id}
      /\ \A i \in DOMAIN raw : i # id => raw'[i] = raw[i]
      /\ raw'[id].topic = m.topic /\ raw'[id].source = m.source
      /\ id \in DOMAIN raw => raw[id].topic = m.topic /\ raw[id].source = m.source
  BY DEF Effect, Conflicting
<1> QED BY <1>1, <1>2 DEF OneRowPerObservation

\* The samples of a message are replaced as a whole, those of the others untouched.
LEMMA SamplesAfter ==
  ASSUME NEW m, NEW id, NEW receipt, NEW observed, NEW slot,
         Effect(m, id, receipt, observed, slot)
  PROVE  /\ {s \in sample' : s.raw = id} = Rows(m, id, slot)
         /\ \A i : i # id => {s \in sample' : s.raw = i} = {s \in sample : s.raw = i}
<1>1. \A r \in Rows(m, id, slot) : r.raw = id
  BY DEF Rows
<1> QED BY <1>1 DEF Effect, Without

\* A stored message has exactly its own samples afterwards, and no other message loses
\* or gains any.
LEMMA MirrorStep ==
  ASSUME StoredPayloads, SamplesMirrorPayload,
         NEW m \in Message, NEW id \in RawId, NEW receipt, NEW observed, NEW slot,
         Effect(m, id, receipt, observed, slot)
  PROVE  SamplesMirrorPayload'
<1>1. ASSUME NEW s \in sample' PROVE s.raw \in DOMAIN raw'
  <2>1. s \in Rows(m, id, slot) => s.raw = id
    BY DEF Rows
  <2> QED BY <2>1 DEF SamplesMirrorPayload, Effect, Without
<1>2. ASSUME NEW i \in DOMAIN raw'
      PROVE  \E a \in {s.ts : s \in sample'} :
               {s \in sample' : s.raw = i} = Rows(raw'[i], i, a)
  <2>1. CASE i = id
    <3>1. Rows(raw'[id], id, slot) = Rows(m, id, slot)
      BY DEF Effect, Rows
    <3>2. slot \in {s.ts : s \in sample'}
      <4>1. PICK k \in DOMAIN m.payload : TRUE
        BY AcceptedPayload DEF Effect
      <4>2. [raw |-> id, key |-> k, ts |-> slot, topic |-> m.topic,
             metric |-> Lower[k], value |-> m.payload[k]] \in Rows(m, id, slot)
        BY <4>1 DEF Rows
      <4> QED BY <4>2 DEF Effect
    <3> QED BY <2>1, <3>1, <3>2, SamplesAfter
  <2>2. CASE i # id
    <3>1. i \in DOMAIN raw /\ raw'[i] = raw[i]
      BY <2>2 DEF Effect
    <3>2. PICK a \in {s.ts : s \in sample} : {s \in sample : s.raw = i} = Rows(raw[i], i, a)
      BY <3>1 DEF SamplesMirrorPayload
    <3>3. PICK k \in DOMAIN raw[i].payload : TRUE
      BY <3>1 DEF StoredPayloads
    <3>4. [raw |-> i, key |-> k, ts |-> a, topic |-> raw[i].topic,
           metric |-> Lower[k], value |-> raw[i].payload[k]] \in Rows(raw[i], i, a)
      BY <3>3 DEF Rows
    <3>5. {s \in sample' : s.raw = i} = Rows(raw'[i], i, a)
      BY <2>2, <3>1, <3>2, SamplesAfter
    <3> QED BY <3>1, <3>4, <3>5
  <2> QED BY <2>1, <2>2
<1> QED BY <1>1, <1>2 DEF SamplesMirrorPayload

\* A catalog row only grows its span, and the message's own slot lies in it.
LEMMA CoverStep ==
  ASSUME TypeOK, CatalogCoversSamples,
         NEW m \in Message, NEW id \in RawId, NEW receipt, NEW observed, NEW slot \in Nat,
         Effect(m, id, receipt, observed, slot)
  PROVE  CatalogCoversSamples'
<1>1. /\ HasValues(m)
      /\ DOMAIN catalog' = DOMAIN catalog \cup Touched(m)
      /\ \A c \in DOMAIN catalog' :
           catalog'[c] = IF c \notin Touched(m) THEN catalog[c]
                         ELSE IF c \in DOMAIN catalog
                         THEN Merge(catalog[c], Brought(m, id, slot, c))
                         ELSE Brought(m, id, slot, c)
  BY CataloguedRows DEF Effect
<1>2. ASSUME NEW c \in DOMAIN catalog
      PROVE  /\ c \in DOMAIN catalog' /\ catalog[c] \in SourceRow
             /\ catalog'[c].first <= catalog[c].first
             /\ catalog[c].last <= catalog'[c].last
  <2>1. catalog[c] \in SourceRow
    BY DEF TypeOK, IsPartial
  <2>2. CASE c \notin Touched(m)
    BY <1>1, <2>1, <2>2 DEF SourceRow
  <2>3. CASE c \in Touched(m)
    <3>1. catalog'[c] = Merge(catalog[c], Brought(m, id, slot, c))
      BY <1>1, <2>3
    <3> QED BY <1>1, <2>1, <3>1 DEF Merge, Earlier, Later, Brought, SourceRow
  <2> QED BY <2>2, <2>3
<1>3. ASSUME NEW c \in Touched(m)
      PROVE  c \in DOMAIN catalog' /\ catalog'[c].first <= slot /\ slot <= catalog'[c].last
  <2>1. CASE c \in DOMAIN catalog
    <3>1. catalog'[c] = Merge(catalog[c], Brought(m, id, slot, c))
      BY <1>1, <1>3, <2>1
    <3> QED BY <1>1, <1>2, <2>1, <3>1 DEF Merge, Earlier, Later, Brought, SourceRow
  <2>2. CASE c \notin DOMAIN catalog
    <3>1. catalog'[c] = Brought(m, id, slot, c)
      BY <1>1, <1>3, <2>2
    <3> QED BY <1>1, <1>3, <3>1 DEF Brought
  <2> QED BY <2>1, <2>2
<1>4. ASSUME NEW s \in sample'
      PROVE  LET c == [topic |-> s.topic, metric |-> s.metric] IN
             c \in DOMAIN catalog' /\ catalog'[c].first <= s.ts /\ s.ts <= catalog'[c].last
  <2> DEFINE c == [topic |-> s.topic, metric |-> s.metric]
  <2>1. CASE s \in sample
    <3>1. c \in DOMAIN catalog /\ catalog[c].first <= s.ts /\ s.ts <= catalog[c].last
      BY <2>1 DEF CatalogCoversSamples
    <3>2. s.ts \in Nat
      BY <2>1 DEF TypeOK, SampleRow
    <3>3. catalog'[c] \in SourceRow
      BY <1>1, <3>1, <1>2, BroughtType, MergeType
    <3> QED BY <1>2, <3>1, <3>2, <3>3 DEF SourceRow
  <2>2. CASE s \in Rows(m, id, slot)
    <3>1. c \in Touched(m) /\ s.ts = slot
      BY <2>2 DEF Rows, Touched
    <3> QED BY <1>3, <3>1
  <2> QED BY <2>1, <2>2 DEF Effect, Without
<1> QED BY <1>4 DEF CatalogCoversSamples

\* The observation times of a device's messages.
ObservationsOf(d) == {ObservedAt(raw[i]) : i \in {j \in DOMAIN raw : raw[j].topic.device = d}}

\* A message adds its own observation time to its device's, and a replay nothing.
LEMMA ObservationsAfter ==
  ASSUME NEW m, NEW id, NEW receipt, NEW observed, NEW slot,
         Effect(m, id, receipt, observed, slot),
         observed = (IF m.source = NoTime THEN receipt ELSE m.source),
         NEW d
  PROVE  ObservationsOf(d)' =
           IF d = m.topic.device THEN ObservationsOf(d) \cup {observed} ELSE ObservationsOf(d)
<1>1. /\ DOMAIN raw' = DOMAIN raw \cup {id}
      /\ \A i \in DOMAIN raw : i # id => raw'[i] = raw[i]
      /\ raw'[id].topic = m.topic
      /\ ObservedAt(raw'[id]) = observed
  BY DEF Effect, ObservedAt
<1>2. id \in DOMAIN raw => raw[id].topic = m.topic /\ ObservedAt(raw[id]) = observed
  BY DEF Effect, Conflicting, ObservedAt
<1>3. ASSUME NEW i \in DOMAIN raw
      PROVE  raw'[i].topic = raw[i].topic /\ ObservedAt(raw'[i]) = ObservedAt(raw[i])
  BY <1>1, <1>2
<1>4. ObservationsOf(d)' =
        {ObservedAt(raw'[i]) : i \in {j \in DOMAIN raw' : raw'[j].topic.device = d}}
  BY DEF ObservationsOf, ObservedAt
<1>5. ASSUME NEW ts PROVE ts \in ObservationsOf(d)' <=>
        (ts \in ObservationsOf(d) \/ (d = m.topic.device /\ ts = observed))
  BY <1>1, <1>2, <1>3, <1>4 DEF ObservationsOf
<1> QED BY <1>5

\* GREATEST in the update of the device keeps last_seen_at the latest observation.
LEMMA LastSeenStep ==
  ASSUME TypeOK, LastSeenIsLatest,
         NEW m \in Message, NEW id \in RawId, NEW receipt \in Receipt,
         NEW observed \in Time, NEW slot,
         Effect(m, id, receipt, observed, slot),
         observed = (IF m.source = NoTime THEN receipt ELSE m.source)
  PROVE  LastSeenIsLatest'
<1> DEFINE Latest(S, t) == IF S = {} THEN t = NoTime ELSE t \in S /\ \A u \in S : u <= t
<1>1. \A d \in Device : Latest(ObservationsOf(d), lastSeen[d])
  BY DEF LastSeenIsLatest, ObservationsOf
<1>2. \A d \in Device : ObservationsOf(d) \subseteq Nat
  BY TimeAssumption DEF TypeOK, IsPartial, RawRow, ObservationsOf, ObservedAt
<1>3. ASSUME NEW d \in Device
      PROVE  Latest(ObservationsOf(d)', lastSeen'[d])
  <2>1. ObservationsOf(d)' =
          IF d = m.topic.device THEN ObservationsOf(d) \cup {observed} ELSE ObservationsOf(d)
    BY ObservationsAfter
  <2>2. CASE d = m.topic.device
    <3>1. lastSeen'[d] = Seen(d, observed)
      BY <2>2 DEF Effect, TypeOK
    <3>2. observed \in Nat /\ lastSeen[d] \in Nat \cup {NoTime}
      BY TimeAssumption DEF TypeOK
    <3> QED BY <1>1, <1>2, <2>1, <2>2, <3>1, <3>2, TimeAssumption DEF Seen, Later
  <2>3. CASE d # m.topic.device
    <3>1. lastSeen'[d] = lastSeen[d]
      BY <2>3 DEF Effect, TypeOK
    <3> QED BY <1>1, <2>1, <2>3, <3>1
  <2> QED BY <2>2, <2>3
<1> QED BY <1>3 DEF LastSeenIsLatest, ObservationsOf, ObservedAt

\* The inductive invariant holds of an empty store.
LEMMA InvInit == Init => IInv
BY DEF Init, IInv, TypeOK, IsPartial, StoredPayloads, OneRowPerObservation,
       SamplesMirrorPayload, CatalogCoversSamples, LastSeenIsLatest

\* A step that leaves the telemetry tables alone preserves what is said of them.
LEMMA InvFrame ==
  ASSUME IInv, TypeOK', UNCHANGED <<lastSeen, raw, sample, catalog>>
  PROVE  IInv'
<1>1. StoredPayloads' /\ OneRowPerObservation'
  BY DEF IInv, StoredPayloads, OneRowPerObservation
<1>2. SamplesMirrorPayload'
  BY DEF IInv, SamplesMirrorPayload, Rows
<1>3. CatalogCoversSamples'
  BY DEF IInv, CatalogCoversSamples
<1>4. LastSeenIsLatest'
  <2>1. \A d \in Device : ObservationsOf(d)' = ObservationsOf(d)
    BY DEF ObservationsOf, ObservedAt
  <2> QED BY <2>1 DEF IInv, LastSeenIsLatest, ObservationsOf, ObservedAt
<1> QED BY <1>1, <1>2, <1>3, <1>4 DEF IInv

\* A message that is stored keeps the inductive invariant, in whatever slot it is put.
LEMMA EffectInv ==
  ASSUME IInv, NEW m \in Message, NEW id \in RawId, NEW receipt \in Receipt,
         NEW observed \in Time, NEW slot \in Nat, Effect(m, id, receipt, observed, slot),
         observed = (IF m.source = NoTime THEN receipt ELSE m.source)
  PROVE  IInv'
<1>1. TypeOK /\ TypeOK'
  BY EffectType DEF IInv
<1>2. StoredPayloads'
  BY AcceptedPayload DEF Effect, IInv, StoredPayloads
<1>3. OneRowPerObservation'
  BY OneRowStep DEF IInv
<1>4. SamplesMirrorPayload'
  BY MirrorStep DEF IInv
<1>5. CatalogCoversSamples'
  BY <1>1, CoverStep DEF IInv
<1>6. LastSeenIsLatest'
  BY <1>1, LastSeenStep DEF IInv
<1> QED BY <1>1, <1>2, <1>3, <1>4, <1>5, <1>6 DEF IInv

\* Every call keeps the inductive invariant.
LEMMA InvStep == IInv /\ [Next]_vars => IInv'
<1> SUFFICES ASSUME IInv, [Next]_vars PROVE IInv'
  OBVIOUS
<1>1. TypeOK /\ TypeOK'
  BY TypeStep DEF IInv
<1>2. ASSUME NEW m \in Message, NEW id \in RawId, NEW now \in Receipt, Ingest(m, id, now)
      PROVE  IInv'
  <2>1. PICK receipt \in Receipt, observed \in Time, slot \in Nat :
               /\ Effect(m, id, receipt, observed, slot)
               /\ observed = (IF m.source = NoTime THEN receipt ELSE m.source)
    BY <1>1, <1>2, IngestEffect
  <2> QED BY <2>1, EffectInv
<1>3. CASE UNCHANGED <<lastSeen, raw, sample, catalog>>
  BY <1>1, <1>3, InvFrame
<1> QED BY <1>2, <1>3 DEF Next, Refuse, Reconfigure, MovePoint, vars

\* The inductive invariant holds in every reachable state.
THEOREM Invariance == Spec => []IInv
BY InvInit, InvStep, PTL DEF Spec

\* However often an observation is sent, raw_message has one row for it.
THEOREM ObservationsAreUnique == Spec => []OneRowPerObservation
<1>1. IInv => OneRowPerObservation
  BY DEF IInv
<1> QED BY <1>1, Invariance, PTL

\* The samples of a message are exactly the metrics of its current payload, at one slot.
THEOREM SamplesAreWhole == Spec => []SamplesMirrorPayload
<1>1. IInv => SamplesMirrorPayload
  BY DEF IInv
<1> QED BY <1>1, Invariance, PTL

\* No sample lies outside the span its catalog row gives.
THEOREM CatalogSpansSamples == Spec => []CatalogCoversSamples
<1>1. IInv => CatalogCoversSamples
  BY DEF IInv
<1> QED BY <1>1, Invariance, PTL

\* last_seen_at is the latest observation, in whatever order messages arrive.
THEOREM LastSeenCorrect == Spec => []LastSeenIsLatest
<1>1. IInv => LastSeenIsLatest
  BY DEF IInv
<1> QED BY <1>1, Invariance, PTL

-----------------------------------------------------------------------------
(* What a step may do to what is stored. *)

\* A replay finds the row of its own observation, whose origin it keeps.
THEOREM OriginsAreKept == Spec => OriginKept
<1> DEFINE Kept(i) == /\ i \in DOMAIN raw'
                      /\ raw'[i].receipt = raw[i].receipt
                      /\ raw'[i].topic = raw[i].topic
                      /\ raw'[i].source = raw[i].source
<1>1. ASSUME TypeOK, NEW m \in Message, NEW id \in RawId, NEW now \in Receipt,
             Ingest(m, id, now), NEW i \in DOMAIN raw
      PROVE  Kept(i)
  <2>1. PICK receipt \in Receipt, observed \in Time, slot \in Nat :
               /\ Effect(m, id, receipt, observed, slot)
               /\ receipt = (IF id \in DOMAIN raw THEN raw[id].receipt ELSE now)
    BY <1>1, IngestEffect
  <2>2. CASE i # id
    BY <2>1, <2>2 DEF Effect
  <2>3. CASE i = id
    BY <1>1, <2>1, <2>3 DEF Effect, Conflicting
  <2> QED BY <2>2, <2>3
<1>2. TypeOK /\ [Next]_vars => [\A i \in DOMAIN raw : Kept(i)]_vars
  BY <1>1 DEF Next, Refuse, Reconfigure, MovePoint, vars
<1> QED BY <1>2, TypeCorrect, PTL DEF Spec, OriginKept

\* The catalog row of a sample's source names no message before the sample's own at the
\* newest slot; and if it names the sample's message, it shows that message's value.
ShownIsCurrent ==
  \A s \in sample :
    LET c == [topic |-> s.topic, metric |-> s.metric] IN
    s.ts = catalog[c].last =>
      /\ s.raw <= catalog[c].raw
      /\ s.raw = catalog[c].raw =>
           catalog[c].value = raw[s.raw].payload[LastKey(raw[s.raw].payload, c.metric)]

\* A message shows its value where its slot is the newest and no later message has it.
LEMMA ShownStep ==
  ASSUME IInv, ShownIsCurrent,
         NEW m \in Message, NEW id \in RawId, NEW receipt, NEW observed, NEW slot \in Nat,
         Effect(m, id, receipt, observed, slot)
  PROVE  ShownIsCurrent'
<1>1. /\ HasValues(m) /\ TypeOK /\ SamplesMirrorPayload /\ CatalogCoversSamples /\ id \in Nat
      /\ catalog' = Catalogued(m, id, slot)
      /\ sample' = Without(id) \cup Rows(m, id, slot)
      /\ raw'[id].payload = m.payload
      /\ \A i \in DOMAIN raw : i # id => raw'[i] = raw[i]
  BY IdAssumption DEF Effect, IInv
<1>2. ASSUME NEW s \in sample', NEW c, c = [topic |-> s.topic, metric |-> s.metric],
             s.ts = catalog'[c].last
      PROVE  /\ s.raw <= catalog'[c].raw
             /\ s.raw = catalog'[c].raw =>
                  catalog'[c].value = raw'[s.raw].payload[LastKey(raw'[s.raw].payload, c.metric)]
  <2> DEFINE old == catalog[c]
             new == Brought(m, id, slot, c)
  <2>1. c \in DOMAIN catalog => old \in SourceRow /\ old.raw \in Nat /\ old.last \in Nat
    BY IdAssumption, <1>1 DEF TypeOK, IsPartial, SourceRow
  <2>2. /\ c \in Touched(m) /\ c \in DOMAIN catalog => catalog'[c] = Merge(old, new)
        /\ c \in Touched(m) /\ c \notin DOMAIN catalog => catalog'[c] = new
        /\ c \notin Touched(m) /\ c \in DOMAIN catalog => catalog'[c] = old
    BY <1>1, CataloguedRows
  <2>3. new.last = slot /\ new.raw = id /\ new.value = m.payload[LastKey(m.payload, c.metric)]
    BY DEF Brought
  <2>4. CASE s \in Rows(m, id, slot)
    <3>1. s.raw = id /\ s.ts = slot /\ c \in Touched(m)
      BY <1>2, <2>4 DEF Rows, Touched
    <3>2. CASE c \notin DOMAIN catalog
      BY <1>1, <2>2, <2>3, <3>1, <3>2
    <3>3. CASE c \in DOMAIN catalog
      <4>1. catalog'[c] = Merge(old, new)
        BY <2>2, <3>1, <3>3
      <4> HIDE DEF old, new
      <4>2. Supersedes(new, old) \/ (old.last = slot /\ id < old.raw)
        <5>0. Merge(old, new).last = Later(old.last, new.last)
          BY DEF Merge
        <5>1. slot = Later(old.last, slot)
          BY <1>2, <2>3, <3>1, <4>1, <5>0
        <5>2. old.last \in Nat /\ old.raw \in Nat
          BY <2>1, <3>3
        <5> QED BY <1>1, <2>3, <5>1, <5>2 DEF Supersedes, Later
      <4>3. CASE Supersedes(new, old)
        BY <1>1, <2>3, <3>1, <4>1, <4>3 DEF Merge
      <4>4. CASE ~Supersedes(new, old)
        BY <1>1, <2>1, <2>3, <3>1, <3>3, <4>1, <4>2, <4>4 DEF Merge
      <4> QED BY <4>3, <4>4
    <3> QED BY <3>2, <3>3
  <2>5. CASE s \in sample /\ s.raw # id
    <3>1. /\ c \in DOMAIN catalog /\ s.ts <= old.last
          /\ s.ts \in Nat /\ s.raw \in Nat /\ s.raw \in DOMAIN raw /\ raw'[s.raw] = raw[s.raw]
      BY <1>1, <1>2, <2>5, IdAssumption
         DEF CatalogCoversSamples, SamplesMirrorPayload, TypeOK, SampleRow
    <3>2. s.ts = old.last =>
            /\ s.raw <= old.raw
            /\ s.raw = old.raw =>
                 old.value = raw[s.raw].payload[LastKey(raw[s.raw].payload, c.metric)]
      BY <1>2, <2>5 DEF ShownIsCurrent
    <3>3. CASE c \notin Touched(m)
      BY <1>2, <2>2, <3>1, <3>2, <3>3
    <3>4. CASE c \in Touched(m)
      <4>1. catalog'[c] = Merge(old, new)
        BY <2>2, <3>1, <3>4
      <4> HIDE DEF old, new
      <4>2. s.ts = old.last
        BY <1>2, <2>1, <2>3, <3>1, <4>1 DEF Merge, Later
      <4>3. CASE Supersedes(new, old)
        <5>1. catalog'[c].raw = id /\ old.raw <= id
          BY <1>1, <1>2, <2>1, <2>3, <3>1, <4>1, <4>2, <4>3 DEF Merge, Supersedes, Later
        <5> QED BY <1>1, <2>1, <2>5, <3>1, <3>2, <4>2, <5>1
      <4>4. CASE ~Supersedes(new, old)
        <5>1. catalog'[c].raw = old.raw /\ catalog'[c].value = old.value
          BY <4>1, <4>4 DEF Merge
        <5> QED BY <3>1, <3>2, <4>2, <5>1
      <4> QED BY <4>3, <4>4
    <3> QED BY <3>3, <3>4
  <2> QED BY <1>1, <2>4, <2>5 DEF Without
<1> QED BY <1>2 DEF ShownIsCurrent

\* What the catalog shows stays current under every call.
THEOREM ShownInvariance == Spec => [](IInv /\ ShownIsCurrent)
<1>1. Init => IInv /\ ShownIsCurrent
  BY InvInit DEF Init, ShownIsCurrent
<1>2. ASSUME IInv, ShownIsCurrent, [Next]_vars
      PROVE  IInv' /\ ShownIsCurrent'
  <2>1. IInv'
    BY <1>2, InvStep
  <2>2. ASSUME NEW m \in Message, NEW id \in RawId, NEW now \in Receipt, Ingest(m, id, now)
        PROVE  ShownIsCurrent'
    <3>1. TypeOK
      BY <1>2 DEF IInv
    <3>2. PICK receipt \in Receipt, observed \in Time, slot \in Nat :
                 Effect(m, id, receipt, observed, slot)
      BY <2>2, <3>1, IngestEffect
    <3> QED BY <1>2, <3>2, ShownStep
  <2>3. CASE UNCHANGED <<raw, sample, catalog>>
    BY <1>2, <2>1, <2>3 DEF ShownIsCurrent
  <2> QED BY <1>2, <2>1, <2>2, <2>3 DEF Next, Refuse, Reconfigure, MovePoint, vars
<1> QED BY <1>1, <1>2, PTL DEF Spec

\* Two messages of one topic and source time are one row: what is stored again is itself.
LEMMA AgainEffect ==
  ASSUME IInv, ShownIsCurrent, NEW i \in DOMAIN raw, raw[i].source # NoTime,
         NEW slot \in Nat, slot = Aligned(raw[i].source, device[raw[i].topic.device]),
         \A s \in sample : s.raw = i => s.ts = slot,
         NEW now \in Receipt, Ingest(Again(i), i, now)
  PROVE  UNCHANGED vars
<1> DEFINE m == Again(i)
<1>1. /\ TypeOK /\ SamplesMirrorPayload /\ CatalogCoversSamples /\ LastSeenIsLatest
      /\ raw[i] \in RawRow /\ i \in RawId /\ i \in Nat
      /\ DOMAIN raw[i].payload # {} /\ raw[i].payload \in Payload
  BY IdAssumption DEF IInv, StoredPayloads, TypeOK, IsPartial, RawRow
<1>2. /\ m.topic = raw[i].topic /\ m.source = raw[i].source /\ m.payload = raw[i].payload
  BY DEF Again
<1> HIDE DEF m
<1>3. /\ raw' = [j \in DOMAIN raw \cup {i} |->
                   IF j = i THEN [topic |-> raw[i].topic, source |-> raw[i].source,
                                  receipt |-> raw[i].receipt, payload |-> raw[i].payload]
                   ELSE raw[j]]
      /\ sample' = Without(i) \cup Rows(m, i, slot)
      /\ catalog' = Catalogued(m, i, slot)
      /\ lastSeen' = [lastSeen EXCEPT ![m.topic.device] = Seen(m.topic.device, m.source)]
      /\ UNCHANGED <<plantOf, device>>
  BY <1>2 DEF Ingest, m
<1>4. raw' = raw
  <2>1. [topic |-> raw[i].topic, source |-> raw[i].source,
         receipt |-> raw[i].receipt, payload |-> raw[i].payload] = raw[i]
    BY <1>1 DEF RawRow
  <2>2. raw = [j \in DOMAIN raw |-> raw[j]]
    BY <1>1 DEF TypeOK, IsPartial
  <2> QED BY <1>3, <2>1, <2>2
<1>5. {s \in sample : s.raw = i} = Rows(m, i, slot)
  <2>1. PICK a : {s \in sample : s.raw = i} = Rows(raw[i], i, a)
    BY <1>1 DEF SamplesMirrorPayload
  <2>2. PICK k \in DOMAIN raw[i].payload : TRUE
    BY <1>1
  <2>3. [raw |-> i, key |-> k, ts |-> a, topic |-> raw[i].topic,
         metric |-> Lower[k], value |-> raw[i].payload[k]] \in Rows(raw[i], i, a)
    BY <2>2 DEF Rows
  <2>4. a = slot
    BY <2>1, <2>3
  <2> QED BY <1>2, <2>1, <2>4 DEF Rows
<1>6. sample' = sample
  BY <1>3, <1>5 DEF Without
<1>7. ASSUME NEW c \in Touched(m)
      PROVE  c \in DOMAIN catalog /\ Merge(catalog[c], Brought(m, i, slot, c)) = catalog[c]
  <2> DEFINE old == catalog[c]
             new == Brought(m, i, slot, c)
  <2>1. PICK k \in DOMAIN m.payload : c = [topic |-> m.topic, metric |-> Lower[k]]
    BY DEF Touched
  <2> DEFINE s == [raw |-> i, key |-> k, ts |-> slot, topic |-> m.topic,
                   metric |-> Lower[k], value |-> m.payload[k]]
  <2>2. s \in sample
    BY <1>5, <2>1 DEF Rows
  <2>3. /\ c \in DOMAIN catalog /\ old.first <= slot /\ slot <= old.last
        /\ slot = old.last =>
             /\ i <= old.raw
             /\ i = old.raw => old.value = m.payload[LastKey(m.payload, c.metric)]
    BY <1>1, <1>2, <2>1, <2>2 DEF CatalogCoversSamples, ShownIsCurrent
  <2>4. old \in SourceRow /\ old.first \in Nat /\ old.last \in Nat /\ old.raw \in Nat
    BY <1>1, <2>3, IdAssumption DEF TypeOK, IsPartial, SourceRow
  <2>5. /\ new.first = slot /\ new.last = slot /\ new.raw = i
        /\ new.value = m.payload[LastKey(m.payload, c.metric)]
    BY DEF Brought
  <2> HIDE DEF old, new
  <2>6. Earlier(old.first, new.first) = old.first /\ Later(old.last, new.last) = old.last
    BY <2>3, <2>4, <2>5 DEF Earlier, Later
  <2>7. Supersedes(new, old) => new.raw = old.raw /\ new.value = old.value
    BY <1>1, <2>3, <2>4, <2>5 DEF Supersedes
  <2>8. Merge(old, new) =
          [first |-> old.first, last |-> old.last, raw |-> old.raw, value |-> old.value]
    BY <2>6, <2>7 DEF Merge
  <2>9. old = [first |-> old.first, last |-> old.last, raw |-> old.raw, value |-> old.value]
    BY <2>4 DEF SourceRow
  <2>10. Merge(old, new) = old
    BY <2>8, <2>9
  <2> QED BY <2>3, <2>10 DEF old, new
<1>8. catalog' = catalog
  <2>0. Touched(m) \subseteq DOMAIN catalog
    BY <1>7
  <2>1. /\ DOMAIN catalog' = DOMAIN catalog
        /\ \A c \in DOMAIN catalog : catalog'[c] = catalog[c]
    <3>1. /\ DOMAIN Catalogued(m, i, slot) = DOMAIN catalog \cup Touched(m)
          /\ \A c \in DOMAIN catalog \cup Touched(m) :
               Catalogued(m, i, slot)[c] =
                 IF c \notin Touched(m) THEN catalog[c]
                 ELSE IF c \in DOMAIN catalog
                 THEN Merge(catalog[c], Brought(m, i, slot, c))
                 ELSE Brought(m, i, slot, c)
      BY CataloguedRows
    <3> QED BY <1>3, <1>7, <2>0, <3>1
  <2>2. catalog' = [c \in DOMAIN catalog' |-> catalog'[c]]
    BY <1>3 DEF Catalogued
  <2>3. catalog = [c \in DOMAIN catalog |-> catalog[c]]
    BY <1>1 DEF TypeOK, IsPartial
  <2> QED BY <2>1, <2>2, <2>3
<1>9. lastSeen' = lastSeen
  <2> DEFINE d == m.topic.device
  <2>1. d \in Device
    BY <1>1, <1>2 DEF RawRow, Topic
  <2>2. m.source \in Nat /\ m.source \in ObservationsOf(d)
    BY <1>1, <1>2, TimeAssumption DEF RawRow, ObservationsOf, ObservedAt
  <2>3. lastSeen[d] # NoTime /\ lastSeen[d] \in Nat /\ m.source <= lastSeen[d]
    <3>1. LET seen == ObservationsOf(d) IN
          IF seen = {} THEN lastSeen[d] = NoTime
          ELSE lastSeen[d] \in seen /\ \A ts \in seen : ts <= lastSeen[d]
      BY <1>1, <2>1 DEF LastSeenIsLatest, ObservationsOf
    <3>2. ObservationsOf(d) \subseteq Nat
      BY <1>1, TimeAssumption DEF TypeOK, IsPartial, RawRow, ObservationsOf, ObservedAt
    <3> HIDE DEF d
    <3> QED BY <2>2, <3>1, <3>2, TimeAssumption
  <2>4. Seen(d, m.source) = lastSeen[d]
    BY <2>2, <2>3 DEF Seen, Later
  <2> QED BY <1>1, <1>3, <2>4 DEF TypeOK
<1> QED BY <1>3, <1>4, <1>6, <1>8, <1>9 DEF vars

\* Delivering a message again changes nothing, in whatever state the replay finds the
\* catalog, if the settings still give its samples the slot they have.
THEOREM ReplayIsHarmless == Spec => ReplayIsNoOp
<1> DEFINE Harmless(i) ==
             /\ raw[i].source # NoTime
             /\ \A s \in sample : s.raw = i =>
                  s.ts = Aligned(raw[i].source, device[raw[i].topic.device])
             /\ \E now \in Receipt : Ingest(Again(i), i, now)
             => UNCHANGED vars
<1>1. ASSUME IInv, ShownIsCurrent, NEW i \in DOMAIN raw PROVE Harmless(i)
  <2> SUFFICES ASSUME raw[i].source # NoTime,
                      \A s \in sample : s.raw = i =>
                        s.ts = Aligned(raw[i].source, device[raw[i].topic.device]),
                      NEW now \in Receipt, Ingest(Again(i), i, now)
               PROVE  UNCHANGED vars
    OBVIOUS
  <2>1. raw[i].source \in Time /\ device[raw[i].topic.device] \in DeviceRow
    BY <1>1 DEF IInv, TypeOK, IsPartial, RawRow, Topic
  <2>2. Aligned(raw[i].source, device[raw[i].topic.device]) \in Nat
    BY <2>1, AlignedType
  <2> QED BY <1>1, <2>2, AgainEffect
<1>2. IInv /\ ShownIsCurrent /\ [Next]_vars => [\A i \in DOMAIN raw : Harmless(i)]_vars
  BY <1>1
<1> QED BY <1>2, ShownInvariance, PTL DEF Spec, ReplayIsNoOp

-----------------------------------------------------------------------------
(* The store implements ObservationStore. *)

\* What a set of samples shows, by key; the messages of one topic and source time, and
\* those without a source time; and what the samples show of each.
ShownIn(rows) == [k \in {s.key : s \in rows} |-> (CHOOSE s \in rows : s.key = k).value]
IdsOf(o) == {i \in DOMAIN raw : raw[i].topic = o[1] /\ raw[i].source = o[2]}
Unsourced == {i \in DOMAIN raw : raw[i].source = NoTime}
SamplesIn(ids) == {s \in sample : s.raw \in ids}
ObservedMap == [o \in Topic \X Time |-> ShownIn(SamplesIn(IdsOf(o)))]
UnsourcedMap == [i \in Unsourced |-> <<raw[i].topic, ShownIn(SamplesIn({i}))>>]

\* The samples of a message show its payload.
LEMMA ShownRows ==
  ASSUME NEW m \in Message, HasValues(m), NEW id, NEW slot
  PROVE  ShownIn(Rows(m, id, slot)) = m.payload
<1> DEFINE R == Rows(m, id, slot)
           p == m.payload
<1>1. /\ \A k \in DOMAIN p : \E s \in R : s.key = k
      /\ \A s \in R : s.key \in DOMAIN p /\ s.value = p[s.key]
  <2>1. ASSUME NEW k \in DOMAIN p PROVE \E s \in R : s.key = k
    <3>1. [raw |-> id, key |-> k, ts |-> slot, topic |-> m.topic,
           metric |-> Lower[k], value |-> m.payload[k]] \in R
      BY DEF Rows
    <3> QED BY <3>1
  <2>2. \A s \in R : s.key \in DOMAIN p /\ s.value = p[s.key]
    BY DEF Rows
  <2> QED BY <2>1, <2>2
<1>2. p = [k \in DOMAIN p |-> p[k]]
  BY AcceptedPayload DEF Payload
<1> HIDE DEF R, p
<1>3. {s.key : s \in R} = DOMAIN p
  BY <1>1
<1>4. ASSUME NEW k \in DOMAIN p
      PROVE  (CHOOSE s \in R : s.key = k).value = p[k]
  BY <1>1
<1> QED BY <1>2, <1>3, <1>4 DEF ShownIn, R, p

\* A message becomes what is shown for its topic and source time, or is added by its
\* identity; what is shown for all others stays.
LEMMA ShownAfter ==
  ASSUME IInv, OneRowPerObservation', NEW m \in Message, NEW id \in RawId, NEW receipt,
         NEW observed, NEW slot, Effect(m, id, receipt, observed, slot)
  PROVE  /\ \A o \in Topic \X Time :
              ObservedMap'[o] = IF o = <<m.topic, m.source>> THEN m.payload ELSE ObservedMap[o]
         /\ m.source # NoTime => UnsourcedMap' = UnsourcedMap
         /\ m.source = NoTime =>
              /\ id \notin Unsourced
              /\ UnsourcedMap' = [i \in Unsourced \cup {id} |->
                    IF i = id THEN <<m.topic, m.payload>> ELSE UnsourcedMap[i]]
<1>1. /\ HasValues(m) /\ IInv
      /\ DOMAIN raw' = DOMAIN raw \cup {id}
      /\ raw'[id].topic = m.topic /\ raw'[id].source = m.source
      /\ \A i \in DOMAIN raw : i # id => raw'[i] = raw[i]
      /\ id \in DOMAIN raw =>
           m.source # NoTime /\ raw[id].topic = m.topic /\ raw[id].source = m.source
  BY DEF Effect, Conflicting
<1>2. /\ {s \in sample' : s.raw = id} = Rows(m, id, slot)
      /\ \A i : i # id => {s \in sample' : s.raw = i} = {s \in sample : s.raw = i}
  BY SamplesAfter
<1>3. ShownIn({s \in sample' : s.raw \in {id}}) = m.payload
  <2>1. {s \in sample' : s.raw \in {id}} = Rows(m, id, slot)
    BY <1>2
  <2> QED BY <1>1, <2>1, ShownRows
<1>4. \A ids : id \notin ids =>
        {s \in sample' : s.raw \in ids} = {s \in sample : s.raw \in ids}
  BY <1>2
<1>5. ASSUME NEW o \in Topic \X Time
      PROVE  ObservedMap'[o] = IF o = <<m.topic, m.source>> THEN m.payload ELSE ObservedMap[o]
  <2>1. ObservedMap'[o] = ShownIn({s \in sample' : s.raw \in IdsOf(o)'})
    BY DEF ObservedMap, SamplesIn, IdsOf
  <2>2. ObservedMap[o] = ShownIn({s \in sample : s.raw \in IdsOf(o)})
    BY DEF ObservedMap, SamplesIn
  <2>3. o[2] # NoTime /\ o = <<o[1], o[2]>>
    <3>1. PICK t \in Topic, u \in Time : o = <<t, u>>
      BY <1>5
    <3>2. u # NoTime
      BY TimeAssumption
    <3> QED BY <3>1, <3>2
  <2>4. CASE o = <<m.topic, m.source>>
    <3>1. id \in IdsOf(o)'
      BY <1>1, <2>4 DEF IdsOf
    <3>2. \A i \in IdsOf(o)' : i = id
      BY <1>1, <2>3, <2>4 DEF IdsOf, OneRowPerObservation
    <3>3. IdsOf(o)' = {id}
      BY <3>1, <3>2
    <3> QED BY <1>3, <2>1, <2>4, <3>3
  <2>5. CASE o # <<m.topic, m.source>>
    <3>1. IdsOf(o)' = IdsOf(o) /\ id \notin IdsOf(o)
      BY <1>1, <2>3, <2>5 DEF IdsOf
    <3>2. {s \in sample' : s.raw \in IdsOf(o)'} = {s \in sample : s.raw \in IdsOf(o)}
      BY <1>4, <3>1
    <3> QED BY <2>1, <2>2, <2>5, <3>2
  <2> QED BY <2>4, <2>5
<1>6. ASSUME NEW i \in Unsourced, i # id
      PROVE  i \in Unsourced' /\ UnsourcedMap'[i] = UnsourcedMap[i]
  <2>1. i \in Unsourced' /\ raw'[i] = raw[i]
    BY <1>1, <1>6 DEF Unsourced
  <2>2. UnsourcedMap'[i] = <<raw'[i].topic, ShownIn({s \in sample' : s.raw \in {i}})>>
    BY <2>1 DEF UnsourcedMap, SamplesIn
  <2>3. UnsourcedMap[i] = <<raw[i].topic, ShownIn({s \in sample : s.raw \in {i}})>>
    BY DEF UnsourcedMap, SamplesIn
  <2>4. {s \in sample' : s.raw \in {i}} = {s \in sample : s.raw \in {i}}
    BY <1>4, <1>6
  <2> QED BY <2>1, <2>2, <2>3, <2>4
<1>7. /\ UnsourcedMap = [i \in Unsourced |-> UnsourcedMap[i]]
      /\ UnsourcedMap' = [i \in Unsourced' |-> UnsourcedMap'[i]]
  BY DEF UnsourcedMap
<1>8. ASSUME m.source # NoTime PROVE UnsourcedMap' = UnsourcedMap
  <2>1. id \notin Unsourced /\ Unsourced' = Unsourced
    BY <1>1, <1>8 DEF Unsourced
  <2> QED BY <1>6, <1>7, <2>1
<1>9. ASSUME m.source = NoTime
      PROVE  /\ id \notin Unsourced
             /\ UnsourcedMap' = [i \in Unsourced \cup {id} |->
                  IF i = id THEN <<m.topic, m.payload>> ELSE UnsourcedMap[i]]
  <2>1. id \notin Unsourced /\ Unsourced' = Unsourced \cup {id}
    BY <1>1, <1>9 DEF Unsourced
  <2>2. UnsourcedMap'[id] = <<m.topic, m.payload>>
    <3>1. UnsourcedMap'[id] = <<raw'[id].topic, ShownIn({s \in sample' : s.raw \in {id}})>>
      BY <2>1 DEF UnsourcedMap, SamplesIn
    <3> QED BY <1>1, <1>3, <3>1
  <2> QED BY <1>6, <1>7, <2>1, <2>2
<1> QED BY <1>5, <1>8, <1>9

\* The mapping of the refinement, with its parts named.
LEMMA MappingNamed ==
  /\ [o \in Topic \X Time |->
        ShownFor({i \in DOMAIN raw : raw[i].topic = o[1] /\ raw[i].source = o[2]})] = ObservedMap
  /\ [i \in {j \in DOMAIN raw : raw[j].source = NoTime} |->
        <<raw[i].topic, ShownFor({i})>>] = UnsourcedMap
  /\ [o \in Topic \X Time |->
        ShownFor({i \in DOMAIN raw : raw[i].topic = o[1] /\ raw[i].source = o[2]})]' = ObservedMap'
  /\ [i \in {j \in DOMAIN raw : raw[j].source = NoTime} |->
        <<raw[i].topic, ShownFor({i})>>]' = UnsourcedMap'
BY DEF ShownFor, ShownIn, ObservedMap, UnsourcedMap, Unsourced, IdsOf, SamplesIn

\* A message that is stored is a Put or an Append of ObservationStore.
LEMMA EffectStored ==
  ASSUME IInv, IInv', NEW m \in Message, NEW id \in RawId, NEW receipt, NEW observed,
         NEW slot, Effect(m, id, receipt, observed, slot)
  PROVE  [Store!Next]_(Store!vars)
<1>1. /\ \A o \in Topic \X Time :
           ObservedMap'[o] = IF o = <<m.topic, m.source>> THEN m.payload ELSE ObservedMap[o]
      /\ m.source # NoTime => UnsourcedMap' = UnsourcedMap
      /\ m.source = NoTime =>
           /\ id \notin Unsourced
           /\ UnsourcedMap' = [i \in Unsourced \cup {id} |->
                 IF i = id THEN <<m.topic, m.payload>> ELSE UnsourcedMap[i]]
  BY ShownAfter DEF IInv
<1>2. m.topic \in Topic /\ m.payload \in Payload /\ m.source \in Time \cup {NoTime}
  BY AcceptedPayload DEF Effect
<1>3. CASE m.source # NoTime
  <2>1. ObservedMap' = [ObservedMap EXCEPT ![<<m.topic, m.source>>] = m.payload]
    <3>1. /\ ObservedMap = [o \in Topic \X Time |-> ObservedMap[o]]
          /\ ObservedMap' = [o \in Topic \X Time |-> ObservedMap'[o]]
      BY DEF ObservedMap
    <3> HIDE DEF ObservedMap
    <3> QED BY <1>1, <3>1
  <2>2. Store!Put(m.topic, m.source, m.payload)
    BY <1>1, <1>3, <2>1, MappingNamed DEF Store!Put
  <2> QED BY <1>2, <1>3, <2>2 DEF Store!Next
<1>4. CASE m.source = NoTime
  <2>1. ObservedMap' = ObservedMap
    <3>1. /\ ObservedMap = [o \in Topic \X Time |-> ObservedMap[o]]
          /\ ObservedMap' = [o \in Topic \X Time |-> ObservedMap'[o]]
      BY DEF ObservedMap
    <3>2. \A o \in Topic \X Time : o # <<m.topic, m.source>>
      <4>1. \A u \in Time : u # NoTime
        BY TimeAssumption
      <4> QED BY <1>4, <4>1
    <3> QED BY <1>1, <3>1, <3>2
  <2>2. DOMAIN UnsourcedMap = Unsourced
    BY DEF UnsourcedMap
  <2>3. Store!Append(id, m.topic, m.payload)
    BY <1>1, <1>4, <2>1, <2>2, MappingNamed DEF Store!Append
  <2> QED BY <1>2, <2>3 DEF Store!Next
<1> QED BY <1>3, <1>4

\* A step that leaves messages and samples alone is none of ObservationStore.
LEMMA StoredFrame ==
  ASSUME UNCHANGED <<raw, sample>>
  PROVE  UNCHANGED Store!vars
<1>1. ObservedMap' = ObservedMap /\ UnsourcedMap' = UnsourcedMap
  BY DEF ObservedMap, UnsourcedMap, Unsourced, IdsOf, SamplesIn
<1> QED BY <1>1, MappingNamed DEF Store!vars

\* An empty store shows nothing.
LEMMA StoredInit == Init => Store!Init
<1> SUFFICES ASSUME Init PROVE Store!Init
  OBVIOUS
<1>1. DOMAIN raw = {} /\ sample = {}
  BY DEF Init
<1>2. ShownIn({}) = [k \in {} |-> 0]
  BY DEF ShownIn
<1>3. ObservedMap = [o \in Topic \X Time |-> [k \in {} |-> 0]]
  <2>1. \A ids : SamplesIn(ids) = {}
    BY <1>1 DEF SamplesIn
  <2> QED BY <1>2, <2>1 DEF ObservedMap
<1>4. UnsourcedMap = [i \in {} |-> [k \in {} |-> 0]]
  BY <1>1 DEF UnsourcedMap, Unsourced
<1> QED BY <1>3, <1>4, MappingNamed DEF Store!Init

\* Every call of the store is a step of ObservationStore, or none: readers see the last
\* payload accepted for each topic and time, whole and alone.
THEOREM StoreImplemented == Spec => ImplementsStore
<1>1. ASSUME IInv, IInv', [Next]_vars
      PROVE  [Store!Next]_(Store!vars)
  <2>1. ASSUME NEW m \in Message, NEW id \in RawId, NEW now \in Receipt, Ingest(m, id, now)
        PROVE  [Store!Next]_(Store!vars)
    <3>1. PICK receipt \in Receipt, observed \in Time, slot \in Nat :
                 Effect(m, id, receipt, observed, slot)
      BY <1>1, <2>1, IngestEffect DEF IInv
    <3> QED BY <1>1, <3>1, EffectStored
  <2>2. CASE UNCHANGED <<raw, sample>>
    BY <2>2, StoredFrame
  <2> QED BY <1>1, <2>1, <2>2 DEF Next, Refuse, Reconfigure, MovePoint, vars
<1> QED BY <1>1, StoredInit, Invariance, PTL DEF Spec, ImplementsStore, Store!Spec

-----------------------------------------------------------------------------
(***************************************************************************)
(* The catalog metric_sample_source is kept incrementally: a message never *)
(* looks at metric_sample to update it.  It is nevertheless what a rebuild *)
(* from metric_sample would give, in whatever order messages come and      *)
(* however they are corrected, provided the settings of the devices and    *)
(* the set of metrics they send never change.  (Without that it is not:    *)
(* the run ingest_stale.)                                                  *)
(***************************************************************************)
\* One interval, one mode, one set of metrics.
FixedSettings ==
  /\ \A i, j \in Interval : i = j
  /\ \A a, b \in AlignMode : a = b
  /\ \A K, L \in Shape : K # {} /\ L # {} => K = L

\* Then the slot of a sample is a function of its message alone.
FixedSlots ==
  \A s \in sample : \A d \in DeviceRow : s.ts = Aligned(ObservedAt(raw[s.raw]), d)

CInv == IInv /\ FixedSlots /\ CatalogIsRebuild

SourceOf(s) == [topic |-> s.topic, metric |-> s.metric]

-----------------------------------------------------------------------------
\* With one interval and one mode, every setting aligns a time to the same slot.
LEMMA SameSlot ==
  ASSUME FixedSettings, NEW ts, NEW d \in DeviceRow, NEW e \in DeviceRow
  PROVE  Aligned(ts, d) = Aligned(ts, e)
<1>1. d.interval = e.interval /\ d.align = e.align
  BY DEF FixedSettings, DeviceRow
<1> QED BY <1>1 DEF Aligned

\* What a message that is stored again finds: the samples it replaces have its
\* slot and its metrics, and no other samples of its message exist.
LEMMA Replaced ==
  ASSUME FixedSettings, CInv,
         NEW m \in Message, NEW id \in RawId, NEW receipt \in Receipt,
         NEW observed \in Time, NEW slot \in Nat,
         Effect(m, id, receipt, observed, slot),
         observed = (IF m.source = NoTime THEN receipt ELSE m.source),
         NEW row \in DeviceRow, slot = Aligned(observed, row),
         NEW s \in sample, s.raw = id
  PROVE  s.ts = slot /\ SourceOf(s) \in Touched(m)
<1>1. id \in DOMAIN raw
  BY DEF CInv, IInv, SamplesMirrorPayload
<1>2. /\ raw[id].topic = m.topic
      /\ ObservedAt(raw[id]) = observed
  BY <1>1 DEF Effect, Conflicting, ObservedAt
<1>3. s.ts = slot
  BY <1>2 DEF CInv, FixedSlots
<1>4. PICK a : {t \in sample : t.raw = id} = Rows(raw[id], id, a)
  BY <1>1 DEF CInv, IInv, SamplesMirrorPayload
<1>5. DOMAIN raw[id].payload = DOMAIN m.payload
  <2>1. raw[id].payload \in Payload /\ DOMAIN raw[id].payload # {}
    BY <1>1 DEF CInv, IInv, TypeOK, IsPartial, RawRow, StoredPayloads
  <2>2. m.payload \in Payload /\ DOMAIN m.payload # {}
    BY AcceptedPayload DEF Effect
  <2>3. \A p \in Payload : DOMAIN p \in Shape
    BY DEF Payload
  <2> QED BY <2>1, <2>2, <2>3 DEF FixedSettings
<1>6. PICK k \in DOMAIN m.payload : SourceOf(s) = [topic |-> m.topic, metric |-> Lower[k]]
  BY <1>2, <1>4, <1>5 DEF Rows, SourceOf
<1> QED BY <1>3, <1>6 DEF Touched

\* The samples a message brings, seen from the catalog.
LEMMA BroughtRows ==
  ASSUME NEW m \in Message, HasValues(m), NEW id, NEW slot
  PROVE  /\ \A s \in Rows(m, id, slot) :
              s.raw = id /\ s.ts = slot /\ SourceOf(s) \in Touched(m)
         /\ \A c \in Touched(m) : \E s \in Rows(m, id, slot) :
              /\ s.topic = c.topic /\ s.metric = c.metric
              /\ s.raw = id /\ s.ts = slot
              /\ s.value = Brought(m, id, slot, c).value
              /\ SourceOf(s) = c
<1>1. \A s \in Rows(m, id, slot) : s.raw = id /\ s.ts = slot /\ SourceOf(s) \in Touched(m)
  BY DEF Rows, SourceOf, Touched
<1>2. ASSUME NEW c \in Touched(m)
      PROVE  \E s \in Rows(m, id, slot) :
              /\ s.topic = c.topic /\ s.metric = c.metric
              /\ s.raw = id /\ s.ts = slot
              /\ s.value = Brought(m, id, slot, c).value
              /\ SourceOf(s) = c
  <2>1. PICK j \in DOMAIN m.payload : c = [topic |-> m.topic, metric |-> Lower[j]]
    BY DEF Touched
  <2> DEFINE k == LastKey(m.payload, c.metric)
             s == [raw |-> id, key |-> k, ts |-> slot, topic |-> m.topic,
                   metric |-> Lower[k], value |-> m.payload[k]]
  <2>2. k \in DOMAIN m.payload /\ Lower[k] = c.metric
    BY <2>1, AcceptedPayload, LastKeyExists
  <2>3. s \in Rows(m, id, slot)
    BY <2>2 DEF Rows
  <2>4. /\ s.topic = c.topic /\ s.metric = c.metric /\ s.raw = id /\ s.ts = slot
        /\ s.value = Brought(m, id, slot, c).value /\ SourceOf(s) = c
    BY <2>1, <2>2 DEF Brought, SourceOf
  <2> QED BY <2>3, <2>4
<1> QED BY <1>1, <1>2

\* With fixed settings, a stored message keeps each sample at the slot of its message.
LEMMA SlotsStep ==
  ASSUME FixedSettings, CInv,
         NEW m \in Message, NEW id \in RawId, NEW receipt \in Receipt,
         NEW observed \in Time, NEW slot \in Nat,
         Effect(m, id, receipt, observed, slot),
         observed = (IF m.source = NoTime THEN receipt ELSE m.source),
         NEW row \in DeviceRow, slot = Aligned(observed, row)
  PROVE  FixedSlots'
<1>1. ASSUME NEW s \in sample', NEW d \in DeviceRow
      PROVE  s.ts = Aligned(ObservedAt(raw'[s.raw]), d)
  <2>1. CASE s \in Rows(m, id, slot)
    <3>1. s.raw = id /\ s.ts = slot
      BY <2>1 DEF Rows
    <3>2. ObservedAt(raw'[id]) = observed
      BY DEF Effect, ObservedAt
    <3> QED BY <3>1, <3>2, SameSlot
  <2>2. CASE s \in sample /\ s.raw # id
    <3>1. raw'[s.raw] = raw[s.raw]
      BY <2>2 DEF Effect, CInv, IInv, SamplesMirrorPayload
    <3> QED BY <2>2, <3>1 DEF CInv, FixedSlots
  <2> QED BY <2>1, <2>2 DEF Effect, Without
<1> QED BY <1>1 DEF FixedSlots, ObservedAt

-----------------------------------------------------------------------------
\* What one catalog row says of a set of samples: its first slot is their earliest,
\* the rest is the newest of them.
Describes(row, S) ==
  /\ \E s \in S : Newest(s, S) /\ row.last = s.ts /\ row.raw = s.raw /\ row.value = s.value
  /\ \E s \in S : row.first = s.ts /\ \A o \in S : s.ts <= o.ts

\* The invariant, one catalog row at a time.
LEMMA RebuildIsDescribes ==
  CatalogIsRebuild <=> /\ DOMAIN catalog = {SourceOf(s) : s \in sample}
                       /\ \A c \in DOMAIN catalog : Describes(catalog[c], SamplesOf(c))
BY DEF CatalogIsRebuild, CatalogIsLatestRow, Describes, SourceOf

\* The heart of the matter, on sets: replacing the samples of one message, all in one
\* slot, by its new ones keeps a merged row true.
LEMMA MergeDescribes ==
  ASSUME NEW S, \A s \in S : s.ts \in Nat /\ s.raw \in Nat,
         NEW R, NEW old \in SourceRow, NEW new \in SourceRow, RawId \subseteq Nat,
         NEW id \in Nat, NEW slot \in Nat,
         Describes(old, S),
         \A s \in S : s.raw = id => s.ts = slot,
         \A r \in R : r.raw = id /\ r.ts = slot,
         new.first = slot, new.last = slot, new.raw = id,
         \E r \in R : r.value = new.value
  PROVE  Describes(Merge(old, new), {s \in S : s.raw # id} \cup R)
<1> DEFINE T == {s \in S : s.raw # id} \cup R
<1>1. PICK r \in R : r.value = new.value
  OBVIOUS
<1>2. r.raw = id /\ r.ts = slot
  BY <1>1
<1>3. PICK newest \in S : /\ Newest(newest, S) /\ old.last = newest.ts
                          /\ old.raw = newest.raw /\ old.value = newest.value
  BY DEF Describes
<1>4. PICK first \in S : old.first = first.ts /\ \A o \in S : first.ts <= o.ts
  BY DEF Describes
<1>5. \E s \in T : /\ Newest(s, T) /\ Merge(old, new).last = s.ts
                   /\ Merge(old, new).raw = s.raw /\ Merge(old, new).value = s.value
  <2>1. CASE Supersedes(new, old)
    <3>1. /\ Merge(old, new).last = slot /\ Merge(old, new).raw = id
          /\ Merge(old, new).value = new.value
      BY <1>3, <2>1 DEF Merge, Supersedes, Later
    <3>2. \A o \in T : o.ts < slot \/ (o.ts = slot /\ o.raw <= id)
      BY <1>3, <2>1 DEF Supersedes, Newest
    <3>3. Newest(r, T)
      BY <1>2, <3>2 DEF Newest
    <3> QED BY <1>1, <1>2, <3>1, <3>3
  <2>2. CASE ~Supersedes(new, old)
    <3>1. newest.raw # id
      BY <1>3, <2>2 DEF Supersedes
    <3>2. slot < newest.ts \/ (slot = newest.ts /\ id <= newest.raw)
      BY <1>3, <2>2 DEF Supersedes
    <3>3. Newest(newest, T)
      BY <1>3, <3>2 DEF Newest
    <3>4. /\ Merge(old, new).last = newest.ts /\ Merge(old, new).raw = newest.raw
          /\ Merge(old, new).value = newest.value
      BY <1>3, <2>2, <3>2 DEF Merge, Later
    <3> QED BY <3>1, <3>3, <3>4
  <2> QED BY <2>1, <2>2
<1>6. \E s \in T : Merge(old, new).first = s.ts /\ \A o \in T : s.ts <= o.ts
  <2>1. Merge(old, new).first = IF slot < first.ts THEN slot ELSE first.ts
    BY <1>4 DEF Merge, Earlier
  <2>2. CASE slot <= first.ts
    <3>1. Merge(old, new).first = slot
      BY <2>1, <2>2
    <3>2. \A o \in T : slot <= o.ts
      BY <1>4, <2>2
    <3> QED BY <1>1, <1>2, <3>1, <3>2
  <2>3. CASE first.ts < slot
    <3>1. first \in T
      BY <2>3
    <3>2. \A o \in T : first.ts <= o.ts
      BY <1>4, <2>3
    <3> QED BY <2>1, <2>3, <3>1, <3>2
  <2> QED BY <2>2, <2>3
<1> QED BY <1>5, <1>6 DEF Describes

\* A stored message leaves the catalog what a rebuild would make it.
LEMMA RebuildStep ==
  ASSUME FixedSettings, CInv,
         NEW m \in Message, NEW id \in RawId, NEW receipt \in Receipt,
         NEW observed \in Time, NEW slot \in Nat,
         Effect(m, id, receipt, observed, slot),
         observed = (IF m.source = NoTime THEN receipt ELSE m.source),
         NEW row \in DeviceRow, slot = Aligned(observed, row)
  PROVE  CatalogIsRebuild'
<1> DEFINE R == Rows(m, id, slot)
<1>1. HasValues(m) /\ sample' = {s \in sample : s.raw # id} \cup R
  BY DEF Effect, Without
<1>2. /\ DOMAIN catalog' = DOMAIN catalog \cup Touched(m)
      /\ \A c \in DOMAIN catalog' :
           catalog'[c] = IF c \notin Touched(m) THEN catalog[c]
                         ELSE IF c \in DOMAIN catalog
                         THEN Merge(catalog[c], Brought(m, id, slot, c))
                         ELSE Brought(m, id, slot, c)
  <2>1. catalog' = Catalogued(m, id, slot)
    BY DEF Effect
  <2> QED BY <2>1 DEF Catalogued, Brought
<1>3. /\ DOMAIN catalog = {SourceOf(s) : s \in sample}
      /\ \A c \in DOMAIN catalog : Describes(catalog[c], SamplesOf(c))
  BY RebuildIsDescribes DEF CInv
<1>4. \A s \in sample : s.raw = id => s.ts = slot /\ SourceOf(s) \in Touched(m)
  BY Replaced
<1>5. /\ \A s \in R : s.raw = id /\ s.ts = slot /\ SourceOf(s) \in Touched(m)
      /\ \A c \in Touched(m) : \E s \in R :
           /\ s.topic = c.topic /\ s.metric = c.metric
           /\ s.value = Brought(m, id, slot, c).value
           /\ SourceOf(s) = c
  BY <1>1, BroughtRows
<1>6. DOMAIN catalog' = {SourceOf(s) : s \in sample'}
  BY <1>1, <1>2, <1>3, <1>4, <1>5
<1>7. ASSUME NEW c \in DOMAIN catalog'
      PROVE  Describes(catalog'[c], SamplesOf(c)')
  <2> DEFINE brought == {r \in R : r.topic = c.topic /\ r.metric = c.metric}
  <2>1. SamplesOf(c)' = {s \in SamplesOf(c) : s.raw # id} \cup brought
    BY <1>1 DEF SamplesOf
  <2>2. c \in SourceKey
    BY <1>1, <1>2, BroughtType DEF CInv, IInv, TypeOK, IsPartial
  <2>3. \A s : s.topic = c.topic /\ s.metric = c.metric => SourceOf(s) = c
    BY <2>2 DEF SourceOf, SourceKey
  <2>4. CASE c \notin Touched(m)
    <3>1. SamplesOf(c)' = SamplesOf(c)
      BY <1>4, <1>5, <2>1, <2>3, <2>4 DEF SamplesOf
    <3> QED BY <1>2, <1>3, <2>4, <3>1
  <2>5. CASE c \in Touched(m)
    <3> DEFINE new == Brought(m, id, slot, c)
    <3>1. new \in SourceRow /\ new.first = slot /\ new.last = slot /\ new.raw = id
      BY <1>1, <2>5, BroughtType DEF Brought
    <3>2. \E r \in brought : r.value = new.value
      BY <1>5, <2>5
    <3>3. id \in Nat /\ \A s \in sample : s.ts \in Nat /\ s.raw \in Nat
      BY IdAssumption DEF CInv, IInv, TypeOK, SampleRow
    <3>4. CASE c \in DOMAIN catalog
      <4>1. catalog'[c] = Merge(catalog[c], new)
        BY <1>2, <2>5, <3>4
      <4>2. catalog[c] \in SourceRow
        BY <3>4 DEF CInv, IInv, TypeOK, IsPartial
      <4>3. Describes(catalog[c], SamplesOf(c))
        BY <1>3, <3>4
      <4>4. /\ \A s \in SamplesOf(c) : s.ts \in Nat /\ s.raw \in Nat
            /\ \A s \in SamplesOf(c) : s.raw = id => s.ts = slot
            /\ \A r \in brought : r.raw = id /\ r.ts = slot
        BY <1>4, <1>5, <3>3 DEF SamplesOf
      <4> DEFINE S == SamplesOf(c)
                 old == catalog[c]
      <4>5. Describes(Merge(old, new), {s \in S : s.raw # id} \cup brought)
        <5>1. /\ Describes(old, S) /\ old \in SourceRow /\ new \in SourceRow
              /\ \A s \in S : s.ts \in Nat /\ s.raw \in Nat
              /\ \A s \in S : s.raw = id => s.ts = slot
              /\ \A r \in brought : r.raw = id /\ r.ts = slot
              /\ new.first = slot /\ new.last = slot /\ new.raw = id
              /\ \E r \in brought : r.value = new.value
              /\ id \in Nat
          BY <3>1, <3>2, <3>3, <4>2, <4>3, <4>4
        <5> HIDE DEF S, old, new, brought
        <5> QED BY <5>1, IdAssumption, MergeDescribes
      <4> QED BY <2>1, <4>1, <4>5
    <3>5. CASE c \notin DOMAIN catalog
      <4>1. catalog'[c] = new
        BY <1>2, <2>5, <3>5
      <4>2. SamplesOf(c) = {}
        BY <1>3, <2>3, <3>5 DEF SamplesOf
      <4>3. \A r \in brought : r.raw = id /\ r.ts = slot
        BY <1>5
      <4>4. SamplesOf(c)' = brought
        BY <2>1, <4>2
      <4> QED BY <3>1, <3>2, <3>3, <4>1, <4>3, <4>4 DEF Describes, Newest
    <3> QED BY <3>4, <3>5
  <2> QED BY <2>4, <2>5
<1>8. CatalogIsRebuild' <=> /\ DOMAIN catalog' = {SourceOf(s) : s \in sample'}
                            /\ \A c \in DOMAIN catalog' : Describes(catalog'[c], SamplesOf(c)')
  BY DEF CatalogIsRebuild, CatalogIsLatestRow, Describes, SourceOf, SamplesOf, Newest
<1> QED BY <1>6, <1>7, <1>8

\* So does a message that is stored with any device's settings, for they are all alike.
LEMMA EffectCatalog ==
  ASSUME FixedSettings, CInv,
         NEW m \in Message, NEW id \in RawId, NEW receipt \in Receipt,
         NEW observed \in Time, NEW slot \in Nat,
         Effect(m, id, receipt, observed, slot),
         observed = (IF m.source = NoTime THEN receipt ELSE m.source),
         NEW row \in DeviceRow, slot = Aligned(observed, row)
  PROVE  CInv'
<1>1. IInv'
  BY EffectInv DEF CInv
<1> QED BY <1>1, SlotsStep, RebuildStep DEF CInv

\* A step that leaves the telemetry tables alone leaves the catalog as good as it was.
LEMMA CatalogFrame ==
  ASSUME CInv, IInv', UNCHANGED <<raw, sample, catalog>>
  PROVE  CInv'
<1>1. FixedSlots'
  BY DEF CInv, FixedSlots, ObservedAt
<1>2. CatalogIsRebuild'
  BY DEF CInv, CatalogIsRebuild, CatalogIsLatestRow, SamplesOf, Newest
<1> QED BY <1>1, <1>2 DEF CInv

\* Every call keeps the catalog what a rebuild would make it.
LEMMA CatalogStep == FixedSettings /\ CInv /\ [Next]_vars => CInv'
<1> SUFFICES ASSUME FixedSettings, CInv, [Next]_vars PROVE CInv'
  OBVIOUS
<1>1. TypeOK /\ IInv'
  BY InvStep DEF CInv, IInv
<1>2. ASSUME NEW m \in Message, NEW id \in RawId, NEW now \in Receipt, Ingest(m, id, now)
      PROVE  CInv'
  <2>1. PICK receipt \in Receipt, observed \in Time, slot \in Nat :
               /\ Effect(m, id, receipt, observed, slot)
               /\ observed = (IF m.source = NoTime THEN receipt ELSE m.source)
               /\ slot = Aligned(observed, device[m.topic.device])
    BY <1>1, <1>2, IngestEffect
  <2>2. device[m.topic.device] \in DeviceRow
    BY <1>1 DEF TypeOK, Message, Topic
  <2> QED BY <2>1, <2>2, EffectCatalog
<1>3. CASE UNCHANGED <<raw, sample, catalog>>
  BY <1>1, <1>3, CatalogFrame
<1> QED BY <1>2, <1>3 DEF Next, Refuse, Reconfigure, MovePoint, vars

\* With settings and metrics that never change, the catalog is at all times what a
\* rebuild from the samples would make it, for any order, correction and replay of
\* messages, late or early.
THEOREM CatalogCorrect == ASSUME FixedSettings PROVE Spec => []CatalogIsRebuild
<1>1. Init => CInv
  BY InvInit DEF Init, CInv, FixedSlots, CatalogIsRebuild, CatalogIsLatestRow
<1>2. CInv /\ [Next]_vars => CInv'
  BY CatalogStep
<1>3. CInv => CatalogIsRebuild
  BY DEF CInv
<1> QED BY <1>1, <1>2, <1>3, PTL DEF Spec

=============================================================================
