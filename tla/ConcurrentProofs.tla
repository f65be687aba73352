-------------------------- MODULE ConcurrentProofs --------------------------
(***************************************************************************)
(* Theorems about IngestConcurrent, for every number of connections and    *)
(* every spelling of keys.  A transaction reads at one time and writes at  *)
(* another; that its commit is nevertheless one step of Ingest rests on    *)
(* the rows it has locked: no other transaction changes the row of         *)
(* raw_message it found, nor the catalog rows it has merged its values     *)
(* into, before it ends.                                                   *)
(***************************************************************************)
EXTENDS IngestConcurrent, IngestProofs

-----------------------------------------------------------------------------
(* What is true of one transaction, given the tables that are committed. *)

\* What the call's checks found, with the settings it read.
Checked(t) ==
  /\ t.m.form = "good" /\ t.m.topic.device = t.m.client
  /\ DOMAIN t.m.payload # {}
  /\ \A k \in DOMAIN t.m.payload : t.m.payload[k] \in Value
  /\ t.row.enabled /\ t.row.point = t.m.topic.point /\ t.plant = t.m.topic.plant

\* The keys it has gone through come before those it has still to.
Done(t) == DOMAIN t.m.payload \ t.todo
InOrder(t) ==
  /\ t.todo \subseteq DOMAIN t.m.payload
  /\ \A j \in Done(t), k \in t.todo : j < k

\* The row it stores into is new, or the one its message conflicts with.
Clashing(rows, m) ==
  {i \in DOMAIN rows : m.source # NoTime /\ rows[i].topic = m.topic /\ rows[i].source = m.source}
HasId(rows, t) ==
  IF Clashing(rows, t.m) = {} THEN t.id \notin DOMAIN rows
  ELSE t.id \in Clashing(rows, t.m) /\ t.receipt = rows[t.id].receipt

\* Each catalog row it has written is the committed one, merged with the value of the
\* last key it has gone through for that metric.
RowFor(t, k) == [topic |-> t.m.topic, metric |-> Lower[k]]
NewRow(t, k) ==
  [first |-> SlotOf(t), last |-> SlotOf(t), raw |-> t.id, value |-> t.m.payload[k]]
MergedInto(cat, c, new) == IF c \in DOMAIN cat THEN Merge(cat[c], new) ELSE new
HasWritten(cat, t) ==
  /\ DOMAIN t.written = {RowFor(t, k) : k \in Done(t)}
  /\ \A c \in DOMAIN t.written : \E k \in Done(t) :
       /\ c = RowFor(t, k)
       /\ \A j \in Done(t) : Lower[j] = Lower[k] => j <= k
       /\ t.written[c] = MergedInto(cat, c, NewRow(t, k))

\* The type of a transaction.
TxTyped(t) ==
  \/ t = Idle
  \/ t \in Begun
  \/ /\ t \in Storing(SUBSET Key, [DOMAIN t.written -> SourceRow])
     /\ DOMAIN t.written \subseteq SourceKey

TxInv(rows, cat, t) ==
  /\ TxTyped(t)
  /\ t # Idle => Checked(t)
  /\ t.at = "storing" => InOrder(t) /\ HasId(rows, t) /\ HasWritten(cat, t)

\* No two transactions hold a row or an identity in common.
HeldBy(t) == ObservationOf(t.m) \cup DOMAIN t.written
Apart(t, u) ==
  t.at = "storing" /\ u.at = "storing" => HeldBy(t) \cap HeldBy(u) = {} /\ t.id # u.id

ConcurrentInv ==
  /\ TypeOK
  /\ calls \in 0..MaxCalls
  /\ tx = [s \in Session |-> tx[s]]
  /\ \A s \in Session : TxInv(raw, catalog, tx[s])
  /\ \A s, u \in Session : s # u => Apart(tx[s], tx[u])

-----------------------------------------------------------------------------
(* Transactions. *)

\* A transaction under way has a message that was accepted, of the types of messages.
LEMMA TxFields ==
  ASSUME NEW rows, NEW cat, NEW t, TxInv(rows, cat, t), t # Idle
  PROVE  /\ t.m \in Message /\ t.row \in DeviceRow /\ t.plant \in Plant
         /\ t.m.topic \in Topic /\ t.m.payload \in Payload /\ t.m.source \in Time \cup {NoTime}
         /\ \A k \in DOMAIN t.m.payload :
              k \in Key /\ k \in Nat /\ Lower[k] \in Metric /\ t.m.payload[k] \in Value
         /\ DOMAIN t.m.payload # {}
         /\ t.at = "begun" => t \in Begun /\ t.now \in Receipt
         /\ t.at = "storing" =>
              /\ t.id \in RawId /\ t.receipt \in Receipt /\ t.todo \subseteq Key
              /\ t.written \in [DOMAIN t.written -> SourceRow]
              /\ DOMAIN t.written \subseteq SourceKey
         /\ t.at = "begun" \/ t.at = "storing"
<1>1. \/ t \in Begun
      \/ /\ t \in Storing(SUBSET Key, [DOMAIN t.written -> SourceRow])
         /\ DOMAIN t.written \subseteq SourceKey
  BY DEF TxInv, TxTyped
<1>2. Checked(t)
  BY DEF TxInv
<1>3. t.m \in Message /\ t.row \in DeviceRow /\ t.plant \in Plant
  BY <1>1 DEF Begun, Storing
<1>4. /\ t.m.topic \in Topic /\ t.m.payload \in Payload /\ t.m.source \in Time \cup {NoTime}
  BY <1>3 DEF Message
<1>5. DOMAIN t.m.payload \subseteq Key
  BY <1>4, PayloadAssumption DEF Payload
<1>6. \A k \in DOMAIN t.m.payload :
        k \in Key /\ k \in Nat /\ Lower[k] \in Metric /\ t.m.payload[k] \in Value
  BY <1>2, <1>5, KeyAssumption DEF Checked
<1>7. /\ t.at = "begun" => t \in Begun /\ t.now \in Receipt
      /\ t.at = "storing" =>
           /\ t.id \in RawId /\ t.receipt \in Receipt /\ t.todo \subseteq Key
           /\ t.written \in [DOMAIN t.written -> SourceRow]
           /\ DOMAIN t.written \subseteq SourceKey
      /\ t.at = "begun" \/ t.at = "storing"
  BY <1>1 DEF Begun, Storing
<1> QED BY <1>2, <1>3, <1>4, <1>6, <1>7 DEF Checked

\* The slot of a transaction, and the rows it brings, are of their types.
LEMMA TxSlot ==
  ASSUME NEW rows, NEW cat, NEW t, TxInv(rows, cat, t), t.at = "storing", t # Idle
  PROVE  /\ Observed(t) \in Time /\ SlotOf(t) \in Nat
         /\ \A k \in DOMAIN t.m.payload :
              NewRow(t, k) \in SourceRow /\ RowFor(t, k) \in SourceKey
<1>1. /\ t.m.source \in Time \cup {NoTime} /\ t.receipt \in Receipt /\ t.row \in DeviceRow
      /\ t.id \in RawId /\ t.m.topic \in Topic
      /\ \A k \in DOMAIN t.m.payload : Lower[k] \in Metric /\ t.m.payload[k] \in Value
  BY TxFields
<1>2. Observed(t) \in Time
  BY <1>1, TimeAssumption DEF Observed
<1>3. SlotOf(t) \in Nat
  BY <1>1, <1>2, AlignedType DEF SlotOf
<1> QED BY <1>1, <1>2, <1>3 DEF NewRow, RowFor, SourceRow, SourceKey

\* The conflicts of a message, by name.
LEMMA ClashingIsConflicting ==
  \A m : Clashing(raw, m) = Conflicting(m)
BY DEF Clashing, Conflicting

\* No key of its metric comes after the key that wins a catalog row.
LEMMA LastKeyIsLast ==
  ASSUME NEW p \in Payload, NEW k \in DOMAIN p
  PROVE  /\ LastKey(p, Lower[k]) \in DOMAIN p
         /\ Lower[LastKey(p, Lower[k])] = Lower[k]
         /\ k <= LastKey(p, Lower[k])
<1>1. DOMAIN p \in Shape
  BY DEF Payload
<1>2. \E l \in DOMAIN p :
        Lower[l] = Lower[k] /\ \A j \in DOMAIN p : Lower[j] = Lower[k] => j <= l
  BY <1>1, LastKeyAssumption
<1> QED BY <1>2 DEF LastKey

\* Merging two values of one message, in one slot, is merging the second.
LEMMA MergeTwice ==
  ASSUME NEW cat, NEW c, c \in DOMAIN cat => cat[c] \in SourceRow,
         NEW a \in SourceRow, NEW b \in SourceRow,
         a.first = b.first, a.last = b.last, a.first = a.last, a.raw = b.raw
  PROVE  Merge(MergedInto(cat, c, a), b) = MergedInto(cat, c, b)
<1>1. /\ a.first \in Nat /\ a.last \in Nat /\ a.raw \in Nat
      /\ b.first \in Nat /\ b.last \in Nat /\ b.raw \in Nat
  BY IdAssumption DEF SourceRow
<1>2. CASE c \notin DOMAIN cat
  <2>1. b = [first |-> b.first, last |-> b.last, raw |-> b.raw, value |-> b.value]
    BY DEF SourceRow
  <2>2. Merge(a, b) = b
    BY <1>1, <2>1 DEF Merge, Earlier, Later, Supersedes
  <2> QED BY <1>2, <2>2 DEF MergedInto
<1>3. CASE c \in DOMAIN cat
  <2> DEFINE o == cat[c]
  <2>1. o \in SourceRow /\ o.first \in Nat /\ o.last \in Nat /\ o.raw \in Nat
    BY <1>3, IdAssumption DEF SourceRow
  <2> HIDE DEF o
  <2> DEFINE oa == Merge(o, a)
  <2>2. oa \in SourceRow /\ oa.first = Earlier(o.first, a.first) /\ oa.last = Later(o.last, a.last)
        /\ oa.raw = (IF Supersedes(a, o) THEN a.raw ELSE o.raw)
        /\ oa.value = (IF Supersedes(a, o) THEN a.value ELSE o.value)
    BY <2>1, MergeType DEF Merge
  <2> HIDE DEF oa
  <2>3. /\ Earlier(oa.first, b.first) = Earlier(o.first, b.first)
        /\ Later(oa.last, b.last) = Later(o.last, b.last)
    BY <1>1, <2>1, <2>2 DEF Earlier, Later
  <2>4. Supersedes(b, oa) <=> Supersedes(b, o)
    BY <1>1, <2>1, <2>2 DEF Supersedes, Later
  <2>5. ~Supersedes(b, o) => oa.raw = o.raw /\ oa.value = o.value
    BY <1>1, <2>1, <2>2 DEF Supersedes
  <2>6. Merge(oa, b) = Merge(o, b)
    BY <2>3, <2>4, <2>5 DEF Merge
  <2> QED BY <1>3, <2>6 DEF MergedInto, oa, o
<1> QED BY <1>2, <1>3

\* A step of one session, when nothing it does touches what the others found.
LEMMA OneSession ==
  ASSUME ConcurrentInv, NEW s \in Session, NEW t, tx' = [tx EXCEPT ![s] = t],
         TypeOK', calls' \in 0..MaxCalls,
         TxInv(raw', catalog', t),
         \A u \in Session \ {s} : TxInv(raw', catalog', tx[u]) /\ Apart(t, tx[u])
  PROVE  ConcurrentInv'
<1>1. tx' = [u \in Session |-> tx'[u]] /\ tx'[s] = t /\ \A u \in Session \ {s} : tx'[u] = tx[u]
  BY DEF ConcurrentInv
<1>2. \A u \in Session : TxInv(raw', catalog', tx'[u])
  BY <1>1
<1>3. \A u \in Session \ {s} : Apart(tx[u], t)
  BY DEF Apart
<1>4. ASSUME NEW u \in Session, NEW v \in Session, u # v
      PROVE  Apart(tx'[u], tx'[v])
  BY <1>1, <1>3, <1>4 DEF ConcurrentInv
<1> QED BY <1>1, <1>2, <1>4 DEF ConcurrentInv, TxInv, HasId, HasWritten, Clashing, MergedInto

-----------------------------------------------------------------------------
(* The steps of a transaction. *)

\* What a session wants, nobody else holds.
LEMMA FreeRows ==
  ASSUME NEW s \in Session, Blockers(s) = {}, NEW u \in Session \ {s}, tx[u].at = "storing"
  PROVE  Wants(s) \cap HeldBy(tx[u]) = {}
BY DEF Blockers, Held, HeldBy

\* The checks pass, and the settings are read.
LEMMA BeginStep ==
  ASSUME ConcurrentInv, NEW s \in Session, NEW m \in Message, NEW now \in Receipt,
         Begin(s, m, now)
  PROVE  ConcurrentInv'
<1> DEFINE t == [at |-> "begun", m |-> m, row |-> device[m.topic.device],
                 plant |-> plantOf[m.topic.point], now |-> now]
<1>1. /\ TypeOK /\ Accepts(m) /\ tx' = [tx EXCEPT ![s] = t] /\ UNCHANGED vars
      /\ calls' \in 0..MaxCalls
  BY SessionAssumption DEF ConcurrentInv, Begin
<1>2. TypeOK' /\ raw' = raw /\ catalog' = catalog
  BY <1>1 DEF vars, TypeOK, IsPartial
<1>3. m.topic \in Topic /\ m.topic.device \in Device /\ m.topic.point \in Point
  BY DEF Message, Topic
<1>4. t \in Begun /\ t # Idle /\ t.at = "begun"
  BY <1>1, <1>3 DEF TypeOK, Begun, Idle
<1>5. Checked(t)
  BY <1>1 DEF Accepts, Checked
<1> HIDE DEF t
<1>6. TxInv(raw', catalog', t)
  BY <1>4, <1>5 DEF TxInv, TxTyped
<1>7. \A u \in Session \ {s} : TxInv(raw', catalog', tx[u]) /\ Apart(t, tx[u])
  BY <1>2, <1>4 DEF ConcurrentInv, Apart
<1> QED BY <1>1, <1>2, <1>6, <1>7, OneSession

\* A transaction that ends without effect.
LEMMA AbortStep ==
  ASSUME ConcurrentInv, NEW s \in Session, Abort(s)
  PROVE  ConcurrentInv'
<1>1. TypeOK /\ tx' = [tx EXCEPT ![s] = Idle] /\ UNCHANGED vars /\ calls' \in 0..MaxCalls
  BY DEF ConcurrentInv, Abort
<1>2. TypeOK' /\ raw' = raw /\ catalog' = catalog
  BY <1>1 DEF vars, TypeOK, IsPartial
<1>3. Idle.at # "storing"
  BY DEF Idle
<1>4. TxInv(raw', catalog', Idle)
  BY <1>3 DEF TxInv, TxTyped
<1>5. \A u \in Session \ {s} : TxInv(raw', catalog', tx[u]) /\ Apart(Idle, tx[u])
  BY <1>2, <1>3 DEF ConcurrentInv, Apart
<1> QED BY <1>1, <1>2, <1>4, <1>5, OneSession

\* The row of raw_message is found, or a new one made, under a lock on its observation.
LEMMA InsertRawStep ==
  ASSUME ConcurrentInv, NEW s \in Session, NEW id \in RawId, InsertRaw(s, id)
  PROVE  ConcurrentInv'
<1> DEFINE old == tx[s]
           receipt == IF id \in DOMAIN raw THEN raw[id].receipt ELSE old.now
           t == [at |-> "storing", m |-> old.m, row |-> old.row, plant |-> old.plant, id |-> id,
                 receipt |-> receipt, todo |-> DOMAIN old.m.payload,
                 written |-> [c \in {} |-> 0]]
<1>1. /\ TypeOK /\ old.at = "begun" /\ tx' = [tx EXCEPT ![s] = t] /\ UNCHANGED vars
      /\ calls' \in 0..MaxCalls /\ Blockers(s) = {} /\ TxInv(raw, catalog, old) /\ old # Idle
      /\ IF Conflicting(old.m) = {}
         THEN id \notin DOMAIN raw /\ \A o \in Session : tx[o].at = "storing" => tx[o].id # id
         ELSE id \in Conflicting(old.m)
  BY DEF ConcurrentInv, InsertRaw, Idle
<1>2. TypeOK' /\ raw' = raw /\ catalog' = catalog
  BY <1>1 DEF vars, TypeOK, IsPartial
<1>3. /\ old.m \in Message /\ old.row \in DeviceRow /\ old.plant \in Plant
      /\ old.now \in Receipt /\ DOMAIN old.m.payload \subseteq Key
  BY <1>1, TxFields
<1>4. receipt \in Receipt
  BY <1>1, <1>3 DEF TypeOK, IsPartial, RawRow
<1>5. Checked(t)
  BY <1>1 DEF TxInv, Checked
<1> HIDE DEF receipt
<1>6. /\ t.at = "storing" /\ t.m = old.m /\ t.id = id /\ t.receipt = receipt
      /\ t.todo = DOMAIN t.m.payload /\ DOMAIN t.written = {} /\ t # Idle
  BY DEF Idle
<1>7. t \in Storing(SUBSET Key, [DOMAIN t.written -> SourceRow])
  <2>1. t.written \in [DOMAIN t.written -> SourceRow] /\ t.todo \in SUBSET Key
    BY <1>3
  <2> QED BY <1>3, <1>4, <2>1 DEF Storing
<1> HIDE DEF t
<1>8. TxTyped(t)
  BY <1>6, <1>7 DEF TxTyped
<1>9. InOrder(t) /\ HasWritten(catalog, t)
  BY <1>6 DEF InOrder, HasWritten, Done
<1>10. HasId(raw, t)
  BY <1>1, <1>6, ClashingIsConflicting DEF HasId, receipt, Conflicting
<1>11. TxInv(raw', catalog', t)
  BY <1>2, <1>5, <1>8, <1>9, <1>10 DEF TxInv
<1>12. ASSUME NEW u \in Session \ {s}, tx[u].at = "storing"
       PROVE  HeldBy(t) \cap HeldBy(tx[u]) = {} /\ t.id # tx[u].id
  <2>1. ObservationOf(old.m) \cap HeldBy(tx[u]) = {}
    BY <1>1, <1>12, FreeRows DEF Wants
  <2>2. HeldBy(t) \cap HeldBy(tx[u]) = {}
    BY <1>6, <2>1 DEF HeldBy
  <2>3. CASE Conflicting(old.m) = {}
    BY <1>1, <1>6, <1>12, <2>2, <2>3
  <2>4. CASE Conflicting(old.m) # {}
    <3> SUFFICES ASSUME tx[u].id = id PROVE FALSE
      BY <1>6, <2>2
    <3>1. /\ id \in DOMAIN raw /\ old.m.source # NoTime
          /\ raw[id].topic = old.m.topic /\ raw[id].source = old.m.source
      BY <1>1, <2>4 DEF Conflicting
    <3>2. HasId(raw, tx[u])
      BY <1>12 DEF ConcurrentInv, TxInv
    <3>3. id \in Clashing(raw, tx[u].m)
      BY <3>1, <3>2 DEF HasId
    <3>4. tx[u].m.topic = old.m.topic /\ tx[u].m.source = old.m.source
      BY <3>1, <3>3 DEF Clashing
    <3> QED BY <2>1, <3>1, <3>4 DEF HeldBy, ObservationOf
  <2> QED BY <2>3, <2>4
<1>13. \A u \in Session \ {s} : TxInv(raw', catalog', tx[u]) /\ Apart(t, tx[u])
  BY <1>2, <1>12 DEF ConcurrentInv, Apart
<1> QED BY <1>1, <1>2, <1>11, <1>13, OneSession

\* A value is merged into its catalog row, under a lock on that row.
LEMMA StoreMetricStep ==
  ASSUME ConcurrentInv, NEW s \in Session, NEW k \in Key, StoreMetric(s, k)
  PROVE  ConcurrentInv'
<1> DEFINE old == tx[s]
           c   == RowFor(old, k)
           new == NewRow(old, k)
           row == IF c \in DOMAIN old.written THEN Merge(old.written[c], new)
                  ELSE MergedInto(catalog, c, new)
           written == [d \in DOMAIN old.written \cup {c} |->
                         IF d = c THEN row ELSE old.written[d]]
           t == [old EXCEPT !.todo = old.todo \ {k}, !.written = written]
<1>1. /\ TypeOK /\ old.at = "storing" /\ UNCHANGED vars /\ calls' \in 0..MaxCalls
      /\ Blockers(s) = {} /\ TxInv(raw, catalog, old) /\ old # Idle
      /\ k \in old.todo /\ \A j \in old.todo : k <= j
  <2>1. /\ old.at = "storing" /\ UNCHANGED <<vars, calls>> /\ Blockers(s) = {}
        /\ k \in NextKeys(s)
    BY DEF StoreMetric
  <2>2. TypeOK /\ calls' \in 0..MaxCalls /\ TxInv(raw, catalog, old)
    BY <2>1 DEF ConcurrentInv
  <2>3. old # Idle
    BY <2>1 DEF Idle
  <2>4. k \in old.todo /\ \A j \in old.todo : k <= j
    BY <2>1 DEF NextKeys
  <2> QED BY <2>1, <2>2, <2>3, <2>4
<1>a. c \in Wants(s)
  <2>1. Wants(s) = {RowOf(s, j) : j \in NextKeys(s)}
    BY <1>1 DEF Wants
  <2>2. k \in NextKeys(s)
    BY DEF StoreMetric
  <2> QED BY <2>1, <2>2 DEF RowFor, RowOf
<1>2. tx' = [tx EXCEPT ![s] = t]
  BY <1>1 DEF StoreMetric, RowFor, RowOf, NewRow, MergedInto, ConcurrentInv
<1>3. TypeOK' /\ raw' = raw /\ catalog' = catalog
  BY <1>1 DEF vars, TypeOK, IsPartial
<1> HIDE DEF row, c, new
<1>4. /\ t.at = "storing" /\ t.m = old.m /\ t.row = old.row /\ t.plant = old.plant /\ t.id = old.id
      /\ t.receipt = old.receipt /\ t.todo = old.todo \ {k} /\ t.written = written
      /\ DOMAIN written = DOMAIN old.written \cup {c} /\ written[c] = row
      /\ \A d \in DOMAIN old.written : d # c => written[d] = old.written[d]
  BY <1>1 DEF TxInv, TxTyped, Begun, Storing, Idle
<1>5. /\ k \in DOMAIN old.m.payload /\ old.todo \subseteq DOMAIN old.m.payload
      /\ \A j \in DOMAIN old.m.payload : j \in Nat
      /\ \A j \in Done(old), l \in old.todo : j < l
  BY <1>1, TxFields DEF TxInv, InOrder
<1>6. /\ new \in SourceRow /\ c \in SourceKey
      /\ old.written \in [DOMAIN old.written -> SourceRow] /\ DOMAIN old.written \subseteq SourceKey
      /\ \A d \in DOMAIN catalog : catalog[d] \in SourceRow
  BY <1>1, <1>5, TxFields, TxSlot DEF TypeOK, IsPartial, new, c
<1>7. row \in SourceRow
  BY <1>6, MergeType DEF row, MergedInto
<1>8. written \in [DOMAIN written -> SourceRow] /\ DOMAIN written \subseteq SourceKey
  BY <1>4, <1>6, <1>7
<1>9. Done(t) = Done(old) \cup {k}
  BY <1>4, <1>5 DEF Done
<1>10. row = MergedInto(catalog, c, new)
  <2>1. CASE c \notin DOMAIN old.written
    BY <2>1 DEF row
  <2>2. CASE c \in DOMAIN old.written
    <3>1. PICK j \in Done(old) : /\ c = RowFor(old, j)
                                 /\ old.written[c] = MergedInto(catalog, c, NewRow(old, j))
      BY <1>1, <2>2 DEF TxInv, HasWritten
    <3> DEFINE a == NewRow(old, j)
    <3>2. a \in SourceRow
      BY <1>1, TxSlot DEF Done
    <3>3. a.first = new.first /\ a.last = new.last /\ a.first = a.last /\ a.raw = new.raw
      BY DEF NewRow, new
    <3> HIDE DEF a
    <3>4. Merge(MergedInto(catalog, c, a), new) = MergedInto(catalog, c, new)
      BY <1>6, <3>2, <3>3, MergeTwice
    <3> QED BY <2>2, <3>1, <3>4 DEF row, a
  <2> QED BY <2>1, <2>2
<1>11. HasWritten(catalog, t)
  <2>1. \A j : RowFor(t, j) = RowFor(old, j) /\ NewRow(t, j) = NewRow(old, j)
    BY <1>4 DEF RowFor, NewRow, SlotOf, Observed
  <2>2. DOMAIN t.written = {RowFor(t, j) : j \in Done(t)}
    <3>1. DOMAIN old.written = {RowFor(old, j) : j \in Done(old)}
      BY <1>1 DEF TxInv, HasWritten
    <3>2. DOMAIN t.written = {RowFor(old, j) : j \in Done(old)} \cup {RowFor(old, k)}
      BY <1>4, <3>1 DEF c
    <3> QED BY <1>9, <2>1, <3>2
  <2>3. ASSUME NEW d \in DOMAIN t.written
        PROVE  \E l \in Done(t) : /\ d = RowFor(t, l)
                                  /\ \A j \in Done(t) : Lower[j] = Lower[l] => j <= l
                                  /\ t.written[d] = MergedInto(catalog, d, NewRow(t, l))
    <3>1. CASE d = c
      <4>1. \A j \in Done(t) : j <= k
        BY <1>1, <1>5, <1>9 DEF Done
      <4> QED BY <1>4, <1>9, <1>10, <2>1, <3>1, <4>1 DEF c, new
    <3>2. CASE d # c
      <4>1. d \in DOMAIN old.written
        BY <1>4, <3>2
      <4>2. PICK l \in Done(old) : /\ d = RowFor(old, l)
                                   /\ \A j \in Done(old) : Lower[j] = Lower[l] => j <= l
                                   /\ old.written[d] = MergedInto(catalog, d, NewRow(old, l))
        BY <1>1, <4>1 DEF TxInv, HasWritten
      <4>3. Lower[k] # Lower[l]
        BY <3>2, <4>2 DEF c, RowFor
      <4> QED BY <1>4, <1>9, <2>1, <3>2, <4>1, <4>2, <4>3
    <3> QED BY <3>1, <3>2
  <2> QED BY <2>2, <2>3 DEF HasWritten
<1>12. InOrder(t)
  <2>1. ASSUME NEW j \in Done(t), NEW l \in t.todo PROVE j < l
    <3>1. l \in old.todo /\ l # k /\ l \in Nat /\ k \in Nat /\ k <= l
      BY <1>1, <1>4, <1>5
    <3>2. CASE j = k
      BY <3>1, <3>2
    <3>3. CASE j \in Done(old)
      BY <1>5, <3>1, <3>3
    <3> QED BY <1>9, <3>2, <3>3
  <2>2. t.todo \subseteq DOMAIN t.m.payload
    BY <1>4, <1>5
  <2> QED BY <2>1, <2>2 DEF InOrder
<1>13. HasId(raw, t) /\ Checked(t)
  BY <1>1, <1>4 DEF TxInv, HasId, Checked
<1>14. t \in Storing(SUBSET Key, [DOMAIN t.written -> SourceRow]) /\ t # Idle
  <2>1. old \in Storing(SUBSET Key, [DOMAIN old.written -> SourceRow])
    BY <1>1 DEF TxInv, TxTyped, Begun, Idle
  <2> QED BY <1>4, <1>8, <2>1 DEF Storing, Idle
<1> HIDE DEF t, written
<1>15. TxInv(raw', catalog', t)
  BY <1>3, <1>4, <1>8, <1>11, <1>12, <1>13, <1>14 DEF TxInv, TxTyped
<1>16. \A u \in Session \ {s} : TxInv(raw', catalog', tx[u]) /\ Apart(t, tx[u])
  <2>1. \A u \in Session \ {s} : TxInv(raw', catalog', tx[u]) /\ Apart(old, tx[u])
    BY <1>3 DEF ConcurrentInv
  <2>2. HeldBy(t) = HeldBy(old) \cup {c}
    BY <1>4 DEF HeldBy
  <2>3. \A u \in Session \ {s} : tx[u].at = "storing" => c \notin HeldBy(tx[u])
    BY <1>1, <1>a, FreeRows
  <2> QED BY <1>1, <1>4, <2>1, <2>2, <2>3 DEF Apart
<1> QED BY <1>1, <1>2, <1>3, <1>15, <1>16, OneSession

\* What a commit makes visible keeps the types of the tables.
LEMMA CommitTypes ==
  ASSUME ConcurrentInv, NEW s \in Session, Commit(s)
  PROVE  TypeOK'
<1> DEFINE t == tx[s]
           row == [topic |-> t.m.topic, source |-> t.m.source,
                   receipt |-> t.receipt, payload |-> t.m.payload]
<1>1. /\ TypeOK /\ t.at = "storing" /\ t # Idle /\ TxInv(raw, catalog, t)
      /\ raw' = [i \in DOMAIN raw \cup {t.id} |-> IF i = t.id THEN row ELSE raw[i]]
      /\ sample' = Without(t.id) \cup Rows(t.m, t.id, SlotOf(t))
      /\ catalog' = [c \in DOMAIN catalog \cup DOMAIN t.written |->
                       IF c \in DOMAIN t.written THEN t.written[c] ELSE catalog[c]]
      /\ lastSeen' = [lastSeen EXCEPT ![t.m.topic.device] = Seen(t.m.topic.device, Observed(t))]
      /\ UNCHANGED <<plantOf, device>>
  BY DEF ConcurrentInv, Commit, Idle
<1>2. /\ t.m.topic \in Topic /\ t.m.payload \in Payload /\ t.m.source \in Time \cup {NoTime}
      /\ t.id \in RawId /\ t.receipt \in Receipt
      /\ \A k \in DOMAIN t.m.payload :
           k \in Key /\ Lower[k] \in Metric /\ t.m.payload[k] \in Value
      /\ t.written \in [DOMAIN t.written -> SourceRow] /\ DOMAIN t.written \subseteq SourceKey
  BY <1>1, TxFields
<1>3. Observed(t) \in Nat /\ SlotOf(t) \in Nat
  BY <1>1, TxSlot, TimeAssumption
<1> HIDE DEF t
<1>4. row \in RawRow
  BY <1>2 DEF RawRow
<1> HIDE DEF row
<1>5. IsPartial(raw, RawId, RawRow)'
  BY <1>1, <1>2, <1>4 DEF TypeOK, IsPartial
<1>6. sample' \subseteq SampleRow
  <2>1. Rows(t.m, t.id, SlotOf(t)) \subseteq SampleRow
    BY <1>2, <1>3 DEF Rows, SampleRow
  <2> QED BY <1>1, <2>1 DEF TypeOK, Without
<1>7. IsPartial(catalog, SourceKey, SourceRow)'
  BY <1>1, <1>2 DEF TypeOK, IsPartial
<1>8. lastSeen' \in [Device -> Nat \cup {NoTime}]
  <2>1. t.m.topic.device \in Device
    BY <1>2 DEF Topic
  <2>2. Seen(t.m.topic.device, Observed(t)) \in Nat
    BY <1>1, <1>3, <2>1, TimeAssumption DEF TypeOK, Seen, Later
  <2> QED BY <1>1, <2>1, <2>2 DEF TypeOK
<1> QED BY <1>1, <1>5, <1>6, <1>7, <1>8 DEF TypeOK

\* What another transaction found is untouched by a commit: it holds those rows.
LEMMA CommitSparesOthers ==
  ASSUME ConcurrentInv, NEW s \in Session, Commit(s), NEW u \in Session \ {s}
  PROVE  TxInv(raw', catalog', tx[u])
<1> DEFINE t == tx[s]
           o == tx[u]
<1>1. /\ TxInv(raw, catalog, t) /\ TxInv(raw, catalog, o) /\ Apart(t, o)
      /\ t.at = "storing"
      /\ DOMAIN raw' = DOMAIN raw \cup {t.id}
      /\ raw'[t.id].topic = t.m.topic /\ raw'[t.id].source = t.m.source
      /\ \A i \in DOMAIN raw : i # t.id => raw'[i] = raw[i]
      /\ DOMAIN catalog' = DOMAIN catalog \cup DOMAIN t.written
      /\ \A c \in DOMAIN catalog : c \notin DOMAIN t.written => catalog'[c] = catalog[c]
  BY DEF ConcurrentInv, Commit
<1> SUFFICES ASSUME o.at = "storing" PROVE HasId(raw', o) /\ HasWritten(catalog', o)
  BY <1>1 DEF TxInv
<1>2. /\ HasId(raw, t) /\ HasId(raw, o) /\ HasWritten(catalog, o)
      /\ HeldBy(t) \cap HeldBy(o) = {} /\ t.id # o.id
  BY <1>1 DEF TxInv, Apart
<1> HIDE DEF t, o
<1>3. o.m.source # NoTime => ~(t.m.topic = o.m.topic /\ t.m.source = o.m.source)
  BY <1>2 DEF HeldBy, ObservationOf
<1>4. t.id \in DOMAIN raw => raw[t.id].topic = t.m.topic /\ raw[t.id].source = t.m.source
  BY <1>2 DEF HasId, Clashing
<1>5. Clashing(raw', o.m) = Clashing(raw, o.m)
  BY <1>1, <1>3, <1>4 DEF Clashing
<1>6. HasId(raw', o)
  BY <1>1, <1>2, <1>5 DEF HasId, Clashing
<1>7. ASSUME NEW c \in DOMAIN o.written, NEW new
      PROVE  MergedInto(catalog', c, new) = MergedInto(catalog, c, new)
  <2>1. c \notin DOMAIN t.written
    BY <1>2 DEF HeldBy
  <2> QED BY <1>1, <2>1 DEF MergedInto
<1>8. HasWritten(catalog', o)
  BY <1>2, <1>7 DEF HasWritten
<1> QED BY <1>6, <1>8

\* A commit keeps the invariant.
LEMMA CommitStep ==
  ASSUME ConcurrentInv, NEW s \in Session, Commit(s)
  PROVE  ConcurrentInv'
<1>1. tx' = [tx EXCEPT ![s] = Idle] /\ calls' \in 0..MaxCalls
  BY DEF ConcurrentInv, Commit
<1>2. Idle.at # "storing"
  BY DEF Idle
<1>3. TxInv(raw', catalog', Idle)
  BY <1>2 DEF TxInv, TxTyped
<1>4. \A u \in Session \ {s} : TxInv(raw', catalog', tx[u]) /\ Apart(Idle, tx[u])
  BY <1>2, CommitSparesOthers DEF Apart
<1> QED BY <1>1, <1>3, <1>4, CommitTypes, OneSession

\* At the start nothing is under way.
LEMMA ConcurrentInvInit == ConcurrentInit => ConcurrentInv
<1> SUFFICES ASSUME ConcurrentInit PROVE ConcurrentInv
  OBVIOUS
<1>1. TypeOK
  BY DEF ConcurrentInit, Init, TypeOK, IsPartial
<1>2. Idle.at # "storing"
  BY DEF Idle
<1>3. tx = [s \in Session |-> Idle] /\ calls \in 0..MaxCalls
  BY SessionAssumption DEF ConcurrentInit
<1> QED BY <1>1, <1>2, <1>3 DEF ConcurrentInv, TxInv, TxTyped, Apart

\* Every statement, commit and change of settings keeps the invariant.
LEMMA ConcurrentInvStep == ConcurrentInv /\ [ConcurrentNext]_allVars => ConcurrentInv'
<1> SUFFICES ASSUME ConcurrentInv, [ConcurrentNext]_allVars PROVE ConcurrentInv'
  OBVIOUS
<1>1. CASE UNCHANGED <<raw, catalog, tx, calls>> /\ [Next]_vars
  <2>1. TypeOK'
    BY <1>1, TypeStep DEF ConcurrentInv
  <2> QED BY <1>1, <2>1
          DEF ConcurrentInv, TxInv, HasId, HasWritten, Clashing, MergedInto
<1>2. CASE Operate \/ UNCHANGED allVars
  BY <1>1, <1>2 DEF Operate, Reconfigure, Next, allVars, vars
<1> QED BY <1>2, BeginStep, InsertRawStep, StoreMetricStep, CommitStep, AbortStep
        DEF ConcurrentNext, BreakDeadlock

-----------------------------------------------------------------------------
(* The theorems. *)

\* The inductive invariant holds however the statements of the calls interleave.
THEOREM ConcurrentInvariance == ConcurrentSpec => []ConcurrentInv
<1> QED BY ConcurrentInvInit, ConcurrentInvStep, PTL DEF ConcurrentSpec

\* The tables and the transactions keep their types.
THEOREM ConcurrentTypeCorrect == ConcurrentSpec => []ConcurrentTypeOK
<1>1. ConcurrentInv => ConcurrentTypeOK
  BY DEF ConcurrentInv, ConcurrentTypeOK, TxInv, TxTyped
<1> QED BY <1>1, ConcurrentInvariance, PTL

\* A call that waits waits for the catalog row of a key that another call has stored.
LEMMA WaitsForKey ==
  ASSUME ConcurrentInv, NEW s \in Session, NEW u \in Session, s # u,
         tx[s].at = "storing", u \in Blockers(s)
  PROVE  /\ tx[u].at = "storing"
         /\ \E k \in DOMAIN tx[s].m.payload, j \in Done(tx[u]) :
              /\ RowFor(tx[s], k) = RowFor(tx[u], j)
              /\ RowFor(tx[s], k) \in DOMAIN tx[u].written
<1>1. tx[u].at = "storing" /\ Wants(s) \cap HeldBy(tx[u]) # {}
  BY DEF Blockers, Held, HeldBy
<1>2. Wants(s) = {RowOf(s, k) : k \in NextKeys(s)}
  BY DEF Wants
<1>3. PICK k \in NextKeys(s) : RowOf(s, k) \in HeldBy(tx[u])
  BY <1>1, <1>2
<1>4. RowOf(s, k) \notin ObservationOf(tx[u].m)
  <2>1. "metric" \in DOMAIN RowOf(s, k)
    BY DEF RowOf
  <2>2. \A o \in ObservationOf(tx[u].m) : DOMAIN o = {"topic", "source"}
    BY DEF ObservationOf
  <2> QED BY <2>1, <2>2
<1>5. RowFor(tx[s], k) \in DOMAIN tx[u].written
  BY <1>3, <1>4 DEF HeldBy, RowOf, RowFor
<1>6. PICK j \in Done(tx[u]) : RowFor(tx[s], k) = RowFor(tx[u], j)
  BY <1>1, <1>5 DEF ConcurrentInv, TxInv, HasWritten
<1>7. k \in DOMAIN tx[s].m.payload
  BY DEF NextKeys, ConcurrentInv, TxInv, InOrder
<1> QED BY <1>1, <1>5, <1>6, <1>7

\* What a call has stored comes before every key of a metric that another call holds.
LEMMA StoredFirst ==
  ASSUME ConcurrentInv, NEW s \in Session, NEW u \in Session, s # u,
         tx[s].at = "storing", tx[u].at = "storing",
         NEW j \in Done(tx[s]), NEW k \in DOMAIN tx[s].m.payload,
         RowFor(tx[s], k) \in DOMAIN tx[u].written
  PROVE  Lower[j] # Lower[k] /\ LocksFirst(tx[s].m, Lower[j], Lower[k])
<1>1. /\ HeldBy(tx[s]) \cap HeldBy(tx[u]) = {} /\ HasWritten(catalog, tx[s])
      /\ InOrder(tx[s])
  BY DEF ConcurrentInv, Apart, TxInv
<1>2. ASSUME NEW l \in Done(tx[s]) PROVE Lower[l] # Lower[k]
  <2>1. RowFor(tx[s], l) \in DOMAIN tx[s].written
    BY <1>1 DEF HasWritten
  <2>2. RowFor(tx[s], l) # RowFor(tx[s], k)
    BY <1>1, <2>1 DEF HeldBy
  <2> QED BY <2>2 DEF RowFor
<1>3. \A l \in DOMAIN tx[s].m.payload : Lower[l] = Lower[k] => j < l
  BY <1>1, <1>2 DEF Done, InOrder
<1> QED BY <1>2, <1>3 DEF LocksFirst, Done

\* Two calls wait for each other only if they lock two metrics in opposite order.
THEOREM DeadlocksExplained == ConcurrentSpec => []DeadlockNeedsTwoSpellings
<1>1. ASSUME ConcurrentInv, NEW s \in Session, NEW u \in Session, Deadlocked(s, u)
      PROVE  \E a, b \in Metric :
               a # b /\ LocksFirst(tx[s].m, a, b) /\ LocksFirst(tx[u].m, b, a)
  <2>1. s # u /\ u \in Blockers(s) /\ s \in Blockers(u)
    BY <1>1 DEF Deadlocked, Blockers
  <2>2. tx[s].at = "storing" /\ tx[u].at = "storing"
    BY <2>1 DEF Blockers, Held
  <2>3. PICK k \in DOMAIN tx[s].m.payload, j \in Done(tx[u]) :
          /\ RowFor(tx[s], k) = RowFor(tx[u], j)
          /\ RowFor(tx[s], k) \in DOMAIN tx[u].written
    BY <1>1, <2>1, <2>2, WaitsForKey
  <2>4. PICK l \in DOMAIN tx[u].m.payload, i \in Done(tx[s]) :
          /\ RowFor(tx[u], l) = RowFor(tx[s], i)
          /\ RowFor(tx[u], l) \in DOMAIN tx[s].written
    BY <1>1, <2>1, <2>2, WaitsForKey
  <2>5. Lower[k] = Lower[j] /\ Lower[l] = Lower[i]
    BY <2>3, <2>4 DEF RowFor
  <2>6. Lower[i] # Lower[k] /\ LocksFirst(tx[s].m, Lower[i], Lower[k])
    BY <1>1, <2>1, <2>2, <2>3, <2>4, StoredFirst
  <2>7. LocksFirst(tx[u].m, Lower[j], Lower[l])
    BY <1>1, <2>1, <2>2, <2>3, <2>4, StoredFirst
  <2>8. Lower[i] \in Metric /\ Lower[k] \in Metric
    <3>1. TxInv(raw, catalog, tx[s]) /\ tx[s] # Idle
      BY <1>1, <2>2 DEF ConcurrentInv, Idle
    <3> QED BY <2>3, <2>4, <3>1, TxFields DEF Done
  <2> QED BY <2>5, <2>6, <2>7, <2>8
<1>2. ConcurrentInv => DeadlockNeedsTwoSpellings
  BY <1>1 DEF DeadlockNeedsTwoSpellings
<1> QED BY <1>2, ConcurrentInvariance, PTL

\* A commit has the effect that Ingest has on the tables as they are at that moment, in
\* the slot that the settings the call has read give.
LEMMA CommitEffect ==
  ASSUME ConcurrentInv, NEW s \in Session, Commit(s)
  PROVE  /\ tx[s].m \in Message /\ tx[s].id \in RawId /\ tx[s].receipt \in Receipt
         /\ Effect(tx[s].m, tx[s].id, tx[s].receipt, Observed(tx[s]), SlotOf(tx[s]))
<1> DEFINE t == tx[s]
<1>1. /\ TxInv(raw, catalog, t) /\ t.at = "storing" /\ t # Idle /\ t.todo = {}
      /\ raw' = [i \in DOMAIN raw \cup {t.id} |->
                   IF i = t.id
                   THEN [topic |-> t.m.topic, source |-> t.m.source,
                         receipt |-> t.receipt, payload |-> t.m.payload]
                   ELSE raw[i]]
      /\ sample' = Without(t.id) \cup Rows(t.m, t.id, SlotOf(t))
      /\ catalog' = [c \in DOMAIN catalog \cup DOMAIN t.written |->
                       IF c \in DOMAIN t.written THEN t.written[c] ELSE catalog[c]]
      /\ lastSeen' = [lastSeen EXCEPT ![t.m.topic.device] = Seen(t.m.topic.device, Observed(t))]
      /\ UNCHANGED <<plantOf, device>>
  BY DEF ConcurrentInv, Commit, Idle
<1>2. /\ t.m \in Message /\ t.id \in RawId /\ t.receipt \in Receipt
      /\ t.m.payload \in Payload /\ \A k \in DOMAIN t.m.payload : k \in Nat
  BY <1>1, TxFields
<1>3. Checked(t) /\ HasId(raw, t) /\ HasWritten(catalog, t)
  BY <1>1 DEF TxInv
<1> HIDE DEF t
<1>4. HasValues(t.m)
  BY <1>3 DEF Checked, HasValues
<1>5. IF Conflicting(t.m) = {} THEN t.id \notin DOMAIN raw ELSE t.id \in Conflicting(t.m)
  BY <1>3, ClashingIsConflicting DEF HasId
<1>6. DOMAIN t.written = Touched(t.m)
  BY <1>1, <1>3 DEF HasWritten, Done, RowFor, Touched
<1>7. ASSUME NEW c \in Touched(t.m)
      PROVE  t.written[c] = MergedInto(catalog, c, Brought(t.m, t.id, SlotOf(t), c))
  <2>1. PICK k \in DOMAIN t.m.payload :
          /\ c = RowFor(t, k)
          /\ \A j \in DOMAIN t.m.payload : Lower[j] = Lower[k] => j <= k
          /\ t.written[c] = MergedInto(catalog, c, NewRow(t, k))
    BY <1>1, <1>3, <1>6 DEF HasWritten, Done
  <2>2. /\ LastKey(t.m.payload, c.metric) \in DOMAIN t.m.payload
        /\ Lower[LastKey(t.m.payload, c.metric)] = c.metric
        /\ k <= LastKey(t.m.payload, c.metric)
    BY <1>2, <2>1, LastKeyIsLast DEF RowFor
  <2>3. LastKey(t.m.payload, c.metric) = k
    <3>1. DOMAIN t.m.payload \subseteq Nat
      BY <1>2
    <3> QED BY <2>1, <2>2, <3>1 DEF RowFor
  <2> QED BY <2>1, <2>3 DEF NewRow, Brought
<1>8. catalog' = Catalogued(t.m, t.id, SlotOf(t))
  BY <1>1, <1>6, <1>7 DEF Catalogued, MergedInto, Brought
<1> QED BY <1>1, <1>2, <1>4, <1>5, <1>8 DEF Effect, t

\* It is what the whole call would do if the settings it read are still its device's.
LEMMA CommitIsIngest ==
  ASSUME ConcurrentInv, NEW s \in Session, Commit(s),
         device[tx[s].m.topic.device] = tx[s].row,
         plantOf[tx[s].m.topic.point] = tx[s].plant
  PROVE  \E m \in Message, id \in RawId, now \in Receipt : Ingest(m, id, now)
<1> DEFINE t == tx[s]
<1>1. /\ TxInv(raw, catalog, t) /\ t.at = "storing" /\ t # Idle
      /\ device[t.m.topic.device] = t.row /\ plantOf[t.m.topic.point] = t.plant
  BY DEF ConcurrentInv, Commit, Idle
<1>2. /\ t.m \in Message /\ t.id \in RawId /\ t.receipt \in Receipt
      /\ Effect(t.m, t.id, t.receipt, Observed(t), SlotOf(t))
  BY CommitEffect
<1>3. Checked(t) /\ HasId(raw, t)
  BY <1>1 DEF TxInv
<1> HIDE DEF t
<1>4. Accepts(t.m)
  BY <1>1, <1>3 DEF Checked, Accepts
<1>5. t.receipt = (IF t.id \in DOMAIN raw THEN raw[t.id].receipt ELSE t.receipt)
  BY <1>3 DEF HasId, Clashing
<1>6. Observed(t) = (IF t.m.source = NoTime THEN t.receipt ELSE t.m.source)
      /\ SlotOf(t) = Aligned(Observed(t), device[t.m.topic.device])
  BY <1>1 DEF Observed, SlotOf
<1>7. Ingest(t.m, t.id, t.receipt)
  BY <1>2, <1>4, <1>5, <1>6 DEF Ingest, Effect
<1> QED BY <1>2, <1>7

\* Overlapping calls are equivalent to calls made one after the other, each at its
\* commit, but for those that store with settings that have changed since.
THEOREM CallsAreAtomic == ConcurrentSpec => ImplementsIngest
<1>1. ConcurrentInit => Init
  BY DEF ConcurrentInit
<1>2. ASSUME ConcurrentInv, [ConcurrentNext]_allVars
      PROVE  [StaleCommit \/ Next]_vars
  <2>1. ASSUME NEW s \in Session, Commit(s) PROVE StaleCommit \/ Next
    <3>1. tx[s].at = "storing" /\ tx'[s] = Idle
      BY <1>2, <2>1 DEF Commit, ConcurrentInv
    <3>2. CASE /\ device[tx[s].m.topic.device] = tx[s].row
               /\ plantOf[tx[s].m.topic.point] = tx[s].plant
      BY <1>2, <2>1, <3>2, CommitIsIngest DEF Next
    <3> QED BY <3>1, <3>2 DEF StaleCommit
  <2>2. CASE Operate
    BY <2>2 DEF Operate, Next
  <2>3. CASE UNCHANGED vars
    BY <2>3
  <2> QED BY <1>2, <2>1, <2>2, <2>3
          DEF ConcurrentNext, BreakDeadlock, Abort, Begin, InsertRaw, StoreMetric, allVars
<1> QED BY <1>1, <1>2, ConcurrentInvariance, PTL DEF ConcurrentSpec, ImplementsIngest

-----------------------------------------------------------------------------
(* What is true of calls one at a time is true of calls that overlap, also of those that *)
(* store with settings that are no longer their device's.                                *)

\* A step is a commit, an operator's, or nothing the tables show.
LEMMA ConcurrentSteps ==
  ASSUME [ConcurrentNext]_allVars
  PROVE  \/ \E s \in Session : Commit(s)
         \/ UNCHANGED <<lastSeen, raw, sample, catalog>>
BY DEF ConcurrentNext, Operate, Reconfigure, BreakDeadlock, Abort, Begin, InsertRaw,
       StoreMetric, allVars, vars

\* The observation time and the slot of what is committed.
LEMMA CommitSlot ==
  ASSUME ConcurrentInv, NEW s \in Session, Commit(s)
  PROVE  /\ Observed(tx[s]) \in Time /\ SlotOf(tx[s]) \in Nat /\ tx[s].row \in DeviceRow
         /\ Observed(tx[s]) =
              (IF tx[s].m.source = NoTime THEN tx[s].receipt ELSE tx[s].m.source)
         /\ SlotOf(tx[s]) = Aligned(Observed(tx[s]), tx[s].row)
<1>1. TxInv(raw, catalog, tx[s]) /\ tx[s].at = "storing" /\ tx[s] # Idle
  BY DEF ConcurrentInv, Commit, Idle
<1> QED BY <1>1, TxFields, TxSlot DEF Observed, SlotOf

\* Overlapping calls keep the inductive invariant of Ingest.
LEMMA OverlapStep ==
  ASSUME ConcurrentInv, IInv, ConcurrentInv', [ConcurrentNext]_allVars
  PROVE  IInv'
<1>1. ASSUME NEW s \in Session, Commit(s) PROVE IInv'
  BY <1>1, CommitEffect, CommitSlot, EffectInv
<1>2. CASE UNCHANGED <<lastSeen, raw, sample, catalog>>
  BY <1>2, InvFrame DEF ConcurrentInv
<1> QED BY <1>1, <1>2, ConcurrentSteps

\* However calls overlap, and whatever operators change meanwhile, each observation has
\* one row, whose samples are its payload, in the span of the catalog.
THEOREM OverlapInvariance == ConcurrentSpec => [](ConcurrentInv /\ IInv)
<1>1. ConcurrentInit => ConcurrentInv /\ IInv
  BY ConcurrentInvInit, InvInit DEF ConcurrentInit
<1>2. ConcurrentInv /\ IInv /\ [ConcurrentNext]_allVars => (ConcurrentInv /\ IInv)'
  BY ConcurrentInvStep, OverlapStep
<1> QED BY <1>1, <1>2, PTL DEF ConcurrentSpec

\* Readers of a store that is called from several connections see the last payload
\* committed for each topic and time, whole and alone.
THEOREM OverlapStored == ConcurrentSpec => ImplementsStore
<1>1. ConcurrentInit => Store!Init
  BY StoredInit DEF ConcurrentInit
<1>2. ASSUME ConcurrentInv, IInv, IInv', [ConcurrentNext]_allVars
      PROVE  [Store!Next]_(Store!vars)
  <2>1. ASSUME NEW s \in Session, Commit(s) PROVE [Store!Next]_(Store!vars)
    BY <1>2, <2>1, CommitEffect, EffectStored
  <2>2. CASE UNCHANGED <<raw, sample>>
    BY <2>2, StoredFrame
  <2> QED BY <1>2, <2>1, <2>2, ConcurrentSteps
<1> QED BY <1>1, <1>2, OverlapInvariance, PTL DEF ConcurrentSpec, ImplementsStore, Store!Spec

\* Of two calls about one observation the second keeps the receipt, the topic and the source
\* time that the first has stored, whichever read first; and no call removes a message.
THEOREM OverlapOrigins == ConcurrentSpec => OriginKept
<1> DEFINE Kept(i) == /\ i \in DOMAIN raw'
                      /\ raw'[i].receipt = raw[i].receipt
                      /\ raw'[i].topic = raw[i].topic
                      /\ raw'[i].source = raw[i].source
<1>1. ASSUME ConcurrentInv, NEW s \in Session, Commit(s), NEW i \in DOMAIN raw
      PROVE  Kept(i)
  <2> DEFINE t == tx[s]
  <2>1. TxInv(raw, catalog, t) /\ t.at = "storing" /\ t # Idle
    BY <1>1 DEF ConcurrentInv, Commit, Idle
  <2>2. Effect(t.m, t.id, t.receipt, Observed(t), SlotOf(t))
    BY <1>1, CommitEffect
  <2>3. HasId(raw, t)
    BY <2>1 DEF TxInv
  <2> HIDE DEF t
  <2>4. CASE i # t.id
    BY <1>1, <2>2, <2>4 DEF Effect
  <2>5. CASE i = t.id
    <3>1. i \in Clashing(raw, t.m) /\ t.receipt = raw[i].receipt
      BY <1>1, <2>3, <2>5 DEF HasId
    <3> QED BY <2>2, <2>5, <3>1 DEF Effect, Clashing
  <2> QED BY <2>4, <2>5
<1>2. ConcurrentInv /\ [ConcurrentNext]_allVars => [\A i \in DOMAIN raw : Kept(i)]_vars
  <2> SUFFICES ASSUME ConcurrentInv, [ConcurrentNext]_allVars
               PROVE  \A i \in DOMAIN raw : Kept(i)
    OBVIOUS
  <2>1. CASE \E s \in Session : Commit(s)
    BY <1>1, <2>1
  <2>2. CASE UNCHANGED <<lastSeen, raw, sample, catalog>>
    BY <2>2
  <2> QED BY <2>1, <2>2, ConcurrentSteps
<1> QED BY <1>2, ConcurrentInvariance, PTL DEF ConcurrentSpec, OriginKept

\* With settings and metrics that never change, no interleaving of statements makes the
\* catalog anything but what a rebuild from the samples would make it.
THEOREM OverlapCatalog ==
  ASSUME FixedSettings PROVE ConcurrentSpec => []CatalogIsRebuild
<1>1. ConcurrentInit => CInv
  BY InvInit DEF ConcurrentInit, Init, CInv, FixedSlots, CatalogIsRebuild, CatalogIsLatestRow
<1>2. ASSUME ConcurrentInv, CInv, IInv', [ConcurrentNext]_allVars
      PROVE  CInv'
  <2>1. ASSUME NEW s \in Session, Commit(s) PROVE CInv'
    BY <1>2, <2>1, CommitEffect, CommitSlot, EffectCatalog
  <2>2. CASE UNCHANGED <<raw, sample, catalog>>
    BY <1>2, <2>2, CatalogFrame
  <2> QED BY <1>2, <2>1, <2>2, ConcurrentSteps
<1>3. CInv => CatalogIsRebuild
  BY DEF CInv
<1> QED BY <1>1, <1>2, <1>3, OverlapInvariance, PTL DEF ConcurrentSpec

=============================================================================
