----------------------------- MODULE AdminProofs -----------------------------
(***************************************************************************)
(* Theorems about AdminApi, for every number of sessions, places, devices  *)
(* and metrics.  No call locks what it reads, so what keeps the registry   *)
(* consistent is that each write checks again, as the constraints of the   *)
(* schema do; and no deletion without force removes a device, because the  *)
(* count and the removal are one statement's view.                         *)
(***************************************************************************)
EXTENDS AdminApi, TLAPS

\* A call that has removed devices was told to.
SweptByForce ==
  \A s \in Session : session[s] # Idle =>
    LET c == session[s].call IN
    session[s].locked # {} => Removing(c) /\ c.force

AdminInv ==
  /\ TypeOK
  /\ NothingDangles
  /\ SweptByForce

-----------------------------------------------------------------------------
(* Calls and their fields. *)

\* What a call names is of the right kind.
LEMMA CallFields ==
  ASSUME NEW c \in Call
  PROVE  /\ c.op \in {"upsert_plant", "upsert_point", "delete_plant"} => c.plant \in Plant
         /\ c.op \in {"upsert_point", "upsert_device", "upsert_source", "delete_source",
                      "delete_point"} => c.point \in Point
         /\ c.op \in {"upsert_device", "toggle_device", "upsert_source", "delete_device"}
              => c.device \in Device
         /\ c.op \in {"upsert_metric", "delete_metric", "upsert_source", "delete_source"}
              => c.metric \in Metric
         /\ c.op \in {"upsert_device", "toggle_device"} => c.enabled \in BOOLEAN
         /\ c.op = "delete_device" => c = [op |-> "delete_device", device |-> c.device]
BY DEF Call

\* The call a session is in, and the sets of devices it keeps.
LEMMA BusyType ==
  ASSUME TypeOK, NEW s \in Session, session[s] # Idle
  PROVE  /\ session[s] \in Busy /\ session[s].call \in Call
         /\ session[s].before \subseteq Device /\ session[s].locked \subseteq Device
         /\ session[s].at = "read" \/ session[s].at = "swept"
<1>1. session[s] \in Busy
  BY DEF TypeOK
<1> QED BY <1>1 DEF Busy

\* A session that writes is in a call of that kind, and leaves it.
LEMMA WritingType ==
  ASSUME TypeOK, NEW s \in Session, NEW op, Writing(s, op)
  PROVE  /\ session[s] # Idle /\ session[s].call \in Call /\ session[s].call.op = op
         /\ session[s].before \subseteq Device /\ session[s].locked \subseteq Device
         /\ session' = [session EXCEPT ![s] = Idle] /\ session'[s] = Idle
         /\ session' \in [Session -> {Idle} \cup Busy]
         /\ UNCHANGED <<catalog, calls>>
<1>1. session[s] # Idle /\ session' = [session EXCEPT ![s] = Idle] /\ session[s].call.op = op
      /\ UNCHANGED <<catalog, calls>>
  BY DEF Writing
<1>2. session' \in [Session -> {Idle} \cup Busy] /\ session'[s] = Idle
  BY <1>1 DEF TypeOK
<1> QED BY <1>1, <1>2, BusyType

\* Only a call in progress that removes has devices removed and not committed.
LEMMA SweptStep ==
  AdminInv /\ [Next]_vars => SweptByForce' /\ session' \in [Session -> {Idle} \cup Busy]
<1> SUFFICES ASSUME AdminInv, [Next]_vars
             PROVE  SweptByForce' /\ session' \in [Session -> {Idle} \cup Busy]
  OBVIOUS
<1>1. TypeOK /\ SweptByForce
  BY DEF AdminInv
<1>2. ASSUME NEW s \in Session, NEW c \in Call, Begin(s, c)
      PROVE  SweptByForce' /\ session' \in [Session -> {Idle} \cup Busy]
  <2> DEFINE b == IF Removing(c) THEN InScope(c) ELSE {}
             new == [at |-> "read", call |-> c, locked |-> {}, before |-> b]
  <2>1. b \subseteq Device
    BY DEF InScope, DevicesOf, DevicesAt
  <2>2. new \in Busy /\ new.locked = {}
    BY <2>1 DEF Busy
  <2>3. session' = [session EXCEPT ![s] = new]
    BY <1>2 DEF Begin
  <2> HIDE DEF new
  <2> QED BY <1>1, <2>2, <2>3 DEF SweptByForce, TypeOK
<1>3. ASSUME NEW s \in Session, Sweep(s)
      PROVE  SweptByForce' /\ session' \in [Session -> {Idle} \cup Busy]
  <2> DEFINE c == session[s].call
             new == [session[s] EXCEPT !.at = "swept", !.locked = InScope(c)]
  <2>1. Removing(c) /\ (c.force \/ InScope(c) = {}) /\ session[s] # Idle
    BY <1>3 DEF Sweep, Idle
  <2>2. InScope(c) \subseteq Device
    BY DEF InScope, DevicesOf, DevicesAt
  <2>3. new \in Busy /\ new.locked = InScope(c) /\ new.call = c
    BY <1>1, <2>1, <2>2, BusyType DEF Busy
  <2>4. session' = [session EXCEPT ![s] = new]
    BY <1>1, <1>3 DEF Sweep, TypeOK
  <2> HIDE DEF new, c
  <2> QED BY <1>1, <2>1, <2>3, <2>4 DEF SweptByForce, TypeOK
<1>4. ASSUME NEW s \in Session, session' = [session EXCEPT ![s] = Idle]
      PROVE  SweptByForce' /\ session' \in [Session -> {Idle} \cup Busy]
  BY <1>1, <1>4 DEF SweptByForce, TypeOK
<1>5. CASE UNCHANGED session
  BY <1>1, <1>5 DEF SweptByForce, TypeOK
<1> QED BY <1>2, <1>3, <1>4, <1>5
        DEF Next, Commit, Abort, Observe, UpsertPlant, UpsertPoint, UpsertDevice, ToggleDevice,
            UpsertMetric, UpsertSource, DeleteSource, DeleteMetric, DeleteDevice, DeletePoint,
            DeletePlant, Writing, vars

-----------------------------------------------------------------------------
(* The registry. *)

\* The bindings that go by cascade are exactly those that name what goes.
LEMMA CascadeEffect ==
  ASSUME TypeOK, NEW points, NEW gone, NEW metric
  PROVE  LET new == SourceWithout(points, gone, metric) IN
         /\ new \in [Point \X Metric -> Device \cup {None}]
         /\ \A k \in Point \X Metric : new[k] # None =>
              /\ new[k] = source[k] /\ k[1] \notin points
              /\ source[k] \notin gone /\ k[2] \notin metric
BY DEF TypeOK, SourceWithout

\* A device that moves takes its bindings along; those of the others stay.
LEMMA MoveEffect ==
  ASSUME TypeOK, NothingDangles, NEW d \in Device, NEW p \in Point
  PROVE  /\ SourceMoved(d, p) \in [Point \X Metric -> Device \cup {None}]
         /\ \A k \in Point \X Metric : SourceMoved(d, p)[k] # None =>
              /\ k[2] \in metrics
              /\ \/ SourceMoved(d, p)[k] = d /\ k[1] = p
                 \/ SourceMoved(d, p)[k] = source[k] /\ source[k] # d
<1> DEFINE new == SourceMoved(d, p)
<1>1. new \in [Point \X Metric -> Device \cup {None}]
  BY DEF SourceMoved, TypeOK
<1>2. ASSUME NEW k \in Point \X Metric, new[k] # None
      PROVE  /\ k[2] \in metrics
             /\ \/ new[k] = d /\ k[1] = p
                \/ new[k] = source[k] /\ source[k] # d
  <2>1. CASE \E j \in Carried(d) : k = <<p, j[2]>>
    <3>1. PICK j \in Carried(d) : k = <<p, j[2]>>
      BY <2>1
    <3>2. j \in Point \X Metric /\ source[j] = d /\ d # None
      BY <3>1, NoneAssumption DEF Carried, TypeOK
    <3>3. j[2] \in metrics
      BY <3>2 DEF NothingDangles, TypeOK
    <3>4. new[k] = d
      BY <2>1 DEF SourceMoved, TypeOK
    <3> QED BY <3>1, <3>3, <3>4
  <2>2. CASE ~\E j \in Carried(d) : k = <<p, j[2]>>
    <3>1. new[k] = source[k] /\ source[k] # d
      BY <1>2, <2>2 DEF SourceMoved, TypeOK, Carried
    <3> QED BY <1>2, <3>1 DEF NothingDangles, TypeOK
  <2> QED BY <2>1, <2>2
<1> QED BY <1>1, <1>2

\* A place that is removed takes the devices counted with it, and has no other.
LEMMA RemoveEffect ==
  ASSUME AdminInv, NEW s \in Session, session[s] # Idle, NEW points \in SUBSET Point,
         Remove(s, points)
  PROVE  /\ pointOf' \in [Point -> Plant \cup {None}] /\ device' \in [Device -> Row \cup {None}]
         /\ source' \in [Point \X Metric -> Device \cup {None}]
         /\ told' \in [Device -> Row \cup {None}] /\ metrics' = metrics
         /\ \A p \in Point : pointOf'[p] = IF p \in points THEN None ELSE pointOf[p]
         /\ \A d \in Device : device'[d] # None => pointOf'[device'[d].point] # None
         /\ \A k \in DOMAIN source' : source'[k] # None =>
              k[2] \in metrics' /\ source'[k] \in DevicesAt(k[1])'
<1> DEFINE gone == session[s].locked
<1>1. /\ TypeOK /\ NothingDangles
      /\ pointOf' = [p \in Point |-> IF p \in points THEN None ELSE pointOf[p]]
      /\ device' = [d \in Device |-> IF d \in gone THEN None ELSE device[d]]
      /\ source' = SourceWithout(points, gone, {})
      /\ told' = [d \in Device |-> IF d \in session[s].before THEN None ELSE told[d]]
      /\ metrics' = metrics
      /\ \A p \in points : DevicesAt(p) \subseteq gone
  BY DEF Remove, AdminInv
<1> HIDE DEF gone
<1>2. /\ source' \in [Point \X Metric -> Device \cup {None}]
      /\ \A k \in Point \X Metric : source'[k] # None =>
           source'[k] = source[k] /\ k[1] \notin points /\ source[k] \notin gone
  BY <1>1 DEF SourceWithout, TypeOK
<1>3. ASSUME NEW d \in Device, device'[d] # None
      PROVE  d \notin gone /\ device'[d] = device[d] /\ pointOf'[device'[d].point] # None
  <2>1. d \notin gone /\ device'[d] = device[d] /\ device[d] \in Row
    BY <1>1, <1>3 DEF TypeOK
  <2>2. device[d].point \in Point \ points
    BY <1>1, <1>3, <2>1 DEF DevicesAt, Row
  <2> QED BY <1>1, <1>3, <2>1, <2>2 DEF NothingDangles
<1>4. ASSUME NEW k \in Point \X Metric, source'[k] # None
      PROVE  k[2] \in metrics' /\ source'[k] \in DevicesAt(k[1])'
  <2>1. source'[k] = source[k] /\ source[k] \notin gone /\ source[k] \in Device
    BY <1>1, <1>2, <1>4 DEF TypeOK
  <2>2. k[2] \in metrics /\ source[k] \in DevicesAt(k[1])
    BY <1>1, <1>4, <2>1 DEF NothingDangles, TypeOK
  <2>3. device'[source[k]] = device[source[k]]
    BY <1>1, <2>1
  <2> QED BY <1>1, <2>1, <2>2, <2>3 DEF DevicesAt
<1>5. device' \in [Device -> Row \cup {None}] /\ told' \in [Device -> Row \cup {None}]
  BY <1>1 DEF TypeOK
<1> QED BY <1>1, <1>2, <1>3, <1>4, <1>5 DEF TypeOK

\* Every write keeps the types and the references of the registry.
LEMMA WriteStep ==
  ASSUME AdminInv, NEW s \in Session, Commit(s), session' \in [Session -> {Idle} \cup Busy]
  PROVE  TypeOK' /\ NothingDangles'
<1> DEFINE c == session[s].call
<1>1. TypeOK /\ NothingDangles
  BY DEF AdminInv
<1>2. CASE UpsertPlant(s)
  <2>1. /\ c.plant \in Plant /\ plants' = plants \cup {c.plant}
        /\ UNCHANGED <<pointOf, device, metrics, source, told, catalog, calls>>
    BY <1>1, <1>2, WritingType, CallFields DEF UpsertPlant
  <2> HIDE DEF c
  <2>2. TypeOK'
    BY <1>1, <2>1 DEF TypeOK
  <2> QED BY <1>1, <2>1, <2>2 DEF NothingDangles, DevicesAt
<1>3. CASE UpsertPoint(s)
  <2>1. /\ c.plant \in plants /\ c.point \in Point /\ c.plant \in Plant
        /\ pointOf' = [pointOf EXCEPT ![c.point] = c.plant]
        /\ UNCHANGED <<plants, device, metrics, source, told, catalog, calls>>
    BY <1>1, <1>3, WritingType, CallFields DEF UpsertPoint
  <2> HIDE DEF c
  <2>2. TypeOK'
    BY <1>1, <2>1 DEF TypeOK
  <2>3. \A p \in Point : pointOf'[p] # None => pointOf'[p] \in plants'
    BY <1>1, <2>1 DEF NothingDangles, TypeOK
  <2>4. \A p \in Point : pointOf[p] # None => pointOf'[p] # None
    BY <1>1, <2>1, NoneAssumption DEF TypeOK
  <2>5. \A d \in Device : device'[d] # None => pointOf'[device'[d].point] # None
    BY <1>1, <2>1, <2>4 DEF NothingDangles, TypeOK, Row
  <2> QED BY <1>1, <2>1, <2>2, <2>3, <2>5 DEF NothingDangles, DevicesAt
<1>4. CASE UpsertDevice(s)
  <2>0. PICK d \in Device, p \in Point, b \in BOOLEAN :
          d = c.device /\ p = c.point /\ b = c.enabled
    BY <1>1, <1>4, WritingType, CallFields DEF UpsertDevice
  <2> DEFINE row == [point |-> p, enabled |-> b]
  <2>1. /\ pointOf[p] # None
        /\ device' = [device EXCEPT ![d] = row] /\ source' = SourceMoved(d, p)
        /\ told' = [told EXCEPT ![d] = row]
        /\ UNCHANGED <<plants, pointOf, metrics, catalog, calls>>
    BY <1>1, <1>4, <2>0, WritingType DEF UpsertDevice
  <2>2. row \in Row /\ row # None /\ row.point = p
    BY NoneAssumption DEF Row
  <2> HIDE DEF row
  <2>3. /\ source' \in [Point \X Metric -> Device \cup {None}]
        /\ \A k \in Point \X Metric : source'[k] # None =>
             /\ k[2] \in metrics
             /\ \/ source'[k] = d /\ k[1] = p
                \/ source'[k] = source[k] /\ source[k] # d
    <3>1. /\ SourceMoved(d, p) \in [Point \X Metric -> Device \cup {None}]
          /\ \A k \in Point \X Metric : SourceMoved(d, p)[k] # None =>
               /\ k[2] \in metrics
               /\ \/ SourceMoved(d, p)[k] = d /\ k[1] = p
                  \/ SourceMoved(d, p)[k] = source[k] /\ source[k] # d
      BY <1>1, MoveEffect
    <3> QED BY <2>1, <3>1
  <2>4. TypeOK'
    BY <1>1, <2>1, <2>2, <2>3 DEF TypeOK
  <2>5. \A e \in Device : device'[e] # None => pointOf'[device'[e].point] # None
    BY <1>1, <2>1, <2>2 DEF NothingDangles, TypeOK
  <2>6. ASSUME NEW k \in Point \X Metric, source'[k] # None
        PROVE  k[2] \in metrics' /\ source'[k] \in DevicesAt(k[1])'
    <3>1. CASE source'[k] = d /\ k[1] = p
      BY <1>1, <2>1, <2>2, <2>3, <2>6, <3>1 DEF DevicesAt, TypeOK
    <3>2. CASE source'[k] = source[k] /\ source[k] # d
      BY <1>1, <2>1, <2>3, <2>6, <3>2 DEF DevicesAt, TypeOK, NothingDangles
    <3> QED BY <2>3, <2>6, <3>1, <3>2
  <2> QED BY <1>1, <2>1, <2>3, <2>4, <2>5, <2>6 DEF NothingDangles
<1>5. CASE ToggleDevice(s)
  <2> DEFINE d == c.device
             row == IF device[d] = None THEN None ELSE [device[d] EXCEPT !.enabled = c.enabled]
  <2>1. /\ d \in Device /\ c.enabled \in BOOLEAN
        /\ device' = [device EXCEPT ![d] = row] /\ told' = [told EXCEPT ![d] = row]
        /\ UNCHANGED <<plants, pointOf, metrics, source, catalog, calls>>
    BY <1>1, <1>5, WritingType, CallFields DEF ToggleDevice
  <2>2. /\ row \in Row \cup {None}
        /\ device[d] = None => row = None
        /\ device[d] # None => row \in Row /\ row # None /\ row.point = device[d].point
    BY <1>1, <2>1, NoneAssumption DEF Row, TypeOK
  <2> HIDE DEF d, row, c
  <2>3. TypeOK'
    BY <1>1, <2>1, <2>2 DEF TypeOK
  <2>4. \A e \in Device :
          /\ (device'[e] = None) <=> (device[e] = None)
          /\ device[e] # None => device'[e].point = device[e].point
    BY <1>1, <2>1, <2>2 DEF TypeOK
  <2>5. \A p, e : e \in DevicesAt(p) => e \in DevicesAt(p)'
    BY <2>4 DEF DevicesAt
  <2>6. \A e \in Device : device'[e] # None => pointOf'[device'[e].point] # None
    BY <1>1, <2>1, <2>4 DEF NothingDangles
  <2>7. ASSUME NEW k \in DOMAIN source', source'[k] # None
        PROVE  k[2] \in metrics' /\ source'[k] \in DevicesAt(k[1])'
    BY <1>1, <2>1, <2>5, <2>7 DEF NothingDangles
  <2> QED BY <1>1, <2>1, <2>3, <2>6, <2>7 DEF NothingDangles
<1>6. CASE UpsertMetric(s)
  <2>1. /\ c.metric \in Metric /\ metrics' = metrics \cup {c.metric}
        /\ UNCHANGED <<plants, pointOf, device, source, told, catalog, calls>>
    BY <1>1, <1>6, WritingType, CallFields DEF UpsertMetric
  <2> HIDE DEF c
  <2>2. TypeOK'
    BY <1>1, <2>1 DEF TypeOK
  <2> QED BY <1>1, <2>1, <2>2 DEF NothingDangles, DevicesAt
<1>7. CASE UpsertSource(s)
  <2> DEFINE k == <<c.point, c.metric>>
  <2>1. /\ c.point \in Point /\ c.metric \in metrics /\ c.metric \in Metric
        /\ c.device \in DevicesAt(c.point)
        /\ source' = [source EXCEPT ![k] = c.device]
        /\ UNCHANGED <<plants, pointOf, device, metrics, told, catalog, calls>>
    BY <1>1, <1>7, WritingType, CallFields DEF UpsertSource
  <2>2. k \in Point \X Metric /\ k[1] = c.point /\ k[2] \in metrics /\ c.device \in Device
    BY <2>1 DEF DevicesAt
  <2> HIDE DEF k, c
  <2>3. TypeOK'
    BY <1>1, <2>1, <2>2 DEF TypeOK
  <2>4. ASSUME NEW j \in Point \X Metric, source'[j] # None
        PROVE  j[2] \in metrics' /\ source'[j] \in DevicesAt(j[1])'
    <3>1. \A p : DevicesAt(p)' = DevicesAt(p)
      BY <2>1 DEF DevicesAt
    <3>2. CASE j = k
      <4>1. source'[j] = c.device
        BY <1>1, <2>1, <2>2, <3>2 DEF TypeOK
      <4> QED BY <2>1, <2>2, <3>1, <3>2, <4>1
    <3>3. CASE j # k
      <4>1. source'[j] = source[j]
        BY <1>1, <2>1, <3>3 DEF TypeOK
      <4> QED BY <1>1, <2>1, <2>4, <3>1, <4>1 DEF NothingDangles, TypeOK
    <3> QED BY <3>2, <3>3
  <2>5. DOMAIN source' = Point \X Metric
    BY <2>3 DEF TypeOK
  <2> QED BY <1>1, <2>1, <2>3, <2>4, <2>5 DEF NothingDangles
<1>8. ASSUME NEW points, NEW gone, NEW metric, source' = SourceWithout(points, gone, metric),
             UNCHANGED <<plants, pointOf, catalog, calls>>, told' \in [Device -> Row \cup {None}],
             device' \in [Device -> Row \cup {None}], metrics' \subseteq metrics,
             \A d \in Device \ gone : device'[d] = device[d],
             \A d \in Device : device'[d] # None => device'[d] = device[d],
             \A m \in metrics : m \in metrics' \/ m \in metric
      PROVE  TypeOK' /\ NothingDangles'
  <2>1. /\ source' \in [Point \X Metric -> Device \cup {None}]
        /\ \A k \in Point \X Metric : source'[k] # None =>
             source'[k] = source[k] /\ source[k] \notin gone /\ k[2] \notin metric
    BY <1>1, <1>8 DEF SourceWithout, TypeOK
  <2>2. TypeOK'
    BY <1>1, <1>8, <2>1 DEF TypeOK
  <2>3. ASSUME NEW k \in Point \X Metric, source'[k] # None
        PROVE  k[2] \in metrics' /\ source'[k] \in DevicesAt(k[1])'
    BY <1>1, <1>8, <2>1, <2>3 DEF NothingDangles, DevicesAt, TypeOK
  <2>4. \A d \in Device : device'[d] # None => pointOf'[device'[d].point] # None
    BY <1>1, <1>8 DEF NothingDangles
  <2> QED BY <1>1, <1>8, <2>1, <2>2, <2>3, <2>4 DEF NothingDangles
<1>9. CASE DeleteMetric(s)
  <2>1. /\ metrics' = metrics \ {c.metric} /\ source' = SourceWithout({}, {}, {c.metric})
        /\ UNCHANGED <<plants, pointOf, device, told, catalog, calls>>
    BY <1>1, <1>9, WritingType DEF DeleteMetric
  <2> QED BY <1>1, <1>8, <2>1 DEF TypeOK
<1>10. CASE DeleteSource(s)
  <2> DEFINE k == <<c.point, c.metric>>
  <2>1. /\ source' = [source EXCEPT ![k] = None]
        /\ UNCHANGED <<plants, pointOf, device, metrics, told, catalog, calls>>
    BY <1>1, <1>10, WritingType DEF DeleteSource
  <2> HIDE DEF k
  <2>2. TypeOK'
    BY <1>1, <2>1 DEF TypeOK
  <2>3. \A j \in Point \X Metric : source'[j] # None => source'[j] = source[j]
    BY <1>1, <2>1 DEF TypeOK
  <2>4. \A p : DevicesAt(p)' = DevicesAt(p)
    BY <2>1 DEF DevicesAt
  <2> QED BY <1>1, <2>1, <2>2, <2>3, <2>4 DEF NothingDangles, TypeOK
<1>11. CASE DeleteDevice(s)
  <2>1. /\ device' = [device EXCEPT ![c.device] = None] /\ c.device \in Device
        /\ source' = SourceWithout({}, {c.device}, {}) /\ told' = [told EXCEPT ![c.device] = None]
        /\ UNCHANGED <<plants, pointOf, metrics, catalog, calls>>
    BY <1>1, <1>11, WritingType, CallFields DEF DeleteDevice
  <2>2. /\ device' \in [Device -> Row \cup {None}] /\ told' \in [Device -> Row \cup {None}]
        /\ device'[c.device] = None /\ \A d \in Device \ {c.device} : device'[d] = device[d]
    BY <1>1, <2>1 DEF TypeOK
  <2> HIDE DEF c
  <2> QED BY <1>1, <1>8, <2>1, <2>2 DEF TypeOK
<1>12. CASE DeletePoint(s)
  <2> DEFINE points == {c.point}
  <2>1. /\ points \in SUBSET Point /\ Remove(s, points) /\ session[s] # Idle
        /\ UNCHANGED <<plants, catalog, calls>>
    BY <1>1, <1>12, WritingType, CallFields DEF DeletePoint
  <2> HIDE DEF points
  <2>2. \A p \in Point : pointOf'[p] # None => pointOf'[p] \in plants'
    BY <1>1, <2>1, RemoveEffect DEF NothingDangles
  <2> QED BY <1>1, <2>1, <2>2, RemoveEffect DEF TypeOK, NothingDangles
<1>13. CASE DeletePlant(s)
  <2> DEFINE plant == c.plant
             points == {p \in Point : pointOf[p] = plant}
  <2>1. /\ points \in SUBSET Point /\ Remove(s, points) /\ session[s] # Idle
        /\ plants' = plants \ {plant} /\ UNCHANGED <<catalog, calls>>
    BY <1>1, <1>13, WritingType, CallFields DEF DeletePlant
  <2>2. \A p \in Point : p \notin points => pointOf[p] # plant
    OBVIOUS
  <2> HIDE DEF points, plant
  <2>3. \A p \in Point : pointOf'[p] # None => pointOf'[p] \in plants'
    BY <1>1, <2>1, <2>2, RemoveEffect DEF NothingDangles
  <2> QED BY <1>1, <2>1, <2>3, RemoveEffect DEF TypeOK, NothingDangles
<1> QED BY <1>2, <1>3, <1>4, <1>5, <1>6, <1>7, <1>9, <1>10, <1>11, <1>12, <1>13 DEF Commit

\* At the start nothing is bound and every device stands at a point of a plant.
LEMMA InvInit == Init => AdminInv
<1> SUFFICES ASSUME Init PROVE AdminInv
  OBVIOUS
<1>1. SweptByForce
  BY DEF Init, SweptByForce
<1>2. TypeOK
  BY NoneAssumption DEF Init, TypeOK
<1>3. NothingDangles
  BY <1>2 DEF Init, NothingDangles, TypeOK
<1> QED BY <1>1, <1>2, <1>3 DEF AdminInv

\* Every step keeps the invariant: what a call began with may have gone since, and is
\* looked up again by the write.
LEMMA InvStep == AdminInv /\ [Next]_vars => AdminInv'
<1> SUFFICES ASSUME AdminInv, [Next]_vars PROVE AdminInv'
  OBVIOUS
<1>1. TypeOK /\ NothingDangles /\ SweptByForce'
      /\ session' \in [Session -> {Idle} \cup Busy]
  BY SweptStep DEF AdminInv
<1>2. ASSUME UNCHANGED <<registry, told>>, calls' \in 0..MaxCalls,
             catalog' \subseteq Plant \X Point \X Device \X Metric
      PROVE  TypeOK' /\ NothingDangles'
  BY <1>1, <1>2 DEF TypeOK, NothingDangles, DevicesAt, registry
<1>3. ASSUME NEW s \in Session, NEW c \in Call, Begin(s, c)
      PROVE  TypeOK' /\ NothingDangles'
  <2>1. calls' \in 0..MaxCalls /\ UNCHANGED <<registry, catalog, told>>
    BY <1>1, <1>3, NoneAssumption DEF Begin, TypeOK
  <2> QED BY <1>1, <1>2, <2>1 DEF TypeOK
<1>4. ASSUME NEW s \in Session, Sweep(s) \/ Abort(s)
      PROVE  TypeOK' /\ NothingDangles'
  BY <1>1, <1>2, <1>4 DEF Sweep, Abort, TypeOK
<1>5. ASSUME NEW d \in Device, NEW m \in Metric, Observe(d, m)
      PROVE  TypeOK' /\ NothingDangles'
  <2>1. device[d] \in Row /\ device[d].point \in Point
    BY <1>1, <1>5 DEF Observe, TypeOK, Row
  <2>2. pointOf[device[d].point] \in Plant
    BY <1>1, <1>5, <2>1 DEF Observe, TypeOK, NothingDangles
  <2>3. catalog' \subseteq Plant \X Point \X Device \X Metric
    BY <1>1, <1>5, <2>1, <2>2 DEF Observe, TypeOK
  <2> QED BY <1>1, <1>2, <1>5, <2>3 DEF Observe, TypeOK
<1>6. CASE UNCHANGED vars
  BY <1>1, <1>2, <1>6 DEF vars, TypeOK, AdminInv
<1> QED BY <1>1, <1>3, <1>4, <1>5, <1>6, WriteStep DEF Next, AdminInv

-----------------------------------------------------------------------------
(* The theorems. *)

\* The inductive invariant holds however the calls overlap.
THEOREM Invariance == Spec => []AdminInv
<1> QED BY InvInit, InvStep, PTL DEF Spec

\* Every variable keeps its type.
THEOREM TypeCorrect == Spec => []TypeOK
<1>1. AdminInv => TypeOK
  BY DEF AdminInv
<1> QED BY <1>1, Invariance, PTL

\* No interleaving of calls leaves a device without its point, a point without its
\* plant, or a binding to a device that is elsewhere or to a metric that is gone.
THEOREM RegistryConsistent == Spec => []NothingDangles
<1>1. AdminInv => NothingDangles
  BY DEF AdminInv
<1> QED BY <1>1, Invariance, PTL

\* Every call that ends and every step that touches no device: which devices change.
LEMMA DeviceChanges ==
  ASSUME AdminInv, [Next]_vars, NEW d \in Device, device'[d] # device[d]
  PROVE  \E s \in Session :
           /\ session[s] # Idle /\ session'[s] = Idle
           /\ \/ /\ UpsertDevice(s) \/ ToggleDevice(s)
                 /\ session[s].call.device = d
              \/ DeleteDevice(s) /\ session[s].call.device = d
              \/ /\ DeletePoint(s) \/ DeletePlant(s)
                 /\ d \in session[s].locked
<1>1. TypeOK
  BY DEF AdminInv
<1>2. ASSUME NEW s \in Session, NEW points, Remove(s, points)
      PROVE  d \in session[s].locked
  BY <1>1, <1>2 DEF Remove, TypeOK
<1>3. ASSUME NEW s \in Session, NEW row,
             device' = [device EXCEPT ![session[s].call.device] = row]
      PROVE  session[s].call.device = d
  BY <1>1, <1>3 DEF TypeOK
<1>4. PICK s \in Session : UpsertDevice(s) \/ ToggleDevice(s) \/ DeleteDevice(s)
                            \/ DeletePoint(s) \/ DeletePlant(s)
  BY DEF Next, Commit, Begin, Sweep, Abort, Observe, UpsertPlant, UpsertPoint, UpsertMetric,
         UpsertSource, DeleteSource, DeleteMetric, vars, registry
<1>5. \E op : Writing(s, op)
  BY <1>4 DEF UpsertDevice, ToggleDevice, DeleteDevice, DeletePoint, DeletePlant
<1>6. session[s] # Idle /\ session'[s] = Idle
  BY <1>1, <1>5, WritingType
<1>7. /\ UpsertDevice(s) => session[s].call.device = d
      /\ ToggleDevice(s) => session[s].call.device = d
      /\ DeleteDevice(s) => session[s].call.device = d
  BY <1>3 DEF UpsertDevice, ToggleDevice, DeleteDevice
<1>8. DeletePoint(s) \/ DeletePlant(s) => d \in session[s].locked
  BY <1>2 DEF DeletePoint, DeletePlant
<1> QED BY <1>4, <1>6, <1>7, <1>8

\* A device goes only when it is deleted, or with its place by force: without force the
\* list of what goes is empty when it is made, and nothing is added to it.
THEOREM GoneOnRequest == Spec => DevicesGoOnRequest
<1> DEFINE Asked(d, s) ==
             /\ session[s] # Idle /\ session'[s] = Idle
             /\ \/ session[s].call = [op |-> "delete_device", device |-> d]
                \/ /\ Removing(session[s].call) /\ session[s].call.force
                   /\ d \in session[s].locked
<1>1. ASSUME AdminInv, [Next]_vars, NEW d \in Device, device[d] # None, device'[d] = None
      PROVE  \E s \in Session : Asked(d, s)
  <2>1. TypeOK /\ SweptByForce
    BY <1>1 DEF AdminInv
  <2>2. PICK s \in Session :
          /\ session[s] # Idle /\ session'[s] = Idle
          /\ \/ /\ UpsertDevice(s) \/ ToggleDevice(s)
                /\ session[s].call.device = d
             \/ DeleteDevice(s) /\ session[s].call.device = d
             \/ /\ DeletePoint(s) \/ DeletePlant(s)
                /\ d \in session[s].locked
    BY <1>1, DeviceChanges
  <2>3. CASE UpsertDevice(s) /\ session[s].call.device = d
    <3>1. session[s].call \in Call /\ session[s].call.op = "upsert_device"
      BY <2>1, <2>3, WritingType DEF UpsertDevice
    <3>2. session[s].call.point \in Point /\ session[s].call.enabled \in BOOLEAN
      BY <3>1, CallFields
    <3>3. device'[d] \in Row
      BY <2>1, <2>3, <3>2 DEF UpsertDevice, TypeOK, Row
    <3> QED BY <1>1, <3>3, NoneAssumption
  <2>4. CASE ToggleDevice(s) /\ session[s].call.device = d
    <3>1. session[s].call \in Call /\ session[s].call.op = "toggle_device"
      BY <2>1, <2>4, WritingType DEF ToggleDevice
    <3>2. session[s].call.enabled \in BOOLEAN
      BY <3>1, CallFields
    <3>3. device'[d] = [device[d] EXCEPT !.enabled = session[s].call.enabled]
      BY <1>1, <2>1, <2>4 DEF ToggleDevice, TypeOK
    <3>4. device'[d] \in Row
      BY <1>1, <2>1, <3>2, <3>3 DEF TypeOK, Row
    <3> QED BY <1>1, <3>4, NoneAssumption
  <2>5. CASE DeleteDevice(s) /\ session[s].call.device = d
    <3>1. session[s].call \in Call /\ session[s].call.op = "delete_device"
      BY <2>1, <2>5, WritingType DEF DeleteDevice
    <3>2. session[s].call = [op |-> "delete_device", device |-> d]
      BY <2>5, <3>1, CallFields
    <3> QED BY <2>2, <3>2
  <2>6. CASE d \in session[s].locked
    BY <2>1, <2>2, <2>6 DEF SweptByForce
  <2> QED BY <2>2, <2>3, <2>4, <2>5, <2>6
<1>2. AdminInv /\ [Next]_vars =>
        [\A d \in Device : device[d] # None /\ device'[d] = None =>
           \E s \in Session : Asked(d, s)]_vars
  BY <1>1
<1> QED BY <1>2, Invariance, PTL DEF Spec, DevicesGoOnRequest

\* What happens to a device is in the log, but for one that a deletion did not list.
THEOREM ChangesAudited == Spec => ChangesAreAudited
<1> DEFINE Logged(d) ==
             \/ told'[d] = device'[d]
             \/ \E s \in Session :
                  /\ session[s] # Idle /\ session'[s] = Idle
                  /\ Removing(session[s].call) /\ d \notin session[s].before
<1>1. ASSUME AdminInv, [Next]_vars, NEW d \in Device, device'[d] # device[d]
      PROVE  Logged(d)
  <2>1. TypeOK
    BY <1>1 DEF AdminInv
  <2>2. PICK s \in Session :
          /\ session[s] # Idle /\ session'[s] = Idle
          /\ \/ /\ UpsertDevice(s) \/ ToggleDevice(s)
                /\ session[s].call.device = d
             \/ DeleteDevice(s) /\ session[s].call.device = d
             \/ /\ DeletePoint(s) \/ DeletePlant(s)
                /\ d \in session[s].locked
    BY <1>1, DeviceChanges
  <2>3. ASSUME NEW row, device' = [device EXCEPT ![d] = row], told' = [told EXCEPT ![d] = row]
        PROVE  Logged(d)
    BY <2>1, <2>3 DEF TypeOK
  <2>4. CASE UpsertDevice(s) /\ session[s].call.device = d
    BY <2>3, <2>4 DEF UpsertDevice
  <2>5. CASE ToggleDevice(s) /\ session[s].call.device = d
    BY <2>3, <2>5 DEF ToggleDevice
  <2>6. CASE DeleteDevice(s) /\ session[s].call.device = d
    BY <2>3, <2>6 DEF DeleteDevice
  <2>7. CASE (DeletePoint(s) \/ DeletePlant(s)) /\ d \in session[s].locked
    <3>1. Removing(session[s].call)
      BY <2>7 DEF DeletePoint, DeletePlant, Writing, Removing
    <3>2. CASE d \notin session[s].before
      BY <2>2, <3>1, <3>2
    <3>3. CASE d \in session[s].before
      <4>1. PICK points : Remove(s, points)
        BY <2>7 DEF DeletePoint, DeletePlant
      <4>2. device'[d] = None /\ told'[d] = None
        BY <2>7, <3>3, <4>1 DEF Remove
      <4> QED BY <4>2
    <3> QED BY <3>2, <3>3
  <2> QED BY <2>2, <2>4, <2>5, <2>6, <2>7
<1>2. AdminInv /\ [Next]_vars =>
        [\A d \in Device : device'[d] # device[d] => Logged(d)]_vars
  BY <1>1
<1> QED BY <1>2, Invariance, PTL DEF Spec, ChangesAreAudited

=============================================================================
