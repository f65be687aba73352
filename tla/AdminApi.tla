------------------------------ MODULE AdminApi ------------------------------
(***************************************************************************)
(* The control plane's functions (postgres/initdb/002_admin_api.sql) on    *)
(* the registry: plants, their points, the devices at a point, and which   *)
(* device a point shows for a metric.  Grafana's forms and PostgREST call  *)
(* them at the same time; each call is a transaction at READ COMMITTED, so *)
(* each of its statements sees what was committed when that statement      *)
(* began.  A call here is up to three steps: what it reads first, the      *)
(* removal of the devices (forced deletions), and its last write, which    *)
(* commits.  A write that must wait for another call's rows waits.         *)
(***************************************************************************)
EXTENDS Integers, FiniteSets

CONSTANTS Plant, Point, Device, Metric, Session, None,
          MaxCalls    \* bound: the calls made

Row == [point : Point, enabled : BOOLEAN]

ASSUME NoneAssumption ==
  None \notin Plant \cup Point \cup Device \cup Row /\ MaxCalls \in Nat

VARIABLES
  plants,     \* plant
  pointOf,    \* point: the plant of each, or None
  device,     \* device: the row of each, or None
  metrics,    \* metric_dict
  source,     \* point_metric_source: the device bound to a point's metric, or None
  catalog,    \* metric_sample_source: its keys
  told,       \* audit_log: what its newest entry about a device leaves of it
  session,    \* the call each session is in
  calls

registry == <<plants, pointOf, device, metrics, source>>
vars == <<registry, catalog, told, session, calls>>

Call ==
  [op : {"upsert_plant"}, plant : Plant]
    \cup [op : {"upsert_point"}, point : Point, plant : Plant]
    \cup [op : {"upsert_device"}, device : Device, point : Point, enabled : BOOLEAN]
    \cup [op : {"toggle_device"}, device : Device, enabled : BOOLEAN]
    \cup [op : {"upsert_metric", "delete_metric"}, metric : Metric]
    \cup [op : {"upsert_source"}, point : Point, metric : Metric, device : Device]
    \cup [op : {"delete_source"}, point : Point, metric : Metric]
    \cup [op : {"delete_device"}, device : Device]
    \cup [op : {"delete_point"}, point : Point, force : BOOLEAN]
    \cup [op : {"delete_plant"}, plant : Plant, force : BOOLEAN]

Idle == [at |-> "idle"]
Busy == [at : {"read", "swept"}, call : Call, before : SUBSET Device, locked : SUBSET Device]

DevicesAt(p) == {d \in Device : device[d] # None /\ device[d].point = p}
DevicesOf(plant) == UNION {DevicesAt(p) : p \in {q \in Point : pointOf[q] = plant}}
InScope(c) == IF c.op = "delete_point" THEN DevicesAt(c.point) ELSE DevicesOf(c.plant)
Removing(c) == c.op \in {"delete_point", "delete_plant"}

-----------------------------------------------------------------------------
(* The reads a call begins with. *)

\* The checks that make the call raise.
Accepted(c) ==
  CASE c.op \in {"upsert_plant", "upsert_metric"} -> TRUE
    [] c.op = "upsert_point" -> c.plant \in plants
    [] c.op = "upsert_device" -> pointOf[c.point] # None
    [] c.op \in {"toggle_device", "delete_device"} -> device[c.device] # None
    [] c.op = "upsert_source" ->
         pointOf[c.point] # None /\ c.metric \in metrics /\ c.device \in DevicesAt(c.point)
    [] c.op = "delete_source" -> source[c.point, c.metric] # None
    [] c.op = "delete_metric" -> c.metric \in metrics
    [] c.op = "delete_point" -> pointOf[c.point] # None
    [] c.op = "delete_plant" -> c.plant \in plants

\* v_before, of which only the devices a deletion lists are kept.
Begin(s, c) ==
  /\ session[s] = Idle
  /\ calls < MaxCalls /\ calls' = calls + 1
  /\ Accepted(c)
  /\ session' = [session EXCEPT ![s] =
       [at |-> "read", call |-> c, locked |-> {},
        before |-> IF Removing(c) THEN InScope(c) ELSE {}]]
  /\ UNCHANGED <<registry, catalog, told>>

\* Rows another call has removed and not yet committed.
LockedByOthers(s) ==
  UNION {session[t].locked : t \in {u \in Session \ {s} : session[u] # Idle}}

\* The count and, if forced, the removal of the devices: statements of their own.
Sweep(s) ==
  LET c == session[s].call IN
  /\ session[s].at = "read" /\ Removing(c)
  /\ c.force \/ InScope(c) = {}
  /\ InScope(c) \cap LockedByOthers(s) = {}
  /\ session' = [session EXCEPT ![s].at = "swept", ![s].locked = InScope(c)]
  /\ UNCHANGED <<registry, catalog, told, calls>>

-----------------------------------------------------------------------------
(* The last write of each call, its audit entry and its commit. *)

Writing(s, op) ==
  /\ session[s] # Idle /\ session[s].call.op = op
  /\ session[s].at = IF Removing(session[s].call) THEN "swept" ELSE "read"
  /\ session' = [session EXCEPT ![s] = Idle]
  /\ UNCHANGED <<catalog, calls>>

\* ON DELETE CASCADE: the bindings go with what they name.
SourceWithout(points, gone, metric) ==
  [k \in DOMAIN source |->
     IF k[1] \in points \/ source[k] \in gone \/ k[2] \in metric THEN None ELSE source[k]]

UpsertPlant(s) ==
  /\ Writing(s, "upsert_plant")
  /\ plants' = plants \cup {session[s].call.plant}
  /\ UNCHANGED <<pointOf, device, metrics, source, told>>

UpsertPoint(s) ==
  LET c == session[s].call IN
  /\ Writing(s, "upsert_point")
  /\ c.plant \in plants
  /\ pointOf' = [pointOf EXCEPT ![c.point] = c.plant]
  /\ UNCHANGED <<plants, device, metrics, source, told>>

\* ON UPDATE CASCADE: the bindings of a device that moves go with it to its new point,
\* where each must find its metric unbound.
Carried(d) == {k \in DOMAIN source : source[k] = d}
Fits(d, p) ==
  (device[d] # None /\ device[d].point # p) =>
    \A k \in Carried(d) : source[p, k[2]] = None
\* Defect: the bindings of a device that moves stay.
SourceStays(d, p) == source

SourceMoved(d, p) ==
  [k \in DOMAIN source |->
     IF \E j \in Carried(d) : k = <<p, j[2]>> THEN d
     ELSE IF k \in Carried(d) THEN None ELSE source[k]]

UpsertDevice(s) ==
  LET c == session[s].call
      row == [point |-> c.point, enabled |-> c.enabled]
  IN
  /\ Writing(s, "upsert_device")
  /\ c.device \notin LockedByOthers(s)
  /\ pointOf[c.point] # None /\ Fits(c.device, c.point)
  /\ device' = [device EXCEPT ![c.device] = row]
  /\ source' = SourceMoved(c.device, c.point)
  /\ told' = [told EXCEPT ![c.device] = row]
  /\ UNCHANGED <<plants, pointOf, metrics>>

\* v_after is read again after the update, which finds nothing if the device is gone.
ToggleDevice(s) ==
  LET c == session[s].call
      row == IF device[c.device] = None THEN None
             ELSE [device[c.device] EXCEPT !.enabled = c.enabled]
  IN
  /\ Writing(s, "toggle_device")
  /\ c.device \notin LockedByOthers(s)
  /\ device' = [device EXCEPT ![c.device] = row]
  /\ told' = [told EXCEPT ![c.device] = row]
  /\ UNCHANGED <<plants, pointOf, metrics, source>>

UpsertMetric(s) ==
  /\ Writing(s, "upsert_metric")
  /\ metrics' = metrics \cup {session[s].call.metric}
  /\ UNCHANGED <<plants, pointOf, device, source, told>>

UpsertSource(s) ==
  LET c == session[s].call IN
  /\ Writing(s, "upsert_source")
  /\ c.device \notin LockedByOthers(s)
  /\ c.metric \in metrics /\ c.device \in DevicesAt(c.point)
  /\ source' = [source EXCEPT ![<<c.point, c.metric>>] = c.device]
  /\ UNCHANGED <<plants, pointOf, device, metrics, told>>

DeleteSource(s) ==
  LET c == session[s].call IN
  /\ Writing(s, "delete_source")
  /\ source' = [source EXCEPT ![<<c.point, c.metric>>] = None]
  /\ UNCHANGED <<plants, pointOf, device, metrics, told>>

DeleteMetric(s) ==
  LET c == session[s].call IN
  /\ Writing(s, "delete_metric")
  /\ metrics' = metrics \ {c.metric}
  /\ source' = SourceWithout({}, {}, {c.metric})
  /\ UNCHANGED <<plants, pointOf, device, told>>

DeleteDevice(s) ==
  LET c == session[s].call IN
  /\ Writing(s, "delete_device")
  /\ c.device \notin LockedByOthers(s)
  /\ device' = [device EXCEPT ![c.device] = None]
  /\ source' = SourceWithout({}, {c.device}, {})
  /\ told' = [told EXCEPT ![c.device] = None]
  /\ UNCHANGED <<plants, pointOf, metrics>>

\* Defects: a device that came meanwhile is left without its point; it goes with it;
\* the audit entry lists no devices.
RemoveUnrestricted(s, points) ==
  /\ pointOf' = [p \in Point |-> IF p \in points THEN None ELSE pointOf[p]]
  /\ device' = [d \in Device |-> IF d \in session[s].locked THEN None ELSE device[d]]
  /\ source' = SourceWithout(points, session[s].locked, {})
  /\ told' = [d \in Device |-> IF d \in session[s].before THEN None ELSE told[d]]
  /\ UNCHANGED metrics
RemoveCascading(s, points) ==
  LET gone == UNION {DevicesAt(p) : p \in points} IN
  /\ pointOf' = [p \in Point |-> IF p \in points THEN None ELSE pointOf[p]]
  /\ device' = [d \in Device |-> IF d \in gone THEN None ELSE device[d]]
  /\ source' = SourceWithout(points, gone, {})
  /\ told' = [d \in Device |-> IF d \in session[s].before THEN None ELSE told[d]]
  /\ UNCHANGED metrics
RemoveUnlisted(s, points) ==
  LET gone == session[s].locked IN
  /\ UNION {DevicesAt(p) : p \in points} \subseteq gone
  /\ pointOf' = [p \in Point |-> IF p \in points THEN None ELSE pointOf[p]]
  /\ device' = [d \in Device |-> IF d \in gone THEN None ELSE device[d]]
  /\ source' = SourceWithout(points, gone, {})
  /\ UNCHANGED <<metrics, told>>

\* ON DELETE RESTRICT: a device that came to one of the points meanwhile stops it.
Remove(s, points) ==
  LET gone == session[s].locked IN
  /\ UNION {DevicesAt(p) : p \in points} \subseteq gone
  /\ pointOf' = [p \in Point |-> IF p \in points THEN None ELSE pointOf[p]]
  /\ device' = [d \in Device |-> IF d \in gone THEN None ELSE device[d]]
  /\ source' = SourceWithout(points, gone, {})
  /\ told' = [d \in Device |-> IF d \in session[s].before THEN None ELSE told[d]]
  /\ UNCHANGED metrics

DeletePoint(s) ==
  /\ Writing(s, "delete_point")
  /\ Remove(s, {session[s].call.point})
  /\ UNCHANGED plants

DeletePlant(s) ==
  LET plant == session[s].call.plant IN
  /\ Writing(s, "delete_plant")
  /\ Remove(s, {p \in Point : pointOf[p] = plant})
  /\ plants' = plants \ {plant}

Commit(s) ==
  \/ UpsertPlant(s) \/ UpsertPoint(s) \/ UpsertDevice(s) \/ ToggleDevice(s)
  \/ UpsertMetric(s) \/ UpsertSource(s)
  \/ DeleteSource(s) \/ DeleteMetric(s) \/ DeleteDevice(s)
  \/ DeletePoint(s) \/ DeletePlant(s)

\* A check or a constraint raises, or the connection breaks: nothing of the call stays.
Abort(s) ==
  /\ session[s] # Idle
  /\ session' = [session EXCEPT ![s] = Idle]
  /\ UNCHANGED <<registry, catalog, told, calls>>

-----------------------------------------------------------------------------
(* Telemetry of an enabled device, which enters it in the catalog. *)
Observe(d, m) ==
  /\ device[d] # None /\ device[d].enabled
  /\ catalog' = catalog \cup {<<pointOf[device[d].point], device[d].point, d, m>>}
  /\ UNCHANGED <<registry, told, session, calls>>

\* v_point_metric_resolved: the device a point shows for a metric.
Rows(p, m) == {k \in catalog : k[2] = p /\ k[4] = m}
Resolved(p, m) ==
  IF source[p, m] # None THEN source[p, m]
  ELSE IF Cardinality(Rows(p, m)) = 1 THEN (CHOOSE k \in Rows(p, m) : TRUE)[3]
  ELSE None

\* Any registry the constraints allow, with nothing bound and no history yet.
Init ==
  /\ plants \in SUBSET Plant
  /\ pointOf \in [Point -> plants \cup {None}]
  /\ device \in [Device -> Row \cup {None}]
  /\ \A d \in Device : device[d] # None => pointOf[device[d].point] # None
  /\ metrics = Metric
  /\ source = [k \in Point \X Metric |-> None]
  /\ catalog = {}
  /\ told = device
  /\ session = [s \in Session |-> Idle]
  /\ calls = 0

Next ==
  \/ \E s \in Session : (\E c \in Call : Begin(s, c)) \/ Sweep(s) \/ Commit(s) \/ Abort(s)
  \/ \E d \in Device, m \in Metric : Observe(d, m)

Spec == Init /\ [][Next]_vars

-----------------------------------------------------------------------------
(* The properties. *)

TypeOK ==
  /\ plants \subseteq Plant
  /\ pointOf \in [Point -> Plant \cup {None}]
  /\ device \in [Device -> Row \cup {None}]
  /\ metrics \subseteq Metric
  /\ source \in [Point \X Metric -> Device \cup {None}]
  /\ catalog \subseteq Plant \X Point \X Device \X Metric
  /\ told \in [Device -> Row \cup {None}]
  /\ session \in [Session -> {Idle} \cup Busy]
  /\ calls \in 0..MaxCalls

\* Whatever calls overlap, a device stands at a point, a point in a plant, and a point
\* shows by binding only a device that stands at it, for a metric that is known.
NothingDangles ==
  /\ \A p \in Point : pointOf[p] # None => pointOf[p] \in plants
  /\ \A d \in Device : device[d] # None => pointOf[device[d].point] # None
  /\ \A k \in DOMAIN source : source[k] # None =>
       k[2] \in metrics /\ source[k] \in DevicesAt(k[1])

\* A device goes only when it is deleted, or with the place a forced deletion found it at
\* when it swept: a deletion without force loses none, not even one added after it counted.
DevicesGoOnRequest ==
  [][\A d \in Device : device[d] # None /\ device'[d] = None =>
       \E s \in Session :
         /\ session[s] # Idle /\ session'[s] = Idle
         /\ \/ session[s].call = [op |-> "delete_device", device |-> d]
            \/ /\ Removing(session[s].call) /\ session[s].call.force
               /\ d \in session[s].locked]_vars

\* A change of a device is in the audit log with its outcome, but for a device that a
\* deletion takes along and that came after the deletion had made its list.
ChangesAreAudited ==
  [][\A d \in Device : device'[d] # device[d] =>
       \/ told'[d] = device'[d]
       \/ \E s \in Session :
            /\ session[s] # Idle /\ session'[s] = Idle
            /\ Removing(session[s].call) /\ d \notin session[s].before]_vars

\* Every device that is gone is in the audit log as deleted.
RemovalsAudited == \A d \in Device : device[d] = None => told[d] = None

\* The rule for a point nobody bound: the one device in its history is shown.
OnlyDeviceIsShown ==
  \A p \in Point, m \in Metric, d \in Device :
    (source[p, m] = None /\ {k[3] : k \in Rows(p, m)} = {d}) => Resolved(p, m) = d

=============================================================================
