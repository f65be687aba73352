-------------------------- MODULE IngestConcurrent --------------------------
(***************************************************************************)
(* ingest_telemetry as the database runs it: a transaction of several      *)
(* statements at READ COMMITTED, beside others.  Each statement sees what  *)
(* is committed when it starts; a statement that writes a row another      *)
(* transaction has written waits until that one ends.  What a transaction  *)
(* writes becomes visible at its commit: Ingest's variables are what is    *)
(* committed, tx what each session has under way.                          *)
(*                                                                         *)
(* External: EMQX, whose action keeps several database connections.  Two   *)
(* messages of one device are under way at once when the device connects   *)
(* again, or when a call that timed out is repeated.                       *)
(***************************************************************************)
EXTENDS Ingest, FiniteSets

CONSTANTS
  Session,    \* database connections of the broker's action
  MaxCalls    \* bound: messages handed to the function

ASSUME SessionAssumption == IsFiniteSet(Session) /\ MaxCalls \in Nat

VARIABLES tx, calls

allVars == <<vars, tx, calls>>

Idle  == [at |-> "idle"]
Begun == [at : {"begun"}, m : Message, row : DeviceRow, plant : Plant, now : Receipt]
\* Past the INSERT: id and receipt of the raw_message row, the keys to loop over,
\* and the catalog rows written.
Storing(S, T) ==
  [at : {"storing"}, m : Message, row : DeviceRow, plant : Plant, id : RawId,
   receipt : Receipt, todo : S, written : T]

Observed(t) == IF t.m.source = NoTime THEN t.receipt ELSE t.m.source
SlotOf(t)   == Aligned(Observed(t), t.row)

-----------------------------------------------------------------------------
(* Row locks. *)

ObservationOf(m) == IF m.source = NoTime THEN {} ELSE {[topic |-> m.topic, source |-> m.source]}

Held(s) ==
  IF tx[s].at = "storing" THEN ObservationOf(tx[s].m) \cup DOMAIN tx[s].written ELSE {}

\* Defect: json in place of jsonb, the keys come in the order the sender wrote them.
NextKeysAsSent(s) ==
  {k \in tx[s].todo : \A j \in tx[s].todo :
     IF tx[s].m.source = NoTime THEN k <= j ELSE j <= k}

\* jsonb_each goes through the keys in jsonb's own order.
NextKeys(s) == {k \in tx[s].todo : \A j \in tx[s].todo : k <= j}

RowOf(s, k) == [topic |-> tx[s].m.topic, metric |-> Lower[k]]

\* Defect: the observation is looked up and then inserted, with no unique index to wait at.
WantsNoObservation(s) ==
  IF tx[s].at = "storing" THEN {RowOf(s, k) : k \in NextKeys(s)} ELSE {}

\* Defect: the catalog row is read and then written, with no lock in between.
WantsNoCatalogRow(s) == IF tx[s].at = "begun" THEN ObservationOf(tx[s].m) ELSE {}

\* The row the next statement writes.
Wants(s) ==
  CASE tx[s].at = "begun"   -> ObservationOf(tx[s].m)
    [] tx[s].at = "storing" -> {RowOf(s, k) : k \in NextKeys(s)}
    [] OTHER                -> {}

Blockers(s) == {t \in Session \ {s} : Wants(s) \cap Held(t) # {}}

-----------------------------------------------------------------------------
(* The statements. *)

\* The checks, up to the SELECT of the device's settings.
Begin(s, m, now) ==
  /\ tx[s] = Idle
  /\ calls < MaxCalls /\ calls' = calls + 1
  /\ Accepts(m)
  /\ tx' = [tx EXCEPT ![s] =
       [at |-> "begun", m |-> m, row |-> device[m.topic.device],
        plant |-> plantOf[m.topic.point], now |-> now]]
  /\ UNCHANGED vars

\* INSERT INTO raw_message ... ON CONFLICT: a new row, or the one committed.
InsertRaw(s, id) ==
  LET t == tx[s] IN
  /\ t.at = "begun"
  /\ Blockers(s) = {}
  /\ IF Conflicting(t.m) = {}
     THEN id \notin DOMAIN raw /\ \A o \in Session : tx[o].at = "storing" => tx[o].id # id
     ELSE id \in Conflicting(t.m)
  /\ tx' = [tx EXCEPT ![s] =
       [at |-> "storing", m |-> t.m, row |-> t.row, plant |-> t.plant, id |-> id,
        receipt |-> IF id \in DOMAIN raw THEN raw[id].receipt ELSE t.now,
        todo |-> DOMAIN t.m.payload, written |-> [c \in {} |-> 0]]]
  /\ UNCHANGED <<vars, calls>>

\* One turn of the loop: a sample, and the upsert of its catalog row.
StoreMetric(s, k) ==
  LET t   == tx[s]
      c   == RowOf(s, k)
      new == [first |-> SlotOf(t), last |-> SlotOf(t), raw |-> t.id, value |-> t.m.payload[k]]
      row == CASE c \in DOMAIN t.written -> Merge(t.written[c], new)
               [] c \in DOMAIN catalog \ DOMAIN t.written -> Merge(catalog[c], new)
               [] OTHER -> new
  IN  /\ t.at = "storing"
      /\ k \in NextKeys(s)
      /\ Blockers(s) = {}
      /\ tx' = [tx EXCEPT ![s].todo = @ \ {k},
                          ![s].written = [d \in DOMAIN @ \cup {c} |-> IF d = c THEN row ELSE @[d]]]
      /\ UNCHANGED <<vars, calls>>

\* UPDATE device, and the end of the transaction.  Nothing waits between the two.  The
\* samples the DELETE removed are the ones committed: their message's row is locked.
Commit(s) ==
  LET t == tx[s] IN
  /\ t.at = "storing" /\ t.todo = {}
  /\ raw' = [i \in DOMAIN raw \cup {t.id} |->
               IF i = t.id
               THEN [topic |-> t.m.topic, source |-> t.m.source,
                     receipt |-> t.receipt, payload |-> t.m.payload]
               ELSE raw[i]]
  /\ sample' = Without(t.id) \cup Rows(t.m, t.id, SlotOf(t))
  /\ catalog' = [c \in DOMAIN catalog \cup DOMAIN t.written |->
                   IF c \in DOMAIN t.written THEN t.written[c] ELSE catalog[c]]
  /\ lastSeen' = [lastSeen EXCEPT ![t.m.topic.device] = Seen(t.m.topic.device, Observed(t))]
  /\ tx' = [tx EXCEPT ![s] = Idle]
  /\ UNCHANGED <<plantOf, device, calls>>

\* A value that is no number, the statement timeout or a lost connection: rolled back.
Abort(s) ==
  /\ tx[s] # Idle
  /\ tx' = [tx EXCEPT ![s] = Idle]
  /\ UNCHANGED <<vars, calls>>

\* Two transactions wait for each other: the database aborts one of them.
Deadlocked(s, t) == t \in Blockers(s) /\ s \in Blockers(t)

BreakDeadlock(s) ==
  /\ \E t \in Session : Deadlocked(s, t)
  /\ Abort(s)

\* Operators change a device at any time: the SELECT locks nothing.
Operate ==
  /\ \E d \in Device, row \in DeviceRow : Reconfigure(d, row)
  /\ UNCHANGED <<tx, calls>>

ConcurrentInit == Init /\ tx = [s \in Session |-> Idle] /\ calls = 0

ConcurrentNext ==
  \/ \E s \in Session, m \in Message, now \in Receipt : Begin(s, m, now)
  \/ \E s \in Session, id \in RawId : InsertRaw(s, id)
  \/ \E s \in Session, k \in Key : StoreMetric(s, k)
  \/ \E s \in Session : Commit(s)
  \/ \E s \in Session : Abort(s)
  \/ \E s \in Session : BreakDeadlock(s)
  \/ Operate

ConcurrentSpec == ConcurrentInit /\ [][ConcurrentNext]_allVars

-----------------------------------------------------------------------------
(* The properties. *)

ConcurrentTypeOK ==
  /\ TypeOK
  /\ \A s \in Session :
       \/ tx[s] = Idle
       \/ tx[s] \in Begun
       \/ /\ tx[s] \in Storing(SUBSET Key, [DOMAIN tx[s].written -> SourceRow])
          /\ DOMAIN tx[s].written \subseteq SourceKey
  /\ calls \in 0..MaxCalls

\* Each commit is one step of Ingest, as if the whole call had happened there: what is
\* proved of Ingest holds of overlapping calls.  The exception are calls whose device
\* was changed after they had read its settings.
StaleCommit ==
  \E s \in Session :
    /\ tx[s].at = "storing" /\ tx'[s] = Idle
    /\ \/ device[tx[s].m.topic.device] # tx[s].row
       \/ plantOf[tx[s].m.topic.point] # tx[s].plant
ImplementsIngest == Init /\ [][StaleCommit \/ Next]_vars

\* Two calls wait for each other only if they lock two metrics in opposite order, which
\* takes two spellings: sets of keys in one spelling never deadlock, nor do the rows of
\* raw_message and device.
LocksFirst(m, a, b) ==
  \E j \in DOMAIN m.payload :
    Lower[j] = a /\ \A k \in DOMAIN m.payload : Lower[k] = b => j < k
DeadlockNeedsTwoSpellings ==
  \A s, t \in Session : Deadlocked(s, t) =>
    \E a, b \in Metric :
      a # b /\ LocksFirst(tx[s].m, a, b) /\ LocksFirst(tx[t].m, b, a)

=============================================================================
