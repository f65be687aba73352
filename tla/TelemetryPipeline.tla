-------------------------- MODULE TelemetryPipeline --------------------------
(***************************************************************************)
(* From the HTTP interface to the database: the collector, the rule of     *)
(* EMQX that hands a message to ingest_telemetry, and the part of          *)
(* `stack.sh configure` that deletes that rule, with what it needs, and    *)
(* creates it again.  EMQX acknowledges a message whether or not a rule    *)
(* takes it, and whether or not ingest_telemetry raises, so the collector  *)
(* learns of neither.                                                      *)
(*                                                                         *)
(* External: EMQX, which does not delete what something else uses, and     *)
(* makes the rule's call of ingest_telemetry once for a message.           *)
(***************************************************************************)
EXTENDS WaterCollector, Sequences

CONSTANTS
  MaxLag,         \* how far behind the clock a cursor is when configure is started
  MaxGap,         \* how long configure takes over its calls, repeated runs included
  MaxConfigures   \* bound: runs of configure, but for repeated ones that failed

ASSUME ConfigureAssumption == MaxLag \in Nat /\ MaxGap \in Nat /\ MaxConfigures \in Nat
\* Not checked by the program: what was dropped in the gap is asked for again after it.
ASSUME GapAssumption == MaxLate + MaxLag + MaxGap <= Overlap

VARIABLES
  emqx,       \* the objects there are: connector, action and rules
  step,       \* the call configure is at; 0 when none is running, Died after die
  since,      \* when the run of configure under way was started, or None
  runs,
  stored,     \* the records behind the rows of raw_message
  refused     \* the records whose last message the rule's call raised for

pipeline == <<emqx, step, since, runs>>
database == <<stored, refused>>
allVars  == <<vars, pipeline, database>>

Died == -1

Object == {"connector", "action", "rule", "raw rule"}

\* What an object cannot be without.
Uses(o) ==
  CASE o = "connector" -> {}
    [] o = "action"    -> {"connector"}
    [] OTHER           -> {"action"}

\* Defect: the rules come back before what they use.
CallsRulesFirst ==
  << <<"delete", "raw rule">>, <<"delete", "rule">>, <<"delete", "action">>,
     <<"delete", "connector">>, <<"create", "rule">>, <<"create", "raw rule">>,
     <<"create", "connector">>, <<"create", "action">> >>

\* The calls of configure_emqx_direct_ingest.
Calls ==
  << <<"delete", "raw rule">>, <<"delete", "rule">>, <<"delete", "action">>,
     <<"delete", "connector">>, <<"create", "connector">>, <<"create", "action">>,
     <<"create", "rule">>, <<"create", "raw rule">> >>

-----------------------------------------------------------------------------
(* configure. *)

\* NaN is no JSON: the cast to jsonb refuses the whole message.
Storable(r) == \A f \in Field : Content[r].fields[f] # "nan"

SameObservation(q, r) == OfSource[q] = OfSource[r] /\ at[q] = at[r]

\* What the database lacks of a source that has no poisonous record.
Due(r)     == r \notin Blank \cup Poison /\ Storable(r)
InStore(r) == \E q \in stored : SameObservation(q, r)
Lacking    == {r \in listed : Healthy(OfSource[r]) /\ Due(r) /\ ~InStore(r)}

\* A record that the last call raised for, and that no window will reach back to.  What
\* else is lacking the collector still owes.
Lapsed(r) == r \in refused /\ at[r] < StartOf(OfSource[r])
Owed      == {r \in Lacking : ~Lapsed(r)}

\* The collector is at work, and what it published during an earlier run of configure has
\* been collected again: nothing is owed but what may still be late.
CaughtUp ==
  /\ \A s \in Source : Healthy(s) => cursor[IdOf[s]] # None /\ now - cursor[IdOf[s]] <= MaxLag
  /\ \A r \in Owed : cursor[IdOf[OfSource[r]]] <= at[r] + MaxLate

Configure ==
  /\ \/ step = Died /\ UNCHANGED runs
     \/ step = 0 /\ CaughtUp /\ runs < MaxConfigures /\ runs' = runs + 1
  /\ step' = 1
  /\ since' = IF step = Died THEN since ELSE now
  /\ UNCHANGED <<vars, emqx, database>>

\* A call that EMQX answers.  Deleting what is in use is refused, which the script
\* ignores; creating what exists is taken for created.
Call ==
  /\ step \in DOMAIN Calls
  /\ LET o      == Calls[step][2]
         inUse  == \E p \in emqx : o \in Uses(p)
         kept   == IF inUse THEN emqx ELSE emqx \ {o}
     IN  emqx' = IF Calls[step][1] = "create" THEN emqx \cup {o} ELSE kept
  /\ step' = (step + 1) % (Len(Calls) + 1)
  /\ since' = IF step' = 0 THEN None ELSE since
  /\ UNCHANGED <<vars, runs, database>>

\* Defect: no call's failure ends the script.
CallFailsSilently ==
  /\ step \in DOMAIN Calls
  /\ faults < MaxFaults /\ faults' = faults + 1
  /\ step' = (step + 1) % (Len(Calls) + 1)
  /\ UNCHANGED <<outside, cursor, call, sent, emqx, since, runs, database>>

\* A call that fails: the script goes on after a deletion, and ends at a creation.
CallFails ==
  /\ step \in DOMAIN Calls
  /\ faults < MaxFaults /\ faults' = faults + 1
  /\ step' = IF Calls[step][1] = "delete" THEN step + 1 ELSE Died
  /\ UNCHANGED <<outside, cursor, call, sent, emqx, since, runs, database>>

-----------------------------------------------------------------------------
(* The collector's steps, with what becomes of a message the broker has. *)

\* ingest_telemetry, which keeps one row of an observation.
Arrived(r) ==
  IF "rule" \in emqx /\ Storable(r)
  THEN {q \in stored : ~SameObservation(q, r)} \cup {r}
  ELSE stored

\* The record is published, and the call ends well if there is a rule to make it.
Deliver(r) ==
  /\ Handle(r)
  /\ stored' = Arrived(r)
  /\ refused' = refused \ {r}

\* The record is published and the call raises: the device is missing, disabled or moved,
\* or the transaction is aborted.  It is rolled back, and the collector goes on.
CallRaises(r) ==
  /\ Finish(r)
  /\ "rule" \in emqx /\ Storable(r)
  /\ faults < MaxFaults /\ faults' = faults + 1
  /\ refused' = refused \cup {r}
  /\ UNCHANGED stored

CollectStep ==
  \/ (Start \/ Open \/ Skip \/ FetchPage \/ Save) /\ UNCHANGED database
  \/ \E r \in Record : Reject(r) /\ UNCHANGED database
  \/ \E r \in Blank : Handle(r) /\ UNCHANGED database
  \/ \E r \in Record \ Blank : Deliver(r)

CollectFails ==
  \/ (FetchFails \/ Crash) /\ UNCHANGED database
  \/ \E r \in Record :
       /\ PublishFails(r)
       /\ stored' \in {stored} \cup (IF r \in sent' THEN {Arrived(r)} ELSE {})
       /\ UNCHANGED refused
  \/ \E r \in Record \ Blank : CallRaises(r)

\* configure is run again until it ends well, within MaxGap of the first run.
PassTime ==
  /\ since # None => now < since + MaxGap
  /\ Tick /\ UNCHANGED <<pipeline, database>>

ListRecord == \E r \in Record : List(r) /\ UNCHANGED <<pipeline, database>>

PipelineInit ==
  /\ Init
  /\ emqx = Object /\ step = 0 /\ since = None /\ runs = 0
  /\ stored = {} /\ refused = {}

PipelineNext ==
  \/ CollectStep /\ UNCHANGED pipeline
  \/ CollectFails /\ UNCHANGED pipeline
  \/ PassTime
  \/ ListRecord
  \/ Configure
  \/ Call
  \/ CallFails

\* The process runs and is restarted, time passes, the interface lists what it has, and
\* configure is seen through; failures come to an end, which MaxFaults says.
PipelineSpec ==
  /\ PipelineInit /\ [][PipelineNext]_allVars
  /\ WF_allVars(CollectStep /\ UNCHANGED pipeline)
  /\ WF_allVars(PassTime) /\ WF_allVars(ListRecord)
  /\ WF_allVars(Call \/ (step = Died /\ Configure))

-----------------------------------------------------------------------------
(* The properties. *)

PipelineTypeOK ==
  /\ TypeOK
  /\ emqx \subseteq Object
  /\ step \in DOMAIN Calls \cup {0, Died}
  /\ since \in Times \cup {None}
  /\ runs \in 0..MaxConfigures
  /\ stored \subseteq Record
  /\ refused \subseteq Record

\* A record the database lacks is behind its source's next window only if the last call of
\* ingest_telemetry for it raised.  One that was listed late, fell between two pages,
\* failed, or was acknowledged by the broker while the rule was missing, is still to be
\* asked for.
NothingLost == \A r \in Lacking : at[r] < StartOf(OfSource[r]) => r \in refused

\* A rule is never without its action and connector, however the calls of configure
\* fail, and no run of configure that ends well leaves a rule missing.
Routed ==
  /\ \A o \in emqx : Uses(o) \subseteq emqx
  /\ step = 0 => emqx = Object

\* Every observation of a source without a poisonous record is stored in the end, across
\* a run of configure that drops messages the collector takes for published, and across a
\* call that raises; unless the overlap no longer reached back to the record when its last
\* call raised.
AllStored ==
  \A r \in Record : Healthy(OfSource[r]) /\ Due(r) => <>(InStore(r) \/ Lapsed(r))

=============================================================================
